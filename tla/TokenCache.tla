------------------------------ MODULE TokenCache ------------------------------
(***************************************************************************)
(* KISToken of common/kis_token.py: the access token of one application    *)
(* key in the processes that use it, in the file they share, and at the    *)
(* server that issues it.                                                  *)
(*                                                                         *)
(* A refresh asks the server and takes the answer later; callers of one    *)
(* process may do so at the same time.  External: the server, which issues *)
(* a token that lives for Lifetime, and lets it live when another is       *)
(* issued; an answer takes at most MaxDelay (the timeout of the request).  *)
(***************************************************************************)
EXTENDS Integers, FiniteSets, Sequences, Functions

CONSTANTS
    Workers,        \* callers
    ProcessOf,      \* the process of each
    Lifetime,       \* expires_in of a token
    Margin,         \* 60 seconds
    MaxDelay,       \* timeout of the request (30)
    MaxIssued,      \* bound: tokens issued
    LastTick        \* bound: the clock

Owners == Range(ProcessOf)

ASSUME TokenAssumption ==
    /\ ProcessOf \in [Workers -> Owners]
    /\ {Lifetime, Margin, MaxDelay, MaxIssued, LastTick} \subseteq Nat
    /\ MaxDelay \leq Margin /\ MaxDelay < Lifetime

VARIABLES
    tick,           \* time.time()
    issued,         \* what the server knows: when each token, by number, expires
    own,            \* _token and _expires_at of each process
    file,           \* the cache file, or NoToken; half written it is Garbled
    asking,         \* a refresh that waits for its answer: the token, or 0
    handed          \* history: what get() returned last to each worker, and when

tokenVars == <<tick, issued, own, file, asking, handed>>

NoToken == [token |-> 0, until |-> 0]
Garbled == [token |-> -1, until |-> 0]

TokenInit ==
    /\ tick = 0 /\ issued = <<>>
    /\ own = [p \in Owners |-> NoToken] /\ file = NoToken
    /\ asking = [w \in Workers |-> 0]
    /\ handed = [w \in Workers |-> [token |-> 0, at |-> 0]]

(* Without the margin.                                                     *)
ValidToTheEnd(held) == held.token > 0 /\ tick < held.until

(* is_valid                                                                *)
Valid(held) == held.token > 0 /\ tick < held.until - Margin

(* get() with a valid token                                                *)
GetCached(w) ==
    /\ asking[w] = 0 /\ Valid(own[ProcessOf[w]])
    /\ handed' = [handed EXCEPT ![w] = [token |-> own[ProcessOf[w]].token, at |-> tick]]
    /\ UNCHANGED <<tick, issued, own, file, asking>>

(* _refresh(): the request, of a get() without a valid token or of         *)
(* refresh_token().  The server has answered when the request fails, too.  *)
AskToken(w) ==
    /\ asking[w] = 0 /\ Len(issued) < MaxIssued
    /\ issued' = Append(issued, tick + Lifetime)
    /\ asking' = [asking EXCEPT ![w] = Len(issued')]
    /\ UNCHANGED <<tick, own, file, handed>>

(* The answer: the token lives from now on, says the process.  The file is *)
(* written in place: opening it empties it first.                          *)
TakeToken(w) ==
    LET taken == [token |-> asking[w], until |-> tick + Lifetime]
    IN  /\ asking[w] > 0 /\ asking' = [asking EXCEPT ![w] = 0]
        /\ own' = [own EXCEPT ![ProcessOf[w]] = taken]
        /\ file' \in {taken, Garbled, file}
        /\ handed' = [handed EXCEPT ![w] = [token |-> taken.token, at |-> tick]]
        /\ UNCHANGED <<tick, issued>>

AskFails(w) ==
    /\ asking[w] > 0 /\ asking' = [asking EXCEPT ![w] = 0]
    /\ handed' = [handed EXCEPT ![w] = [token |-> 0, at |-> tick]]
    /\ UNCHANGED <<tick, issued, own, file>>

(* invalidate(), which takes the file of all processes with it.            *)
Invalidate(w) ==
    /\ own' = [own EXCEPT ![ProcessOf[w]] = NoToken] /\ file' = NoToken
    /\ UNCHANGED <<tick, issued, asking, handed>>

(* A process starts anew and reads the file, if it can be read.            *)
RestartProcess(p) ==
    /\ own' = [own EXCEPT ![p] = IF Valid(file) THEN file ELSE NoToken]
    /\ asking' = [w \in Workers |-> IF ProcessOf[w] = p THEN 0 ELSE asking[w]]
    /\ UNCHANGED <<tick, issued, file, handed>>

(* No answer is older than the timeout: it was asked for Lifetime before   *)
(* it expires.                                                             *)
TickPasses ==
    /\ tick < LastTick /\ tick' = tick + 1
    /\ \A w \in Workers : asking[w] > 0 => tick' - (issued[asking[w]] - Lifetime) \leq MaxDelay
    /\ UNCHANGED <<issued, own, file, asking, handed>>

TokenNext ==
    \/ \E w \in Workers : GetCached(w) \/ AskToken(w) \/ TakeToken(w) \/ AskFails(w)
                          \/ Invalidate(w)
    \/ \E p \in Owners : RestartProcess(p)
    \/ TickPasses

-----------------------------------------------------------------------------
(* Properties                                                              *)

(* A process takes a token for younger than it is, by the time its answer  *)
(* took, and so may the file; never by more than the margin.               *)
ClaimedWithinMargin ==
    \A held \in Range(own) \cup {file} :
       held.token > 0 => held.until - issued[held.token] \in 0..Margin

(* No token that get() hands out has expired at the server by then, in a   *)
(* process that refreshed it or in one that found it in the file.          *)
HandedAlive ==
    \A w \in Workers : handed[w].token > 0 => handed[w].at < issued[handed[w].token]

TokensSound == ClaimedWithinMargin /\ HandedAlive
===============================================================================
