----------------------------- MODULE StateSnapshot -----------------------------
(***************************************************************************)
(* StateSnapshotManager and PeriodicSnapshotSaver of                       *)
(* src/common/state_snapshot.py: the state of a service in one key of      *)
(* Redis, saved by the service itself and by a thread, and loaded after a  *)
(* restart.                                                                *)
(*                                                                         *)
(* A state is the number of the change that made it.  The thread reads the *)
(* state first and saves it then; the service goes on in between.          *)
(***************************************************************************)
EXTENDS Integers

CONSTANTS
    SaveInterval,   \* interval_sec of the manager
    Ttl,            \* ttl_sec
    MaxAge,         \* max_age_sec of load_snapshot(), in one of its calls
    MaxChanges,     \* bound: the changes of the state
    LastPoint       \* bound: the clock

ASSUME SnapshotAssumption ==
    {SaveInterval, Ttl, MaxAge, MaxChanges, LastPoint} \subseteq Nat /\ Ttl > 0

VARIABLES
    point,          \* time.time()
    current,        \* the state of the service: its last change
    snapshot,       \* the key in Redis: [state, at], or NoSnapshot
    lastSave,       \* _last_snapshot_time, or NeverSaved (0 in the code: long ago)
    saver,          \* the thread: "off", "on", or "saving" what it has read
    grabbed,        \* the state the thread has read
    storedThen,     \* history: the older of the two when the thread last read the state, in Redis
                    \* and in the service
    changesMade     \* history: all changes, also those that a restart forgot

snapshotVars == <<point, current, snapshot, lastSave, saver, grabbed, storedThen,
                  changesMade>>

NoSnapshot == [state |-> -1, at |-> 0]
NeverSaved == -1

SnapshotInit ==
    /\ point = 0 /\ current = 0 /\ changesMade = 0
    /\ snapshot = NoSnapshot /\ lastSave = NeverSaved
    /\ saver = "off" /\ grabbed = 0 /\ storedThen = 0

ChangeState ==
    /\ changesMade < MaxChanges /\ changesMade' = changesMade + 1
    /\ current' = changesMade'
    /\ UNCHANGED <<point, snapshot, lastSave, saver, grabbed, storedThen>>

(* save_snapshot(): it stores the state, or stores it and hears of an      *)
(* error, or fails, or finds it too large.                                 *)
SetKey(state) ==
    \/ /\ snapshot' = [state |-> state, at |-> point]
       /\ lastSave' = point \/ UNCHANGED lastSave
    \/ UNCHANGED <<snapshot, lastSave>>

Due == lastSave = NeverSaved \/ point - lastSave >= SaveInterval

SaveSnapshot(force) ==
    /\ force \/ Due
    /\ SetKey(current)
    /\ UNCHANGED <<point, current, saver, grabbed, storedThen, changesMade>>

-----------------------------------------------------------------------------
(* The thread: start(), _run() and stop(), which waits five seconds for it *)
(* and goes on without it.                                                 *)

StartSaver ==
    /\ saver = "off" /\ saver' = "on"
    /\ UNCHANGED <<point, current, snapshot, lastSave, grabbed, storedThen, changesMade>>

GrabState ==
    /\ saver = "on" /\ saver' = "saving" /\ grabbed' = current
    /\ storedThen' = IF snapshot.state < current THEN snapshot.state ELSE current
    /\ UNCHANGED <<point, current, snapshot, lastSave, changesMade>>

SaveGrabbed ==
    /\ saver = "saving" /\ saver' \in {"on", "off"}
    /\ SetKey(grabbed)
    /\ UNCHANGED <<point, current, grabbed, storedThen, changesMade>>

StopSaver ==
    /\ saver = "on" /\ saver' = "off"
    /\ UNCHANGED <<point, current, snapshot, lastSave, grabbed, storedThen, changesMade>>

-----------------------------------------------------------------------------
(* Loading, clearing, and what time does                                   *)

(* A crash, and a load at the next start: with a limit of age or without,  *)
(* of what is there; without a snapshot the service begins anew.           *)
RestartService(limited) ==
    /\ current' = IF snapshot = NoSnapshot \/ (limited /\ point - snapshot.at > MaxAge)
                  THEN 0 ELSE snapshot.state
    /\ lastSave' = NeverSaved /\ saver' = "off" /\ grabbed' = 0 /\ storedThen' = 0
    /\ UNCHANGED <<point, snapshot, changesMade>>

ClearSnapshot ==
    /\ snapshot' = NoSnapshot /\ storedThen' = 0
    /\ UNCHANGED <<point, current, lastSave, saver, grabbed, changesMade>>

PointPasses ==
    /\ point < LastPoint /\ point' = point + 1
    /\ snapshot' = IF snapshot # NoSnapshot /\ point' - snapshot.at >= Ttl
                   THEN NoSnapshot ELSE snapshot
    /\ UNCHANGED <<current, lastSave, saver, grabbed, storedThen, changesMade>>

SnapshotNext ==
    \/ ChangeState \/ \E force \in BOOLEAN : SaveSnapshot(force)
    \/ StartSaver \/ GrabState \/ SaveGrabbed \/ StopSaver
    \/ \E limited \in BOOLEAN : RestartService(limited)
    \/ ClearSnapshot \/ PointPasses

-----------------------------------------------------------------------------
(* Properties                                                              *)

(* The snapshot is a state of the past, not of a process that is gone:     *)
(* it claims a time at or after the one it is of, and is gone in time.     *)
SnapshotOfThePast ==
    snapshot # NoSnapshot =>
      /\ snapshot.state \leq changesMade /\ snapshot.at \leq point
      /\ point - snapshot.at < Ttl

(* A save of the thread may put an older state over a newer one that the   *)
(* service has saved in between, but none older than what was there when   *)
(* it read the state, if the service knew of that at all.                  *)
OlderOnlyByRace == snapshot # NoSnapshot => snapshot.state >= storedThen

(* A service that lives keeps what it knows: nothing it saved is newer     *)
(* than its state, and after a restart it is at what was saved or at none. *)
SavedIsKnown == snapshot # NoSnapshot /\ lastSave # NeverSaved => snapshot.state \leq current

SnapshotSound == SnapshotOfThePast /\ OlderOnlyByRace /\ SavedIsKnown
===============================================================================
