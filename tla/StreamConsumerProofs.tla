------------------------ MODULE StreamConsumerProofs ------------------------
(***************************************************************************)
(* For every read count, every cap on the stream and any number of         *)
(* entries: the type invariant, the safety properties of StreamConsumer,   *)
(* and that it implements AtLeastOnce.                                     *)
(***************************************************************************)
EXTENDS StreamConsumer, FiniteSetTheorems, TLAPS

USE ConsumerAssumption DEF Entry, None

(* The inductive invariant.  NoneForgotten needs to know that only an entry*)
(* whose handler completed is acknowledged, and HeldIsPending that this run*)
(* handled it, so that it is no longer in the batch (AckAfterDone).  A new *)
(* run starts from nothing held (DownHoldsNothing).  For OldestRetried, an *)
(* entry pending at the start is handled, held, trimmed or behind ReadCount*)
(* older ones all through the run (RetriedOrLeft), and the loop holds new  *)
(* entries only (NewInLoop).                                               *)
AckAfterDone == acking # None => acking \in done \cap handled
DownHoldsNothing == mode = "down" => Idle
Older(i) == {j \in pending \cup handled : j < i}
RetriedOrLeft ==
    mode # "down" =>
        \A i \in pending : i <= mark =>
            i \in handled \cup batch \/ i < first \/ Cardinality(Older(i)) >= ReadCount
NewInLoop == mode = "loop" => \A i \in batch : mark < i

BooksInv ==
    /\ TypeOK
    /\ AckAfterDone
    /\ DownHoldsNothing
    /\ NoneForgotten
    /\ RunInOrder
    /\ HeldIsPending

IInv == BooksInv /\ RetriedOrLeft /\ NewInLoop

-----------------------------------------------------------------------------

(* What a read delivers lies beyond the cursor and within the stream.      *)
LEMMA NewEntriesBounds ==
    ASSUME TypeOK
    PROVE  \A i \in NewEntries : i \in Nat /\ delivered < i /\ first <= i /\ i <= published
  BY DEF NewEntries, TypeOK

(* A read leaves no gap: between the old and the new cursor every entry is *)
(* in the answer or was trimmed.                                           *)
LEMMA NewEntriesContiguous ==
    ASSUME TypeOK, NEW last \in NewEntries,
           NEW i \in Nat, delivered < i, i <= last, first <= i
    PROVE  i \in NewEntries
  BY DEF NewEntries, TypeOK

(* What a restart reads back is pending.                                   *)
LEMMA PendingEntriesPending == PendingEntries \subseteq pending
  BY DEF PendingEntries, PendingWindow

(* The cap removes old entries only, and leaves MaxLen of them.            *)
LEMMA TrimPointsBounds ==
    ASSUME NEW last \in Nat, first \in 1..last, NEW f \in TrimPoints(last)
    PROVE  f \in Nat /\ first <= f /\ f <= last /\ (f = first \/ f + MaxLen <= last + 1)
  BY DEF TrimPoints

(* What one delivery does to the redis half of the state.                  *)
LEMMA DeliverKeeps ==
    ASSUME IInv, Deliver(NewEntries)
    PROVE  /\ delivered' \in delivered..published
           /\ NewEntries \subseteq 1..delivered'
           /\ pending' \subseteq 1..delivered'
           /\ skipped' \subseteq 1..delivered'
           /\ \A i \in 1..delivered' : i \in pending' \cup done \cup skipped'
           /\ pending \subseteq pending' /\ NewEntries \subseteq pending'
           /\ published' = published /\ first' = first
  <1> USE DEF IInv, BooksInv
  <1>1. PICK last \in NewEntries : (\A j \in NewEntries : j <= last) /\ delivered' = last
    BY DEF Deliver
  <1>2. last \in Nat /\ delivered < last /\ first <= last /\ last <= published
    BY NewEntriesBounds
  <1>3. \A i \in NewEntries : i \in 1..delivered'
    BY <1>1, <1>2, NewEntriesBounds DEF TypeOK
  <1>4. pending' = pending \cup NewEntries
    BY DEF Deliver
  <1>5. skipped' = skipped \cup {i \in Entry : delivered < i /\ i < first}
    BY DEF Deliver
  <1>6. \A i \in 1..delivered : i \in 1..delivered'
    BY <1>1, <1>2 DEF TypeOK
  <1>7. pending' \subseteq 1..delivered'
    BY <1>3, <1>4, <1>6 DEF TypeOK
  <1>8. skipped' \subseteq 1..delivered'
    <2>1. ASSUME NEW i \in Entry, delivered < i, i < first
          PROVE  i \in 1..delivered'
      BY <2>1, <1>1, <1>2 DEF TypeOK
    <2> QED
      BY <2>1, <1>5, <1>6 DEF TypeOK
  <1>10. ASSUME NEW i \in 1..delivered'
         PROVE  i \in pending' \cup done \cup skipped'
    <2>1. CASE i <= delivered
      BY <2>1, <1>4, <1>5, <1>1, <1>2 DEF NoneForgotten, TypeOK
    <2>2. CASE delivered < i /\ i < first
      BY <2>2, <1>1, <1>2, <1>5 DEF TypeOK
    <2>3. CASE delivered < i /\ first <= i
      BY <2>3, <1>1, <1>2, <1>4, NewEntriesContiguous DEF TypeOK
    <2> QED
      BY <2>1, <2>2, <2>3, <1>1, <1>2 DEF TypeOK
  <1> QED
    BY <1>1, <1>2, <1>3, <1>4, <1>7, <1>8, <1>10 DEF TypeOK, Deliver

(* What has been delivered is finite, and counting older entries makes     *)
(* sense.                                                                  *)
LEMMA OlderFinite ==
    ASSUME NEW last \in Nat, NEW S \in SUBSET (1..last), NEW i
    PROVE  LET O == {j \in S : j < i} IN IsFiniteSet(O) /\ Cardinality(O) \in Nat
  <1>1. IsFiniteSet(1..last)
    BY FS_Interval
  <1>2. IsFiniteSet({j \in S : j < i})
    BY <1>1, FS_Subset
  <1> QED
    BY <1>2, FS_CardinalityType

(* A step that forgets none of what is pending or handled, and adds to the *)
(* entries pending at the start none that were not, leaves as many older   *)
(* ones.                                                                   *)
LEMMA RetriedKept ==
    ASSUME TypeOK, TypeOK', RetriedOrLeft, mode # "down", mark' = mark,
           pending \cup handled \subseteq pending' \cup handled', first <= first',
           \A i \in pending' : i <= mark => i \in pending,
           \A i \in handled \cup batch : i <= mark /\ i \in pending' => i \in handled' \cup batch'
    PROVE  RetriedOrLeft'
  <1> SUFFICES ASSUME NEW i \in pending', i <= mark, i \notin handled' \cup batch', ~(i < first')
               PROVE  Cardinality(Older(i)') >= ReadCount
    BY DEF RetriedOrLeft
  <1>1. i \in Nat /\ i \in pending /\ i \notin handled \cup batch /\ ~(i < first)
    BY DEF TypeOK
  <1>2. Cardinality(Older(i)) >= ReadCount
    BY <1>1 DEF RetriedOrLeft
  <1>3. Older(i) \subseteq Older(i)'
    BY DEF Older
  <1>4. IsFiniteSet(Older(i)') /\ Cardinality(Older(i)') \in Nat
    <2>1. delivered' \in Nat /\ pending' \cup handled' \in SUBSET (1..delivered')
      BY DEF TypeOK
    <2> QED
      BY <2>1, OlderFinite DEF Older
  <1>5. Cardinality(Older(i)) \in Nat
    <2>1. delivered \in Nat /\ pending \cup handled \in SUBSET (1..delivered)
      BY DEF TypeOK
    <2> QED
      BY <2>1, OlderFinite DEF Older
  <1>6. Cardinality(Older(i)) <= Cardinality(Older(i)')
    BY <1>3, <1>4, FS_Subset
  <1> QED
    BY <1>2, <1>4, <1>5, <1>6

(* The first state satisfies the invariant.                                *)
LEMMA InitIInv == Init => IInv
  <1> SUFFICES ASSUME Init PROVE IInv
    OBVIOUS
  <1>1. TypeOK
    <2>1. published \in 0..MaxEntries /\ first \in 1..(published + 1) /\ delivered \in 0..published
      BY DEF Init
    <2>2. acking \in 0..delivered /\ mark \in 0..delivered
      BY DEF Init
    <2> QED
      BY <2>1, <2>2 DEF Init, TypeOK
  <1>2. NoneForgotten
    BY DEF Init, NoneForgotten
  <1> QED
    BY <1>1, <1>2 DEF Init, IInv, BooksInv, RetriedOrLeft, NewInLoop, AckAfterDone, DownHoldsNothing, Idle, RunInOrder,
                      HeldIsPending

(* Every step, and a stutter, keeps the books in step.                     *)
LEMMA NextBooks == IInv /\ [Next]_vars => BooksInv'
  <1> SUFFICES ASSUME IInv, [Next]_vars
               PROVE  BooksInv'
    OBVIOUS
  <1> USE DEF IInv, BooksInv, redis, worker, history, Idle, DownHoldsNothing
  <1>1. CASE Publish
    <2>1. /\ first' \in Nat /\ first <= first' /\ first' <= published + 1
          /\ first' = first \/ first' + MaxLen <= (published + 1) + 1
      <3>1. published + 1 \in Nat /\ first \in 1..(published + 1)
        BY DEF TypeOK
      <3> QED
        BY <1>1, <3>1, TrimPointsBounds DEF Publish
    <2>2. published' = published + 1
          /\ UNCHANGED <<delivered, pending, mode, running, batch, acking,
                         done, skipped, handled, mark>>
      BY <1>1 DEF Publish
    <2>3. TypeOK'
      <3>1. published' \in 0..MaxEntries
        BY <1>1 DEF Publish, TypeOK
      <3>2. first' \in 1..(published' + 1)
        BY <2>1, <2>2 DEF TypeOK
      <3>3. delivered' \in 0..published'
        BY <2>2 DEF TypeOK
      <3> QED
        BY <2>2, <3>1, <3>2, <3>3 DEF TypeOK
    <2> QED
      BY <2>2, <2>3 DEF AckAfterDone, NoneForgotten, RunInOrder, HeldIsPending
  <1>2. CASE Start
    <2>1. /\ batch' = PendingEntries /\ PendingEntries \subseteq pending
          /\ handled' = {} /\ mode' = "recover" /\ running' = TRUE /\ mark' = delivered
          /\ acking = None
          /\ UNCHANGED <<published, first, delivered, pending, acking, done, skipped>>
      BY <1>2, PendingEntriesPending DEF Start, DownHoldsNothing
    <2>2. TypeOK'
      BY <2>1 DEF TypeOK
    <2>3. HeldIsPending'
      BY <2>1 DEF HeldIsPending
    <2>4. RunInOrder'
      BY <2>1 DEF RunInOrder
    <2> QED
      BY <2>1, <2>2, <2>3, <2>4 DEF AckAfterDone, NoneForgotten, DownHoldsNothing
  <1>3. CASE ReadNew
    <2>1. Deliver(NewEntries) /\ batch' = NewEntries
          /\ UNCHANGED <<mode, running, acking, done, handled, mark>>
          /\ acking = None /\ mode = "loop"
      BY <1>3 DEF ReadNew, Idle
    <2>2. TypeOK'
      BY <2>1, DeliverKeeps DEF TypeOK
    <2>3. RunInOrder'
      BY <2>1, NewEntriesBounds DEF TypeOK, RunInOrder
    <2>4. HeldIsPending'
      BY <2>1, DeliverKeeps DEF HeldIsPending
    <2>5. NoneForgotten'
      BY <2>1, DeliverKeeps DEF NoneForgotten
    <2>6. AckAfterDone'
      BY <2>1, DeliverKeeps DEF AckAfterDone
    <2> QED
      BY <2>1, <2>2, <2>3, <2>4, <2>5, <2>6
  <1>4. CASE ReadNewFails
    <2>1. Deliver(NewEntries)
          /\ UNCHANGED <<mode, running, batch, acking, done, handled, mark>>
      BY <1>4 DEF ReadNewFails
    <2>2. TypeOK'
      BY <2>1, DeliverKeeps DEF TypeOK
    <2>3. RunInOrder' /\ HeldIsPending'
      BY <2>1, DeliverKeeps DEF RunInOrder, HeldIsPending
    <2>4. NoneForgotten'
      BY <2>1, DeliverKeeps DEF NoneForgotten
    <2>5. AckAfterDone'
      BY <2>1, DeliverKeeps DEF AckAfterDone
    <2> QED
      BY <2>1, <2>2, <2>3, <2>4, <2>5
  <1>5. ASSUME NEW i \in Entry, HandleOk(i)
        PROVE  BooksInv'
    <2>1. TypeOK'
      BY <1>5 DEF HandleOk, Take, TypeOK
    <2>2. RunInOrder'
      BY <1>5 DEF HandleOk, Take, RunInOrder, TypeOK
    <2> QED
      BY <1>5, <2>1, <2>2 DEF HandleOk, Take, AckAfterDone, NoneForgotten,
                              HeldIsPending
  <1>6. ASSUME NEW i \in Entry, HandleFails(i)
        PROVE  BooksInv'
    <2>1. TypeOK'
      BY <1>6 DEF HandleFails, Take, TypeOK
    <2>2. RunInOrder'
      BY <1>6 DEF HandleFails, Take, RunInOrder, TypeOK
    <2> QED
      BY <1>6, <2>1, <2>2 DEF HandleFails, Take, AckAfterDone, NoneForgotten,
                              HeldIsPending
  <1>7. CASE Ack
    <2>1. acking \notin batch
      BY <1>7 DEF Ack, HeldIsPending, TypeOK, AckAfterDone, RunInOrder
    <2> QED
      BY <1>7, <2>1 DEF Ack, TypeOK, AckAfterDone, NoneForgotten, RunInOrder,
                        HeldIsPending
  <1>8. CASE AckFails
    BY <1>8 DEF AckFails, TypeOK, AckAfterDone, NoneForgotten, RunInOrder,
                HeldIsPending
  <1>10. CASE EnterLoop \/ LeaveLoop
    BY <1>10 DEF EnterLoop, LeaveLoop, TypeOK, AckAfterDone, NoneForgotten, RunInOrder,
                 HeldIsPending
  <1>11. CASE Stop
    BY <1>11 DEF Stop, TypeOK, AckAfterDone, NoneForgotten, RunInOrder,
                 HeldIsPending
  <1>12. CASE Die
    <2>1. /\ mode' = "down" /\ running' = FALSE /\ batch' = {} /\ acking' = 0
          /\ UNCHANGED <<published, first, delivered, pending, done, skipped, handled, mark>>
      BY <1>12 DEF Die
    <2>2. TypeOK'
      <3>1. acking' \in 0..delivered' /\ batch' \subseteq 1..delivered'
        BY <2>1 DEF TypeOK
      <3> QED
        BY <2>1, <3>1, Zenon DEF TypeOK
    <2>3. NoneForgotten'
      BY <2>1 DEF NoneForgotten
    <2> QED
      BY <2>1, <2>2, <2>3 DEF AckAfterDone, RunInOrder, HeldIsPending
  <1>9. CASE UNCHANGED vars
    BY <1>9 DEF vars, TypeOK, AckAfterDone, NoneForgotten, RunInOrder,
                HeldIsPending
  <1> QED
    BY <1>1, <1>2, <1>3, <1>4, <1>5, <1>6, <1>7, <1>8, <1>9,
       <1>10, <1>11, <1>12 DEF Next, WorkerStep

(* Every step, and a stutter, keeps what is known of the entries that were *)
(* pending when the run began.                                             *)
LEMMA NextRetried == IInv /\ [Next]_vars => RetriedOrLeft' /\ NewInLoop'
  <1> SUFFICES ASSUME IInv, [Next]_vars
               PROVE  RetriedOrLeft' /\ NewInLoop'
    OBVIOUS
  <1>1. TypeOK /\ TypeOK' /\ RetriedOrLeft /\ NewInLoop /\ AckAfterDone /\ DownHoldsNothing
    BY NextBooks DEF IInv, BooksInv
  <1>2. CASE Start
    <2>1. /\ batch' = PendingEntries /\ handled' = {} /\ mode' = "recover" /\ mark' = delivered
          /\ UNCHANGED <<first, pending>>
      BY <1>2 DEF Start, redis
    <2>2. ASSUME NEW i \in pending, i \notin PendingEntries, ~(i < first)
          PROVE  Cardinality(Older(i)') >= ReadCount
      <3>1. i \in Nat /\ first \in Nat
        BY <1>1 DEF TypeOK
      <3>2. ~(Cardinality({j \in pending : j < i}) < ReadCount)
        BY <2>2, <3>1 DEF PendingEntries, PendingWindow
      <3>3. Older(i)' = {j \in pending : j < i}
        BY <2>1 DEF Older
      <3>4. Cardinality({j \in pending : j < i}) \in Nat
        <4>1. delivered \in Nat /\ pending \in SUBSET (1..delivered)
          BY <1>1 DEF TypeOK
        <4> QED
          BY <4>1, OlderFinite
      <3> QED
        BY <3>2, <3>3, <3>4
    <2>3. RetriedOrLeft'
      BY <2>1, <2>2 DEF RetriedOrLeft
    <2> QED
      BY <2>1, <2>3 DEF NewInLoop
  <1>3. CASE mode' = "down"
    BY <1>3 DEF RetriedOrLeft, NewInLoop
  <1>4. CASE ~Start /\ mode' # "down"
    <2>1. mode # "down" /\ mark' = mark
      BY <1>4 DEF Next, WorkerStep, Publish, EnterLoop, ReadNew, ReadNewFails, Ack, AckFails, LeaveLoop,
                  HandleOk, HandleFails, Take, Stop, Die, redis, worker, history, vars
    <2>2. first' = first \/ Publish
      BY <1>4 DEF Next, WorkerStep, EnterLoop, ReadNew, ReadNewFails, Deliver, Ack, AckFails, LeaveLoop,
                  HandleOk, HandleFails, Stop, Die, redis, vars
    <2>3. first <= first'
      <3>1. CASE Publish
        <4>1. published + 1 \in Nat /\ first \in 1..(published + 1)
          BY <1>1 DEF TypeOK
        <4> QED
          BY <3>1, <4>1, TrimPointsBounds DEF Publish
      <3> QED
        BY <2>2, <3>1, <1>1 DEF TypeOK
    <2>4. CASE ReadNew \/ ReadNewFails
      <3>1. /\ pending' = pending \cup NewEntries /\ handled' = handled /\ mode = "loop" /\ batch = {}
            /\ batch' \in {NewEntries, {}}
        BY <2>4 DEF ReadNew, ReadNewFails, Deliver, Idle, worker
      <3>2. \A i \in NewEntries : i \in Nat /\ mark < i
        BY <1>1, NewEntriesBounds DEF TypeOK
      <3>3. mark \in Nat
        BY <1>1 DEF TypeOK
      <3>4. RetriedOrLeft'
        BY <1>1, <2>1, <2>3, <3>1, <3>2, <3>3, RetriedKept
      <3>5. NewInLoop'
        BY <2>1, <3>1, <3>2 DEF NewInLoop
      <3> QED
        BY <3>4, <3>5
    <2>5. CASE ~ReadNew /\ ~ReadNewFails
      <3>1. /\ pending' \subseteq pending /\ batch' \subseteq batch
            /\ mode' = mode \/ batch' = {}
            /\ handled \subseteq handled' /\ batch \subseteq handled' \cup batch'
            /\ pending \cup handled \subseteq pending' \cup handled'
        BY <1>1, <1>4, <2>5 DEF Next, WorkerStep, Publish, EnterLoop, Ack, AckFails, LeaveLoop,
                  HandleOk, HandleFails, Take, Stop, Die, Idle, redis, worker, history, vars, AckAfterDone
      <3>2. RetriedOrLeft'
        BY <1>1, <2>1, <2>3, <3>1, RetriedKept
      <3>3. NewInLoop'
        BY <1>1, <2>1, <3>1 DEF NewInLoop
      <3> QED
        BY <3>2, <3>3
    <2> QED
      BY <2>4, <2>5
  <1> QED
    BY <1>2, <1>3, <1>4

(* Every step, and a stutter, keeps the invariant.                         *)
LEMMA NextIInv == IInv /\ [Next]_vars => IInv'
  BY NextBooks, NextRetried DEF IInv

(* The inductive invariant holds of every execution: what the worker and   *)
(* the group remember of each other survives every failure and restart.    *)
THEOREM InductiveInvariant == Spec => []IInv
  BY InitIInv, NextIInv, PTL DEF Spec

(* Type correctness, and with it that the group's cursor never runs ahead  *)
(* of the stream and nothing is held that was not delivered.               *)
THEOREM TypeCorrect == Spec => []TypeOK
  BY InductiveInvariant, PTL DEF IInv, BooksInv

(* No crash, failed handler, lost answer or lost XACK makes the group      *)
(* forget an entry nobody handled.                                         *)
THEOREM NothingForgotten == Spec => []NoneForgotten
  BY InductiveInvariant, PTL DEF IInv, BooksInv

(* One run of the worker handles entries in stream order, none of them     *)
(* twice.                                                                  *)
THEOREM HandledInOrder == Spec => []RunInOrder
  BY InductiveInvariant, PTL DEF IInv, BooksInv

(* What the worker holds is still pending, so a crash leaves it to the     *)
(* next run.                                                               *)
THEOREM HeldStaysPending == Spec => []HeldIsPending
  BY InductiveInvariant, PTL DEF IInv, BooksInv

(* What a run that has reached its loop has not handled of the entries     *)
(* pending at its start was trimmed, or has ReadCount older ones.          *)
THEOREM OldestHandedFirst == Spec => []OldestRetried
  <1>1. IInv => OldestRetried
    <2> SUFFICES ASSUME IInv, mode = "loop",
                        NEW i \in pending, i <= mark, i \notin handled, ~(i < first)
                 PROVE  Cardinality({j \in pending \cup handled : j < i}) >= ReadCount
      BY DEF OldestRetried
    <2>1. i \notin batch
      BY DEF IInv, BooksInv, NewInLoop, TypeOK
    <2> QED
      BY <2>1 DEF IInv, RetriedOrLeft, Older
  <1> QED
    BY <1>1, InductiveInvariant, PTL

-----------------------------------------------------------------------------
(* Refinement.                                                             *)

(* The first state maps to the first state of AtLeastOnce.                 *)
LEMMA InitRefines == Init => Abstract!Init
  BY DEF Init, Abstract!Init, Settled

(* Every step maps to a step of AtLeastOnce or to a stutter.               *)
LEMMA NextRefines == IInv /\ [Next]_vars => [Abstract!Next]_Abstract!vars
  <1> SUFFICES ASSUME IInv, [Next]_vars
               PROVE  [Abstract!Next]_Abstract!vars
    OBVIOUS
  <1>1. ASSUME NEW i \in Entry, HandleOk(i)
        PROVE  Abstract!Next
    <2>1. done' = done \cup {i} /\ UNCHANGED <<delivered, pending, skipped>>
      BY <1>1 DEF HandleOk, redis
    <2> QED
      BY <2>1 DEF Abstract!Next, Abstract!Complete, Settled
  <1>2. CASE Ack
    <2>1. /\ pending' = pending \ {acking} /\ acking \in done
          /\ UNCHANGED <<delivered, done, skipped>>
      BY <1>2 DEF Ack, IInv, BooksInv, AckAfterDone, history
    <2>2. acking \in Entry /\ acking \in 1..delivered
      BY <1>2 DEF Ack, IInv, BooksInv, TypeOK
    <2>3. CASE acking \in skipped
      <3>1. Settled' = Settled
        BY <2>1, <2>3 DEF Settled
      <3> QED
        BY <2>1, <3>1 DEF Abstract!vars
    <2>4. CASE acking \notin skipped
      <3>1. Settled' = Settled \cup {acking}
        BY <2>1, <2>2, <2>4 DEF Settled
      <3> QED
        BY <2>1, <2>2, <3>1 DEF Abstract!Next, Abstract!Settle
    <2> QED
      BY <2>3, <2>4
  <1>3. ASSUME Deliver(NewEntries)
        PROVE  Settled' = Settled
    <2>1. delivered' \in delivered..published /\ delivered \in Nat
      BY <1>3, DeliverKeeps DEF IInv, BooksInv, TypeOK
    <2>2. pending' = pending \cup NewEntries
          /\ skipped' = skipped \cup {i \in Entry : delivered < i /\ i < first}
      BY <1>3 DEF Deliver
    <2>3. \A i \in NewEntries : delivered < i
      BY NewEntriesBounds DEF IInv, BooksInv
    <2>4. ASSUME NEW i \in 1..delivered
          PROVE  i \in Settled' <=> i \in Settled
      <3>1. i \notin NewEntries /\ ~(delivered < i) /\ i \in 1..delivered'
        BY <2>1, <2>3
      <3> QED
        BY <3>1, <2>2 DEF Settled
    <2>5. ASSUME NEW i \in 1..delivered', i \notin 1..delivered
          PROVE  i \notin Settled'
      <3>1. delivered < i
        BY <2>1, <2>5
      <3>2. i \in NewEntries \/ (i \in Entry /\ i < first)
        <4>1. PICK last \in NewEntries : delivered' = last
          BY <1>3 DEF Deliver
        <4>2. i <= last /\ last <= published /\ i \in 1..last /\ last \in Nat /\ first \in Nat
              /\ published \in 0..MaxEntries
          BY <4>1, <2>1, NewEntriesBounds DEF IInv, BooksInv, TypeOK
        <4>3. CASE first <= i
          BY <4>1, <4>2, <4>3, <3>1, NewEntriesContiguous DEF IInv, BooksInv
        <4>4. i \in Entry
          BY <4>2
        <4> QED
          BY <4>2, <4>3, <4>4
      <3> QED
        BY <3>1, <3>2, <2>2 DEF Settled
    <2> QED
      BY <2>1, <2>4, <2>5 DEF Settled
  <1>4. CASE ReadNew \/ ReadNewFails
    BY <1>4, <1>3 DEF ReadNew, ReadNewFails, Abstract!vars
  <1>5. CASE \/ Publish \/ Start \/ EnterLoop \/ AckFails \/ Stop \/ LeaveLoop \/ Die
             \/ \E i \in Entry : HandleFails(i)
    <2>1. UNCHANGED <<delivered, pending, skipped, done>>
      BY <1>5 DEF Publish, Start, EnterLoop, AckFails, Stop, LeaveLoop, Die, HandleFails,
                  redis, worker, history
    <2> QED
      BY <2>1 DEF Abstract!vars, Settled
  <1>6. CASE UNCHANGED vars
    BY <1>6 DEF vars, redis, worker, history, Abstract!vars, Settled
  <1> QED
    BY <1>1, <1>2, <1>4, <1>5, <1>6 DEF Next, WorkerStep

(* The consumer group keeps the at-least-once promise of AtLeastOnce.      *)
THEOREM RefinesAtLeastOnce == Spec => ImplementsAtLeastOnce
  BY InductiveInvariant, InitRefines, NextRefines, PTL
     DEF Spec, ImplementsAtLeastOnce, Abstract!Spec
=============================================================================
