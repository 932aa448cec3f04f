-------------------------- MODULE DispatcherProofs --------------------------
(***************************************************************************)
(* What TLAPS proves about the job queue for every set of jobs and workers,*)
(* every priority and attempt limit, and every horizon of the clock.       *)
(***************************************************************************)
EXTENDS Dispatcher, SequenceTheorems, WellFoundedInduction, TLAPS

\* Every nonempty set of naturals has a least element.
LEMMA LeastNatural ==
    ASSUME NEW T, T \subseteq Nat, T # {}
    PROVE  \E x \in T : \A y \in T : x <= y
<1>1. PICK x \in T : \A y \in T : ~ (<<y, x>> \in OpToRel(<, Nat))
  BY NatLessThanWellFounded, WFMin, Zenon
<1>2. \A y \in T : ~ (y < x)
  BY <1>1 DEF OpToRel
<1>3. QED
  BY <1>2

\* The prefix promoteReady moves: every job in it was due, and the first job
\* behind it was not.
LEMMA DuePrefixProperties ==
    ASSUME QueueTypeOK, NEW t \in Int
    PROVE  /\ DuePrefix(t) \in 0 .. Len(scheduled)
           /\ \A i \in 1 .. DuePrefix(t) : runAt[scheduled[i]] <= t
           /\ DuePrefix(t) < Len(scheduled) =>
                 runAt[scheduled[DuePrefix(t) + 1]] > t
<1> DEFINE T == {n \in 0 .. Len(scheduled) :
                    n < Len(scheduled) => runAt[scheduled[n + 1]] > t}
<1>1. scheduled \in Seq(Jobs) /\ Len(scheduled) \in Nat
  BY DEF QueueTypeOK
<1>2. Len(scheduled) \in T
  BY <1>1
<1>3. PICK n \in T : \A y \in T : n <= y
  <2>1. T \subseteq Nat
    BY <1>1
  <2>2. QED
    BY <1>2, <2>1, LeastNatural
<1>4. \A i \in 1 .. n : runAt[scheduled[i]] <= t
  <2> SUFFICES ASSUME NEW i \in 1 .. n PROVE runAt[scheduled[i]] <= t
    OBVIOUS
  <2>0. n \in 0 .. Len(scheduled) /\ i - 1 < n
    BY <1>1
  <2>1. i - 1 \in 0 .. Len(scheduled) /\ i - 1 \notin T /\ i - 1 < Len(scheduled)
    <3>1. i - 1 \notin T
      <4> HIDE DEF T
      <4> QED BY <1>3, <2>0
    <3> QED BY <1>1, <2>0, <3>1
  <2>2. runAt[scheduled[i]] \in Int
    BY <1>1, <1>3 DEF QueueTypeOK
  <2>3. QED
    BY <2>1, <2>2
<1>5. QED
  BY <1>3, <1>4 DEF DuePrefix

\* The sequence r is s with the element e put in at position k.
Inserted(r, s, k, e) ==
    /\ Len(r) = Len(s) + 1
    /\ \A i \in 1 .. Len(s) + 1 :
          r[i] = IF i < k THEN s[i] ELSE IF i = k THEN e ELSE s[i - 1]

\* What insertion into a sequence returns.
LEMMA InsertAtProperties ==
    ASSUME NEW S, NEW s \in Seq(S), NEW k \in 1 .. Len(s) + 1, NEW e \in S
    PROVE  InsertAt(s, k, e) \in Seq(S) /\ Inserted(InsertAt(s, k, e), s, k, e)
<1> DEFINE a == SubSeq(s, 1, k - 1)
           b == SubSeq(s, k, Len(s))
           c == a \o <<e>>
<1>1. Len(s) \in Nat /\ k \in 1 .. Len(s) + 1
  OBVIOUS
<1>2. /\ a \in Seq(S)
      /\ Len(a) = k - 1
      /\ \A i \in 1 .. k - 1 : a[i] = s[i]
  BY <1>1, SubSeqProperties
<1>3. /\ b \in Seq(S)
      /\ Len(b) = Len(s) - k + 1
      /\ \A i \in 1 .. Len(b) : b[i] = s[k + i - 1]
  BY <1>1, SubSeqProperties
<1>4. InsertAt(s, k, e) = c \o b
  BY DEF InsertAt
<1> HIDE DEF a, b
<1>5. /\ c \in Seq(S)
      /\ Len(c) = k
      /\ \A i \in 1 .. k : c[i] = IF i < k THEN s[i] ELSE e
  BY <1>1, <1>2
<1> HIDE DEF c
<1>6. /\ c \o b \in Seq(S)
      /\ Len(c \o b) = Len(s) + 1
      /\ \A i \in 1 .. Len(s) + 1 :
            (c \o b)[i] = IF i <= k THEN c[i] ELSE b[i - k]
  <2>1. Len(c) + Len(b) = Len(s) + 1
    BY <1>1, <1>3, <1>5
  <2>2. /\ c \o b \in Seq(S)
        /\ Len(c \o b) = Len(c) + Len(b)
        /\ \A i \in 1 .. Len(c) + Len(b) :
              (c \o b)[i] = IF i <= Len(c) THEN c[i] ELSE b[i - Len(c)]
    BY <1>3, <1>5, ConcatProperties, Zenon
  <2>3. QED
    BY <1>5, <2>1, <2>2, Zenon
<1>7. ASSUME NEW i \in 1 .. Len(s) + 1
      PROVE  (c \o b)[i] = IF i < k THEN s[i] ELSE IF i = k THEN e ELSE s[i - 1]
  <2>1. CASE i <= k
    <3>1. i \in 1 .. k /\ (i < k \/ i = k) /\ ~ (i = k /\ i < k)
      BY <1>1, <2>1
    <3>2. (c \o b)[i] = c[i]
      BY <1>6, <2>1
    <3>3. c[i] = IF i < k THEN s[i] ELSE e
      BY <1>5, <3>1
    <3>4. QED
      BY <3>1, <3>2, <3>3, Zenon
  <2>2. CASE i > k
    <3>1. i - k \in 1 .. Len(b) /\ k + (i - k) - 1 = i - 1
      BY <1>1, <1>3, <2>2
    <3>2. b[i - k] = s[i - 1]
      BY <1>3, <3>1
    <3>3. QED
      BY <1>1, <1>6, <2>2, <3>2
  <2>3. i <= k \/ i > k
    BY <1>1
  <2>4. QED
    BY <2>1, <2>2, <2>3, Zenon
<1>8. c \o b \in Seq(S) /\ Inserted(c \o b, s, k, e)
  BY <1>6, <1>7, Zenon DEF Inserted
<1>9. QED
  BY <1>4, <1>8

\* What insertScheduled leaves on the list, wherever its search ended.
LEMMA InsertScheduledProperties ==
    ASSUME QueueTypeOK, NEW j \in Jobs, NEW k \in 1 .. Len(scheduled) + 1,
           scheduled' = InsertAt(scheduled, k, j)
    PROVE  /\ scheduled' \in Seq(Jobs)
           /\ Len(scheduled') = Len(scheduled) + 1
           /\ \A i \in 1 .. Len(scheduled) + 1 :
                 scheduled'[i] = IF i < k THEN scheduled[i]
                                 ELSE IF i = k THEN j
                                 ELSE scheduled[i - 1]
<1>1. scheduled \in Seq(Jobs)
  BY DEF QueueTypeOK
<1>2. scheduled' \in Seq(Jobs) /\ Inserted(scheduled', scheduled, k, j)
  BY <1>1, InsertAtProperties
<1>3. QED
  BY <1>2 DEF Inserted

\* What promoteReady leaves on the list.
LEMMA PromoteReadyProperties ==
    ASSUME QueueTypeOK, promoteReady
    PROVE  LET n == DuePrefix(schedAt)
           IN  /\ n \in 0 .. Len(scheduled)
               /\ pending' = pending \union {scheduled[i] : i \in 1 .. n}
               /\ scheduled' \in Seq(Jobs)
               /\ Len(scheduled') = Len(scheduled) - n
               /\ \A i \in 1 .. Len(scheduled) - n : scheduled'[i] = scheduled[n + i]
<1> DEFINE n == DuePrefix(schedAt)
<1>1. scheduled \in Seq(Jobs) /\ Len(scheduled) \in Nat
  BY DEF QueueTypeOK
<1>2. n \in 0 .. Len(scheduled)
  BY DuePrefixProperties DEF QueueTypeOK
<1>3. /\ scheduled' = SubSeq(scheduled, n + 1, Len(scheduled))
      /\ pending' = pending \union {scheduled[i] : i \in 1 .. n}
  BY DEF promoteReady
<1> HIDE DEF n
<1>4. /\ scheduled' \in Seq(Jobs)
      /\ Len(scheduled') = Len(scheduled) - n
      /\ \A i \in 1 .. Len(scheduled) - n : scheduled'[i] = scheduled[n + i]
  BY <1>1, <1>2, <1>3, SubSeqProperties
<1>5. QED
  BY <1>2, <1>3, <1>4 DEF n

LEMMA PlaceType ==
    ASSUME QueueTypeOK, NEW j \in Jobs, NEW t \in Int, Place(j, t)
    PROVE  /\ runAt' \in [Jobs -> Int]
           /\ pending' \in SUBSET Jobs
           /\ scheduled' \in Seq(Jobs)
           /\ notify' \in BOOLEAN
           /\ reschedule' \in BOOLEAN
<1>1. CASE t <= now
  BY <1>1 DEF Place, QueueTypeOK
<1>2. CASE ~ (t <= now)
  <2>1. PICK k \in 1 .. Len(scheduled) + 1 : scheduled' = InsertAt(scheduled, k, j)
    BY <1>2 DEF Place, insertScheduled, SearchScheduled
  <2>1a. scheduled' \in Seq(Jobs)
    BY <2>1, InsertScheduledProperties
  <2>2. QED
    BY <1>2, <2>1a DEF Place, QueueTypeOK
<1>3. QED
  BY <1>1, <1>2

\* Every operation of the broker keeps the shape of its state.
LEMMA BrokerType ==
    ASSUME QueueTypeOK
    PROVE  /\ \A j \in Jobs, at \in Int : Enqueue(j, at) => QueueTypeOK'
           /\ \A j \in Jobs : popPending(j) => QueueTypeOK'
           /\ \A j \in Jobs, d \in Int : requeue(j, d) => QueueTypeOK'
           /\ \A j \in Jobs, at \in Int : SetRunAt(j, at) => QueueTypeOK'
           /\ \A j \in Jobs : dead(j) \/ complete(j) => QueueTypeOK'
           /\ SchedulerStep \/ Close \/ Cancel \/ Tick => QueueTypeOK'
<1> USE DEF Status, jobVars, lists, signals, schedVars
<1>1. ASSUME NEW j \in Jobs, NEW at \in Int, Enqueue(j, at) PROVE QueueTypeOK'
  <2> DEFINE t == IF at = 0 THEN now ELSE at
  <2>1. t \in Int /\ Place(j, t)
    BY <1>1, QueueAssumption DEF Enqueue, QueueTypeOK
  <2> HIDE DEF t
  <2>2. QED
    BY <1>1, <2>1, PlaceType DEF Enqueue, QueueTypeOK
<1>2. ASSUME NEW j \in Jobs, popPending(j) PROVE QueueTypeOK'
  BY <1>2 DEF popPending, QueueTypeOK
<1>3. ASSUME NEW j \in Jobs, NEW d \in Int, requeue(j, d) PROVE QueueTypeOK'
  <2>1. now + d \in Int /\ Place(j, now + d)
    BY <1>3, QueueAssumption DEF requeue, QueueTypeOK
  <2>2. QED
    BY <1>3, <2>1, PlaceType DEF requeue, QueueTypeOK
<1>4. ASSUME NEW j \in Jobs, dead(j) \/ complete(j) PROVE QueueTypeOK'
  <2>1. CASE dead(j)
    BY <2>1 DEF dead, QueueTypeOK
  <2>2. CASE complete(j)
    BY <2>2 DEF complete, QueueTypeOK
  <2>3. QED
    BY <1>4, <2>1, <2>2
<1>5. ASSUME SchedulerStep \/ Close \/ Cancel \/ Tick PROVE QueueTypeOK'
  <2>1. CASE ArmTimer
    <3>1. schedAt' \in Int
      BY <2>1, QueueAssumption DEF ArmTimer, QueueTypeOK
    <3>2. QED
      BY <2>1, <3>1 DEF ArmTimer, QueueTypeOK
  <2>2a. CASE TimerFires
    BY <2>2a, QueueAssumption DEF TimerFires, QueueTypeOK
  <2>2b. CASE Rescheduled
    <3>1. schedAt' \in Int
      BY <2>2b DEF Rescheduled
    <3>2. QED
      BY <2>2b, <3>1, Zenon DEF Rescheduled, QueueTypeOK
  <2>2c. CASE SchedulerStops
    BY <2>2c DEF SchedulerStops, QueueTypeOK
  <2>2d. CASE PingPromoted
    BY <2>2d DEF PingPromoted, QueueTypeOK
  <2>3. CASE promoteReady
    <3> DEFINE n == DuePrefix(schedAt)
    <3>1. /\ n \in 0 .. Len(scheduled)
          /\ pending' = pending \union {scheduled[i] : i \in 1 .. n}
          /\ scheduled' \in Seq(Jobs)
      BY <2>3, PromoteReadyProperties
    <3> HIDE DEF n
    <3>2. \A i \in 1 .. n : scheduled[i] \in Jobs
      BY <3>1 DEF QueueTypeOK
    <3>3. pending' \in SUBSET Jobs
      BY <3>1, <3>2 DEF QueueTypeOK
    <3>4. QED
      BY <2>3, <3>1, <3>3 DEF promoteReady, QueueTypeOK
  <2>4. CASE Close
    BY <2>4 DEF Close, QueueTypeOK
  <2>5. CASE Cancel
    BY <2>5 DEF Cancel, QueueTypeOK
  <2>6. CASE Tick
    <3>1. now' \in 1 .. Horizon
      BY <2>6, QueueAssumption DEF Tick, QueueTypeOK
    <3>2. QED
      BY <2>6, <3>1 DEF Tick, QueueTypeOK
  <2>7. QED
    BY <1>5, <2>1, <2>2a, <2>2b, <2>2c, <2>2d, <2>3, <2>4, <2>5, <2>6
    DEF SchedulerStep
<1>6. ASSUME NEW j \in Jobs, NEW at \in Int, SetRunAt(j, at) PROVE QueueTypeOK'
  BY <1>6 DEF SetRunAt, QueueTypeOK
<1>7. QED
  BY <1>1, <1>2, <1>3, <1>4, <1>5, <1>6

LEMMA InitType == Init => TypeOK
<1> SUFFICES ASSUME Init PROVE TypeOK
  OBVIOUS
<1>1. QueueTypeOK
  <2>1. now \in 1 .. Horizon /\ schedAt \in Int /\ runAt \in [Jobs -> Int]
    BY QueueAssumption DEF Init, QueueInit
  <2>2. scheduled \in Seq(Jobs) /\ dlq \in Seq(Jobs)
    BY DEF Init, QueueInit
  <2>3. QED
    BY <2>1, <2>2, Zenon DEF Init, QueueInit, QueueTypeOK, Status
<1>2. DispatcherTypeOK
  BY DispatcherAssumption DEF Init, DispatcherTypeOK, InHand
<1>3. QED
  BY <1>1, <1>2 DEF TypeOK

\* A retry waits for an integral delay: backoff is only asked about attempts
\* that MaxAttempts allows.
LEMMA RetryDelayType ==
    ASSUME TypeOK, NEW w \in Workers, wpc[w] = "running",
           attempt[holds[w]] < EffectiveMax(holds[w])
    PROVE  Backoff[attempt[holds[w]]] \in Int
<1>1. holds[w] \in Jobs /\ attempt[holds[w]] \in Nat /\ attempt[holds[w]] >= 1
  BY DEF TypeOK, DispatcherTypeOK, InHand
<1>2. attempt[holds[w]] \in 1 .. MaxAttempts[holds[w]]
  BY <1>1, QueueAssumption DEF EffectiveMax
<1>3. QED
  BY <1>1, <1>2, DispatcherAssumption

LEMMA WorkerType ==
    ASSUME TypeOK, NEW w \in Workers, WorkerStep(w)
    PROVE  TypeOK'
<1> USE DEF InHand
<1>0. /\ QueueTypeOK /\ DispatcherTypeOK
      /\ holds[w] \in Jobs \union {NoJob}
      /\ wpc[w] \in InHand => holds[w] \in Jobs
  BY DEF TypeOK, DispatcherTypeOK
<1>1. CASE Dequeue(w)
  <2>1. PICK j \in pending : popPending(j) /\ holds' = [holds EXCEPT ![w] = j]
    BY <1>1 DEF Dequeue
  <2>2. j \in Jobs /\ j # NoJob
    BY <1>0, DispatcherAssumption DEF QueueTypeOK
  <2>3. QueueTypeOK'
    BY <1>0, <2>1, <2>2, BrokerType
  <2>4. DispatcherTypeOK'
    BY <1>0, <1>1, <2>1, <2>2 DEF Dequeue, DispatcherTypeOK
  <2>5. QED
    BY <2>3, <2>4 DEF TypeOK
<1>2. CASE DequeueClosed(w) \/ Park(w) \/ LeaveSelect(w)
  <2>1. UNCHANGED <<queueVars, holds, attempt, handlers>>
    BY <1>2 DEF DequeueClosed, Park, LeaveSelect
  <2>2. QueueTypeOK'
    BY <1>0, <2>1 DEF queueVars, QueueTypeOK
  <2>3. wpc[w] \notin InHand
    BY <1>2 DEF DequeueClosed, Park, LeaveSelect
  <2>4. wpc' = [wpc EXCEPT ![w] = "exited"] \/ wpc' = [wpc EXCEPT ![w] = "parked"]
    BY <1>2 DEF DequeueClosed, Park, LeaveSelect
  <2>5. DispatcherTypeOK'
    BY <1>0, <2>1, <2>3, <2>4 DEF DispatcherTypeOK
  <2>6. QED
    BY <2>2, <2>5 DEF TypeOK
<1>3. CASE Wake(w)
  <2>1. QueueTypeOK'
    BY <1>0, <1>3, Zenon DEF Wake, QueueTypeOK, jobVars, lists, schedVars
  <2>2. DispatcherTypeOK'
    BY <1>0, <1>3 DEF Wake, DispatcherTypeOK
  <2>3. QED
    BY <2>1, <2>2 DEF TypeOK
<1>4. CASE NoHandler(w) \/ HandlerOk(w) \/ HandlerErr(w)
  <2>1. BackToLoop(w) /\ UNCHANGED <<attempt, handlers>> /\ holds[w] \in Jobs
    BY <1>0, <1>4 DEF NoHandler, HandlerOk, HandlerErr
  <2>2. DispatcherTypeOK'
    BY <1>0, <2>1 DEF BackToLoop, DispatcherTypeOK
  <2>3. QueueTypeOK'
    <3>1. CASE NoHandler(w)
      BY <1>0, <2>1, <3>1, BrokerType DEF NoHandler
    <3>2. CASE HandlerOk(w)
      BY <1>0, <2>1, <3>2, BrokerType DEF HandlerOk
    <3>3. CASE HandlerErr(w) /\ attempt[holds[w]] < EffectiveMax(holds[w])
      <4>1. Backoff[attempt[holds[w]]] \in Int
        BY <3>3, RetryDelayType DEF HandlerErr
      <4>2. QED
        BY <1>0, <2>1, <3>3, <4>1, BrokerType DEF HandlerErr
    <3>4. CASE HandlerErr(w) /\ ~ (attempt[holds[w]] < EffectiveMax(holds[w]))
      BY <1>0, <2>1, <3>4, BrokerType DEF HandlerErr
    <3>5. QED
      BY <1>4, <3>1, <3>2, <3>3, <3>4
  <2>4. QED
    BY <2>2, <2>3 DEF TypeOK
<1>5. CASE StartHandler(w)
  <2>1. QueueTypeOK'
    BY <1>0, <1>5 DEF StartHandler, queueVars, QueueTypeOK
  <2>2. DispatcherTypeOK'
    BY <1>0, <1>5 DEF StartHandler, DispatcherTypeOK
  <2>3. QED
    BY <2>1, <2>2 DEF TypeOK
<1>6. QED
  BY <1>1, <1>2, <1>3, <1>4, <1>5 DEF WorkerStep

LEMMA NextType == TypeOK /\ [Next]_vars => TypeOK'
<1> SUFFICES ASSUME TypeOK, [Next]_vars PROVE TypeOK'
  OBVIOUS
<1>0. QueueTypeOK /\ DispatcherTypeOK
  BY DEF TypeOK
<1>1. CASE \E w \in Workers : WorkerStep(w)
  BY <1>1, WorkerType
<1>2. CASE \E t \in Types : Register(t)
  <2>1. QueueTypeOK'
    BY <1>0, <1>2 DEF Register, queueVars, QueueTypeOK
  <2>2. DispatcherTypeOK'
    BY <1>0, <1>2 DEF Register, DispatcherTypeOK
  <2>3. QED
    BY <2>1, <2>2 DEF TypeOK
<1>3. CASE (SchedulerStep \/ ClientStep \/ Tick) /\ UNCHANGED workerVars
  <2>1. DispatcherTypeOK'
    BY <1>0, <1>3 DEF workerVars, DispatcherTypeOK
  <2>2. \A at \in Times : at \in Int
    BY QueueAssumption DEF Times
  <2>3. \A d \in Times : now + d \in Int
    BY <1>0, <2>2, QueueAssumption DEF QueueTypeOK
  <2>4. QueueTypeOK'
    <3>1. CASE ClientStep
      BY <1>0, <2>2, <2>3, <3>1, BrokerType
      DEF ClientStep, Schedule, ScheduleAt
    <3>2. QED
      BY <1>0, <1>3, <3>1, BrokerType
  <2>5. QED
    BY <2>1, <2>4 DEF TypeOK
<1>4. CASE UNCHANGED vars
  <2>1. QueueTypeOK'
    BY <1>0, <1>4 DEF vars, queueVars, QueueTypeOK
  <2>2. DispatcherTypeOK'
    BY <1>0, <1>4 DEF vars, workerVars, DispatcherTypeOK
  <2>3. QED
    BY <2>1, <2>2 DEF TypeOK
<1>5. QED
  BY <1>1, <1>2, <1>3, <1>4 DEF Next

\* The broker's lists, the signals and every worker's hand keep their shape
\* whatever clients, workers, the scheduler and the clock do; in particular a
\* worker holds a job exactly while it processes one.
THEOREM TypeCorrect == Spec => []TypeOK
<1>1. QED
  BY InitType, NextType, PTL DEF Spec
-----------------------------------------------------------------------------
(***************************************************************************)
(* NoLostWakeup is inductive together with TypeOK.                         *)
(***************************************************************************)
LEMMA InitWakeup == Init => NoLostWakeup
BY DEF Init, QueueInit, NoLostWakeup

\* A step of w that ends in process or in the loop leaves w awake.
LEMMA AwakeWorker ==
    ASSUME TypeOK, NEW w \in Workers,
           wpc' = [wpc EXCEPT ![w] = "loop"] \/ wpc' = [wpc EXCEPT ![w] = "picked"]
                                            \/ wpc' = [wpc EXCEPT ![w] = "running"]
    PROVE  NoLostWakeup'
BY DEF TypeOK, DispatcherTypeOK, NoLostWakeup, InHand

LEMMA NextWakeup == TypeOK /\ NoLostWakeup /\ [Next]_vars => NoLostWakeup'
<1> SUFFICES ASSUME TypeOK, NoLostWakeup, [Next]_vars PROVE NoLostWakeup'
  OBVIOUS
<1>1. ASSUME NEW w \in Workers, WorkerStep(w) PROVE NoLostWakeup'
  <2>1. CASE DequeueClosed(w) \/ Park(w)
    BY <2>1 DEF DequeueClosed, Park, queueVars, NoLostWakeup
  <2>2. CASE LeaveSelect(w)
    <3>1. \A v \in Workers : wpc[v] \in InHand \union {"loop"} => wpc'[v] = wpc[v]
      BY <2>2 DEF LeaveSelect, TypeOK, DispatcherTypeOK, InHand
    <3>2. pending' = pending /\ notify' = notify /\ sched' = sched
      BY <2>2 DEF LeaveSelect, queueVars
    <3>3. QED
      BY <3>1, <3>2, Zenon DEF NoLostWakeup
  <2>3. CASE Dequeue(w)
    BY <2>3, AwakeWorker DEF Dequeue
  <2>4. CASE Wake(w)
    BY <2>4, AwakeWorker DEF Wake
  <2>5. CASE NoHandler(w) \/ HandlerOk(w) \/ HandlerErr(w)
    BY <2>5, AwakeWorker DEF NoHandler, HandlerOk, HandlerErr, BackToLoop
  <2>6. CASE StartHandler(w)
    BY <2>6, AwakeWorker DEF StartHandler
  <2>7. QED
    BY <1>1, <2>1, <2>2, <2>3, <2>4, <2>5, <2>6 DEF WorkerStep
<1>2. ASSUME NEW t \in Types, Register(t) PROVE NoLostWakeup'
  BY <1>2 DEF Register, queueVars, NoLostWakeup
<1>3. ASSUME SchedulerStep, UNCHANGED workerVars PROVE NoLostWakeup'
  <2> USE <1>3 DEF workerVars, lists
  <2>1. CASE ArmTimer
    BY <2>1, Zenon DEF ArmTimer, signals, NoLostWakeup
  <2>2. CASE TimerFires
    BY <2>2, Zenon DEF TimerFires, signals, NoLostWakeup
  <2>3. CASE Rescheduled
    BY <2>3, Zenon DEF Rescheduled, NoLostWakeup
  <2>4. CASE SchedulerStops
    BY <2>4, Zenon DEF SchedulerStops, signals, NoLostWakeup
  <2>5. CASE promoteReady
    <3> DEFINE n == DuePrefix(schedAt)
    <3>1. CASE n > 0
      BY <2>5, <3>1 DEF promoteReady, NoLostWakeup
    <3>2. CASE ~ (n > 0)
      <4>1. n \in Nat /\ pending' = pending \union {scheduled[i] : i \in 1 .. n}
        BY <2>5, PromoteReadyProperties DEF TypeOK, QueueTypeOK
      <4>2. sched' = "calc" /\ notify' = notify /\ sched # "ping"
        BY <2>5, <3>2 DEF promoteReady, signals
      <4> HIDE DEF n
      <4>3. pending' = pending
        BY <3>2, <4>1
      <4>4. QED
        BY <4>2, <4>3, Zenon DEF NoLostWakeup
    <3>3. QED
      BY <3>1, <3>2
  <2>6. CASE PingPromoted
    BY <2>6 DEF PingPromoted, NoLostWakeup
  <2>7. QED
    BY <2>1, <2>2, <2>3, <2>4, <2>5, <2>6 DEF SchedulerStep
<1>4. ASSUME ClientStep, UNCHANGED workerVars PROVE NoLostWakeup'
  <2>1. ASSUME NEW j \in Jobs, NEW at, Enqueue(j, at) PROVE NoLostWakeup'
    <3>1. PICK t : Place(j, t)
      BY <2>1 DEF Enqueue
    <3>2. notify' \/ (pending' = pending /\ notify' = notify)
      BY <3>1 DEF Place
    <3>3. sched' = sched /\ wpc' = wpc
      BY <1>4, <2>1 DEF Enqueue, schedVars, workerVars
    <3>4. QED
      BY <3>2, <3>3, Zenon DEF NoLostWakeup
  <2>2. CASE Close \/ Cancel
    BY <1>4, <2>2, Zenon DEF Close, Cancel, workerVars, lists, signals, schedVars, NoLostWakeup
  <2>3. ASSUME NEW j \in Jobs, NEW at, SetRunAt(j, at) PROVE NoLostWakeup'
    BY <1>4, <2>3, Zenon DEF SetRunAt, workerVars, lists, signals, schedVars, NoLostWakeup
  <2>4. QED
    BY <1>4, <2>1, <2>2, <2>3 DEF ClientStep, Schedule, ScheduleAt
<1>5. ASSUME Tick, UNCHANGED workerVars PROVE NoLostWakeup'
  BY <1>5, Zenon DEF Tick, workerVars, lists, signals, schedVars, NoLostWakeup
<1>6. CASE UNCHANGED vars
  BY <1>6, Zenon DEF vars, queueVars, workerVars, NoLostWakeup
<1>7. QED
  BY <1>1, <1>2, <1>3, <1>4, <1>5, <1>6 DEF Next

\* The one-slot notify channel, whose ping is dropped when it is full, never
\* strands a pending job: whatever the interleaving of producers, workers and
\* scheduler, some wake-up is outstanding while a job waits (queue.go, ping).
THEOREM WakeupNeverLost == Spec => []NoLostWakeup
<1>1. TypeOK /\ NoLostWakeup /\ [Next]_vars => (TypeOK /\ NoLostWakeup)'
  BY NextType, NextWakeup
<1>2. QED
  BY InitType, InitWakeup, <1>1, PTL DEF Spec
-----------------------------------------------------------------------------
(***************************************************************************)
(* JobInOnePlace and the invariants that rest on it: the scheduled slice   *)
(* stays sorted, the scheduler's timer never oversleeps, no job runs early,*)
(* and terminal jobs stay untouched.                                       *)
(***************************************************************************)

\* Inserting a job that is not on the list adds that job and no other, and
\* repeats none.
LEMMA InsertContents ==
    ASSUME QueueTypeOK, NEW j \in Jobs, NEW t \in Int, insertScheduled(j, t),
           Distinct(scheduled), ~ InScheduled(j)
    PROVE  /\ \A i \in Jobs : InScheduled(i)' <=> InScheduled(i) \/ i = j
           /\ Distinct(scheduled)'
<1> DEFINE n == Len(scheduled)
<1>0. PICK k \in 1 .. n + 1 : scheduled' = InsertAt(scheduled, k, j)
  BY DEF insertScheduled, SearchScheduled
<1>1. /\ k \in 1 .. n + 1
      /\ n \in Nat
      /\ Len(scheduled') = n + 1
      /\ \A i \in 1 .. n + 1 :
            scheduled'[i] = IF i < k THEN scheduled[i]
                            ELSE IF i = k THEN j ELSE scheduled[i - 1]
  <2>1. n \in Nat
    BY DEF QueueTypeOK
  <2>2. QED
    BY <1>0, <2>1, InsertScheduledProperties
<1> HIDE DEF n
<1>2. /\ \A i \in 1 .. n : scheduled[i] # j
      /\ \A i, m \in 1 .. n : scheduled[i] = scheduled[m] => i = m
  BY DEF InScheduled, Distinct, n
<1>3. ASSUME NEW i \in Jobs PROVE InScheduled(i)' <=> InScheduled(i) \/ i = j
  <2>1. ASSUME NEW m \in 1 .. n, scheduled[m] = i
        PROVE  \E l \in 1 .. n + 1 : scheduled'[l] = i
    <3>1. CASE m < k
      BY <1>1, <2>1, <3>1
    <3>2. CASE ~ (m < k)
      <4>1. m + 1 \in 1 .. n + 1 /\ ~ (m + 1 < k) /\ m + 1 # k /\ (m + 1) - 1 = m
        BY <1>1, <3>2
      <4>2. scheduled'[m + 1] = scheduled[m]
        BY <1>1, <4>1
      <4>3. QED
        BY <2>1, <4>1, <4>2
    <3>3. QED
      BY <3>1, <3>2
  <2>2. \E l \in 1 .. n + 1 : scheduled'[l] = j
    <3>1. k \in 1 .. n + 1 /\ ~ (k < k) /\ scheduled'[k] = j
      BY <1>1
    <3>2. QED
      BY <3>1
  <2>3. ASSUME NEW l \in 1 .. n + 1, scheduled'[l] = i, i # j
        PROVE  \E m \in 1 .. n : scheduled[m] = i
    <3>1. CASE l < k
      BY <1>1, <2>3, <3>1
    <3>2. CASE l > k
      <4>1. l - 1 \in 1 .. n /\ scheduled'[l] = scheduled[l - 1]
        BY <1>1, <3>2
      <4>2. QED
        BY <2>3, <4>1
    <3>3. CASE l = k
      BY <1>1, <2>3, <3>3
    <3>4. QED
      BY <1>1, <3>1, <3>2, <3>3
  <2>4. QED
    BY <1>1, <2>1, <2>2, <2>3 DEF InScheduled, n
<1>4. Distinct(scheduled')
  <2> SUFFICES ASSUME NEW i \in 1 .. n + 1, NEW m \in 1 .. n + 1,
                      scheduled'[i] = scheduled'[m]
               PROVE  i = m
    BY <1>1 DEF Distinct
  <2> DEFINE old(x) == IF x < k THEN x ELSE x - 1
  <2>1. \A x \in 1 .. n + 1 : x # k =>
            old(x) \in 1 .. n /\ scheduled'[x] = scheduled[old(x)]
    BY <1>1
  <2>2. CASE i = k \/ m = k
    BY <1>1, <1>2, <2>1, <2>2
  <2>3. CASE i # k /\ m # k
    <3>1. old(i) = old(m)
      BY <1>2, <2>1, <2>3
    <3>2. QED
      BY <1>1, <2>3, <3>1
  <2>4. QED
    BY <2>2, <2>3
<1>5. QED
  BY <1>3, <1>4

\* Place puts the job in exactly one of heap and scheduled list.
LEMMA PlaceContents ==
    ASSUME QueueTypeOK, NEW j \in Jobs, NEW t \in Int, Place(j, t),
           Distinct(scheduled), ~ InScheduled(j), j \notin pending
    PROVE  /\ \A i \in Jobs \ {j} : i \in pending' <=> i \in pending
           /\ \A i \in Jobs \ {j} : InScheduled(i)' <=> InScheduled(i)
           /\ j \in pending' <=> t <= now
           /\ InScheduled(j)' <=> ~ (t <= now)
           /\ Distinct(scheduled)'
<1>1. CASE t <= now
  <2>1. pending' = pending \union {j} /\ scheduled' = scheduled
    BY <1>1 DEF Place
  <2>2. QED
    BY <1>1, <2>1 DEF InScheduled, Distinct
<1>2. CASE ~ (t <= now)
  <2>1. pending' = pending /\ insertScheduled(j, t)
    BY <1>2 DEF Place
  <2>2. /\ \A i \in Jobs : InScheduled(i)' <=> InScheduled(i) \/ i = j
        /\ Distinct(scheduled)'
    BY <2>1, InsertContents
  <2>3. QED
    BY <1>2, <2>1, <2>2
<1>3. QED
  BY <1>1, <1>2

\* promoteReady moves the due prefix from the scheduled list to the heap.
LEMMA PromoteContents ==
    ASSUME QueueTypeOK, promoteReady, Distinct(scheduled)
    PROVE  /\ \A j \in Jobs : InScheduled(j)' => InScheduled(j) /\ j \notin pending' \ pending
           /\ \A j \in Jobs : j \in pending' <=>
                j \in pending \/ (InScheduled(j) /\ ~ InScheduled(j)')
           /\ Distinct(scheduled)'
<1> DEFINE n == DuePrefix(schedAt)
           l == Len(scheduled)
<1>1. /\ n \in 0 .. l /\ l \in Nat
      /\ pending' = pending \union {scheduled[i] : i \in 1 .. n}
      /\ Len(scheduled') = l - n
      /\ \A i \in 1 .. l - n : scheduled'[i] = scheduled[n + i]
  BY PromoteReadyProperties DEF QueueTypeOK
<1>2. \A i, k \in 1 .. l : scheduled[i] = scheduled[k] => i = k
  BY DEF Distinct
<1> HIDE DEF n, l
<1>3. \A j : InScheduled(j)' <=> \E i \in n + 1 .. l : scheduled[i] = j
  <2>1. ASSUME NEW j, NEW i \in n + 1 .. l, scheduled[i] = j
        PROVE  \E m \in 1 .. l - n : scheduled'[m] = j
    <3>1. i - n \in 1 .. l - n /\ n + (i - n) = i
      BY <1>1
    <3>2. scheduled'[i - n] = scheduled[i]
      BY <1>1, <3>1
    <3>3. QED
      BY <2>1, <3>1, <3>2
  <2>2. ASSUME NEW j, NEW m \in 1 .. l - n, scheduled'[m] = j
        PROVE  \E i \in n + 1 .. l : scheduled[i] = j
    <3>1. n + m \in n + 1 .. l /\ scheduled[n + m] = j
      BY <1>1, <2>2
    <3>2. QED
      BY <3>1
  <2>3. QED
    BY <1>1, <2>1, <2>2 DEF InScheduled
<1>4. \A j : InScheduled(j) <=> \E i \in 1 .. l : scheduled[i] = j
  BY DEF InScheduled, l
<1>5. \A j : j \in pending' <=> j \in pending \/ \E i \in 1 .. n : scheduled[i] = j
  BY <1>1
<1>6. \A j : (\E i \in 1 .. l : scheduled[i] = j) <=>
             (\E i \in 1 .. n : scheduled[i] = j) \/ (\E i \in n + 1 .. l : scheduled[i] = j)
  <2>1. \A i : i \in 1 .. l <=> i \in 1 .. n \/ i \in n + 1 .. l
    BY <1>1
  <2>2. QED
    BY <2>1
<1>7. \A j : ~ ((\E i \in 1 .. n : scheduled[i] = j) /\ (\E i \in n + 1 .. l : scheduled[i] = j))
  <2>1. \A i \in 1 .. n, k \in n + 1 .. l : i \in 1 .. l /\ k \in 1 .. l /\ i # k
    BY <1>1
  <2>2. QED
    BY <1>2, <2>1
<1>8. Distinct(scheduled')
  <2> SUFFICES ASSUME NEW i \in 1 .. l - n, NEW k \in 1 .. l - n,
                      scheduled'[i] = scheduled'[k]
               PROVE  i = k
    BY <1>1 DEF Distinct
  <2>1. n + i \in 1 .. l /\ n + k \in 1 .. l /\ scheduled[n + i] = scheduled[n + k]
    BY <1>1
  <2>2. n + i = n + k
    BY <1>2, <2>1
  <2>3. QED
    BY <1>1, <2>2
<1>9. QED
  BY <1>3, <1>4, <1>5, <1>6, <1>7, <1>8, Zenon

\* A worker that goes back to the loop gives up its job, and only that job.
LEMMA HandsAfterBackToLoop ==
    ASSUME TypeOK, HeldWhileProcessing, NEW w \in Workers, wpc[w] \in InHand,
           BackToLoop(w)
    PROVE  /\ holds[w] \in Jobs
           /\ status[holds[w]] = "processing"
           /\ \A j \in Jobs : HeldBySome(j)' <=> HeldBySome(j) /\ j # holds[w]
           /\ \A u, v \in Workers : holds'[u] = holds'[v] /\ holds'[u] # NoJob => u = v
<1>1. /\ holds \in [Workers -> Jobs \union {NoJob}] /\ NoJob \notin Jobs
      /\ holds[w] \in Jobs
      /\ \A u \in Workers : holds'[u] = IF u = w THEN NoJob ELSE holds[u]
  BY DispatcherAssumption DEF TypeOK, DispatcherTypeOK, BackToLoop
<1>2. \A u, v \in Workers : holds[u] = holds[v] /\ holds[u] # NoJob => u = v
  BY DEF HeldWhileProcessing
<1>3. \A u, v \in Workers : holds'[u] = holds'[v] /\ holds'[u] # NoJob => u = v
  BY <1>1, <1>2
<1>4. \A j \in Jobs : HeldBySome(j)' <=> HeldBySome(j) /\ j # holds[w]
  BY <1>1, <1>2 DEF HeldBySome
<1>5. status[holds[w]] = "processing"
  BY <1>1 DEF HeldWhileProcessing, HeldBySome
<1>6. QED
  BY <1>1, <1>3, <1>4, <1>5

\* The verdict dead on a job in hand.
LEMMA DeadPlaces ==
    ASSUME TypeOK, JobInOnePlace, NEW w \in Workers, wpc[w] \in InHand,
           dead(holds[w]), BackToLoop(w)
    PROVE  JobInOnePlace'
<1> DEFINE j == holds[w]
<1>1. /\ j \in Jobs /\ status[j] = "processing"
      /\ \A i \in Jobs : HeldBySome(i)' <=> HeldBySome(i) /\ i # j
      /\ \A u, v \in Workers : holds'[u] = holds'[v] /\ holds'[u] # NoJob => u = v
  BY HandsAfterBackToLoop DEF JobInOnePlace
<1>2. /\ status \in [Jobs -> Status] /\ status' = [status EXCEPT ![j] = "dead"]
      /\ dlq \in Seq(Jobs) /\ dlq' = Append(dlq, j)
      /\ all' = all /\ pending' = pending /\ scheduled' = scheduled
  BY DEF dead, TypeOK, QueueTypeOK
<1> HIDE DEF j
<1>3. \A i \in Jobs : status'[i] = IF i = j THEN "dead" ELSE status[i]
  BY <1>1, <1>2
<1>4. \A i \in Jobs : InScheduled(i)' <=> InScheduled(i)
  BY <1>2 DEF InScheduled
<1>5. QueuedWhileWaiting'
  BY <1>1, <1>2, <1>3, <1>4 DEF JobInOnePlace, QueuedWhileWaiting
<1>6. HeldWhileProcessing'
  BY <1>1, <1>3 DEF JobInOnePlace, HeldWhileProcessing
<1>7. /\ Len(dlq) \in Nat /\ Len(dlq') = Len(dlq) + 1
      /\ dlq'[Len(dlq) + 1] = j
      /\ \A i \in 1 .. Len(dlq) : dlq'[i] = dlq[i]
  BY <1>1, <1>2
<1>8. \A i \in Jobs : InDLQ(i)' <=> InDLQ(i) \/ i = j
  BY <1>7 DEF InDLQ
<1>9. DeadInDLQ'
  BY <1>1, <1>2, <1>3, <1>8 DEF JobInOnePlace, DeadInDLQ
<1>10. Distinct(scheduled)'
  BY <1>2 DEF JobInOnePlace, Distinct
<1>11. Distinct(dlq)'
  <2>1. \A i \in 1 .. Len(dlq) : dlq[i] # j
    BY <1>1 DEF JobInOnePlace, DeadInDLQ, InDLQ
  <2>2. QED
    BY <1>7, <2>1 DEF JobInOnePlace, Distinct
<1>12. QED
  BY <1>5, <1>6, <1>9, <1>10, <1>11 DEF JobInOnePlace

\* The verdict complete on a job in hand.
LEMMA CompletePlaces ==
    ASSUME TypeOK, JobInOnePlace, NEW w \in Workers, wpc[w] \in InHand,
           complete(holds[w]), BackToLoop(w)
    PROVE  JobInOnePlace'
<1> DEFINE j == holds[w]
<1>1. /\ j \in Jobs /\ status[j] = "processing"
      /\ \A i \in Jobs : HeldBySome(i)' <=> HeldBySome(i) /\ i # j
      /\ \A u, v \in Workers : holds'[u] = holds'[v] /\ holds'[u] # NoJob => u = v
  BY HandsAfterBackToLoop DEF JobInOnePlace
<1>2. /\ status \in [Jobs -> Status] /\ status' = [status EXCEPT ![j] = "completed"]
      /\ all' = all /\ pending' = pending /\ scheduled' = scheduled /\ dlq' = dlq
  BY DEF complete, lists, TypeOK, QueueTypeOK
<1> HIDE DEF j
<1>3. \A i \in Jobs : status'[i] = IF i = j THEN "completed" ELSE status[i]
  BY <1>1, <1>2
<1>4. \A i \in Jobs : (InScheduled(i)' <=> InScheduled(i)) /\ (InDLQ(i)' <=> InDLQ(i))
  BY <1>2 DEF InScheduled, InDLQ
<1>5. QueuedWhileWaiting'
  BY <1>1, <1>2, <1>3, <1>4 DEF JobInOnePlace, QueuedWhileWaiting
<1>6. HeldWhileProcessing'
  BY <1>1, <1>3 DEF JobInOnePlace, HeldWhileProcessing
<1>7. DeadInDLQ'
  BY <1>1, <1>2, <1>3, <1>4 DEF JobInOnePlace, DeadInDLQ
<1>8. Distinct(scheduled)' /\ Distinct(dlq)'
  BY <1>2 DEF JobInOnePlace, Distinct
<1>9. QED
  BY <1>5, <1>6, <1>7, <1>8 DEF JobInOnePlace

\* A retry of a job in hand.
LEMMA RequeuePlaces ==
    ASSUME TypeOK, JobInOnePlace, NEW w \in Workers, wpc[w] \in InHand,
           NEW d \in Int, requeue(holds[w], d), BackToLoop(w)
    PROVE  JobInOnePlace'
<1>0. PICK j \in Jobs : j = holds[w]
  BY HandsAfterBackToLoop DEF JobInOnePlace
<1>1. /\ j \in Jobs /\ status[j] = "processing"
      /\ \A i \in Jobs : HeldBySome(i)' <=> HeldBySome(i) /\ i # j
      /\ \A u, v \in Workers : holds'[u] = holds'[v] /\ holds'[u] # NoJob => u = v
  BY <1>0, HandsAfterBackToLoop DEF JobInOnePlace
<1>2. /\ status \in [Jobs -> Status] /\ status' = [status EXCEPT ![j] = "failed"]
      /\ all' = all /\ dlq' = dlq /\ Place(j, now + d)
      /\ QueueTypeOK /\ now + d \in Int
  BY <1>0, QueueAssumption DEF requeue, TypeOK, QueueTypeOK
<1>3. \A i \in Jobs : status'[i] = IF i = j THEN "failed" ELSE status[i]
  BY <1>1, <1>2
<1>4. j \notin pending /\ ~ InScheduled(j) /\ j \in all
  BY <1>1 DEF JobInOnePlace, QueuedWhileWaiting, DeadInDLQ
<1>5. /\ \A i \in Jobs \ {j} : i \in pending' <=> i \in pending
      /\ \A i \in Jobs \ {j} : InScheduled(i)' <=> InScheduled(i)
      /\ j \in pending' <=> now + d <= now
      /\ InScheduled(j)' <=> ~ (now + d <= now)
      /\ Distinct(scheduled)'
  BY <1>1, <1>2, <1>4, PlaceContents DEF JobInOnePlace
<1>6. QueuedWhileWaiting'
  BY <1>1, <1>2, <1>3, <1>4, <1>5 DEF JobInOnePlace, QueuedWhileWaiting
<1>7. HeldWhileProcessing'
  BY <1>1, <1>3 DEF JobInOnePlace, HeldWhileProcessing
<1>8. DeadInDLQ'
  BY <1>1, <1>2, <1>3 DEF JobInOnePlace, DeadInDLQ, InDLQ
<1>9. Distinct(dlq)'
  BY <1>2 DEF JobInOnePlace, Distinct
<1>10. QED
  BY <1>5, <1>6, <1>7, <1>8, <1>9 DEF JobInOnePlace

\* A producer's job.
LEMMA EnqueuePlaces ==
    ASSUME TypeOK, JobInOnePlace, NEW j \in Jobs, NEW at \in Int, Enqueue(j, at),
           UNCHANGED holds
    PROVE  JobInOnePlace'
<1> DEFINE t == IF at = 0 THEN now ELSE at
<1>1. /\ QueueTypeOK /\ t \in Int /\ Place(j, t)
      /\ all' = all \union {j} /\ dlq' = dlq /\ j \notin all
      /\ status \in [Jobs -> Status] /\ status' = [status EXCEPT ![j] = "pending"]
  BY QueueAssumption DEF Enqueue, TypeOK, QueueTypeOK
<1> HIDE DEF t
<1>2. status[j] = "pending" /\ j \notin pending /\ ~ InScheduled(j)
  BY <1>1 DEF JobInOnePlace, DeadInDLQ, QueuedWhileWaiting
<1>3. status' = status
  BY <1>1, <1>2
<1>4. /\ \A i \in Jobs \ {j} : i \in pending' <=> i \in pending
      /\ \A i \in Jobs \ {j} : InScheduled(i)' <=> InScheduled(i)
      /\ j \in pending' <=> t <= now
      /\ InScheduled(j)' <=> ~ (t <= now)
      /\ Distinct(scheduled)'
  BY <1>1, <1>2, PlaceContents DEF JobInOnePlace
<1>5. QueuedWhileWaiting'
  BY <1>1, <1>2, <1>3, <1>4 DEF JobInOnePlace, QueuedWhileWaiting
<1>6. HeldWhileProcessing' /\ DeadInDLQ' /\ Distinct(dlq)'
  BY <1>1, <1>3 DEF JobInOnePlace, HeldWhileProcessing, HeldBySome, DeadInDLQ, InDLQ, Distinct
<1>7. QED
  BY <1>4, <1>5, <1>6 DEF JobInOnePlace

\* A worker takes a job off the heap.
LEMMA DequeuePlaces ==
    ASSUME TypeOK, JobInOnePlace, NEW w \in Workers, Dequeue(w)
    PROVE  JobInOnePlace'
<1>1. PICK j \in pending : popPending(j) /\ holds' = [holds EXCEPT ![w] = j]
  BY DEF Dequeue
<1>2. /\ j \in Jobs /\ j # NoJob /\ holds \in [Workers -> Jobs \union {NoJob}]
      /\ holds[w] = NoJob
      /\ status \in [Jobs -> Status] /\ status' = [status EXCEPT ![j] = "processing"]
      /\ pending' = pending \ {j}
      /\ all' = all /\ scheduled' = scheduled /\ dlq' = dlq
  <2>1. j \in Jobs /\ j # NoJob /\ status \in [Jobs -> Status]
    BY <1>1, DispatcherAssumption DEF TypeOK, QueueTypeOK
  <2>2. holds \in [Workers -> Jobs \union {NoJob}] /\ holds[w] = NoJob
    BY DEF Dequeue, TypeOK, DispatcherTypeOK, InHand
  <2>3. QED
    BY <1>1, <2>1, <2>2 DEF popPending
<1>3. status[j] \in {"pending", "failed"} /\ ~ InScheduled(j) /\ j \in all
  BY <1>1, <1>2 DEF JobInOnePlace, QueuedWhileWaiting
<1>4. \A i \in Jobs : status'[i] = IF i = j THEN "processing" ELSE status[i]
  BY <1>2
<1>5. \A i \in Jobs : (InScheduled(i)' <=> InScheduled(i)) /\ (InDLQ(i)' <=> InDLQ(i))
  BY <1>2 DEF InScheduled, InDLQ
<1>6. QueuedWhileWaiting'
  BY <1>2, <1>3, <1>4, <1>5 DEF JobInOnePlace, QueuedWhileWaiting
<1>7. HeldWhileProcessing'
  <2>1. \A v \in Workers : holds[v] # j
    BY <1>2, <1>3 DEF JobInOnePlace, HeldWhileProcessing, HeldBySome
  <2>2. \A v \in Workers : holds'[v] = IF v = w THEN j ELSE holds[v]
    BY <1>1, <1>2
  <2>3. \A i \in Jobs : HeldBySome(i)' <=> HeldBySome(i) \/ i = j
    BY <1>2, <2>2, DispatcherAssumption DEF HeldBySome
  <2>4. \A u, v \in Workers : holds'[u] = holds'[v] /\ holds'[u] # NoJob => u = v
    BY <2>1, <2>2 DEF JobInOnePlace, HeldWhileProcessing
  <2>5. QED
    BY <1>4, <2>3, <2>4 DEF JobInOnePlace, HeldWhileProcessing
<1>8. DeadInDLQ'
  BY <1>2, <1>3, <1>4, <1>5 DEF JobInOnePlace, DeadInDLQ
<1>9. Distinct(scheduled)' /\ Distinct(dlq)'
  BY <1>2 DEF JobInOnePlace, Distinct
<1>10. QED
  BY <1>6, <1>7, <1>8, <1>9 DEF JobInOnePlace

LEMMA PromotePlaces ==
    ASSUME TypeOK, JobInOnePlace, promoteReady, UNCHANGED holds
    PROVE  JobInOnePlace'
<1>1. /\ \A j \in Jobs : InScheduled(j)' => InScheduled(j) /\ j \notin pending' \ pending
      /\ \A j \in Jobs : j \in pending' <=>
            j \in pending \/ (InScheduled(j) /\ ~ InScheduled(j)')
      /\ Distinct(scheduled)'
  BY PromoteContents DEF JobInOnePlace, TypeOK
<1>2. all' = all /\ status' = status /\ dlq' = dlq
  BY DEF promoteReady, jobVars
<1>3. QueuedWhileWaiting'
  BY <1>1, <1>2 DEF JobInOnePlace, QueuedWhileWaiting
<1>4. HeldWhileProcessing' /\ DeadInDLQ' /\ Distinct(dlq)'
  BY <1>2 DEF JobInOnePlace, HeldWhileProcessing, HeldBySome, DeadInDLQ, InDLQ, Distinct
<1>5. QED
  BY <1>1, <1>3, <1>4 DEF JobInOnePlace

placeVars == <<all, status, pending, scheduled, dlq, holds>>

\* The kinds of step, by what they do to a job.
Taken == \E w \in Workers : Dequeue(w)

Settled ==
    \E w \in Workers : /\ wpc[w] \in InHand /\ BackToLoop(w)
                       /\ dead(holds[w]) \/ complete(holds[w])
                       /\ UNCHANGED attempt

Retried ==
    \E w \in Workers, d \in Int :
        /\ wpc[w] = "running" /\ BackToLoop(w)
        /\ attempt[holds[w]] < EffectiveMax(holds[w])
        /\ requeue(holds[w], d)
        /\ UNCHANGED attempt

Submitted ==
    \E j \in Jobs, at \in Int : Enqueue(j, at) /\ UNCHANGED workerVars

Promoted == promoteReady /\ UNCHANGED workerVars

Started == \E w \in Workers : StartHandler(w)

Overwritten ==
    \E j \in Jobs, at \in Int : SetRunAt(j, at) /\ UNCHANGED workerVars

Quiet == UNCHANGED <<placeVars, runAt, rewritten, attempt>>

\* Every step is of one of these kinds.
LEMMA StepKinds ==
    ASSUME TypeOK, [Next]_vars
    PROVE  \/ Taken \/ Settled \/ Retried \/ Submitted
           \/ Promoted \/ Started \/ Overwritten \/ Quiet
<1> USE DEF placeVars, queueVars, jobVars, lists, workerVars, InHand
<1>1. ASSUME NEW w \in Workers, WorkerStep(w)
      PROVE  Taken \/ Settled \/ Retried \/ Started \/ Quiet
  <2>1. CASE DequeueClosed(w) \/ Park(w) \/ Wake(w) \/ LeaveSelect(w)
    BY <2>1 DEF DequeueClosed, Park, Wake, LeaveSelect, Quiet
  <2>2. CASE NoHandler(w) \/ HandlerOk(w)
    BY <2>2 DEF NoHandler, HandlerOk, Settled
  <2>3. CASE HandlerErr(w)
    BY <2>3, RetryDelayType DEF HandlerErr, Settled, Retried
  <2>4. CASE Dequeue(w)
    BY <2>4 DEF Taken
  <2>5. CASE StartHandler(w)
    BY <2>5 DEF Started
  <2>6. QED
    BY <1>1, <2>1, <2>2, <2>3, <2>4, <2>5 DEF WorkerStep
<1>2. ASSUME NEW t \in Types, Register(t) PROVE Quiet
  BY <1>2 DEF Register, Quiet
<1>3. ASSUME SchedulerStep, UNCHANGED workerVars PROVE Promoted \/ Quiet
  BY <1>3
  DEF SchedulerStep, ArmTimer, TimerFires, Rescheduled, SchedulerStops, PingPromoted,
      Promoted, Quiet
<1>4. ASSUME Close \/ Cancel \/ Tick, UNCHANGED workerVars PROVE Quiet
  BY <1>4 DEF Close, Cancel, Tick, Quiet
<1>5. ASSUME ClientStep, UNCHANGED workerVars PROVE Submitted \/ Overwritten \/ Quiet
  <2>1. \A at \in Times : at \in Int /\ now + at \in Int
    BY QueueAssumption DEF Times, TypeOK, QueueTypeOK
  <2>2. QED
    BY <1>4, <1>5, <2>1 DEF ClientStep, Schedule, ScheduleAt, Submitted, Overwritten
<1>6. CASE UNCHANGED vars
  BY <1>6 DEF vars, Quiet
<1>7. QED
  BY <1>1, <1>2, <1>3, <1>4, <1>5, <1>6 DEF Next

\* Nothing takes a job out of the history of overwritten instants.
LEMMA RewrittenGrows ==
    ASSUME TypeOK, [Next]_vars
    PROVE  rewritten \subseteq rewritten'
<1>1. CASE Taken
  BY <1>1 DEF Taken, Dequeue, popPending
<1>2. CASE Settled
  BY <1>2 DEF Settled, dead, complete
<1>3. CASE Retried
  BY <1>3 DEF Retried, requeue
<1>4. CASE Submitted
  BY <1>4 DEF Submitted, Enqueue
<1>5. CASE Promoted
  BY <1>5 DEF Promoted, promoteReady, jobVars
<1>6. CASE Started
  BY <1>6 DEF Started, StartHandler, queueVars
<1>7. CASE Overwritten
  BY <1>7 DEF Overwritten, SetRunAt
<1>8. CASE Quiet
  BY <1>8 DEF Quiet
<1>9. QED
  BY <1>1, <1>2, <1>3, <1>4, <1>5, <1>6, <1>7, <1>8, StepKinds

LEMMA NextPlaces == TypeOK /\ JobInOnePlace /\ [Next]_vars => JobInOnePlace'
<1> SUFFICES ASSUME TypeOK, JobInOnePlace, [Next]_vars PROVE JobInOnePlace'
  OBVIOUS
<1>1. ASSUME UNCHANGED placeVars PROVE JobInOnePlace'
  <2>1. QueuedWhileWaiting'
    BY <1>1 DEF placeVars, JobInOnePlace, QueuedWhileWaiting, InScheduled
  <2>2. HeldWhileProcessing'
    BY <1>1 DEF placeVars, JobInOnePlace, HeldWhileProcessing, HeldBySome
  <2>3. DeadInDLQ'
    BY <1>1 DEF placeVars, JobInOnePlace, DeadInDLQ, InDLQ
  <2>4. Distinct(scheduled)' /\ Distinct(dlq)'
    BY <1>1 DEF placeVars, JobInOnePlace, Distinct
  <2>5. QED
    BY <2>1, <2>2, <2>3, <2>4 DEF JobInOnePlace
<1>2. CASE Taken
  BY <1>2, DequeuePlaces DEF Taken
<1>3. CASE Settled
  BY <1>3, DeadPlaces, CompletePlaces DEF Settled
<1>4. CASE Retried
  BY <1>4, RequeuePlaces DEF Retried, InHand
<1>5. CASE Submitted
  BY <1>5, EnqueuePlaces DEF Submitted, workerVars
<1>6. CASE Promoted
  BY <1>6, PromotePlaces DEF Promoted, workerVars
<1>7. CASE Started
  BY <1>1, <1>7 DEF Started, StartHandler, queueVars, placeVars
<1>8. CASE Quiet
  BY <1>1, <1>8 DEF Quiet
<1>9. CASE Overwritten
  BY <1>1, <1>9 DEF Overwritten, SetRunAt, lists, workerVars, placeVars
<1>10. QED
  BY <1>2, <1>3, <1>4, <1>5, <1>6, <1>7, <1>8, <1>9, StepKinds

LEMMA InitPlaces == Init => JobInOnePlace
BY DispatcherAssumption
DEF Init, QueueInit, JobInOnePlace, QueuedWhileWaiting, HeldWhileProcessing,
    DeadInDLQ, Distinct, InScheduled, InDLQ, HeldBySome

\* No job is ever lost or in two places, for any number of jobs and workers.
THEOREM OnePlace == Spec => []JobInOnePlace
<1>1. TypeOK /\ JobInOnePlace /\ [Next]_vars => (TypeOK /\ JobInOnePlace)'
  BY NextType, NextPlaces
<1>2. QED
  BY InitType, InitPlaces, <1>1, PTL DEF Spec
-----------------------------------------------------------------------------
\* A completed or dead job is never run, requeued or resubmitted again.
THEOREM TerminalStaysTerminal == Spec => TerminalIsFinal
<1> DEFINE Final == \A j \in Jobs : status[j] \in {"completed", "dead"} =>
                       status'[j] = status[j] /\ attempt'[j] = attempt[j]
<1>1. ASSUME TypeOK, JobInOnePlace, [Next]_vars PROVE [Final]_vars
  <2> SUFFICES ASSUME NEW j \in Jobs, status[j] \in {"completed", "dead"}
               PROVE  status'[j] = status[j] /\ attempt'[j] = attempt[j]
    OBVIOUS
  <2>1. /\ j \notin pending /\ ~ HeldBySome(j) /\ j \in all
        /\ status \in [Jobs -> Status] /\ attempt \in [Jobs -> Nat]
    BY <1>1 DEF JobInOnePlace, QueuedWhileWaiting, HeldWhileProcessing, DeadInDLQ,
                TypeOK, QueueTypeOK, DispatcherTypeOK
  <2>2. CASE Taken
    BY <2>1, <2>2 DEF Taken, Dequeue, popPending
  <2>3. CASE Settled
    BY <2>1, <2>3 DEF Settled, dead, complete, HeldBySome
  <2>4. CASE Retried
    BY <2>1, <2>4 DEF Retried, requeue, HeldBySome
  <2>5. CASE Submitted
    BY <2>1, <2>5 DEF Submitted, Enqueue, workerVars
  <2>6. CASE Promoted
    BY <2>6 DEF Promoted, promoteReady, jobVars, workerVars
  <2>7. CASE Started
    BY <2>1, <2>7 DEF Started, StartHandler, queueVars, HeldBySome
  <2>8. CASE Quiet
    BY <2>8 DEF Quiet, placeVars
  <2>9. CASE Overwritten
    BY <2>9 DEF Overwritten, SetRunAt, workerVars
  <2>10. QED
    BY <1>1, <2>2, <2>3, <2>4, <2>5, <2>6, <2>7, <2>8, <2>9, StepKinds
<1> HIDE DEF Final
<1>2. TypeOK /\ JobInOnePlace /\ [Next]_vars => (TypeOK /\ JobInOnePlace)'
  BY NextType, NextPlaces
<1>3. Spec => [][Final]_vars
  BY InitType, InitPlaces, <1>1, <1>2, PTL DEF Spec
<1>4. QED
  BY <1>3 DEF TerminalIsFinal, Final
-----------------------------------------------------------------------------
\* Insertion where sort.Search ends keeps a sorted slice sorted.
LEMMA InsertSorted ==
    ASSUME QueueTypeOK, NEW j \in Jobs, NEW t \in Int, insertScheduled(j, t),
           runAt' = [runAt EXCEPT ![j] = t], ~ InScheduled(j), ScheduledSorted
    PROVE  ScheduledSorted'
<1> DEFINE n == Len(scheduled)
<1>0. PICK k \in 1 .. n + 1 :
          /\ scheduled' = InsertAt(scheduled, k, j)
          /\ k > 1 => runAt[scheduled[k - 1]] < t
          /\ k <= n => runAt[scheduled[k]] >= t
  BY DEF insertScheduled, SearchScheduled
<1> DEFINE old(x) == IF x < k THEN x ELSE x - 1
<1>2. n \in Nat /\ runAt \in [Jobs -> Int] /\ \A i \in 1 .. n : scheduled[i] \in Jobs
  BY DEF QueueTypeOK
<1>3. /\ Len(scheduled') = n + 1
      /\ \A i \in 1 .. n + 1 :
            scheduled'[i] = IF i < k THEN scheduled[i]
                            ELSE IF i = k THEN j ELSE scheduled[i - 1]
  BY <1>0, InsertScheduledProperties
<1>4. \A i \in 1 .. n : scheduled[i] # j /\ runAt'[scheduled[i]] = runAt[scheduled[i]]
  BY <1>2 DEF InScheduled
<1>5. \A i, m \in 1 .. n : i < m => runAt[scheduled[i]] <= runAt[scheduled[m]]
  BY DEF ScheduledSorted
<1>6. runAt'[j] = t
  BY <1>2
<1> HIDE DEF n
<1>1. /\ k \in 1 .. n + 1
      /\ \A i \in 1 .. k - 1 : runAt[scheduled[i]] < t
      /\ k <= n => runAt[scheduled[k]] >= t
  <2> SUFFICES ASSUME NEW i \in 1 .. k - 1 PROVE runAt[scheduled[i]] < t
    BY <1>0
  <2>1. i \in 1 .. n /\ k - 1 \in 1 .. n /\ runAt[scheduled[k - 1]] < t
    BY <1>0, <1>2
  <2>2. runAt[scheduled[i]] \in Int /\ runAt[scheduled[k - 1]] \in Int
    BY <1>2, <2>1
  <2>3. i = k - 1 \/ runAt[scheduled[i]] <= runAt[scheduled[k - 1]]
    BY <1>2, <1>5, <2>1
  <2>4. QED
    BY <2>1, <2>2, <2>3
<1>7. \A x \in 1 .. n + 1 : x # k =>
          old(x) \in 1 .. n /\ runAt'[scheduled'[x]] = runAt[scheduled[old(x)]]
  <2>1. \A x \in 1 .. n + 1 : x # k =>
            old(x) \in 1 .. n /\ scheduled'[x] = scheduled[old(x)]
    BY <1>1, <1>2, <1>3
  <2>2. QED
    BY <1>4, <2>1
<1>8. \A i \in k .. n : runAt[scheduled[i]] >= t
  <2> SUFFICES ASSUME NEW i \in k .. n PROVE runAt[scheduled[i]] >= t
    OBVIOUS
  <2>1. i \in 1 .. n /\ k \in 1 .. n /\ runAt[scheduled[k]] >= t
    BY <1>1, <1>2
  <2>2. runAt[scheduled[i]] \in Int /\ runAt[scheduled[k]] \in Int
    BY <1>2, <2>1
  <2>3. i = k \/ runAt[scheduled[k]] <= runAt[scheduled[i]]
    BY <1>2, <1>5, <2>1
  <2>4. QED
    BY <2>1, <2>2, <2>3
<1>9. ASSUME NEW i \in 1 .. n + 1, NEW m \in 1 .. n + 1, i < m
      PROVE  runAt'[scheduled'[i]] <= runAt'[scheduled'[m]]
  <2>1. CASE i = k
    <3>1. m # k /\ old(m) \in k .. n
      BY <1>1, <1>2, <1>9, <2>1
    <3>2. runAt'[scheduled'[m]] = runAt[scheduled[old(m)]]
      BY <1>7, <3>1
    <3>3. runAt[scheduled[old(m)]] >= t /\ runAt[scheduled[old(m)]] \in Int
      BY <1>2, <1>7, <1>8, <3>1
    <3>4. scheduled'[i] = j
      BY <1>3, <2>1
    <3>5. QED
      BY <1>6, <3>2, <3>3, <3>4
  <2>2. CASE m = k
    <3>1. i # k /\ old(i) \in 1 .. k - 1
      BY <1>1, <1>2, <1>9, <2>2
    <3>2. runAt'[scheduled'[i]] = runAt[scheduled[old(i)]]
      BY <1>7, <3>1
    <3>3. runAt[scheduled[old(i)]] < t /\ runAt[scheduled[old(i)]] \in Int
      BY <1>1, <1>2, <1>7, <3>1
    <3>4. scheduled'[m] = j
      BY <1>3, <2>2
    <3>5. QED
      BY <1>6, <3>2, <3>3, <3>4
  <2>3. CASE i # k /\ m # k
    <3>1. old(i) \in 1 .. n /\ old(m) \in 1 .. n /\ old(i) < old(m)
      BY <1>1, <1>2, <1>7, <1>9, <2>3
    <3>2. QED
      BY <1>5, <1>7, <2>3, <3>1
  <2>4. QED
    BY <2>1, <2>2, <2>3
<1>10. QED
  BY <1>3, <1>9 DEF ScheduledSorted

\* Placing a job that is not on the list keeps the slice sorted.
LEMMA PlaceSorted ==
    ASSUME QueueTypeOK, NEW j \in Jobs, NEW t \in Int, Place(j, t),
           ~ InScheduled(j), ScheduledSorted
    PROVE  ScheduledSorted'
<1>1. CASE t <= now
  <2>1. scheduled' = scheduled /\ runAt' = [runAt EXCEPT ![j] = t]
    BY <1>1 DEF Place
  <2>2. \A i \in 1 .. Len(scheduled) : runAt'[scheduled[i]] = runAt[scheduled[i]]
    BY <2>1 DEF QueueTypeOK, InScheduled
  <2>3. QED
    BY <2>1, <2>2 DEF ScheduledSorted
<1>2. CASE ~ (t <= now)
  BY <1>2, InsertSorted DEF Place
<1>3. QED
  BY <1>1, <1>2

LEMMA PromoteSorted ==
    ASSUME QueueTypeOK, promoteReady, ScheduledSorted
    PROVE  ScheduledSorted'
<1> DEFINE n == DuePrefix(schedAt)
           l == Len(scheduled)
<1>1. /\ n \in 0 .. l /\ l \in Nat
      /\ Len(scheduled') = l - n
      /\ \A i \in 1 .. l - n : scheduled'[i] = scheduled[n + i]
  BY PromoteReadyProperties DEF QueueTypeOK
<1>2. runAt' = runAt
  BY DEF promoteReady, jobVars
<1>3. \A i, m \in 1 .. l : i < m => runAt[scheduled[i]] <= runAt[scheduled[m]]
  BY DEF ScheduledSorted
<1> HIDE DEF n, l
<1>4. \A i, m \in 1 .. l - n : i < m =>
          n + i \in 1 .. l /\ n + m \in 1 .. l /\ n + i < n + m
  BY <1>1
<1>5. \A i, m \in 1 .. l - n : i < m => runAt[scheduled[n + i]] <= runAt[scheduled[n + m]]
  BY <1>3, <1>4
<1>6. \A i, m \in 1 .. l - n : i < m => runAt'[scheduled'[i]] <= runAt'[scheduled'[m]]
  BY <1>1, <1>2, <1>5
<1>7. QED
  BY <1>1, <1>6 DEF ScheduledSorted

\* An assignment that leaves the history empty is to a job that the queue does
\* not have.
LEMMA NotRewritten ==
    ASSUME TypeOK, JobInOnePlace, NEW j \in Jobs, NEW at, SetRunAt(j, at),
           j \notin rewritten'
    PROVE  j \notin pending /\ ~ InScheduled(j) /\ ~ HeldBySome(j)
<1>1. j \notin all
  BY DEF SetRunAt
<1>2. QED
  BY <1>1 DEF JobInOnePlace, QueuedWhileWaiting, HeldWhileProcessing, DeadInDLQ

\* As long as no accepted job had its RunAt overwritten, every step keeps
\* the slice sorted.
LEMMA NextSorted ==
    ASSUME TypeOK, JobInOnePlace, ScheduledSorted, [Next]_vars, rewritten' = {}
    PROVE  ScheduledSorted'
<1>1. ASSUME UNCHANGED <<scheduled, runAt>> PROVE ScheduledSorted'
  BY <1>1 DEF ScheduledSorted
<1>2. CASE Taken
  BY <1>1, <1>2 DEF Taken, Dequeue, popPending
<1>3. CASE Settled
  BY <1>1, <1>3 DEF Settled, dead, complete, lists
<1>4. CASE Retried
  <2>1. PICK w \in Workers, d \in Int :
            wpc[w] = "running" /\ BackToLoop(w) /\ requeue(holds[w], d)
    BY <1>4 DEF Retried
  <2>2. PICK j \in Jobs : j = holds[w] /\ status[j] = "processing"
    BY <2>1, HandsAfterBackToLoop DEF JobInOnePlace, InHand
  <2>3. ~ InScheduled(j)
    BY <2>2 DEF JobInOnePlace, QueuedWhileWaiting
  <2>4. PICK t \in Int : t = now + d
    BY QueueAssumption DEF TypeOK, QueueTypeOK
  <2>5. Place(j, t)
    BY <2>1, <2>2, <2>4 DEF requeue
  <2>6. QED
    BY <2>3, <2>5, PlaceSorted DEF TypeOK
<1>5. CASE Submitted
  <2>1. PICK j \in Jobs, at \in Int : Enqueue(j, at)
    BY <1>5 DEF Submitted
  <2> DEFINE t == IF at = 0 THEN now ELSE at
  <2>2. ~ InScheduled(j) /\ Place(j, t) /\ t \in Int
    BY <2>1, QueueAssumption
    DEF Enqueue, JobInOnePlace, QueuedWhileWaiting, TypeOK, QueueTypeOK
  <2> HIDE DEF t
  <2>3. PICK u \in Int : u = t
    BY <2>2
  <2>4. QED
    BY <2>2, <2>3, PlaceSorted DEF TypeOK
<1>6. CASE Promoted
  BY <1>6, PromoteSorted DEF Promoted, TypeOK
<1>7. CASE Started
  BY <1>1, <1>7 DEF Started, StartHandler, queueVars
<1>8. CASE Quiet
  BY <1>1, <1>8 DEF Quiet, placeVars
<1>9. CASE Overwritten
  <2>1. PICK j \in Jobs, at \in Int : SetRunAt(j, at)
    BY <1>9 DEF Overwritten
  <2>2. ~ InScheduled(j) /\ UNCHANGED scheduled /\ runAt' = [runAt EXCEPT ![j] = at]
    BY <2>1, NotRewritten DEF SetRunAt, lists
  <2>3. \A i \in 1 .. Len(scheduled) : runAt'[scheduled[i]] = runAt[scheduled[i]]
    BY <2>2 DEF TypeOK, QueueTypeOK, InScheduled
  <2>4. QED
    BY <2>2, <2>3 DEF ScheduledSorted
<1>10. QED
  BY <1>2, <1>3, <1>4, <1>5, <1>6, <1>7, <1>8, <1>9, StepKinds

-----------------------------------------------------------------------------
(***************************************************************************)
(* The queue's promises about time and about retries.                      *)
(***************************************************************************)
\* The scheduler's timer is due no later than the head of a slice that is
\* sorted, or a reschedule signal is waiting for it.
TimerCoversHead ==
    sched = "parked" /\ scheduled # <<>> =>
        reschedule \/ schedAt <= runAt[scheduled[1]] \/ schedAt <= now

\* A job off the scheduled list may change its RunAt without the list's
\* entries noticing.
LEMMA HeadUntouched ==
    ASSUME QueueTypeOK, NEW j \in Jobs, NEW t \in Int, ~ InScheduled(j), Place(j, t)
    PROVE  \/ reschedule'
           \/ /\ scheduled' = scheduled /\ reschedule' = reschedule
              /\ scheduled # <<>> => runAt'[scheduled[1]] = runAt[scheduled[1]]
<1>1. CASE t <= now
  <2>1. scheduled # <<>> => 1 \in 1 .. Len(scheduled)
    BY DEF QueueTypeOK
  <2>2. scheduled # <<>> => scheduled[1] # j /\ scheduled[1] \in Jobs
    BY <2>1 DEF InScheduled, QueueTypeOK
  <2>3. QED
    BY <1>1, <2>2 DEF Place, QueueTypeOK
<1>2. CASE ~ (t <= now)
  BY <1>2 DEF Place
<1>3. QED
  BY <1>1, <1>2

\* A step that keeps the timer, may set the reschedule signal and moves no
\* RunAt at the head keeps the timer covering the head.
LEMMA TimerKept ==
    ASSUME TimerCoversHead, TypeOK, UNCHANGED schedVars, now' \in Int, now <= now',
           \/ reschedule'
           \/ /\ scheduled' = scheduled /\ reschedule' = reschedule
              /\ scheduled # <<>> => runAt'[scheduled[1]] = runAt[scheduled[1]]
    PROVE  TimerCoversHead'
<1>1. CASE reschedule'
  BY <1>1 DEF TimerCoversHead
<1>2. CASE /\ scheduled' = scheduled /\ reschedule' = reschedule
           /\ scheduled # <<>> => runAt'[scheduled[1]] = runAt[scheduled[1]]
  <2>1. sched' = sched /\ schedAt' = schedAt
    BY DEF schedVars
  <2>2. schedAt <= now => schedAt <= now'
    BY DEF TypeOK, QueueTypeOK
  <2>3. QED
    BY <1>2, <2>1, <2>2, Zenon DEF TimerCoversHead
<1>3. QED
  BY <1>1, <1>2

LEMMA NextTimer ==
    ASSUME TypeOK, JobInOnePlace, TimerCoversHead, [Next]_vars, rewritten' = {}
    PROVE  TimerCoversHead'
<1>0. now \in Int /\ QueueTypeOK
  BY DEF TypeOK, QueueTypeOK
<1>1. ASSUME UNCHANGED <<schedVars, now, scheduled, reschedule, runAt>> PROVE TimerCoversHead'
  BY <1>0, <1>1, TimerKept
<1>2. ASSUME NEW w \in Workers, WorkerStep(w) PROVE TimerCoversHead'
  <2>1. CASE DequeueClosed(w) \/ Park(w) \/ LeaveSelect(w) \/ StartHandler(w)
    BY <1>1, <2>1 DEF DequeueClosed, Park, LeaveSelect, StartHandler, queueVars, schedVars
  <2>2. CASE Wake(w)
    BY <1>1, <2>2 DEF Wake, jobVars, lists
  <2>3. CASE Dequeue(w)
    BY <1>1, <2>3 DEF Dequeue, popPending, signals
  <2>4. ASSUME dead(holds[w]) \/ complete(holds[w]) PROVE TimerCoversHead'
    BY <1>1, <2>4 DEF dead, complete, lists, signals
  <2>5. CASE HandlerErr(w) /\ attempt[holds[w]] < EffectiveMax(holds[w])
    <3>1. PICK d \in Int : d = Backoff[attempt[holds[w]]]
      BY <2>5, RetryDelayType DEF HandlerErr
    <3>2. requeue(holds[w], d) /\ BackToLoop(w) /\ wpc[w] \in InHand
      BY <2>5, <3>1 DEF HandlerErr, InHand
    <3>3. PICK j \in Jobs : j = holds[w] /\ status[j] = "processing"
      BY <3>2, HandsAfterBackToLoop DEF JobInOnePlace
    <3>4. PICK t \in Int : t = now + d
      BY <1>0
    <3>5. ~ InScheduled(j) /\ Place(j, t) /\ UNCHANGED <<schedVars, now>>
      BY <3>2, <3>3, <3>4 DEF requeue, JobInOnePlace, QueuedWhileWaiting
    <3>6. QED
      BY <1>0, <3>5, HeadUntouched, TimerKept
  <2>6. QED
    BY <1>2, <2>1, <2>2, <2>3, <2>4, <2>5 DEF WorkerStep, NoHandler, HandlerOk, HandlerErr
<1>3. ASSUME NEW t \in Types, Register(t) PROVE TimerCoversHead'
  BY <1>1, <1>3 DEF Register, queueVars, schedVars
<1>4. CASE SchedulerStep
  <2>1. CASE ArmTimer
    <3>1. \/ scheduled = <<>>
          \/ schedAt' = now
          \/ schedAt' = runAt[scheduled[1]]
      BY <2>1 DEF ArmTimer
    <3>2. scheduled' = scheduled /\ runAt' = runAt /\ now' = now
      BY <2>1 DEF ArmTimer, lists, jobVars
    <3>3. scheduled # <<>> => runAt[scheduled[1]] \in Int
      BY DEF TypeOK, QueueTypeOK
    <3>4. QED
      BY <1>0, <3>1, <3>2, <3>3 DEF TimerCoversHead
  <2>2. CASE TimerFires \/ Rescheduled \/ SchedulerStops \/ promoteReady \/ PingPromoted
    <3>1. sched' # "parked"
      BY <2>2 DEF TimerFires, Rescheduled, SchedulerStops, promoteReady, PingPromoted
    <3>2. QED
      BY <3>1 DEF TimerCoversHead
  <2>3. QED
    BY <1>4, <2>1, <2>2 DEF SchedulerStep
<1>5. ASSUME NEW j \in Jobs, NEW at \in Int, Enqueue(j, at) PROVE TimerCoversHead'
  <2>1. PICK t \in Int : t = IF at = 0 THEN now ELSE at
    BY <1>0
  <2>2. ~ InScheduled(j) /\ Place(j, t) /\ UNCHANGED <<schedVars, now>>
    BY <1>5, <2>1 DEF Enqueue, JobInOnePlace, QueuedWhileWaiting
  <2>3. QED
    BY <1>0, <2>2, HeadUntouched, TimerKept
<1>6. CASE ClientStep
  <2>1. \A at \in Times : at \in Int /\ now + at \in Int
    BY <1>0, QueueAssumption DEF Times
  <2>2. CASE Close \/ Cancel
    BY <1>1, <2>2 DEF Close, Cancel, jobVars, lists, signals
  <2>3. ASSUME NEW j \in Jobs, NEW at \in Int, SetRunAt(j, at) PROVE TimerCoversHead'
    <3>1. ~ InScheduled(j)
      BY <2>3, NotRewritten
    <3>2. scheduled # <<>> => scheduled[1] # j /\ scheduled[1] \in Jobs
      BY <1>0, <3>1 DEF InScheduled, QueueTypeOK
    <3>3. UNCHANGED <<schedVars, now, scheduled, reschedule>>
      BY <2>3 DEF SetRunAt, lists, signals
    <3>4. scheduled # <<>> => runAt'[scheduled[1]] = runAt[scheduled[1]]
      BY <1>0, <2>3, <3>2 DEF SetRunAt, QueueTypeOK
    <3>5. QED
      BY <1>0, <3>3, <3>4, TimerKept
  <2>4. QED
    BY <1>5, <1>6, <2>1, <2>2, <2>3 DEF ClientStep, Schedule, ScheduleAt
<1>7. CASE Tick
  BY <1>0, <1>7, TimerKept DEF Tick, jobVars, lists, signals
<1>8. CASE UNCHANGED vars
  BY <1>1, <1>8 DEF vars, queueVars, schedVars
<1>9. QED
  BY <1>2, <1>3, <1>4, <1>6, <1>7, <1>8 DEF Next

\* Both facts, for the part of a behaviour before the first overwriting.
Timely == rewritten = {} => ScheduledSorted /\ TimerCoversHead

\* In a sorted slice a timer that covers the head covers every entry.
LEMMA TimelyCoversAll == TypeOK /\ Timely => NeverOversleeps
<1> SUFFICES ASSUME TypeOK, ScheduledSorted, TimerCoversHead, sched = "parked",
                    NEW i \in 1 .. Len(scheduled)
             PROVE  reschedule \/ schedAt <= runAt[scheduled[i]] \/ schedAt <= now
  BY DEF Timely, NeverOversleeps
<1>1. scheduled \in Seq(Jobs) /\ runAt \in [Jobs -> Int] /\ schedAt \in Int
  BY DEF TypeOK, QueueTypeOK
<1>2. scheduled # <<>> /\ 1 \in 1 .. Len(scheduled)
  BY <1>1
<1>3. runAt[scheduled[1]] \in Int /\ runAt[scheduled[i]] \in Int
  BY <1>1, <1>2
<1>4. i = 1 \/ runAt[scheduled[1]] <= runAt[scheduled[i]]
  BY <1>1, <1>2 DEF ScheduledSorted
<1>5. QED
  BY <1>1, <1>2, <1>3, <1>4 DEF TimerCoversHead

\* Until a second Schedule overwrites the RunAt of a job that the queue has,
\* insertions, retries and promotions in any order keep the slice sorted by
\* RunAt (queue.go:144), and the scheduler never sleeps past the RunAt of any
\* job on it without a reschedule signal waiting for it (runScheduler).
THEOREM SchedulerNeverOversleeps == Spec => []NeverOversleeps
<1>1. Init => Timely
  BY DEF Init, QueueInit, Timely, ScheduledSorted, TimerCoversHead
<1>2. ASSUME TypeOK, JobInOnePlace, Timely, [Next]_vars PROVE Timely'
  <2>1. rewritten' = {} => rewritten = {}
    BY <1>2, RewrittenGrows
  <2>2. QED
    BY <1>2, <2>1, NextSorted, NextTimer DEF Timely
<1>3. TypeOK /\ JobInOnePlace /\ Timely /\ [Next]_vars
        => (TypeOK /\ JobInOnePlace /\ Timely)'
  BY <1>2, NextType, NextPlaces
<1>4. QED
  BY InitType, InitPlaces, <1>1, <1>3, TimelyCoversAll, PTL DEF Spec
-----------------------------------------------------------------------------
\* NeverEarly needs to know that promoteReady works with an instant it read
\* from the clock earlier.
ReadInPast == sched = "promote" => schedAt <= now

LEMMA NextReadInPast ==
    ASSUME TypeOK, ReadInPast, [Next]_vars
    PROVE  ReadInPast' /\ now' \in Int /\ now <= now'
<1>0. now \in Int /\ schedAt \in Int
  BY DEF TypeOK, QueueTypeOK
<1> USE DEF schedVars, queueVars, workerVars, vars
<1>1. CASE Tick
  BY <1>0, <1>1 DEF Tick, ReadInPast
<1>2. CASE TimerFires
  BY <1>0, <1>2 DEF TimerFires, ReadInPast
<1>3. CASE ArmTimer \/ Rescheduled \/ SchedulerStops \/ promoteReady \/ PingPromoted
  BY <1>0, <1>3
  DEF ArmTimer, Rescheduled, SchedulerStops, promoteReady, PingPromoted, ReadInPast
<1>4. ASSUME UNCHANGED <<now, schedVars>> PROVE ReadInPast' /\ now' \in Int /\ now <= now'
  BY <1>0, <1>4 DEF ReadInPast
<1>5. ASSUME NEW w \in Workers, WorkerStep(w) PROVE UNCHANGED <<now, schedVars>>
  BY <1>5
  DEF WorkerStep, Dequeue, DequeueClosed, Park, Wake, LeaveSelect, NoHandler,
      StartHandler, HandlerOk, HandlerErr, popPending, dead, complete, requeue
<1>6. ASSUME ClientStep \/ (\E t \in Types : Register(t)) \/ UNCHANGED vars
      PROVE  UNCHANGED <<now, schedVars>>
  BY <1>6 DEF ClientStep, Schedule, ScheduleAt, Enqueue, SetRunAt, Close, Cancel, Register
<1>7. QED
  BY <1>1, <1>2, <1>3, <1>4, <1>5, <1>6 DEF Next, SchedulerStep

\* What may run now: the jobs on the heap and the jobs in hand.
Runnable(j) == j \in pending \/ HeldBySome(j)

LEMMA NextNeverEarly ==
    ASSUME TypeOK, JobInOnePlace, ReadInPast, NeverEarly, [Next]_vars
    PROVE  NeverEarly'
<1>0. /\ now \in Int /\ now' \in Int /\ now <= now' /\ schedAt \in Int
      /\ QueueTypeOK /\ runAt \in [Jobs -> Int]
      /\ \A j \in Jobs \ rewritten : Runnable(j) => runAt[j] <= now
      /\ rewritten \subseteq rewritten'
  BY NextReadInPast, RewrittenGrows DEF TypeOK, QueueTypeOK, NeverEarly, Runnable
<1>1. ASSUME UNCHANGED runAt, \A j \in Jobs : Runnable(j)' => Runnable(j)
      PROVE  NeverEarly'
  BY <1>0, <1>1 DEF NeverEarly, Runnable
<1>2. ASSUME NEW j \in Jobs, NEW t \in Int, Place(j, t), now' = now,
             ~ InScheduled(j), j \notin pending,
             \A i \in Jobs : HeldBySome(i)' => HeldBySome(i) /\ i # j
      PROVE  NeverEarly'
  <2>1. /\ \A i \in Jobs \ {j} : i \in pending' <=> i \in pending
        /\ j \in pending' <=> t <= now
    BY <1>0, <1>2, PlaceContents DEF JobInOnePlace
  <2>2. \A i \in Jobs : runAt'[i] = IF i = j THEN t ELSE runAt[i]
    BY <1>0, <1>2 DEF Place
  <2>3. QED
    BY <1>0, <1>2, <2>1, <2>2 DEF NeverEarly, Runnable
<1>3. CASE Taken
  <2>1. PICK w \in Workers, j \in pending : popPending(j) /\ holds' = [holds EXCEPT ![w] = j]
    BY <1>3 DEF Taken, Dequeue
  <2>2. \A v \in Workers : holds'[v] = holds[v] \/ holds'[v] = j
    BY <2>1 DEF TypeOK, DispatcherTypeOK
  <2>3. \A i \in Jobs : HeldBySome(i)' => HeldBySome(i) \/ i \in pending
    BY <2>2 DEF HeldBySome
  <2>4. pending' \subseteq pending /\ runAt' = runAt
    BY <2>1 DEF popPending
  <2>5. QED
    BY <1>1, <2>3, <2>4 DEF Runnable
<1>4. CASE Settled
  <2>1. PICK w \in Workers : /\ wpc[w] \in InHand /\ BackToLoop(w)
                             /\ dead(holds[w]) \/ complete(holds[w])
    BY <1>4 DEF Settled
  <2>2. \A j \in Jobs : HeldBySome(j)' => HeldBySome(j)
    BY <2>1, HandsAfterBackToLoop DEF JobInOnePlace
  <2>3. pending' = pending /\ runAt' = runAt
    BY <2>1 DEF dead, complete, lists
  <2>4. QED
    BY <1>1, <2>2, <2>3 DEF Runnable
<1>5. CASE Retried
  <2>1. PICK w \in Workers, d \in Int :
            wpc[w] \in InHand /\ BackToLoop(w) /\ requeue(holds[w], d)
    BY <1>5 DEF Retried, InHand
  <2>2. PICK j \in Jobs : /\ j = holds[w] /\ status[j] = "processing"
                          /\ \A i \in Jobs : HeldBySome(i)' => HeldBySome(i) /\ i # j
    BY <2>1, HandsAfterBackToLoop DEF JobInOnePlace
  <2>3. PICK t \in Int : t = now + d
    BY <1>0
  <2>4. ~ InScheduled(j) /\ j \notin pending
    BY <2>2 DEF JobInOnePlace, QueuedWhileWaiting
  <2>5. Place(j, t) /\ now' = now
    BY <2>1, <2>2, <2>3 DEF requeue
  <2>6. QED
    BY <1>2, <2>2, <2>4, <2>5
<1>6. CASE Submitted
  <2>1. PICK j \in Jobs, at \in Int : Enqueue(j, at) /\ UNCHANGED workerVars
    BY <1>6 DEF Submitted
  <2>2. PICK t \in Int : t = IF at = 0 THEN now ELSE at
    BY <1>0
  <2>3. Place(j, t) /\ now' = now /\ j \notin all
    BY <2>1, <2>2 DEF Enqueue
  <2>4. ~ InScheduled(j) /\ j \notin pending /\ ~ HeldBySome(j)
    BY <2>3 DEF JobInOnePlace, QueuedWhileWaiting, HeldWhileProcessing, DeadInDLQ
  <2>5. \A i \in Jobs : HeldBySome(i)' => HeldBySome(i) /\ i # j
    BY <2>1, <2>4 DEF workerVars, HeldBySome
  <2>6. QED
    BY <1>2, <2>3, <2>4, <2>5
<1>7. CASE Promoted
  <2> DEFINE n == DuePrefix(schedAt)
  <2>1. /\ n \in 0 .. Len(scheduled)
        /\ \A i \in 1 .. n : runAt[scheduled[i]] <= schedAt
        /\ pending' = pending \union {scheduled[i] : i \in 1 .. n}
    BY <1>0, <1>7, DuePrefixProperties, PromoteReadyProperties DEF Promoted
  <2>2. runAt' = runAt /\ holds' = holds /\ now' = now /\ schedAt <= now
    BY <1>7 DEF Promoted, promoteReady, jobVars, workerVars, ReadInPast
  <2> HIDE DEF n
  <2>3. \A i \in 1 .. n : scheduled[i] \in Jobs
    BY <1>0, <2>1 DEF QueueTypeOK
  <2>4. \A i \in 1 .. n : runAt[scheduled[i]] <= now
    BY <1>0, <2>1, <2>2, <2>3
  <2>5. \A j \in Jobs : HeldBySome(j)' <=> HeldBySome(j)
    BY <2>2 DEF HeldBySome
  <2>6. \A j \in Jobs \ rewritten : j \in pending' => runAt[j] <= now
    BY <1>0, <2>1, <2>4 DEF Runnable
  <2>7. QED
    BY <1>0, <2>2, <2>5, <2>6 DEF NeverEarly, Runnable
<1>8. CASE Started \/ Quiet
  <2>1. UNCHANGED <<runAt, pending, holds>>
    BY <1>8 DEF Started, StartHandler, queueVars, Quiet, placeVars
  <2>2. QED
    BY <1>1, <2>1 DEF Runnable, HeldBySome
<1>9. CASE Overwritten
  <2>1. PICK j \in Jobs, at \in Int : SetRunAt(j, at) /\ UNCHANGED workerVars
    BY <1>9 DEF Overwritten
  <2>2. UNCHANGED <<now, pending, holds>> /\ runAt' = [runAt EXCEPT ![j] = at]
    BY <2>1 DEF SetRunAt, lists, workerVars
  <2>3. \A i \in Jobs : Runnable(i)' <=> Runnable(i)
    BY <2>2 DEF Runnable, HeldBySome
  <2>4. j \notin rewritten' => ~ Runnable(j)
    BY <2>1, NotRewritten DEF Runnable
  <2>5. \A i \in Jobs : i # j => runAt'[i] = runAt[i]
    BY <1>0, <2>2
  <2>6. QED
    BY <1>0, <2>2, <2>3, <2>4, <2>5 DEF NeverEarly, Runnable
<1>10. QED
  BY <1>3, <1>4, <1>5, <1>6, <1>7, <1>8, <1>9, StepKinds

\* No handler is started, and no job is on the heap, before the job's RunAt,
\* first attempts and retries alike, and whatever a second Schedule did to
\* the RunAt of other jobs or to the order of the lists.
THEOREM NeverRunsEarly == Spec => []NeverEarly
<1>1. Init => ReadInPast /\ NeverEarly
  BY DispatcherAssumption DEF Init, QueueInit, ReadInPast, NeverEarly, HeldBySome
<1>2. TypeOK /\ JobInOnePlace /\ ReadInPast /\ NeverEarly /\ [Next]_vars
        => (TypeOK /\ JobInOnePlace /\ ReadInPast /\ NeverEarly)'
  BY NextType, NextPlaces, NextReadInPast, NextNeverEarly
<1>3. QED
  BY InitType, InitPlaces, <1>1, <1>2, PTL DEF Spec
-----------------------------------------------------------------------------
\* The strengthening that makes AttemptsBounded inductive: a job nobody ran
\* has no attempts, and a job about to run has one left.
AttemptsLeft ==
    /\ \A j \in Jobs : status[j] = "pending" => attempt[j] = 0
    /\ \A w \in Workers : wpc[w] = "picked" => attempt[holds[w]] < EffectiveMax(holds[w])

LEMMA EffectiveMaxPositive == \A j \in Jobs : EffectiveMax(j) \in Nat /\ EffectiveMax(j) >= 1
BY QueueAssumption DEF EffectiveMax

LEMMA NextAttempts ==
    ASSUME TypeOK, JobInOnePlace, AttemptsLeft, AttemptsBounded, [Next]_vars
    PROVE  AttemptsLeft' /\ AttemptsBounded'
<1>0. /\ status \in [Jobs -> Status] /\ attempt \in [Jobs -> Nat]
      /\ holds \in [Workers -> Jobs \union {NoJob}] /\ NoJob \notin Jobs
      /\ DOMAIN wpc = Workers
      /\ \A w \in Workers : wpc[w] \in InHand => holds[w] \in Jobs
  BY DispatcherAssumption DEF TypeOK, QueueTypeOK, DispatcherTypeOK
<1>1. ASSUME UNCHANGED <<status, attempt, holds>>,
             \A w \in Workers : wpc'[w] = "picked" => wpc[w] = "picked"
      PROVE  AttemptsLeft' /\ AttemptsBounded'
  BY <1>1 DEF AttemptsLeft, AttemptsBounded, EffectiveMax
<1>2. ASSUME NEW w \in Workers, wpc[w] \in InHand, BackToLoop(w), UNCHANGED attempt,
             NEW st \in {"completed", "dead", "failed"},
             status' = [status EXCEPT ![holds[w]] = st],
             st = "failed" => attempt[holds[w]] \in 1 .. EffectiveMax(holds[w]) - 1
      PROVE  AttemptsLeft' /\ AttemptsBounded'
  <2>1. PICK j \in Jobs : j = holds[w]
    BY <1>0, <1>2
  <2>2. \A i \in Jobs : status'[i] = IF i = j THEN st ELSE status[i]
    BY <1>0, <1>2, <2>1
  <2>3. \A v \in Workers : v # w => wpc'[v] = wpc[v] /\ holds'[v] = holds[v]
    BY <1>0, <1>2 DEF BackToLoop
  <2>4. wpc'[w] = "loop"
    BY <1>0, <1>2 DEF BackToLoop
  <2>5. AttemptsLeft'
    BY <1>2, <2>2, <2>3, <2>4 DEF AttemptsLeft, EffectiveMax
  <2>6. AttemptsBounded'
    BY <1>2, <2>1, <2>2 DEF AttemptsBounded, EffectiveMax
  <2>7. QED
    BY <2>5, <2>6
<1>3. CASE Taken
  <2>1. PICK w \in Workers, j \in pending :
            popPending(j) /\ Dequeue(w) /\ holds' = [holds EXCEPT ![w] = j]
    BY <1>3 DEF Taken, Dequeue
  <2>2. j \in Jobs /\ status[j] \in {"pending", "failed"}
    BY <2>1 DEF JobInOnePlace, QueuedWhileWaiting, TypeOK, QueueTypeOK
  <2>3. attempt[j] < EffectiveMax(j)
    BY <1>0, <2>2, EffectiveMaxPositive DEF AttemptsLeft, AttemptsBounded
  <2>4. \A i \in Jobs : status'[i] = IF i = j THEN "processing" ELSE status[i]
    BY <1>0, <2>1, <2>2 DEF popPending
  <2>5. /\ attempt' = attempt
        /\ \A v \in Workers : v # w => wpc'[v] = wpc[v] /\ holds'[v] = holds[v]
        /\ holds'[w] = j
    BY <1>0, <2>1 DEF Dequeue
  <2>6. AttemptsLeft'
    BY <2>3, <2>4, <2>5 DEF AttemptsLeft, EffectiveMax
  <2>7. AttemptsBounded'
    BY <2>4, <2>5 DEF AttemptsBounded, EffectiveMax
  <2>8. QED
    BY <2>6, <2>7
<1>4. CASE Settled
  BY <1>2, <1>4 DEF Settled, dead, complete
<1>5. CASE Retried
  <2>1. PICK w \in Workers, d \in Int :
            /\ wpc[w] = "running" /\ BackToLoop(w) /\ requeue(holds[w], d)
            /\ attempt[holds[w]] < EffectiveMax(holds[w]) /\ UNCHANGED attempt
    BY <1>5 DEF Retried
  <2>2. holds[w] \in Jobs /\ attempt[holds[w]] \in Nat /\ attempt[holds[w]] >= 1
    BY <1>0, <2>1 DEF TypeOK, DispatcherTypeOK, InHand
  <2>3. attempt[holds[w]] \in 1 .. EffectiveMax(holds[w]) - 1
    BY <2>1, <2>2, EffectiveMaxPositive
  <2>4. QED
    BY <1>2, <2>1, <2>3 DEF requeue, InHand
<1>6. CASE Submitted
  <2>1. PICK j \in Jobs, at \in Int : Enqueue(j, at) /\ UNCHANGED workerVars
    BY <1>6 DEF Submitted
  <2>2. status[j] = "pending"
    BY <2>1 DEF Enqueue, JobInOnePlace, DeadInDLQ
  <2>3. status' = status
    BY <1>0, <2>1, <2>2 DEF Enqueue
  <2>4. QED
    BY <1>1, <2>1, <2>3 DEF workerVars
<1>7. CASE Promoted
  BY <1>1, <1>7 DEF Promoted, promoteReady, jobVars, workerVars
<1>8. CASE Started
  <2>1. PICK w \in Workers : StartHandler(w)
    BY <1>8 DEF Started
  <2>2. PICK j \in Jobs : j = holds[w]
    BY <1>0, <2>1 DEF StartHandler, InHand
  <2>3. /\ \A i \in Jobs : attempt'[i] = IF i = j THEN attempt[j] + 1 ELSE attempt[i]
        /\ status' = status /\ holds' = holds
        /\ \A v \in Workers : v # w => wpc'[v] = wpc[v]
        /\ wpc'[w] = "running" /\ wpc[w] = "picked"
    BY <1>0, <2>1, <2>2 DEF StartHandler, queueVars
  <2>4. attempt[j] < EffectiveMax(j) /\ status[j] = "processing"
    BY <2>2, <2>3 DEF AttemptsLeft, JobInOnePlace, HeldWhileProcessing, HeldBySome
  <2>5. \A v \in Workers : v # w => holds[v] # j
    BY <1>0, <2>2 DEF JobInOnePlace, HeldWhileProcessing
  <2>6. \A v \in Workers : wpc'[v] = "picked" =>
            v # w /\ wpc[v] = "picked" /\ holds'[v] \in Jobs \ {j} /\ holds'[v] = holds[v]
    BY <1>0, <2>3, <2>5 DEF InHand
  <2>7. AttemptsLeft'
    BY <2>3, <2>4, <2>6 DEF AttemptsLeft, EffectiveMax
  <2>8. AttemptsBounded'
    <3> SUFFICES ASSUME NEW i \in Jobs
                 PROVE  /\ attempt'[i] <= EffectiveMax(i)
                        /\ status'[i] = "failed" =>
                              attempt'[i] \in 1 .. EffectiveMax(i) - 1
      BY DEF AttemptsBounded, EffectiveMax
    <3>1. CASE i = j
      BY <1>0, <2>3, <2>4, <3>1, EffectiveMaxPositive
    <3>2. CASE i # j
      BY <2>3, <3>2 DEF AttemptsBounded
    <3>3. QED
      BY <3>1, <3>2
  <2>9. QED
    BY <2>7, <2>8
<1>9. CASE Quiet
  <2>1. UNCHANGED <<status, attempt, holds>>
    BY <1>9 DEF Quiet, placeVars
  <2>2. ASSUME NEW v \in Workers, wpc'[v] = "picked", wpc[v] # "picked"
        PROVE  holds'[v] # holds[v]
    <3>1. ASSUME NEW w \in Workers, WorkerStep(w) PROVE holds'[v] # holds[v]
      <4>1. CASE Dequeue(w)
        <5>1. holds[w] = NoJob /\ wpc[w] = "loop"
          BY <4>1 DEF Dequeue, TypeOK, DispatcherTypeOK, InHand
        <5>2. PICK j \in pending : holds' = [holds EXCEPT ![w] = j]
          BY <4>1 DEF Dequeue
        <5>3. j \in Jobs
          BY DEF TypeOK, QueueTypeOK
        <5>4. v = w
          BY <1>0, <2>2, <4>1 DEF Dequeue
        <5>5. QED
          BY <1>0, <5>1, <5>2, <5>3, <5>4
      <4>2. CASE ~ Dequeue(w)
        BY <1>0, <2>2, <3>1, <4>2
        DEF WorkerStep, DequeueClosed, Park, Wake, LeaveSelect, NoHandler,
            StartHandler, HandlerOk, HandlerErr, BackToLoop
      <4>3. QED
        BY <4>1, <4>2
    <3>2. CASE UNCHANGED wpc
      BY <2>2, <3>2
    <3>3. QED
      BY <3>1, <3>2 DEF Next, Register, workerVars, vars
  <2>3. QED
    BY <1>1, <2>1, <2>2
<1>10. CASE Overwritten
  BY <1>1, <1>10 DEF Overwritten, SetRunAt, workerVars
<1>11. QED
  BY <1>3, <1>4, <1>5, <1>6, <1>7, <1>8, <1>9, <1>10, StepKinds

\* A job's handler runs at most MaxAttempts times (once when the caller left
\* MaxAttempts unset), whatever the interleaving of workers and retries.
THEOREM AttemptsStayBounded == Spec => []AttemptsBounded
<1>1. Init => AttemptsLeft /\ AttemptsBounded
  BY EffectiveMaxPositive DEF Init, QueueInit, AttemptsLeft, AttemptsBounded
<1>2. TypeOK /\ JobInOnePlace /\ AttemptsLeft /\ AttemptsBounded /\ [Next]_vars
        => (TypeOK /\ JobInOnePlace /\ AttemptsLeft /\ AttemptsBounded)'
  BY NextType, NextPlaces, NextAttempts
<1>3. QED
  BY InitType, InitPlaces, <1>1, <1>2, PTL DEF Spec
=============================================================================
