----------------------------- MODULE PoolProofs -----------------------------
(***************************************************************************)
(* What TLAPS proves about pkg/worker_pool.go for every number of workers, *)
(* every buffer size and every number of jobs, alone and in module         *)
(* ChannelPrograms.                                                        *)
(***************************************************************************)
EXTENDS ChannelPrograms, FiniteSetTheorems, TLAPS

(***************************************************************************)
(* The content of a channel: what Append, Head and Tail do to it.          *)
(***************************************************************************)
LEMMA InChanEmpty == InChan(<<>>) = {}
BY DEF InChan

LEMMA InChanConcat ==
    ASSUME NEW S, NEW s \in Seq(S), NEW t \in Seq(S)
    PROVE  InChan(s \o t) = InChan(s) \union InChan(t)
<1>1. /\ Len(s) \in Nat /\ Len(t) \in Nat
      /\ s \o t \in Seq(S) /\ Len(s \o t) = Len(s) + Len(t)
      /\ \A i \in 1 .. Len(s) + Len(t) :
            (s \o t)[i] = IF i <= Len(s) THEN s[i] ELSE t[i - Len(s)]
  OBVIOUS
<1>2. ASSUME NEW x \in InChan(s \o t) PROVE x \in InChan(s) \union InChan(t)
  <2>1. PICK i \in 1 .. Len(s) + Len(t) : x = (s \o t)[i]
    BY <1>1, <1>2 DEF InChan
  <2>2. CASE i <= Len(s)
    BY <1>1, <2>1, <2>2 DEF InChan
  <2>3. CASE ~ (i <= Len(s))
    <3>1. i - Len(s) \in 1 .. Len(t) /\ x = t[i - Len(s)]
      BY <1>1, <2>1, <2>3
    <3>2. QED
      BY <3>1 DEF InChan
  <2>4. QED
    BY <2>2, <2>3
<1>3. ASSUME NEW x \in InChan(s) PROVE x \in InChan(s \o t)
  <2>1. PICK i \in 1 .. Len(s) : x = s[i]
    BY <1>3 DEF InChan
  <2>2. i \in 1 .. Len(s) + Len(t) /\ (s \o t)[i] = x
    BY <1>1, <2>1
  <2>3. QED
    BY <1>1, <2>2 DEF InChan
<1>4. ASSUME NEW x \in InChan(t) PROVE x \in InChan(s \o t)
  <2>1. PICK i \in 1 .. Len(t) : x = t[i]
    BY <1>4 DEF InChan
  <2>2. /\ i + Len(s) \in 1 .. Len(s) + Len(t)
        /\ (s \o t)[i + Len(s)] = x
    BY <1>1, <2>1
  <2>3. QED
    BY <1>1, <2>2 DEF InChan
<1>5. QED
  BY <1>2, <1>3, <1>4

LEMMA InChanAppend ==
    ASSUME NEW S, NEW s \in Seq(S), NEW x \in S
    PROVE  /\ Append(s, x) \in Seq(S) /\ Len(Append(s, x)) = Len(s) + 1
           /\ InChan(Append(s, x)) = InChan(s) \union {x}
<1>1. /\ Append(s, x) \in Seq(S) /\ Len(Append(s, x)) = Len(s) + 1
      /\ Len(s) \in Nat
      /\ \A i \in 1 .. Len(s) + 1 :
            Append(s, x)[i] = IF i <= Len(s) THEN s[i] ELSE x
  OBVIOUS
<1>2. InChan(Append(s, x)) = {Append(s, x)[i] : i \in 1 .. Len(s) + 1}
  BY <1>1 DEF InChan
<1>3. \A i \in 1 .. Len(s) + 1 : Append(s, x)[i] \in InChan(s) \union {x}
  BY <1>1 DEF InChan
<1>4. \A i \in 1 .. Len(s) : s[i] \in InChan(Append(s, x))
  BY <1>1, <1>2
<1>5. x \in InChan(Append(s, x))
  BY <1>1, <1>2
<1>6. QED
  BY <1>1, <1>2, <1>3, <1>4, <1>5 DEF InChan

LEMMA InChanHeadTail ==
    ASSUME NEW S, NEW s \in Seq(S), s # <<>>
    PROVE  /\ Head(s) \in S /\ Tail(s) \in Seq(S)
           /\ Len(s) \in Nat \ {0} /\ Len(Tail(s)) = Len(s) - 1
           /\ InChan(s) = {Head(s)} \union InChan(Tail(s))
<1>1. /\ Head(s) \in S /\ Tail(s) \in Seq(S)
      /\ Len(s) \in Nat \ {0} /\ Len(Tail(s)) = Len(s) - 1
      /\ Head(s) = s[1]
      /\ \A i \in 1 .. Len(s) - 1 : Tail(s)[i] = s[i + 1]
  OBVIOUS
<1>2. ASSUME NEW x \in InChan(s) PROVE x \in {Head(s)} \union InChan(Tail(s))
  <2>1. PICK i \in 1 .. Len(s) : x = s[i]
    BY <1>2 DEF InChan
  <2>2. CASE i = 1
    BY <1>1, <2>1, <2>2
  <2>3. CASE i # 1
    <3>1. i - 1 \in 1 .. Len(Tail(s)) /\ x = Tail(s)[i - 1]
      BY <1>1, <2>1, <2>3
    <3>2. QED
      BY <3>1 DEF InChan
  <2>4. QED
    BY <2>2, <2>3
<1>3. Head(s) \in InChan(s)
  BY <1>1 DEF InChan
<1>4. ASSUME NEW x \in InChan(Tail(s)) PROVE x \in InChan(s)
  <2>1. PICK i \in 1 .. Len(s) - 1 : x = Tail(s)[i]
    BY <1>1, <1>4 DEF InChan
  <2>2. i + 1 \in 1 .. Len(s) /\ x = s[i + 1]
    BY <1>1, <2>1
  <2>3. QED
    BY <2>2 DEF InChan
<1>5. QED
  BY <1>1, <1>2, <1>3, <1>4

\* InChan of what the pool has seen, place by place.
LEMMA Everywhere ==
    ASSUME NEW r \in Seq(Jobs), NEW s \in Seq(Jobs), NEW q \in Seq(Jobs)
    PROVE  /\ InChan(r \o s \o q) = InChan(r) \union InChan(s) \union InChan(q)
           /\ Len(r \o s \o q) = Len(r) + Len(s) + Len(q)
<1>1. r \o s \in Seq(Jobs) /\ Len(r \o s) = Len(r) + Len(s)
  OBVIOUS
<1>2. Len((r \o s) \o q) = Len(r \o s) + Len(q)
  BY <1>1
<1>3. InChan(r \o s) = InChan(r) \union InChan(s)
  BY InChanConcat
<1>4. InChan((r \o s) \o q) = InChan(r \o s) \union InChan(q)
  <2> DEFINE rs == r \o s
  <2>1. rs \in Seq(Jobs)
    BY <1>1
  <2> HIDE DEF rs
  <2>2. InChan(rs \o q) = InChan(rs) \union InChan(q)
    BY <2>1, InChanConcat
  <2>3. QED
    BY <2>2 DEF rs
<1>5. QED
  BY <1>1, <1>2, <1>3, <1>4

-----------------------------------------------------------------------------
\* No send of worker_pool.go overfills the buffers of jobs and results, and
\* every variable keeps its range.
THEOREM PoolTyped == PoolSpec => []PoolTypeOK
<1>1. PoolInit => PoolTypeOK
  <2> SUFFICES ASSUME PoolInit PROVE PoolTypeOK
    OBVIOUS
  <2>2. <<>> \in Seq(Jobs) /\ Len(<<>>) = 0 /\ 0 <= JobBufferSize
    BY PoolAssumption
  <2>3. hand \in [Workers -> Jobs \union {Idle}]
    BY DEF PoolInit
  <2>4. numJobs \in 0 .. MaxJobs /\ submitted \in 0 .. numJobs
    BY PoolAssumption DEF PoolInit
  <2>5. QED
    BY <2>2, <2>3, <2>4 DEF PoolInit, PoolTypeOK
<1>2. PoolTypeOK /\ [PoolNext]_poolVars => PoolTypeOK'
  <2> SUFFICES ASSUME PoolTypeOK, [PoolNext]_poolVars PROVE PoolTypeOK'
    OBVIOUS
  <2> USE PoolAssumption
  <2>1. ASSUME NEW w \in Workers, TakeJob(w) PROVE PoolTypeOK'
    <3>1. Head(jobs) \in Jobs /\ Tail(jobs) \in Seq(Jobs)
          /\ Len(Tail(jobs)) = Len(jobs) - 1 /\ Len(jobs) \in Nat
      BY <2>1, InChanHeadTail DEF TakeJob, PoolTypeOK
    <3>2. QED
      BY <2>1, <3>1 DEF TakeJob, PoolTypeOK, caller
  <2>2. ASSUME NEW w \in Workers, SendResult(w) PROVE PoolTypeOK'
    <3>1. hand[w] \in Jobs
      BY <2>2 DEF SendResult, PoolTypeOK
    <3>2. Append(results, hand[w]) \in Seq(Jobs)
          /\ Len(Append(results, hand[w])) = Len(results) + 1 /\ Len(results) \in Nat
      BY <3>1, InChanAppend DEF PoolTypeOK
    <3>3. QED
      BY <2>2, <3>2 DEF SendResult, PoolTypeOK, caller
  <2>3. ASSUME NEW w \in Workers, WorkerDone(w) PROVE PoolTypeOK'
    BY <2>3 DEF WorkerDone, PoolTypeOK, caller, chans
  <2>4. ASSUME CloseResults PROVE PoolTypeOK'
    BY <2>4 DEF CloseResults, PoolTypeOK, caller
  <2>5. ASSUME Submit PROVE PoolTypeOK'
    <3>1. submitted + 1 \in Jobs /\ submitted + 1 \in 0 .. numJobs
      BY <2>5 DEF Submit, PoolTypeOK, Jobs
    <3>2. Append(jobs, submitted + 1) \in Seq(Jobs)
          /\ Len(Append(jobs, submitted + 1)) = Len(jobs) + 1 /\ Len(jobs) \in Nat
      BY <3>1, InChanAppend DEF PoolTypeOK
    <3>3. QED
      BY <2>5, <3>1, <3>2 DEF Submit, PoolTypeOK
  <2>6. ASSUME Done PROVE PoolTypeOK'
    BY <2>6 DEF Done, PoolTypeOK, caller
  <2>7. ASSUME ReceiveResult PROVE PoolTypeOK'
    <3>1. Head(results) \in Jobs /\ Tail(results) \in Seq(Jobs)
          /\ Len(Tail(results)) = Len(results) - 1 /\ Len(results) \in Nat
      BY <2>7, InChanHeadTail DEF ReceiveResult, PoolTypeOK
    <3>2. Append(received, Head(results)) \in Seq(Jobs)
      BY <3>1 DEF PoolTypeOK
    <3>3. QED
      BY <2>7, <3>1, <3>2 DEF ReceiveResult, PoolTypeOK
  <2>8. ASSUME Finish PROVE PoolTypeOK'
    BY <2>8 DEF Finish, PoolTypeOK, chans
  <2>9. ASSUME UNCHANGED poolVars PROVE PoolTypeOK'
    BY <2>9 DEF PoolTypeOK, poolVars, chans, caller
  <2>10. QED
    BY <2>1, <2>2, <2>3, <2>4, <2>5, <2>6, <2>7, <2>8, <2>9
       DEF PoolNext, WorkerStep, CallerStep, ReaderStep
<1>3. QED
  BY <1>1, <1>2, PTL DEF PoolSpec

-----------------------------------------------------------------------------
(***************************************************************************)
(* How the pool shuts down, in the order the code waits: Done closes jobs  *)
(* after the last Submit, a worker's range ends on a closed and drained    *)
(* channel, wg.Wait returns when every worker is gone, and the range over  *)
(* Results ends on a closed and drained channel.                           *)
(***************************************************************************)
ShutdownOrder ==
    /\ jobsClosed => submitted = numJobs
    /\ exited # {} => jobsClosed /\ jobs = <<>>
    /\ \A w \in exited : hand[w] = Idle
    /\ resultsClosed => exited = Workers
    /\ finished => resultsClosed /\ results = <<>>

PoolInv == PoolTypeOK /\ EveryJobOnce /\ ShutdownOrder

Hands == {hand[w] : w \in Holding}

\* EveryJobOnce, place by place.
LEMMA OnceByPlace ==
    ASSUME PoolTypeOK
    PROVE  EveryJobOnce <=>
              /\ Len(received) + Len(results) + Len(jobs) + Cardinality(Holding) = submitted
              /\ InChan(received) \union InChan(results) \union InChan(jobs) \union Hands
                   = 1 .. submitted
<1>1. received \in Seq(Jobs) /\ results \in Seq(Jobs) /\ jobs \in Seq(Jobs)
  BY DEF PoolTypeOK
<1>2. /\ InChan(received \o results \o jobs)
            = InChan(received) \union InChan(results) \union InChan(jobs)
      /\ Len(received \o results \o jobs) = Len(received) + Len(results) + Len(jobs)
  BY <1>1, Everywhere
<1>3. QED
  BY <1>2 DEF EveryJobOnce, Hands

LEMMA HoldingFinite ==
    IsFiniteSet(Holding) /\ Cardinality(Holding) \in Nat
<1>1. Holding \subseteq Workers
  BY DEF Holding
<1>2. IsFiniteSet(Holding)
  BY <1>1, PoolAssumption, FS_Subset
<1>3. QED
  BY <1>2, FS_CardinalityType

\* A worker that takes a job adds it to the hands.
LEMMA HandTaken ==
    ASSUME PoolTypeOK, NEW w \in Workers, NEW j \in Jobs, hand[w] = Idle,
           hand' = [hand EXCEPT ![w] = j]
    PROVE  /\ Cardinality(Holding') = Cardinality(Holding) + 1
           /\ Hands' = Hands \union {j}
<1>1. j # Idle
  BY PoolAssumption DEF Jobs, Idle
<1>2. /\ hand'[w] = j
      /\ \A v \in Workers : v # w => hand'[v] = hand[v]
  BY DEF PoolTypeOK
<1>3. Holding' = Holding \union {w} /\ w \notin Holding
  BY <1>1, <1>2 DEF Holding
<1>4. Cardinality(Holding') = Cardinality(Holding) + 1
  BY <1>3, HoldingFinite, FS_AddElement
<1>5. Hands' = Hands \union {j}
  BY <1>2, <1>3 DEF Hands, Holding
<1>6. QED
  BY <1>4, <1>5

\* A worker that sends its result takes its job out of the hands.
LEMMA HandEmptied ==
    ASSUME PoolTypeOK, NEW w \in Workers, hand[w] # Idle,
           hand' = [hand EXCEPT ![w] = Idle]
    PROVE  /\ Cardinality(Holding') = Cardinality(Holding) - 1
           /\ Hands = Hands' \union {hand[w]}
<1>1. /\ hand'[w] = Idle
      /\ \A v \in Workers : v # w => hand'[v] = hand[v]
  BY DEF PoolTypeOK
<1>2. Holding' = Holding \ {w} /\ w \in Holding
  BY <1>1 DEF Holding
<1>3. Cardinality(Holding') = Cardinality(Holding) - 1
  BY <1>2, HoldingFinite, FS_RemoveElement
<1>4. Hands = Hands' \union {hand[w]}
  BY <1>1, <1>2 DEF Hands, Holding
<1>5. QED
  BY <1>3, <1>4

LEMMA PoolInvInit == PoolInit => EveryJobOnce /\ ShutdownOrder
<1> SUFFICES ASSUME PoolInit PROVE EveryJobOnce /\ ShutdownOrder
  OBVIOUS
<1>1. Holding = {} /\ Hands = {}
  BY DEF PoolInit, Holding, Hands
<1>2. Cardinality(Holding) = 0
  BY <1>1, FS_EmptySet
<1>3. received \o results \o jobs = <<>>
  BY DEF PoolInit
<1>4. EveryJobOnce
  BY <1>1, <1>2, <1>3, InChanEmpty DEF PoolInit, EveryJobOnce, Hands
<1>5. ShutdownOrder
  BY DEF PoolInit, ShutdownOrder
<1>6. QED
  BY <1>4, <1>5

\* No step loses a job or hands it out twice.
LEMMA OnceStep ==
    ASSUME PoolTypeOK, PoolTypeOK', EveryJobOnce, [PoolNext]_poolVars PROVE EveryJobOnce'
<1> DEFINE R == InChan(received)
           S == InChan(results)
           J == InChan(jobs)
           Once == /\ Len(received) + Len(results) + Len(jobs) + Cardinality(Holding)
                        = submitted
                   /\ R \union S \union J \union Hands = 1 .. submitted
<1>1. Once
  BY OnceByPlace
<1>2. SUFFICES Once'
  <2>1. PoolTypeOK' => (EveryJobOnce' <=> Once')
    BY OnceByPlace, PTL
  <2>2. QED
    BY <1>2, <2>1
<1>3. /\ received \in Seq(Jobs) /\ results \in Seq(Jobs) /\ jobs \in Seq(Jobs)
      /\ Len(received) \in Nat /\ Len(results) \in Nat /\ Len(jobs) \in Nat
      /\ Cardinality(Holding) \in Nat
  BY HoldingFinite DEF PoolTypeOK
<1>4. ASSUME hand' = hand
      PROVE  Cardinality(Holding') = Cardinality(Holding) /\ Hands' = Hands
  BY <1>4 DEF Holding, Hands
<1>5. ASSUME NEW w \in Workers, TakeJob(w) PROVE Once'
  <2>1. /\ Head(jobs) \in Jobs /\ Len(jobs') = Len(jobs) - 1
        /\ J = {Head(jobs)} \union J'
    BY <1>3, <1>5, InChanHeadTail DEF TakeJob
  <2>2. /\ Cardinality(Holding') = Cardinality(Holding) + 1
        /\ Hands' = Hands \union {Head(jobs)}
    BY <1>5, <2>1, HandTaken DEF TakeJob
  <2>3. R' = R /\ S' = S /\ UNCHANGED <<received, results, submitted>>
    BY <1>5 DEF TakeJob, caller
  <2> HIDE DEF R, S, J
  <2>4. Len(received') + Len(results') + Len(jobs') + Cardinality(Holding') = submitted'
    BY <1>1, <1>3, <2>1, <2>2, <2>3
  <2>5. R' \union S' \union J' \union Hands' = 1 .. submitted'
    BY <1>1, <2>1, <2>2, <2>3
  <2>6. QED
    BY <2>4, <2>5
<1>6. ASSUME NEW w \in Workers, SendResult(w) PROVE Once'
  <2>1. hand[w] \in Jobs
    BY <1>6 DEF SendResult, PoolTypeOK
  <2>2. Len(results') = Len(results) + 1 /\ S' = S \union {hand[w]}
    BY <1>3, <1>6, <2>1, InChanAppend DEF SendResult
  <2>3. /\ Cardinality(Holding') = Cardinality(Holding) - 1
        /\ Hands = Hands' \union {hand[w]}
    BY <1>6, HandEmptied DEF SendResult
  <2>4. R' = R /\ J' = J /\ UNCHANGED <<received, jobs, submitted>>
    BY <1>6 DEF SendResult, caller
  <2> HIDE DEF R, S, J
  <2>5. QED
    BY <1>1, <1>3, <2>2, <2>3, <2>4
<1>7. ASSUME Submit PROVE Once'
  <2>1. submitted \in Nat /\ submitted + 1 \in Jobs
    BY <1>7, PoolAssumption DEF Submit, PoolTypeOK, Jobs
  <2>2. Len(jobs') = Len(jobs) + 1 /\ J' = J \union {submitted + 1}
    BY <1>3, <1>7, <2>1, InChanAppend DEF Submit
  <2>3. /\ R' = R /\ S' = S /\ Hands' = Hands /\ submitted' = submitted + 1
        /\ Cardinality(Holding') = Cardinality(Holding)
        /\ UNCHANGED <<received, results>>
    BY <1>4, <1>7 DEF Submit
  <2>4. 1 .. submitted + 1 = (1 .. submitted) \union {submitted + 1}
    BY <2>1
  <2> HIDE DEF R, S, J
  <2>5. QED
    BY <1>1, <1>3, <2>1, <2>2, <2>3, <2>4
<1>8. ASSUME ReceiveResult PROVE Once'
  <2>1. /\ Head(results) \in Jobs /\ Len(results') = Len(results) - 1
        /\ S = {Head(results)} \union S'
    BY <1>3, <1>8, InChanHeadTail DEF ReceiveResult
  <2>2. Len(received') = Len(received) + 1 /\ R' = R \union {Head(results)}
    BY <1>3, <1>8, <2>1, InChanAppend DEF ReceiveResult
  <2>3. /\ J' = J /\ Hands' = Hands
        /\ Cardinality(Holding') = Cardinality(Holding)
        /\ UNCHANGED <<jobs, submitted>>
    BY <1>4, <1>8 DEF ReceiveResult
  <2> HIDE DEF R, S, J
  <2>4. QED
    BY <1>1, <1>3, <2>1, <2>2, <2>3
<1>9. ASSUME UNCHANGED <<jobs, results, received, submitted, hand>> PROVE Once'
  BY <1>1, <1>4, <1>9
<1>10. ASSUME \/ \E w \in Workers : WorkerDone(w)
              \/ CloseResults \/ Done \/ Finish \/ UNCHANGED poolVars
       PROVE  Once'
  BY <1>9, <1>10
     DEF WorkerDone, CloseResults, Done, Finish, poolVars, chans, caller
<1>11. QED
  BY <1>5, <1>6, <1>7, <1>8, <1>10 DEF PoolNext, WorkerStep, CallerStep, ReaderStep

\* No step breaks the order of the shutdown.
LEMMA ShutdownStep ==
    ASSUME PoolTypeOK, EveryJobOnce, ShutdownOrder, [PoolNext]_poolVars PROVE ShutdownOrder'
<1>1. ASSUME NEW w \in Workers, TakeJob(w) PROVE ShutdownOrder'
  BY <1>1 DEF TakeJob, ShutdownOrder, PoolTypeOK, caller
<1>2. ASSUME NEW w \in Workers, SendResult(w) PROVE ShutdownOrder'
  BY <1>2 DEF SendResult, ShutdownOrder, PoolTypeOK, caller
<1>3. ASSUME NEW w \in Workers, WorkerDone(w) PROVE ShutdownOrder'
  BY <1>3 DEF WorkerDone, ShutdownOrder, PoolTypeOK, caller, chans
<1>4. ASSUME CloseResults PROVE ShutdownOrder'
  BY <1>4 DEF CloseResults, ShutdownOrder, caller
<1>5. ASSUME Submit PROVE ShutdownOrder'
  BY <1>5 DEF Submit, ShutdownOrder, PoolTypeOK
<1>6. ASSUME Done PROVE ShutdownOrder'
  BY <1>6 DEF Done, ShutdownOrder, caller
<1>7. ASSUME ReceiveResult PROVE ShutdownOrder'
  BY <1>7 DEF ReceiveResult, ShutdownOrder
<1>8. ASSUME Finish PROVE ShutdownOrder'
  BY <1>8 DEF Finish, ShutdownOrder, chans
<1>9. ASSUME UNCHANGED poolVars PROVE ShutdownOrder'
  BY <1>9 DEF ShutdownOrder, poolVars, chans, caller
<1>10. QED
  BY <1>1, <1>2, <1>3, <1>4, <1>5, <1>6, <1>7, <1>8, <1>9
     DEF PoolNext, WorkerStep, CallerStep, ReaderStep

\* Every reachable state of the pool satisfies the inductive invariant.
THEOREM PoolInvariant == PoolSpec => []PoolInv
<1>1. PoolInit => EveryJobOnce /\ ShutdownOrder
  BY PoolInvInit
<1>2. PoolTypeOK /\ PoolTypeOK' /\ EveryJobOnce /\ ShutdownOrder /\ [PoolNext]_poolVars
        => EveryJobOnce' /\ ShutdownOrder'
  BY OnceStep, ShutdownStep
<1>3. QED
  BY <1>1, <1>2, PoolTyped, PTL DEF PoolSpec, PoolInv

\* A submitted job is queued, in one worker's hand or answered once, at every
\* moment: neither the two channels nor the workers lose or double one.
THEOREM PoolKeepsJobs == PoolSpec => []EveryJobOnce
BY PoolInvariant, PTL DEF PoolInv

\* results is closed with no send on it left, and the range over Results ends
\* with the result of every job.
THEOREM PoolAnswersAll == PoolSpec => []ResultsComplete
<1>1. ASSUME PoolInv PROVE ResultsComplete
  <2>1. ASSUME resultsClosed PROVE Holding = {}
    BY <1>1, <2>1 DEF PoolInv, ShutdownOrder, Holding, Idle
  <2>2. ASSUME finished PROVE InChan(received) = 1 .. numJobs /\ Len(received) = numJobs
    <3>1. /\ resultsClosed /\ results = <<>> /\ exited = Workers
          /\ jobs = <<>> /\ submitted = numJobs
      BY <1>1, <2>2, PoolAssumption DEF PoolInv, ShutdownOrder
    <3>2. Holding = {} /\ Hands = {} /\ Cardinality(Holding) = 0
      BY <2>1, <3>1, FS_EmptySet DEF Hands
    <3>3. /\ Len(received) + Len(results) + Len(jobs) + Cardinality(Holding) = submitted
          /\ InChan(received) \union InChan(results) \union InChan(jobs) \union Hands
               = 1 .. submitted
      BY <1>1, OnceByPlace DEF PoolInv
    <3>4. Len(received) \in Nat /\ Len(<<>>) = 0
      BY <1>1 DEF PoolInv, PoolTypeOK
    <3>5. InChan(received) = 1 .. numJobs
      BY <3>1, <3>2, <3>3, InChanEmpty
    <3>6. Len(received) = numJobs
      BY <3>1, <3>2, <3>3, <3>4
    <3>7. QED
      BY <3>5, <3>6
  <2>3. QED
    BY <2>1, <2>2 DEF ResultsComplete
<1>2. QED
  BY <1>1, PoolInvariant, PTL

\* A behaviour of module ChannelPrograms is one of the broker and one of the
\* pool: what is proved of each holds in that run.
THEOREM ProgramsAreApart == ProgramsSpec => Spec /\ PoolSpec
<1>1. ProgramsInit => Init /\ PoolInit
  BY DEF ProgramsInit
<1>2. [ProgramsNext]_programVars => [Next]_vars /\ [PoolNext]_poolVars
  BY DEF ProgramsNext, BrokerStep, PoolStep, programVars
<1>3. QED
  BY <1>1, <1>2, PTL DEF ProgramsSpec, Spec, PoolSpec
=============================================================================
