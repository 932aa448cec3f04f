----------------------------- MODULE WorkerPool -----------------------------
(***************************************************************************)
(* pkg/worker_pool.go: workers that range over the buffered channel jobs   *)
(* and send to the buffered channel results, a goroutine that closes       *)
(* results once every worker is done, and a caller that submits all its    *)
(* jobs, calls Done and ranges over Results, as RunWorkerPool does, or     *)
(* that ranges over Results in a goroutine of its own from the start.      *)
(***************************************************************************)
EXTENDS Integers, FiniteSets, Sequences

CONSTANTS Workers,        \* the worker goroutines
          JobBufferSize,  \* capacity of both channels
          MaxJobs         \* bound: how many jobs the caller submits at most

ASSUME PoolAssumption ==
    /\ IsFiniteSet(Workers) /\ Workers # {}   \* Start runs numWorkers goroutines
    /\ JobBufferSize \in Nat \ {0} /\ MaxJobs \in Nat

Jobs == 1 .. MaxJobs
Idle == 0   \* a worker's hand when it waits for a job

VARIABLES numJobs,        \* how many jobs the caller will submit
          jobs,           \* the channel jobs
          jobsClosed,
          results,        \* the channel results; a result is its job's Id
          resultsClosed,
          hand,           \* the job each worker is busy with, or Idle
          exited,         \* workers whose wg.Done has run
          submitted,      \* how many Submits have returned
          received,       \* the results the caller got, in order
          finished,       \* the caller's range over Results has ended
          concurrent      \* the caller reads results while it submits

chans    == <<jobs, jobsClosed, results, resultsClosed>>
caller   == <<numJobs, submitted, received, finished, concurrent>>
poolVars == <<chans, hand, exited, caller>>

\* NewWorkerPool and Start.
PoolInit ==
    /\ numJobs \in 0 .. MaxJobs
    /\ jobs = <<>> /\ jobsClosed = FALSE
    /\ results = <<>> /\ resultsClosed = FALSE
    /\ hand = [w \in Workers |-> Idle]
    /\ exited = {}
    /\ submitted = 0 /\ received = <<>> /\ finished = FALSE
    /\ concurrent \in BOOLEAN
-----------------------------------------------------------------------------
\* One turn of worker's loop is two steps: the receive, and the send of the
\* job's result, which both the negative-input and the normal branch make.
TakeJob(w) ==
    /\ w \notin exited /\ hand[w] = Idle
    /\ jobs # <<>>
    /\ hand' = [hand EXCEPT ![w] = Head(jobs)]
    /\ jobs' = Tail(jobs)
    /\ UNCHANGED <<jobsClosed, results, resultsClosed, exited, caller>>

\* Mutant: the negative-input branch continues without sending a result.
SendResult_Skips(w) ==
    /\ hand[w] # Idle
    /\ Len(results) < JobBufferSize
    /\ results' = IF hand[w] = 1 THEN results ELSE Append(results, hand[w])
    /\ hand' = [hand EXCEPT ![w] = Idle]
    /\ UNCHANGED <<jobs, jobsClosed, resultsClosed, exited, caller>>

SendResult(w) ==
    /\ hand[w] # Idle
    /\ Len(results) < JobBufferSize
    /\ results' = Append(results, hand[w])
    /\ hand' = [hand EXCEPT ![w] = Idle]
    /\ UNCHANGED <<jobs, jobsClosed, resultsClosed, exited, caller>>

\* Mutant: the worker returns without wg.Done.
WorkerDone_NoWaitGroup(w) ==
    /\ w \notin exited /\ hand[w] = Idle
    /\ jobs = <<>> /\ jobsClosed
    /\ UNCHANGED <<chans, hand, exited, caller>>

WorkerDone(w) ==
    /\ w \notin exited /\ hand[w] = Idle
    /\ jobs = <<>> /\ jobsClosed
    /\ exited' = exited \union {w}
    /\ UNCHANGED <<chans, hand, caller>>

\* Mutant: results is closed as soon as jobs is closed and drained.
CloseResults_Early ==
    /\ jobs = <<>> /\ jobsClosed /\ ~ resultsClosed
    /\ resultsClosed' = TRUE
    /\ UNCHANGED <<jobs, jobsClosed, results, hand, exited, caller>>

\* The goroutine behind wg.Wait.
CloseResults ==
    /\ exited = Workers /\ ~ resultsClosed
    /\ resultsClosed' = TRUE
    /\ UNCHANGED <<jobs, jobsClosed, results, hand, exited, caller>>
-----------------------------------------------------------------------------
\* Mutant: Submit hands the job over without waiting for room.
Submit_Unbounded ==
    /\ submitted < numJobs
    /\ jobs' = Append(jobs, submitted + 1)
    /\ submitted' = submitted + 1
    /\ UNCHANGED <<jobsClosed, results, resultsClosed, hand, exited, received,
                   finished, numJobs, concurrent>>

Submit ==
    /\ submitted < numJobs
    /\ Len(jobs) < JobBufferSize
    /\ jobs' = Append(jobs, submitted + 1)
    /\ submitted' = submitted + 1
    /\ UNCHANGED <<jobsClosed, results, resultsClosed, hand, exited, received,
                   finished, numJobs, concurrent>>

Done ==
    /\ submitted = numJobs /\ ~ jobsClosed
    /\ jobsClosed' = TRUE
    /\ UNCHANGED <<jobs, results, resultsClosed, hand, exited, caller>>

\* for result := range pool.Results()
ReceiveResult ==
    /\ concurrent \/ jobsClosed
    /\ results # <<>>
    /\ received' = Append(received, Head(results))
    /\ results' = Tail(results)
    /\ UNCHANGED <<jobs, jobsClosed, resultsClosed, hand, exited, submitted,
                   finished, numJobs, concurrent>>

Finish ==
    /\ concurrent \/ jobsClosed
    /\ results = <<>> /\ resultsClosed /\ ~ finished
    /\ finished' = TRUE
    /\ UNCHANGED <<chans, hand, exited, numJobs, submitted, received, concurrent>>

WorkerStep(w) == TakeJob(w) \/ SendResult(w) \/ WorkerDone(w)
CallerStep    == Submit \/ Done
ReaderStep    == ReceiveResult \/ Finish

PoolNext == (\E w \in Workers : WorkerStep(w)) \/ CloseResults \/ CallerStep \/ ReaderStep

PoolSpec == PoolInit /\ [][PoolNext]_poolVars
-----------------------------------------------------------------------------
Holding  == {w \in Workers : hand[w] # Idle}
InChan(s) == {s[i] : i \in 1 .. Len(s)}

\* The shape of the state; the channels hold no more than their capacity.
PoolTypeOK ==
    /\ jobs \in Seq(Jobs) /\ Len(jobs) <= JobBufferSize
    /\ results \in Seq(Jobs) /\ Len(results) <= JobBufferSize
    /\ hand \in [Workers -> Jobs \union {Idle}]
    /\ exited \in SUBSET Workers
    /\ numJobs \in 0 .. MaxJobs /\ submitted \in 0 .. numJobs
    /\ received \in Seq(Jobs)
    /\ {jobsClosed, resultsClosed, finished, concurrent} \subseteq BOOLEAN

\* Every submitted job is in exactly one place: queued, in one worker's hand,
\* or answered by one result.
EveryJobOnce ==
    LET gone == received \o results \o jobs
    IN  /\ Len(gone) + Cardinality(Holding) = submitted
        /\ InChan(gone) \union {hand[w] : w \in Holding} = 1 .. submitted

\* results is closed only when no worker has a send on it left, and when the
\* range over Results ends the caller has every job's result.
ResultsComplete ==
    /\ resultsClosed => Holding = {}
    /\ finished => InChan(received) = 1 .. numJobs /\ Len(received) = numJobs

\* The caller's range over Results ends, unless it reads late and submits
\* more than the pool can hold.
PoolFinishes ==
    concurrent \/ numJobs <= 2 * JobBufferSize + Cardinality(Workers) => <> finished
=============================================================================
