----------------------------- MODULE Dispatcher -----------------------------
(***************************************************************************)
(* The worker pool of system-design/job-queue/dispatcher.go composed with  *)
(* the broker of module JobQueue.  A worker goroutine loops over dequeue,  *)
(* which pops a job under the lock or parks in a select, and process,      *)
(* which runs the handler registered for the job's type and then           *)
(* completes, requeues or dead-letters the job.                            *)
(***************************************************************************)
EXTENDS JobQueue

CONSTANTS Workers,  \* the worker goroutines Start launches
          NoJob,    \* a worker's hand when it holds no job
          Type,     \* Type[j]: the handler the job asks for
          Backoff   \* Backoff[n]: clock ticks before the retry after attempt n

ASSUME DispatcherAssumption ==
    /\ Workers # {}
    /\ NoJob \notin Jobs
    /\ DOMAIN Type = Jobs
    /\ \A j \in Jobs : \A n \in 1 .. MaxAttempts[j] : Backoff[n] \in Int

VARIABLES wpc,       \* where each worker is
          holds,     \* the job a worker has in hand
          attempt,   \* job.Attempt
          handlers   \* the job types with a registered handler

workerVars == <<wpc, holds, attempt, handlers>>
vars       == <<queueVars, workerVars>>

Types  == {Type[j] : j \in Jobs}
InHand == {"picked", "running"}

DispatcherTypeOK ==
    /\ wpc \in [Workers -> {"loop", "parked", "exited"} \union InHand]
    /\ holds \in [Workers -> Jobs \union {NoJob}]
    /\ attempt \in [Jobs -> Nat]
    /\ \A w \in Workers :
          /\ wpc[w] \in InHand <=> holds[w] # NoJob
          /\ wpc[w] = "running" => attempt[holds[w]] >= 1
    /\ handlers \in SUBSET Types

\* The shape of the state, broker and workers.
TypeOK == QueueTypeOK /\ DispatcherTypeOK

\* NewDispatcher and Start.
Init ==
    /\ QueueInit
    /\ wpc = [w \in Workers |-> "loop"]
    /\ holds = [w \in Workers |-> NoJob]
    /\ attempt = [j \in Jobs |-> 0]
    /\ handlers = {}

\* Register panics on a type that already has a handler.
Register(t) ==
    /\ t \notin handlers
    /\ handlers' = handlers \union {t}
    /\ UNCHANGED <<queueVars, wpc, holds, attempt>>
-----------------------------------------------------------------------------
\* dequeue, under the lock: pop, give up on a drained closed queue, or park.
Dequeue(w) ==
    /\ wpc[w] = "loop"
    /\ \E j \in pending :
          /\ popPending(j)
          /\ holds' = [holds EXCEPT ![w] = j]
    /\ wpc' = [wpc EXCEPT ![w] = "picked"]
    /\ UNCHANGED <<attempt, handlers>>

DequeueClosed(w) ==
    /\ wpc[w] = "loop"
    /\ pending = {}
    /\ closed
    /\ wpc' = [wpc EXCEPT ![w] = "exited"]
    /\ UNCHANGED <<queueVars, holds, attempt, handlers>>

Park(w) ==
    /\ wpc[w] = "loop"
    /\ pending = {}
    /\ ~ closed
    /\ wpc' = [wpc EXCEPT ![w] = "parked"]
    /\ UNCHANGED <<queueVars, holds, attempt, handlers>>

\* The select of a parked worker; Go picks any ready case.
Wake(w) ==
    /\ wpc[w] = "parked"
    /\ notify
    /\ notify' = FALSE
    /\ wpc' = [wpc EXCEPT ![w] = "loop"]
    /\ UNCHANGED <<now, jobVars, lists, reschedule, closed, cancelled,
                   schedVars, holds, attempt, handlers>>

\* Mutant: the select watches the context but not closeCh.
LeaveSelect_IgnoresClose(w) ==
    /\ wpc[w] = "parked"
    /\ cancelled
    /\ wpc' = [wpc EXCEPT ![w] = "exited"]
    /\ UNCHANGED <<queueVars, holds, attempt, handlers>>

LeaveSelect(w) ==
    /\ wpc[w] = "parked"
    /\ closed \/ cancelled
    /\ wpc' = [wpc EXCEPT ![w] = "exited"]
    /\ UNCHANGED <<queueVars, holds, attempt, handlers>>
-----------------------------------------------------------------------------
\* Mutant: the worker goes on with the job still in hand.
BackToLoop_KeepsJob(w) ==
    /\ wpc' = [wpc EXCEPT ![w] = "loop"]
    /\ UNCHANGED holds

\* process returns and runWorker calls dequeue again.
BackToLoop(w) ==
    /\ wpc' = [wpc EXCEPT ![w] = "loop"]
    /\ holds' = [holds EXCEPT ![w] = NoJob]

\* process.  A job nobody can handle is dead-lettered at once.
NoHandler(w) ==
    /\ wpc[w] = "picked"
    /\ Type[holds[w]] \notin handlers
    /\ dead(holds[w])
    /\ BackToLoop(w)
    /\ UNCHANGED <<attempt, handlers>>

StartHandler(w) ==
    /\ wpc[w] = "picked"
    /\ Type[holds[w]] \in handlers
    /\ attempt' = [attempt EXCEPT ![holds[w]] = @ + 1]
    /\ wpc' = [wpc EXCEPT ![w] = "running"]
    /\ UNCHANGED <<queueVars, holds, handlers>>

HandlerOk(w) ==
    /\ wpc[w] = "running"
    /\ complete(holds[w])
    /\ BackToLoop(w)
    /\ UNCHANGED <<attempt, handlers>>

\* Mutant: off by one in the comparison with MaxAttempts.
HandlerErr_OneMore(w) ==
    LET j == holds[w]
    IN  /\ wpc[w] = "running"
        /\ IF attempt[j] <= EffectiveMax(j)
           THEN requeue(j, Backoff[attempt[j]])
           ELSE dead(j)
        /\ BackToLoop(w)
        /\ UNCHANGED <<attempt, handlers>>

\* The handler failed: with attempts left the job is requeued after a
\* backoff, otherwise it is dead-lettered.
HandlerErr(w) ==
    LET j == holds[w]
    IN  /\ wpc[w] = "running"
        /\ IF attempt[j] < EffectiveMax(j)
           THEN requeue(j, Backoff[attempt[j]])
           ELSE dead(j)
        /\ BackToLoop(w)
        /\ UNCHANGED <<attempt, handlers>>

WorkerStep(w) ==
    \/ Dequeue(w) \/ DequeueClosed(w) \/ Park(w) \/ Wake(w) \/ LeaveSelect(w)
    \/ NoHandler(w) \/ StartHandler(w) \/ HandlerOk(w) \/ HandlerErr(w)

Next ==
    \/ \E w \in Workers : WorkerStep(w)
    \/ \E t \in Types : Register(t)
    \/ (SchedulerStep \/ ClientStep \/ Tick) /\ UNCHANGED workerVars

Spec == Init /\ [][Next]_vars

\* Goroutines that can run are run, the clock advances, and handlers return;
\* clients owe nothing.
Fairness ==
    /\ \A w \in Workers : WF_vars(WorkerStep(w))
    /\ WF_vars(SchedulerStep /\ UNCHANGED workerVars)
    /\ WF_vars(Tick /\ UNCHANGED workerVars)

FairSpec == Spec /\ Fairness
-----------------------------------------------------------------------------
InScheduled(j) == \E i \in 1 .. Len(scheduled) : scheduled[i] = j
InDLQ(j)       == \E i \in 1 .. Len(dlq) : dlq[i] = j
HeldBySome(j)  == \E w \in Workers : holds[w] = j
Distinct(s)    == \A i, k \in 1 .. Len(s) : s[i] = s[k] => i = k

QueuedWhileWaiting ==
    \A j \in Jobs :
        /\ j \in pending \/ InScheduled(j) <=>
              j \in all /\ status[j] \in {"pending", "failed"}
        /\ ~ (j \in pending /\ InScheduled(j))

HeldWhileProcessing ==
    /\ \A j \in Jobs : HeldBySome(j) <=> status[j] = "processing"
    /\ \A v, w \in Workers : holds[v] = holds[w] /\ holds[v] # NoJob => v = w

DeadInDLQ ==
    \A j \in Jobs :
        /\ InDLQ(j) <=> status[j] = "dead"
        /\ status[j] # "pending" => j \in all

\* No job is lost and none is duplicated: the status of a submitted job says
\* in which single place it is (heap, scheduled list, one worker's hand, DLQ
\* or nowhere once completed), through every pop, promotion, retry and
\* dead-lettering of queue.go and dispatcher.go.
JobInOnePlace ==
    /\ QueuedWhileWaiting
    /\ HeldWhileProcessing
    /\ DeadInDLQ
    /\ Distinct(scheduled)
    /\ Distinct(dlq)

\* A pending job always has somebody coming for it: a signal in notify, a
\* worker that will look at the heap again, or the scheduler about to ping.
\* So the one-slot channel and the pings it drops never strand a job while
\* every worker sleeps (queue.go, ping and dequeue).
NoLostWakeup ==
    pending # {} =>
        \/ notify
        \/ sched = "ping"
        \/ \E w \in Workers : wpc[w] \in InHand \union {"loop"}

\* queue.go:144, the scheduled slice is sorted ascending by RunAt.  (A second
\* Schedule of a listed job breaks this, see the run queue_rewritten.)
ScheduledSorted ==
    \A i, k \in 1 .. Len(scheduled) :
        i < k => runAt[scheduled[i]] <= runAt[scheduled[k]]

\* As long as no call of Schedule has overwritten the RunAt of a job that the
\* queue had, insertions, retries and promotions keep the slice sorted, and
\* the sleeping scheduler never oversleeps any job on it: its timer is due no
\* later, or a reschedule signal is waiting for it.
NeverOversleeps ==
    rewritten = {} =>
        /\ ScheduledSorted
        /\ sched = "parked" =>
              \A i \in 1 .. Len(scheduled) :
                  reschedule \/ schedAt <= runAt[scheduled[i]] \/ schedAt <= now

\* job.RunAt is the earliest instant the job may execute, also on a retry and
\* whatever a second Schedule did to the RunAt of other jobs.
NeverEarly ==
    \A j \in Jobs \ rewritten : j \in pending \/ HeldBySome(j) => runAt[j] <= now

\* A handler is never run more often than MaxAttempts allows, and a job
\* waiting for a retry has an attempt left.
AttemptsBounded ==
    \A j \in Jobs :
        /\ attempt[j] <= EffectiveMax(j)
        /\ status[j] = "failed" => attempt[j] \in 1 .. EffectiveMax(j) - 1

\* A completed or dead job is never touched again.
TerminalIsFinal ==
    [][\A j \in Jobs : status[j] \in {"completed", "dead"} =>
            status'[j] = status[j] /\ attempt'[j] = attempt[j]]_vars

\* Unless the queue is shut down, every accepted job is executed until it
\* completes or is dead-lettered.
EveryJobSettles ==
    \A j \in Jobs :
        j \in all ~> status[j] \in {"completed", "dead"} \/ closed \/ cancelled

\* Close, or cancelling the context, lets Dispatcher.Wait return and the
\* scheduler goroutine end.
ShutdownTerminates ==
    closed \/ cancelled ~>
        sched = "exited" /\ \A w \in Workers : wpc[w] = "exited"

\* What the comment on Enqueue says ("a waiting worker will pick it up
\* immediately"): no worker sleeps on an empty channel while a job is pending
\* and everyone else is busy with a handler.
NoIdleWorker ==
    (\E w \in Workers : wpc[w] = "parked") /\ pending # {} =>
        \/ notify
        \/ sched = "ping"
        \/ \E w \in Workers : wpc[w] = "loop"
=============================================================================
