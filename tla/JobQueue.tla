------------------------------ MODULE JobQueue ------------------------------
(***************************************************************************)
(* The broker of system-design/job-queue (queue.go, scheduler.go): the     *)
(* pending heap, the sorted scheduled list, the dead-letter queue, the two *)
(* one-slot signal channels, and the goroutine runScheduler that promotes  *)
(* scheduled jobs.  Every operation below is one critical section of q.mu; *)
(* the dispatcher's workers call the lower-case ones (module Dispatcher).  *)
(*                                                                         *)
(* Time is a discrete clock starting at 1, so that 0 is Go's zero time; a  *)
(* critical section takes no time, so its calls of time.Now agree.         *)
(***************************************************************************)
EXTENDS Integers, Sequences, SequencesExt

CONSTANTS Jobs,         \* the *Job values producers submit, one per ID
          Priority,     \* Priority[j]: higher runs first
          MaxAttempts,  \* MaxAttempts[j]: as the caller set it, possibly <= 0
          MaxPark,      \* the scheduler's sleep when nothing is scheduled
          Resubmitted,  \* bound: the jobs Schedule is called for in vain
          Horizon       \* bound: the clock never passes this instant

ASSUME QueueAssumption ==
    /\ Resubmitted \subseteq Jobs
    /\ Priority \in [Jobs -> Int]
    /\ MaxAttempts \in [Jobs -> Int]
    /\ MaxPark \in Nat \ {0}
    /\ Horizon \in Nat \ {0}

VARIABLES now,         \* the wall clock
          all,         \* jobs whose ID is in q.all
          status,      \* job.Status
          runAt,       \* job.RunAt
          pending,     \* the heap's content
          scheduled,   \* the sorted slice of future jobs
          dlq,         \* the dead-letter slice
          notify,      \* TRUE iff the one-slot channel notify holds a signal
          reschedule,  \* TRUE iff the channel reschedule holds a signal
          closed,      \* q.closed; closeCh is closed by the same step
          cancelled,   \* ctx.Done() is closed
          sched,       \* where runScheduler is
          schedAt,     \* parked: its timer's deadline; promote: the instant
                       \* promoteReady read; otherwise 0
          rewritten    \* history: jobs whose RunAt was overwritten by a call
                       \* of Schedule that Enqueue turned away

jobVars   == <<all, status, runAt, rewritten>>
lists     == <<pending, scheduled, dlq>>
signals   == <<notify, reschedule>>
schedVars == <<sched, schedAt>>
queueVars == <<now, all, status, runAt, pending, scheduled, dlq,
               notify, reschedule, closed, cancelled, sched, schedAt, rewritten>>

Status == {"pending", "processing", "completed", "failed", "dead"}
Times  == 0 .. Horizon

QueueTypeOK ==
    /\ now \in 1 .. Horizon
    /\ all \in SUBSET Jobs
    /\ status \in [Jobs -> Status]
    /\ runAt \in [Jobs -> Int]
    /\ pending \in SUBSET Jobs
    /\ scheduled \in Seq(Jobs)
    /\ dlq \in Seq(Jobs)
    /\ notify \in BOOLEAN
    /\ reschedule \in BOOLEAN
    /\ closed \in BOOLEAN
    /\ cancelled \in BOOLEAN
    /\ sched \in {"calc", "parked", "promote", "ping", "exited"}
    /\ schedAt \in Int
    /\ rewritten \in SUBSET all

\* NewQueue and Start: the scheduler goroutine is about to take the lock.
QueueInit ==
    /\ now = 1
    /\ all = {}
    /\ status = [j \in Jobs |-> "pending"]
    /\ runAt = [j \in Jobs |-> 0]
    /\ pending = {} /\ scheduled = <<>> /\ dlq = <<>>
    /\ notify = FALSE /\ reschedule = FALSE
    /\ closed = FALSE /\ cancelled = FALSE
    /\ sched = "calc" /\ schedAt = 0
    /\ rewritten = {}
-----------------------------------------------------------------------------
\* Enqueue replaces a MaxAttempts that is not positive by 1.
EffectiveMax(j) == IF MaxAttempts[j] <= 0 THEN 1 ELSE MaxAttempts[j]

\* jobHeap.Less, the order of the pending heap.
Less(i, j) ==
    IF Priority[i] # Priority[j] THEN Priority[i] > Priority[j]
                                 ELSE runAt[i] < runAt[j]

\* What heap.Pop may return: jobs no other pending job precedes.  Ties are
\* left open here; module JobHeap has the array that resolves them.  Once a
\* RunAt was overwritten in place, the heap is in order of Priority only.
Foremost ==
    {j \in pending : \A i \in pending :
        IF rewritten = {} THEN ~ Less(i, j) ELSE Priority[i] <= Priority[j]}

\* sort.Search over the scheduled slice, 1-based: a place between an entry
\* that runs before the instant t and one that does not.  There is one such
\* place in a sorted slice; in another the bisection may end at any of them.
SearchScheduled(t) ==
    {k \in 1 .. Len(scheduled) + 1 :
        /\ k > 1 => runAt[scheduled[k - 1]] < t
        /\ k <= Len(scheduled) => runAt[scheduled[k]] >= t}

insertScheduled(j, t) ==
    \E k \in SearchScheduled(t) : scheduled' = InsertAt(scheduled, k, j)

\* Mutant: a job put on the scheduled list does not ping reschedule.
Place_NoReschedule(j, t) ==
    /\ runAt' = [runAt EXCEPT ![j] = t]
    /\ IF t <= now
       THEN /\ pending' = pending \union {j}
            /\ notify' = TRUE
            /\ UNCHANGED <<scheduled, reschedule>>
       ELSE /\ insertScheduled(j, t)
            /\ UNCHANGED <<pending, signals>>

\* The tail shared by Enqueue and requeue: a job whose RunAt t has come goes
\* to the heap and pings notify; any other goes to the scheduled list and
\* pings reschedule.  A ping on a full channel is dropped.
Place(j, t) ==
    /\ runAt' = [runAt EXCEPT ![j] = t]
    /\ IF t <= now
       THEN /\ pending' = pending \union {j}
            /\ notify' = TRUE
            /\ UNCHANGED <<scheduled, reschedule>>
       ELSE /\ insertScheduled(j, t)
            /\ reschedule' = TRUE
            /\ UNCHANGED <<pending, notify>>

\* Mutant: the ID of a completed job may be used again.
Enqueue_ReusesCompleted(j, at) ==
    /\ ~ closed
    /\ j \notin all \/ status[j] = "completed"
    /\ all' = all \union {j}
    /\ status' = [status EXCEPT ![j] = "pending"]
    /\ Place(j, IF at = 0 THEN now ELSE at)
    /\ UNCHANGED <<now, dlq, closed, cancelled, schedVars, rewritten>>

\* Enqueue of a job whose RunAt is at.  A closed queue and a known ID are
\* turned away without any change.
Enqueue(j, at) ==
    /\ ~ closed
    /\ j \notin all
    /\ all' = all \union {j}
    /\ status' = [status EXCEPT ![j] = "pending"]
    /\ Place(j, IF at = 0 THEN now ELSE at)
    /\ UNCHANGED <<now, dlq, closed, cancelled, schedVars, rewritten>>

\* The assignment to job.RunAt, made without the lock, that is left behind
\* when Enqueue turns the job away.
SetRunAt(j, at) ==
    /\ closed \/ j \in all
    /\ j \in Resubmitted
    /\ runAt' = [runAt EXCEPT ![j] = at]
    /\ rewritten' = rewritten \union ({j} \intersect all)
    /\ UNCHANGED <<now, all, status, lists, signals, closed, cancelled, schedVars>>

\* Scheduler.ScheduleAt and Scheduler.Schedule set RunAt and then enqueue.
\* (Of a job the queue does not have the assignment shows nothing before
\* Enqueue has the lock; of a job it has, Enqueue only answers an error.)
ScheduleAt(j, at)  == Enqueue(j, at) \/ SetRunAt(j, at)
Schedule(j, delay) == now + delay \in Times /\ ScheduleAt(j, now + delay)

Close ==
    /\ ~ closed
    /\ closed' = TRUE
    /\ UNCHANGED <<now, jobVars, lists, signals, cancelled, schedVars>>

\* The owner of the context handed to both Start methods cancels it.
Cancel ==
    /\ ~ cancelled
    /\ cancelled' = TRUE
    /\ UNCHANGED <<now, jobVars, lists, signals, closed, schedVars>>
-----------------------------------------------------------------------------
\* The broker's side of a worker: dequeue's pop, and the three verdicts.
popPending(j) ==
    /\ j \in Foremost
    /\ pending' = pending \ {j}
    /\ status' = [status EXCEPT ![j] = "processing"]
    /\ UNCHANGED <<now, all, runAt, rewritten, scheduled, dlq, signals,
                   closed, cancelled, schedVars>>

requeue(j, delay) ==
    /\ now + delay <= Horizon
    /\ status' = [status EXCEPT ![j] = "failed"]
    /\ Place(j, now + delay)
    /\ UNCHANGED <<now, all, rewritten, dlq, closed, cancelled, schedVars>>

dead(j) ==
    /\ status' = [status EXCEPT ![j] = "dead"]
    /\ dlq' = Append(dlq, j)
    /\ UNCHANGED <<now, all, runAt, rewritten, pending, scheduled, signals,
                   closed, cancelled, schedVars>>

complete(j) ==
    /\ status' = [status EXCEPT ![j] = "completed"]
    /\ UNCHANGED <<now, all, runAt, rewritten, lists, signals, closed, cancelled,
                   schedVars>>
-----------------------------------------------------------------------------
\* runScheduler.  Under the lock it computes how long to sleep and arms the
\* timer (a timer armed late is a timer that fires late, see TimerFires).
ArmTimer ==
    /\ sched = "calc"
    /\ sched' = "parked"
    /\ schedAt' = IF scheduled = <<>> THEN now + MaxPark
                  ELSE IF runAt[scheduled[1]] < now THEN now
                  ELSE runAt[scheduled[1]]
    /\ UNCHANGED <<now, jobVars, lists, signals, closed, cancelled>>

\* The select: promoteReady reads the clock before it takes the lock.
TimerFires ==
    /\ sched = "parked"
    /\ schedAt <= now
    /\ sched' = "promote"
    /\ schedAt' = now
    /\ UNCHANGED <<now, jobVars, lists, signals, closed, cancelled>>

Rescheduled ==
    /\ sched = "parked"
    /\ reschedule
    /\ reschedule' = FALSE
    /\ sched' = "calc"
    /\ schedAt' = 0
    /\ UNCHANGED <<now, jobVars, lists, notify, closed, cancelled>>

SchedulerStops ==
    /\ sched = "parked"
    /\ closed \/ cancelled
    /\ sched' = "exited"
    /\ schedAt' = 0
    /\ UNCHANGED <<now, jobVars, lists, signals, closed, cancelled>>

\* Mutant: jobs due one tick later count as due.
DuePrefix_OneTickEarly(t) ==
    CHOOSE n \in 0 .. Len(scheduled) :
        /\ \A i \in 1 .. n : runAt[scheduled[i]] <= t + 1
        /\ n < Len(scheduled) => runAt[scheduled[n + 1]] > t + 1

\* The number of leading scheduled jobs that were due at the instant t.
DuePrefix(t) ==
    CHOOSE n \in 0 .. Len(scheduled) :
        /\ \A i \in 1 .. n : runAt[scheduled[i]] <= t
        /\ n < Len(scheduled) => runAt[scheduled[n + 1]] > t

\* Mutant: the promoted prefix stays on the scheduled list.
promoteReady_KeepsPrefix ==
    /\ sched = "promote"
    /\ LET n == DuePrefix(schedAt)
       IN  /\ pending' = pending \union {scheduled[i] : i \in 1 .. n}
           /\ sched' = IF n > 0 THEN "ping" ELSE "calc"
    /\ schedAt' = 0
    /\ UNCHANGED <<now, jobVars, scheduled, dlq, signals, closed, cancelled>>

\* promoteReady's critical section; the ping comes after the unlock.
promoteReady ==
    /\ sched = "promote"
    /\ LET n == DuePrefix(schedAt)
       IN  /\ pending' = pending \union {scheduled[i] : i \in 1 .. n}
           /\ scheduled' = SubSeq(scheduled, n + 1, Len(scheduled))
           /\ sched' = IF n > 0 THEN "ping" ELSE "calc"
    /\ schedAt' = 0
    /\ UNCHANGED <<now, jobVars, dlq, signals, closed, cancelled>>

\* Mutant: the promotion wakes nobody.
PingPromoted_NoPing ==
    /\ sched = "ping"
    /\ sched' = "calc"
    /\ UNCHANGED <<now, jobVars, lists, signals, closed, cancelled, schedAt>>

PingPromoted ==
    /\ sched = "ping"
    /\ notify' = TRUE
    /\ sched' = "calc"
    /\ UNCHANGED <<now, jobVars, lists, reschedule, closed, cancelled, schedAt>>

SchedulerStep ==
    \/ ArmTimer \/ TimerFires \/ Rescheduled
    \/ SchedulerStops \/ promoteReady \/ PingPromoted

Tick ==
    /\ now < Horizon
    /\ now' = now + 1
    /\ UNCHANGED <<jobVars, lists, signals, closed, cancelled, schedVars>>

\* What the queue's callers and the clock do.
ClientStep ==
    \/ \E j \in Jobs, at \in Times : ScheduleAt(j, at)
    \/ \E j \in Jobs, d \in Times : Schedule(j, d)
    \/ Close
    \/ Cancel
=============================================================================
