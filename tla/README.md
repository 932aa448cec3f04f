# Verification of leetsheet

TLA+ models of the concurrent and stateful code of this repository, TLC
configurations that check them on small instances, and TLAPS proofs for every
value of the constants.  Paths below are relative to the repository's root.

## 1. Inventory

| Part | State | Operations | What is hard about it |
|---|---|---|---|
| Job queue broker, `system-design/job-queue/queue.go` | heap `pending`, sorted slice `scheduled`, map `all`, slice `dlq`, one-slot channels `notify` and `reschedule`, `closed`/`closeCh` | `Enqueue`, `dequeue`, `requeue`, `dead`, `complete`, `Close`, goroutine `runScheduler` with `promoteReady` | pings dropped on a full channel, decisions taken under the lock and acted on after it, a timer armed before an earlier job arrives |
| Job dispatcher, `dispatcher.go` | handler registry, worker goroutines, `job.Attempt` | `Register`, `Start`, `runWorker`, `process`, `backoff`, `Wait` | retries against shutdown, 64-bit arithmetic of the delay |
| Job scheduler, `scheduler.go` | none of its own | `Schedule`, `ScheduleAt` | writes `job.RunAt` outside the queue's lock |
| Circuit breaker, `system-design/circuit-breaker` | `state`, `openedAt`, `probing`, ring buffer `win` | `Execute` (`beforeCall`, f, `afterCall`), `State`, `Metrics` | calls in flight across state changes, a probe that panics, wrap-around and eviction of the ring |
| Pub-sub broker, `system-design/pub-sub` | per topic a slice of channels | `Subscribe`, `Unsubscribe`, `Publish`, `Close` | sends to a copied slice after the unlock, full buffers |
| Worker pool, `pkg/worker_pool.go` | channels `jobs`, `results`, a WaitGroup | `Start`, `Submit`, `Done`, `Results` | who closes `results` and when, callers that read late |
| Rate limiters, `pkg/rate_limiter.go` | tokens and `lastRefill`; count and `windowStart`; timestamps | `Allow` of three types | boundaries of intervals, remainders of integer division |
| API gateway, `system-design/api-gateway` | tenant, key and role stores, a bucket of timestamps per tenant | middleware chain AuthN, tenant, limiter, AuthZ, proxy; `Upsert`, `Register`, `AddRole` | stores that change while requests are in the chain, two locks on one bucket |
| Gateway observability, `observability.go` | metrics per tenant | middleware around the chain, `For`, `Record`, `P99`, `remoteIP` | which context it reads the tenant from, two first requests of a tenant at once |
| Algorithms, `pkg/*.go`, `newspaper_formatter.go` | the nodes of the linked list | pure functions; `InsertFront`, `InsertBack`, `Delete` | boundary cases, overflow, relinking |
| `cmd/main.go`, `system-design/job-worker` | none | a demonstration; a document | nothing |

How the parts interact.  The dispatcher's workers and the job scheduler call the
broker's methods; broker and workers share `q.mu` and wake each other through
`notify` and `reschedule`; `runScheduler` moves jobs between the broker's lists.
The breaker calls the user's function between two critical sections.
Publishers and subscribers share the broker's map and the channels.  The
gateway's middlewares pass a context inwards and share the stores; the
observability middleware runs before and after all of them.  The other parts do
not call each other.

Properties that make each part correct:

* job queue and dispatcher: no job is lost, duplicated, run early or run too
  often; a ready job is not left behind while the workers sleep; the scheduler
  does not oversleep; accepted jobs settle; shutting down ends everything;
* breaker: the window holds exactly the last outcomes; closed means below the
  threshold; a set probing flag belongs to a probe; the breaker recovers;
* pub-sub: registered means open; order and topic of deliveries; `Publish` does
  not wait; no panic;
* worker pool: every job answered once, `results` closed after the last send,
  the reader's loop ends;
* rate limiters: at most the documented number in any interval, no refusal below
  it, no credit gained or lost by the moment of asking;
* gateway: quotas per tenant in any window, answers justified by the stores,
  every request in its tenant's metrics, no record lost in the registry;
* algorithms: each returns what its definition by exhaustive search says; the
  list is a sequence.

## 2. Modules

| Module | Models | Notes |
|---|---|---|
| `JobQueue` | `queue.go`, `scheduler.go` | one action per critical section of `q.mu`; the heap is the set of its jobs |
| `Dispatcher` | `dispatcher.go`, the worker's side of `dequeue` | EXTENDS `JobQueue`; the composed system |
| `MCDispatcher` | | constants of the four instances |
| `JobHeap` | `jobHeap` as an array under container/heap | each turn of the sift loops is a step; refines `PriorityPool`, which justifies the set in `JobQueue` (*Resubmission* below) |
| `PriorityPool` | | abstract: a pool whose pop yields a job none precedes |
| `Backoff` | `backoff` with the wrap-around of `time.Duration` | operators |
| `Window` | `window.go` | operators on the ring buffer's record |
| `SlidingWindow` | | abstract: the sequence of the last `Size` outcomes |
| `CircuitBreaker`, `MCBreaker` | `breaker.go` | EXTENDS `Window`; with callers and an upstream that falls ill, recovers or panics |
| `PubSub` | `pubsub.go` | |
| `WorkerPool` | `worker_pool.go`, `worker.go` | |
| `ChannelPrograms` | | runs `PubSub` or `WorkerPool`, each alone; states the fairness of both |
| `RateLimiter` | `pkg/rate_limiter.go` | a behaviour exercises one of the three types |
| `SteadyBucket` | | abstract: a bucket refilled at every multiple of the interval |
| `Gateway`, `MCGateway` | `gateway.go`, `authn.go`, `authz.go`, `tenant.go`, `rate_limiter.go` | |
| `ObservedGateway`, `MCObserved` | the middleware of `observability.go` | EXTENDS `Gateway`: the composed chain |
| `Metrics` | `MetricsRegistry`, `RequestMetrics` | recorders step by step |
| `LinkedList` | `pkg/linked_list.go` | nodes and their pointers |
| `Numbers`, `Slices`, `Texts` | the pure functions of `pkg/`, `newspaper_formatter.go`, `P99` and `remoteIP` | an operator per function, followed by its reference definition |
| `Library` | | runs `JobHeap`, `LinkedList`, `Metrics`, `RateLimiter`, `Backoff` and the pure functions, each alone |
| `DispatcherProofs`, `BreakerProofs`, `PubSubProofs`, `PoolProofs`, `LimiterProofs`, `GatewayProofs`, `MetricsProofs`, `LibraryProofs` | | theorems; each EXTENDS the module it is about, `GatewayProofs` the observed gateway, `PoolProofs` the whole of `ChannelPrograms`, `LibraryProofs` the whole of `Library` |

Operators named `X_Something` under a comment "Mutant:" are faulty versions of
`X`.  Nothing uses them; substituting one for `X` must make a run fail, which
shows that the property concerned depends on that piece of code.

### Correspondence with the code

*Locks.*  A critical section is one action.  What the code does after an
unlock is an action of its own: the ping after `promoteReady`, the parking of a
worker after `dequeue` released the lock, the sends of `Publish`, the upstream
call between `beforeCall` and `afterCall`, the header's second look at the
bucket.  `hasPermission` takes the lock of the role store once for every role of
the request, so `LookUpRole` is a step per role and `looked` counts them.
`promoteReady` reads the clock before it takes the lock, so `TimerFires` stores
the instant and `promoteReady` uses it later.

*Channels.*  A one-slot signal channel is a Boolean; a non-blocking send sets
it.  Buffered channels are sequences with their capacity; a blocking send or
receive is a guard.  `select` is a disjunction, as Go chooses any ready case.

*Time* is a discrete clock with an action `Tick`.  In `JobQueue` it starts at
1 so that 0 is Go's zero `time.Time`.  The breaker keeps the age of the open
state instead, up to `OpenTimeout`, which is all the code compares.

*Rejected calls* that change nothing (`Enqueue` on a closed queue or of a known
ID, `Unsubscribe` of an unknown channel) are not actions: they would stutter.

*Resubmission.*  `Schedule` and `ScheduleAt` assign `job.RunAt` without the
queue's lock and then call `Enqueue`.  Of a job the queue does not have nobody
reads `RunAt` before `Enqueue` has the lock, so assignment and accepted `Enqueue`
are one action.  When `Enqueue` turns the job away the assignment stays: that is
`SetRunAt`, which moves the `RunAt` of a job wherever it is, and the history
`rewritten` remembers the jobs it did this to.  Three things follow.  The
bisection of `insertScheduled` may meet an unsorted list: `SearchScheduled` is
then any place it can end at.  The heap may no longer be in the order of `RunAt`,
only in that of the priorities, which each sift keeps whatever `Less` says of
equal priorities: `Foremost` says so, and `JobHeap`, in which a job's keys do not
change, justifies it for as long as `rewritten` is empty.  And the assignment
races with readers of `RunAt`; the model writes it in one piece, although
`time.Time` has several words.

*Data.*  A job is its identity, priority, type and `RunAt`; payloads, names and
log lines are left out.  The failure rate, a float64 quotient in the code, is
compared by cross-multiplication with a rational threshold.  A JWT is a record
that says whether it is genuine (well-formed, signed, right issuer and
audience), when it expires and what it claims; API keys stand for their hashes.
The plans' quotas are a constant function instead of 100, 1 000 and 10 000.

*Backoff.*  TLC's integers have 32 bits, so a duration is `mant * 2^exp`
nanoseconds; a second is `5^9 * 2^9`.  A float64 beyond int64 converts to the
least int64 on amd64 and to the greatest on arm64: the check covers both.

*Panics.*  `CallPanics` unwinds a caller past `afterCall`.  The history variable
`lost` remembers that a probe went this way.  Pure functions that may panic
yield no result then.

*Contexts.*  A context of Go is the sequence of the pairs it was derived with.
`ObsCtx` is the observability middleware's, `AuthCtx` the one that the
authentication derives from it.  The metrics are recorded in one step there;
`Metrics` has the atomic counters and the two lookups as steps of their own.

*Pure functions.*  A loop is a fold over what it ranges over or a recursive
function whose arguments are its variables; no module declares a recursive
operator, so that the provers reach all of them.  An assignment to a Go map is
`Assign`.  Texts are ASCII and abstracted to
the classes of characters a function tells apart; a word of the newspaper is
its length.  A 64-bit argument of `Reverse` is the sequence of its digits, as
TLC's integers have 32 bits.

## 3. Runs

| Run | Shows | Bounds and why they suffice |
|---|---|---|
| `queue_safety` | the safety of broker and workers | two jobs of different priority and type, one of which may be retried and one of which leaves `MaxAttempts` unset and may be scheduled again in vain; two workers (symmetric); three instants.  Every list gets two entries, a job can be overtaken, promoted, retried and dead-lettered, its `RunAt` moved while it is in any place, and both workers can sleep; 2.0 million states |
| `queue_liveness` | `EveryJobSettles`, `ShutdownTerminates` | the same with two instants: enough for a future job and for one retry |
| `queue_idle_worker` | violation, section 5 | the same without resubmission |
| `queue_rewritten` | violation, section 5 | three instants, the other job may be scheduled again |
| `library` | the heap implements `PriorityPool`, the list a sequence, the registry loses no record, the window limiters keep their bound and refuse only at it, the token bucket is a steady one, every pure function agrees with its reference, the delay up to attempt 34 | five jobs (symmetric), two priorities, two instants: three levels, both children, equal keys; four nodes and three values; three recorders of two tenants with room for one sample; limit 3, interval 3, refill 2 and ten instants: three intervals, a refill that does not divide the capacity; arguments of up to three to six elements, with the 32-bit edges of `Reverse` and sample counts around 100 on top |
| `backoff_overflow` | violation, section 5 | attempts up to 80, past the last change of the formula at attempt 64 |
| `breaker` | window, state, flag, recovery | three callers of which any may panic, a window of four that trips from three calls on, a timeout of two ticks: the ring wraps, is reset half-full and wraps again |
| `breaker_single_probe` | violation, section 5 | four callers, a window of two |
| `channels` | pub-sub: registry, order, topic, `PublishReturns`; pool: every job answered once, `results` closed last, the loop ends | two publishers with two messages each, two channels with room for two, two topics: buffers fill, removals swap, subscriptions end during a publish; two workers, buffers of two, up to seven jobs: the late-reading caller's limit is six, so both sides of it occur |
| `pubsub_panic` | violation, section 5 | one publisher, one message |
| `gateway` | quotas and answers while the stores change | two requests (symmetric), two tenants, quotas 1 and 2, windows of one tick out of two, two changes of a store at any moments.  One of the requests may carry two roles, of which a change can take the permission from the one and give it to the other between their lookups |
| `gateway_metrics` | violation, section 5 | as `gateway`, with one change |

Named bounds: `Horizon` (the clock; a retry that would lie beyond it is not
taken, so at the last instant handlers only succeed or exhaust their attempts),
`Resubmitted` (the jobs whose `RunAt` a rejected `Schedule` may move),
`MaxPublish`, `MaxJobs`, `MaxChanges`, `MaxSamples` (1000 in the code), `Nodes`.
`CHECK_DEADLOCK FALSE` is given where the system may stop: a queue that was shut
down, publishers, a pool, recorders or requests that have done their work, a
pure function.

### Fairness

* `Dispatcher!Fairness`: weak fairness of every worker, of the scheduler and of
  the clock.  The Go runtime runs goroutines that can run, timers fire, and a
  handler is assumed to return (the context is handed to it).  Clients owe
  nothing: no fairness of `Enqueue`, `Register`, `Close` or `Cancel`.
* `CircuitBreaker!Fairness`: traffic continues, upstream calls that do not panic
  return, time passes.  `Recovers` additionally assumes that the upstream stays
  healthy and that no probe is lost to a panic; any other call may be.
* `ChannelPrograms!ProgramsSpec`: of the broker only a goroutine inside `Publish`
  keeps running, nobody needs to receive; of the pool every goroutine that can
  run is run, the caller's included.

## 4. Proofs

All theorems hold for every value of the constants that satisfies the named
assumptions: any sets of jobs, workers, callers, topics, tenants and requests,
any priorities, retry limits (also non-positive ones), delays (also negative
ones), window sizes, thresholds, quotas, limits and intervals.  Beyond ranges
the assumptions say that

* the pool's workers, the recorders and the channels ever made are finitely
  many (`PoolAssumption`, `MetricsAssumption`, `PubSubAssumption`): each is a
  goroutine or a value of a running program, and they are counted;
* a token's and a key's tenant is some tenant ID, stored or not
  (`GatewayAssumption`), as any string is in the code; plans' quotas are positive;
* priorities and times are integers (`HeapAssumption`), and the addresses of
  list nodes are finitely many numbers other than nil (`ListAssumption`).

TLC evaluates each of them in the run of the module that states it.

| Theorem | Statement | Argument |
|---|---|---|
| `DispatcherProofs!TypeCorrect` | `Spec => []TypeOK` | one step per action; lemmas on where `InsertAt` puts a job and on what `SearchScheduled` and `DuePrefix` choose |
| `DispatcherProofs!WakeupNeverLost` | `Spec => []NoLostWakeup` | inductive with `TypeOK`: whoever fills the heap signals or is about to, whoever takes a signal is awake, whoever parks saw an empty heap |
| `DispatcherProofs!OnePlace` | `Spec => []JobInOnePlace` | inductive with `TypeOK`; the lemma `StepKinds` reduces the actions to the few ways in which a step moves a job |
| `DispatcherProofs!TerminalStaysTerminal` | `Spec => TerminalIsFinal` | from `JobInOnePlace`: only jobs in hand or unknown jobs change their status |
| `DispatcherProofs!SchedulerNeverOversleeps` | `Spec => []NeverOversleeps` | inductive with `JobInOnePlace`, as long as `rewritten` is empty: `RunAt` of a listed job does not change, because a job that is placed is not in the list, and the head only gets later by promotion and earlier by an insertion that signals |
| `DispatcherProofs!NeverRunsEarly` | `Spec => []NeverEarly` | strengthened by `ReadInPast`: the instant that `promoteReady` acts on is not in the future; jobs that were not rewritten keep their `RunAt` until they are placed again |
| `DispatcherProofs!AttemptsStayBounded` | `Spec => []AttemptsBounded` | strengthened by `AttemptsLeft`: a job in the queue or just picked has an attempt left |
| `BreakerProofs!BreakerTypeCorrect` | `Spec => []TypeOK` | the counters stay in range only because the counter is exact, so it is proved with `WindowExact` |
| `BreakerProofs!CounterExact` | `Spec => []WindowExact` | the failures among the valid slots before and after `record` differ by the evicted and the added one |
| `BreakerProofs!ClosedBelowThreshold` | `Spec => []ClosedMeansBelowThreshold` | every step into the closed state resets the window, every outcome is judged at once |
| `BreakerProofs!ProbingIsOwned` | `Spec => []ProbingHasProbe` | a call that returns in the half-open state, probe or not, clears the flag; a probe that panics is remembered in `lost` |
| `BreakerProofs!NeverTrips` | `Minimum > Size` implies `Spec => [](state = "closed")` | the window never holds more than `Size` outcomes, by `TypeOK` |
| `BreakerProofs!WindowSlides` | `Spec => KeepsLastOutcomes` | refinement: `RecordSlides` computes the slot of the i-th oldest outcome before and after `record`, for a ring that fills, is full, or wraps |
| `PubSubProofs!BrokerTyped` | `Spec => []TypeOK` | one step per action; `Typed` adds that a publish in flight has a message number |
| `PubSubProofs!BrokerRegistryExact` | `Spec => []RegistryExact` | `Registry` restates it without counting: open means listed somewhere, lists repeat nothing, no channel is on two topics; then the one place is a singleton |
| `PubSubProofs!BrokerInvariant`, `BrokerDeliversInOrder` | `Spec => []BrokerInv`, `Spec => []DeliveredInOrder` | strengthened by `Delivery`: a channel that a publish in flight has yet to reach holds nothing of that message and nothing newer of that publisher |
| `PubSubProofs!BrokerPanicsOnlyInPublish` | only a step of `Publish` can panic | from `Registry`: what `Unsubscribe` and `Close` close is open |
| `PoolProofs!PoolTyped` | `PoolSpec => []PoolTypeOK` | one step per action |
| `PoolProofs!PoolInvariant`, `PoolKeepsJobs` | `PoolSpec => []PoolInv`, `PoolSpec => []EveryJobOnce` | lemmas on the jobs in a concatenation of channels; moving a job between channel and hand keeps their number and their union |
| `PoolProofs!PoolAnswersAll` | `PoolSpec => []ResultsComplete` | strengthened by `ShutdownOrder`: the caller has submitted all before `jobs` is closed, workers leave only then and empty-handed, `results` closes after the last of them |
| `PoolProofs!ProgramsAreApart` | `ProgramsSpec => Spec /\ PoolSpec` | a step of `ChannelPrograms` is one of the program it runs |
| `LimiterProofs!LimiterTyped` | `LimiterSpec => []LimiterTypeOK` | with the bounds of integer division that `refill` relies on |
| `LimiterProofs!LimiterInvariant`, `LimitsKept`, `LimitsUsed` | `[]LimiterInv`, `[]NoIntervalExceeded`, `[]RefusesOnlyWhenFull` | `FixedInv` and `SlidingInv` place the limiter's counters in the history; `Spaced(d)`, of any d + 1 consecutive admissions the last comes more than an interval after the first, turns the counting of an interval into a comparison of two entries |
| `LimiterProofs!BucketRefillsSteadily` | `LimiterSpec => RefillsSteadily` | refinement to `SteadyBucket`, which refuses only when it is empty, strengthened by `OnBeat`: `lastRefill` is a multiple of the interval |
| `GatewayProofs!GatewayInvariant`, `GatewayTyped` | `Spec => []GatewayInv`, `Spec => []TypeOK` | see below |
| `GatewayProofs!GatewayQuotaKept` | `Spec => []QuotaKept` | what the eviction keeps are the tenant's admissions within the window (`KeptFacts`), so the new one's window holds those and itself |
| `GatewayProofs!GatewayRefusesOnlyWhenFull` | `Spec => RefusedOnlyWhenFull` | the same lemma: a refusal finds as many kept timestamps as the quota, each of an admission in the window |
| `GatewayProofs!GatewayRemaining` | `Spec => []RemainingBelowLimit` | `RingStaysUsed`: a ring with a timestamp is never emptied, so the second look finds at least one |
| `GatewayProofs!GatewayJustified` | `Spec => []AnswerJustified` | `Witnessed`: the history holds what is the case now, so what a middleware reads is in it, and `SeenRoles`: the roles looked up so far have been seen to withhold the permission; `Moves` lists where a step can take a request and what it saw |
| `MetricsProofs!MetricsInvariant`, `MetricsExact` | `MetricsSpec => []MetricsInv`, `MetricsSpec => []NoRecordLost` | strengthened by `OnePerTenant`: a bucket is set once, no two tenants share one, and every recorder past `For` holds its tenant's |
| `GatewayProofs!ObservedImplementsGateway` | `ObservedSpec => Spec` | refinement: the middleware around the chain only adds steps that leave the chain's variables alone, so every theorem about the gateway holds of the composed chain |
| `GatewayProofs!NothingIsRecorded` | `ObservedSpec => []` no tenant has a recorded request | the context the middleware keeps holds the trace ID alone, whatever the request (section 5) |
| `LibraryProofs!HeapImplementsPool` | `Spec => PopsForemost` | refinement to `PriorityPool` with `HeapInv`, see below |
| `LibraryProofs!ListImplementsSequence` | `ListSpec => ListIsSequence` | `ListInv`: a chain of distinct nodes leads from the head to nil; each operation is shown to leave such a chain and the values along it |
| `LibraryProofs!BackoffAsDocumented` | the delay of every attempt in 1 .. 34 is the documented one | the product keeps every bit of 5^9, and a table of powers of two places it below or above the cap |
| `LibraryProofs!BackoffOverflows` | the delay of attempt 35 is not; beyond attempt 34 every delay is the cap or not positive | a positive product is above the cap there, whatever bits the overflow leaves |
| `LibraryProofs!TwoSumExact` | `TwoSum` on any slice of integers | `TwoSumInv` after each prefix: the map holds a place of every value seen and no two places seen sum up to the target, or the pair with the earliest right end is found |
| `LibraryProofs!LongestSubstringExact` | `LengthOfLongestSubstring` on any string | `SubstringInv` after each prefix: the window is the longest piece without a repetition that ends there, `charIndex` holds the last place of every character, and `maxLen` is the length of the longest piece so far |
| `LibraryProofs!ReverseArrayExact`, `ReverseMiddleExact` | on any slice and any word that is not empty | `SwapInwardTurns`: after k swaps the k outermost places on either side are exchanged and the others untouched |
| `LibraryProofs!CaseDiffExact` | `CaseDiff` on any text of letters | the count after each prefix, and that what is not upper case is lower case |
| `LibraryProofs!RemoteIPExact` | `remoteIP` on any header | what the cut at the first comma and the trimming of blanks leave |
| `LibraryProofs!ReverseStaysInInt32` | `Reverse` of any digits is in int32 | the range is kept by every turn: the overflow test is made before the product |
| `LibraryProofs!ScansAreExact` | `LibrarySpec => []ScansExact` | the six theorems above on the arguments of the run |
| `LibraryProofs!LibraryExercisesParts`, `LibraryImplements` | `LibrarySpec => Spec /\ ListSpec /\ MetricsSpec /\ LimiterSpec`, `LibrarySpec => PopsForemost /\ ListIsSequence` | a step of `Library` is one of the part it exercises |

`HeapInv` says, besides types and distinct IDs, that no job precedes its parent
in the array except where the sift under way has yet to settle it: the moving
job and its parent on the way up, the moving job and its children on the way
down.  This is not inductive: one swap turns the parent's parent into the
parent.  So it adds that the children of the moving job do not precede its
parent, and that the job at the end of the array, which a pop will cut off, is
preceded by none.  That the root is foremost follows by induction over
positions, each of which has a smaller parent.

Facts about loops over any number of elements are inductions over the naturals,
written without an operator parameter: `Least` takes the least element of a set
of naturals from the well-foundedness of `<`, and `Induct` says that a subset of
the naturals that has its base and is closed under successor holds all of them.
A fold of the community modules chooses a recursive function; `FoldExists`
shows that there is one, and `FoldsOf` and the `...Runs` lemmas give its value
after each prefix, on which the invariants of the loops are stated.

The gateway's invariant has six parts.  `Shape` ties a request's place in the
chain to its claims and quota; `Rings` says that a tenant's ring is in the order
of time, is the end of the history of its admissions, and that what is no longer
in it has left the window, for without this the number of timestamps says
nothing about the number of admissions; `Headers` and `Witnessed` carry facts
from one middleware to a later one; `QuotaKept` and `AnswerJustified` are the
properties themselves.

Only model-checked:

* liveness under fairness (`EveryJobSettles`, `ShutdownTerminates`, `Recovers`,
  `PublishReturns`, `PoolAnswers`), which the provers cannot do;
* `NumbersExact`, of which only the delay of the backoff and the 32-bit range of
  `Reverse` are proved, and
  `SearchesExact`: their functions sort, flatten or recurse on several
  arguments, and their references count subarrays, sum over subsets or multiply
  digits by powers; each fact about every input is an induction over data of its
  own, with arithmetic that is not linear, which the provers do not do;
* the violations of section 5.

## 5. Disagreements between code and documentation

Shown by a run:

* `queue_idle_worker`.  Two jobs enqueued before a worker wakes leave one
  signal in `notify`.  One worker takes it and is busy with its handler; the
  other sleeps while the second job is pending.  The comment on `Enqueue`
  promises that a waiting worker picks the job up immediately.  `NoLostWakeup`
  and `EveryJobSettles` are what does hold.
* `queue_rewritten`.  `scheduler.go:35` and `:42` write `job.RunAt` before
  `Enqueue` answers `ErrDuplicateJob`.  Scheduling a job again that waits on the
  list unsorts the list (`queue.go:144`, "sorted ascending by RunAt"), and the
  scheduler may then oversleep the jobs behind it.  `NeverOversleeps` and
  `NeverEarly` are what holds: the one until a `RunAt` is overwritten, the other
  of every job whose own was not.
* `backoff_overflow`.  `dispatcher.go:151`: at attempt 35 the product overflows
  int64, is negative, passes the comparison with the cap, and the retry is
  immediate (`dispatcher.go:142`, "capped at 5 min").  Theorem `BackoffOverflows`
  says the same, and `BackoffAsDocumented` that attempts 1 to 34 are right.
* `breaker_single_probe`.  `afterCall` clears `probing` for any call that
  returns in the half-open state, also for one admitted before the breaker
  tripped, and a second probe can start while the first is in flight.
* `pubsub_panic`.  A subscription that ends between `Publish`'s copy and its
  send makes the send panic on a closed channel.
* `gateway_metrics`.  `observability.go:227` reads the tenant from the outer
  context, which never carries one, so that no request is ever recorded
  (`observability.go:192`, "Records latency, status code, and tenant in the
  metrics registry").  Theorem `NothingIsRecorded` shows it for any tenants,
  tokens, requests and changes of the stores.

Found by reading and earlier variants of the models, not kept as runs:

* `queue.go:100-101` promises FIFO among equal jobs; `heap.Pop` moves the last
  job to the root, and of three equal jobs the third leaves before the second.
  `PriorityPool` leaves the order of equal jobs open, as the code does.
* `dequeue` looks at the context only in its `select`, so workers take jobs
  after `cancel()` while the heap is not empty (`job-queue/README.md:169`).
* A call admitted while closed that returns half-open decides the state without
  a probe (`circuit-breaker/README.md:80`); one that returns while open reaches
  the case that `breaker.go:252` calls unreachable.
* `breaker.go:160-167`: if f panics in a probe, `probing` stays set until a call
  admitted earlier returns, and for ever if there is none
  (`circuit-breaker/README.md:180`, "cleared in `afterCall` regardless of
  outcome").  `ProbingHasProbe` and `Recovers` state what holds otherwise.
* `breaker.go:115`: with `MinimumCalls > WindowSize` the breaker never trips
  (theorem `NeverTrips`).
* A caller of the worker pool that reads only after `Done` deadlocks exactly
  when it submits more than `2 * jobBufferSize + numWorkers` jobs; `PoolFinishes`
  has this bound.  The repository's own callers stay below it.
* `observability.go:115` says "Keep last 1000 samples"; the code keeps the first
  1000, and `P99` no longer changes after them.
* `CaseDiff` is documented as a difference of letters (`case_diff.go:5`) and
  counts every other character as a lower-case letter.  `ScansExact` compares it
  with the documented difference on texts of letters.
* `GetPredictionDiff` (`prediction_diff.go:9`, "keys with different values")
  ignores the errors of `json.Unmarshal`, so that a value that is no string
  equals the empty string, and two different ones are not reported.
  `SearchesExact` compares it with the documented result where all values are
  strings.
* `formatNewspaper` panics on a word wider than the page and
  `ReverseMiddle` on an empty word.
* `authz.go:182-187` requires permissions on the resource `*`, so a tenant's
  role for a single resource such as `invoices:write` opens no route, although
  `api-gateway/README.md:137` says that `POST /api/invoices` requires
  `invoices:write`.  `AnswerJustified` speaks of the permission that
  `requiredPermission` computes.
* `authz.go:140-143` looks the roles of a request up one after the other.  When
  one role gains the permission after its lookup and another loses it before its
  own, the request is refused with 403 although it was permitted at every
  instant.  `AnswerJustified` states what holds: each role, when it was looked
  up, did not grant.
* A request that AuthZ refuses has already consumed quota, and a quota raised
  while a request is between its two looks at the bucket can make
  `X-RateLimit-Remaining` negative.

## 6. Not modelled

* `Queue.DLQ`, `Queue.Snapshot`, `CircuitBreaker.Metrics`: they only read.
* `OnStateChange`: user code in a goroutine of its own; no state depends on it.
* Panicking job handlers, which end the program, and a panicking upstream of the
  gateway, which net/http recovers outside this code.
* Texts that are not ASCII, where `Convert` re-encodes single bytes, and
  row counts below one.
* Worker pools with unbuffered channels (`jobBufferSize` 0).
* The limiter's branch for an empty tenant ID and AuthZ's for missing claims,
  which AuthN makes unreachable; trace IDs and the log line; `itoa`, the border
  of the newspaper and other formatting.
* A torn read of a `RunAt` that `Schedule` is overwriting (section 2).
* `cmd/main.go` and the demonstrations `Run...` and `simulateLimiter`, which
  print.

## 7. Plan

All parts with state or logic of their own are modelled, and every safety
property, action property and refinement that a run checks is a theorem, except
the two named in section 4.  What could follow: the invariants of the loops of
`SubarraySum` (the map counts the prefix sums) and `MinOperations`, the rows of
`Convert`, and the carries of `AddNumbers`, each by `Induct` over prefixes as
the scans are.
