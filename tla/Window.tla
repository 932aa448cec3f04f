------------------------------- MODULE Window -------------------------------
(***************************************************************************)
(* The ring buffer of call outcomes of system-design/circuit-breaker       *)
(* (window.go), as operators on a record [ring, head, total, failures].    *)
(***************************************************************************)
EXTENDS Integers, FiniteSets

CONSTANT WindowSize   \* Config.WindowSize as the user set it

ASSUME WindowAssumption == WindowSize \in Int

\* applyDefaults: a size that is not positive becomes 10.
Size  == IF WindowSize <= 0 THEN 10 ELSE WindowSize
Slots == 0 .. Size - 1

Windows == [ring : [Slots -> BOOLEAN], head : Slots, total : 0 .. Size, failures : 0 .. Size]

\* make([]bool, size): every slot starts as a failure that does not count.
newWindow == [ring |-> [i \in Slots |-> FALSE], head |-> 0, total |-> 0, failures |-> 0]

\* Mutant: the evicted outcome stays in the failure counter.
record_ForgetsEviction(w, success) ==
    [ring     |-> [w.ring EXCEPT ![w.head] = success],
     head     |-> (w.head + 1) % Size,
     total    |-> IF w.total = Size THEN Size ELSE w.total + 1,
     failures |-> IF success THEN w.failures ELSE w.failures + 1]

\* Mutant: head runs past the end of the ring.
record_NoWrap(w, success) ==
    [w EXCEPT !.ring[w.head] = success,
              !.head = @ + 1,
              !.total = @ + 1,
              !.failures = IF success THEN @ ELSE @ + 1]

\* Mutant: off by one in the wrap-around of a full ring.
record_ShortRing(w, success) ==
    LET full    == w.total = Size
        evicted == IF full /\ ~ w.ring[w.head] THEN 1 ELSE 0
        added   == IF success THEN 0 ELSE 1
    IN  [ring     |-> [w.ring EXCEPT ![w.head] = success],
         head     |-> IF full THEN (w.head + 1) % (Size - 1) ELSE (w.head + 1) % Size,
         total    |-> IF full THEN w.total ELSE w.total + 1,
         failures |-> w.failures - evicted + added]

\* record: a full ring first takes the outcome at head out of the counter.
record(w, success) ==
    LET full    == w.total = Size
        evicted == IF full /\ ~ w.ring[w.head] THEN 1 ELSE 0
        added   == IF success THEN 0 ELSE 1
    IN  [ring     |-> [w.ring EXCEPT ![w.head] = success],
         head     |-> (w.head + 1) % Size,
         total    |-> IF full THEN w.total ELSE w.total + 1,
         failures |-> w.failures - evicted + added]

\* failureRate() >= num / den, for a positive fraction; an empty window has
\* rate 0.
RateReaches(w, num, den) == w.total > 0 /\ w.failures * den >= num * w.total

\* reset leaves the ring's contents in place.
reset(w) == [ring |-> w.ring, head |-> 0, total |-> 0, failures |-> 0]

\* The recorded outcomes, oldest first.
Outcomes(w) == [i \in 1 .. w.total |-> w.ring[(w.head - w.total + i - 1) % Size]]

\* The failures among the valid slots, the first total ones.
FailedSlots(w) == {i \in 0 .. w.total - 1 : ~ w.ring[i]}

\* The running counter is exact and head is where the oldest outcome, or the
\* first free slot, is.
Exact(w) ==
    /\ w.failures = Cardinality(FailedSlots(w))
    /\ w.total < Size => w.head = w.total
=============================================================================
