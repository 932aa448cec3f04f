------------------------------ MODULE JobHeap -------------------------------
(***************************************************************************)
(* The pending heap of system-design/job-queue/queue.go as the array it    *)
(* is: type jobHeap under heap.Push and heap.Pop of container/heap, which  *)
(* call its Len, Less, Swap, Push and Pop.  Each turn of the loops up and  *)
(* down is a step; q.mu is held until the loop ends, so that no other      *)
(* operation starts before.  Positions are 1-based here, so that the       *)
(* parent of i is i \div 2.  Module JobQueue keeps the heap as a set;      *)
(* PopsForemost justifies that.                                            *)
(***************************************************************************)
EXTENDS Integers, Sequences, SequencesExt

CONSTANTS Ids,         \* job IDs
          Priorities,  \* values of job.Priority
          Times        \* values of job.RunAt

ASSUME HeapAssumption == Priorities \subseteq Int /\ Times \subseteq Int

Job == [id : Ids, priority : Priorities, runAt : Times]

VARIABLES heap,     \* the slice
          sift,     \* the loop under way and the position of the job it moves
          popped    \* what the last operation returned: no job or one

vars == <<heap, sift, popped>>

None == [loop |-> "none", at |-> 0]

\* Mutant: an earlier RunAt counts even against a higher priority.
Less_Either(a, b) == a.priority > b.priority \/ a.runAt < b.runAt

\* jobHeap.Less, on the jobs at the two positions.
Less(a, b) ==
    IF a.priority # b.priority THEN a.priority > b.priority ELSE a.runAt < b.runAt

Swap(h, i, j) == [h EXCEPT ![i] = h[j], ![j] = h[i]]

Init == heap = <<>> /\ sift = None /\ popped = {}

\* heap.Push(&q.pending, job): jobHeap.Push appends, then the job sifts up.
\* q.all keeps an ID from being in the heap twice.
Push(x) ==
    /\ sift = None
    /\ \A i \in 1 .. Len(heap) : heap[i].id # x.id
    /\ heap' = Append(heap, x)
    /\ sift' = [loop |-> "up", at |-> Len(heap) + 1]
    /\ popped' = {}

\* container/heap.up: the job at j rises while it is less than its parent.
Up ==
    LET j == sift.at
        i == j \div 2
    IN  /\ sift.loop = "up"
        /\ IF j = 1 \/ ~ Less(heap[j], heap[i])
           THEN sift' = None /\ UNCHANGED heap
           ELSE heap' = Swap(heap, i, j) /\ sift' = [sift EXCEPT !.at = i]
        /\ UNCHANGED popped

\* heap.Pop(&q.pending): the root is swapped with the last job and the new
\* root sinks.
Pop ==
    /\ sift = None /\ heap # <<>>
    /\ heap' = Swap(heap, 1, Len(heap))
    /\ sift' = [loop |-> "down", at |-> 1]
    /\ UNCHANGED popped

\* container/heap.down: the job at i sinks, among all but the last, below the
\* lesser of its children; the left one if they are equal.
Lesser(i) ==
    IF 2 * i + 1 < Len(heap) /\ Less(heap[2 * i + 1], heap[2 * i]) THEN 2 * i + 1 ELSE 2 * i

Sinks(i) == 2 * i < Len(heap) /\ Less(heap[Lesser(i)], heap[i])

Down ==
    /\ sift.loop = "down" /\ Sinks(sift.at)
    /\ heap' = Swap(heap, sift.at, Lesser(sift.at))
    /\ sift' = [sift EXCEPT !.at = Lesser(sift.at)]
    /\ UNCHANGED popped

\* The loop has ended: jobHeap.Pop cuts the last position off.
Cut ==
    /\ sift.loop = "down" /\ ~ Sinks(sift.at)
    /\ heap' = SubSeq(heap, 1, Len(heap) - 1)
    /\ popped' = {heap[Len(heap)]}
    /\ sift' = None

Next == Up \/ Pop \/ Down \/ Cut \/ \E x \in Job : Push(x)

Spec == Init /\ [][Next]_vars
-----------------------------------------------------------------------------
Pool == INSTANCE PriorityPool WITH pool <- ToSet(heap)

\* The heap implements the pool: no push or pop loses or duplicates a job and
\* a pop returns a job that none precedes (queue.go:99-101).
PopsForemost == Pool!Spec
=============================================================================
