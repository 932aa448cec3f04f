---------------------------- MODULE PriorityPool ----------------------------
(***************************************************************************)
(* What the pending heap of system-design/job-queue promises its queue: a  *)
(* set of jobs from which a pop takes a job that no other job precedes.    *)
(***************************************************************************)
EXTENDS Integers

CONSTANT Job     \* jobs, with at least the fields priority and runAt

VARIABLES pool,    \* the jobs in the heap
          popped   \* the jobs the last pop returned: none or one

\* queue.go:99-101: higher priority first, ties broken by the earlier RunAt.
Precedes(a, b) ==
    \/ a.priority > b.priority
    \/ a.priority = b.priority /\ a.runAt < b.runAt

Init == pool = {} /\ popped = {}

Add == \E x \in Job \ pool : pool' = pool \union {x} /\ popped' = {}

Take ==
    \E x \in pool :
        /\ \A y \in pool : ~ Precedes(y, x)
        /\ pool' = pool \ {x}
        /\ popped' = {x}

Spec == Init /\ [][Add \/ Take]_<<pool, popped>>
=============================================================================
