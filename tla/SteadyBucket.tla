---------------------------- MODULE SteadyBucket ----------------------------
(***************************************************************************)
(* What the token bucket of pkg/rate_limiter.go promises: tokens that      *)
(* refill at a steady rate.  Here the refill happens when it is due, at    *)
(* every multiple of the interval, whether or not anyone asks.             *)
(***************************************************************************)
EXTENDS Integers

CONSTANTS Capacity, RefillRate, Interval, Horizon

VARIABLES now,     \* the clock
          level,   \* tokens in the bucket
          grants,  \* how many requests were admitted
          refused  \* the last request, at this instant, was refused

Init == now = 0 /\ level = Capacity /\ grants = 0 /\ refused = FALSE

Capped(n) == IF n > Capacity THEN Capacity ELSE n

Tick ==
    /\ now < Horizon
    /\ now' = now + 1
    /\ level' = IF now' % Interval = 0 THEN Capped(level + RefillRate) ELSE level
    /\ refused' = FALSE
    /\ UNCHANGED grants

Grant ==
    /\ level > 0 /\ level' = level - 1 /\ grants' = grants + 1
    /\ refused' = FALSE
    /\ UNCHANGED now

\* Only an empty bucket refuses.
Refuse == level = 0 /\ refused' = TRUE /\ UNCHANGED <<now, level, grants>>

Spec == Init /\ [][Tick \/ Grant \/ Refuse]_<<now, level, grants, refused>>
=============================================================================
