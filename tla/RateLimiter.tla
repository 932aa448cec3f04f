---------------------------- MODULE RateLimiter -----------------------------
(***************************************************************************)
(* The three limiters of pkg/rate_limiter.go: token bucket, fixed-window   *)
(* counter and sliding-window log.  A behaviour exercises one of them, as  *)
(* simulateLimiter does through the interface rateLimiter.  Allow is one   *)
(* critical section that reads the clock inside it; any time may pass      *)
(* between two calls.                                                      *)
(***************************************************************************)
EXTENDS Integers, Sequences, FiniteSets

CONSTANTS Limit,       \* capacity of the bucket, limit of the windows
          Interval,    \* refillInterval, windowSize, in clock ticks
          RefillRate,  \* tokens added per interval
          Horizon      \* bound: the clock never passes this instant

ASSUME LimiterAssumption ==
    Limit \in Nat /\ Interval \in Nat \ {0} /\ RefillRate \in Nat /\ Horizon \in Nat

VARIABLES now,          \* the clock
          kind,         \* which limiter this is
          tokens,       \* tb.tokens
          lastRefill,   \* tb.lastRefill
          count,        \* fw.count
          windowStart,  \* fw.windowStart
          timestamps,   \* sw.timestamps
          refused,      \* the last Allow, at this instant, returned false
          admitted      \* history: when Allow returned true, in order

bucketVars  == <<tokens, lastRefill>>
fixedVars   == <<count, windowStart>>
limiterVars == <<now, kind, bucketVars, fixedVars, timestamps, refused, admitted>>

\* NewTokenBucket, NewFixedWindow or NewSlidingWindow, at the instant 0.
LimiterInit ==
    /\ now = 0
    /\ kind \in {"bucket", "fixed", "sliding"}
    /\ tokens = Limit /\ lastRefill = 0
    /\ count = 0 /\ windowStart = 0
    /\ timestamps = <<>>
    /\ refused = FALSE /\ admitted = <<>>

\* What Allow returns.
Return(allowed) ==
    /\ refused' = ~ allowed
    /\ admitted' = IF allowed THEN Append(admitted, now) ELSE admitted
-----------------------------------------------------------------------------
\* Token bucket.  refill credits the whole intervals that have passed; the
\* rest of the time stays on account in lastRefill.
intervals == (now - lastRefill) \div Interval

\* Mutant: the clock's reading is stored, and the part of an interval that
\* had already passed is lost.
refillTime_Now == IF intervals > 0 THEN now ELSE lastRefill

refillTime == lastRefill + intervals * Interval

refilled ==
    IF intervals > 0 /\ tokens + intervals * RefillRate > Limit THEN Limit
    ELSE tokens + intervals * RefillRate

AllowBucket ==
    /\ kind = "bucket"
    /\ lastRefill' = refillTime
    /\ tokens' = IF refilled > 0 THEN refilled - 1 ELSE refilled
    /\ Return(refilled > 0)
    /\ UNCHANGED <<now, kind, fixedVars, timestamps>>
-----------------------------------------------------------------------------
\* Fixed window.  A window starts with the first call after the previous one
\* has ended.
\* Mutant: the window ends one tick late.
Expired_Late == now - windowStart > Interval

Expired == now - windowStart >= Interval

\* The counter after a possible reset.
counted == IF Expired THEN 0 ELSE count

\* Mutant: off by one in the comparison with the limit.
AllowFixed_OneMore ==
    /\ kind = "fixed"
    /\ windowStart' = IF Expired THEN now ELSE windowStart
    /\ count' = IF counted <= Limit THEN counted + 1 ELSE counted
    /\ Return(counted <= Limit)
    /\ UNCHANGED <<now, kind, bucketVars, timestamps>>

AllowFixed ==
    /\ kind = "fixed"
    /\ windowStart' = IF Expired THEN now ELSE windowStart
    /\ count' = IF counted < Limit THEN counted + 1 ELSE counted
    /\ Return(counted < Limit)
    /\ UNCHANGED <<now, kind, bucketVars, timestamps>>
-----------------------------------------------------------------------------
\* Sliding window.
\* Mutant: a timestamp exactly as old as the window is evicted.
Old_OnCutoff(t) == t <= now - Interval

\* timestamps[i].Before(cutoff)
Old(t) == t < now - Interval

\* The length of the prefix that the loop evicts.
evicted ==
    CHOOSE n \in 0 .. Len(timestamps) :
        /\ \A i \in 1 .. n : Old(timestamps[i])
        /\ n < Len(timestamps) => ~ Old(timestamps[n + 1])

AllowSliding ==
    LET kept == SubSeq(timestamps, evicted + 1, Len(timestamps))
    IN  /\ kind = "sliding"
        /\ timestamps' = IF Len(kept) < Limit THEN Append(kept, now) ELSE kept
        /\ Return(Len(kept) < Limit)
        /\ UNCHANGED <<now, kind, bucketVars, fixedVars>>
-----------------------------------------------------------------------------
Tick ==
    /\ now < Horizon
    /\ now' = now + 1
    /\ refused' = FALSE
    /\ UNCHANGED <<kind, bucketVars, fixedVars, timestamps, admitted>>

LimiterNext == AllowBucket \/ AllowFixed \/ AllowSliding \/ Tick

LimiterSpec == LimiterInit /\ [][LimiterNext]_limiterVars
-----------------------------------------------------------------------------
\* How many requests were admitted in the closed interval from a to b.
Admitted(a, b) == Cardinality({i \in 1 .. Len(admitted) : admitted[i] \in a .. b})

\* The shape of the state: the bucket never overflows or goes negative, and
\* no counter passes the limit.
LimiterTypeOK ==
    /\ now \in 0 .. Horizon
    /\ kind \in {"bucket", "fixed", "sliding"}
    /\ tokens \in 0 .. Limit /\ lastRefill \in 0 .. now
    /\ count \in 0 .. Limit /\ windowStart \in 0 .. now
    /\ timestamps \in Seq(0 .. now) /\ Len(timestamps) <= Limit
    /\ refused \in BOOLEAN
    /\ admitted \in Seq(0 .. now)

\* Token bucket: lazy refilling in Allow is indistinguishable from a bucket
\* that is refilled at every multiple of the interval and refuses only when it
\* is empty, so no caller gains or loses a token by when it asks.  The other
\* limiters stutter.
Steady == INSTANCE SteadyBucket
    WITH Capacity <- Limit,
         now      <- IF kind = "bucket" THEN now ELSE 0,
         level    <- IF kind = "bucket" THEN refilled ELSE Limit,
         grants   <- IF kind = "bucket" THEN Len(admitted) ELSE 0,
         refused  <- IF kind = "bucket" THEN refused ELSE FALSE

RefillsSteadily == Steady!Spec

\* The window limiters never admit more than they promise in an interval of
\* the window's length, wherever it begins: the fixed window "can allow 2x the
\* limit at window boundaries" (rate_limiter.go:64-65) and no more, the sliding
\* window, "accurate, no boundary spikes" (rate_limiter.go:8), the limit.
NoIntervalExceeded ==
    \A a \in 0 .. now :
        /\ kind = "fixed" => Admitted(a, a + Interval) <= 2 * Limit
        /\ kind = "sliding" => Admitted(a, a + Interval) <= Limit

\* Nor do the window limiters refuse a request that the limit has room for:
\* the fixed window only when its own window, no longer than the documented
\* size, has admitted the limit, the sliding window only when the last interval
\* has.  (Of the token bucket, RefillsSteadily says when it refuses.)
RefusesOnlyWhenFull ==
    /\ kind = "fixed" /\ refused => Admitted(now - Interval + 1, now) >= Limit
    /\ kind = "sliding" /\ refused => Admitted(now - Interval, now) = Limit
=============================================================================
