---------------------------- MODULE LimiterProofs ---------------------------
(***************************************************************************)
(* What TLAPS proves about the limiters of pkg/rate_limiter.go for every   *)
(* limit, interval and refill rate.                                        *)
(***************************************************************************)
EXTENDS RateLimiter, FiniteSetTheorems, SequenceTheorems, TLAPS

(***************************************************************************)
(* Arithmetic the provers need spelled out.                                *)
(***************************************************************************)
LEMMA FirstIndex ==
    ASSUME NEW S, S \subseteq Nat, S # {}
    PROVE  \E n \in S : \A k \in S : n <= k
<1>1. PICK n \in S : \A k \in S : ~ (<<k, n>> \in OpToRel(<, Nat))
  BY NatLessThanWellFounded, WFMin, Zenon
<1>2. \A k \in S : ~ (k < n)
  BY <1>1 DEF OpToRel
<1>3. QED
  BY <1>2

LEMMA DivBounds ==
    ASSUME NEW a \in Nat, NEW b \in Nat \ {0}
    PROVE  /\ a \div b \in Nat
           /\ (a \div b) * b <= a
           /\ a < (a \div b) * b + b
OBVIOUS

LEMMA ProductNat ==
    ASSUME NEW a \in Nat, NEW b \in Nat PROVE a * b \in Nat
OBVIOUS

LEMMA DivUnique ==
    ASSUME NEW a \in Nat, NEW b \in Nat \ {0}, NEW q \in Nat,
           q * b <= a, a < q * b + b
    PROVE  a \div b = q
<1> DEFINE d == a \div b
<1>1. d \in Nat /\ d * b <= a /\ a < d * b + b
  BY DivBounds
<1> HIDE DEF d
<1>2. CASE d < q
  <2>1. (d + 1) * b <= q * b
    BY <1>1, <1>2
  <2>2. (d + 1) * b = d * b + b
    BY <1>1
  <2>3. QED
    BY <1>1, <2>1, <2>2
<1>3. CASE q < d
  <2>1. (q + 1) * b <= d * b
    BY <1>1, <1>3
  <2>2. (q + 1) * b = q * b + b
    BY <1>1
  <2>3. QED
    BY <1>1, <2>1, <2>2
<1>4. QED
  BY <1>1, <1>2, <1>3 DEF d

-----------------------------------------------------------------------------
\* What refill computes, for a bucket that keeps its type.
LEMMA BucketFacts ==
    ASSUME LimiterTypeOK
    PROVE  /\ intervals \in Nat
           /\ intervals * Interval \in Nat
           /\ lastRefill + intervals * Interval <= now
           /\ now < lastRefill + intervals * Interval + Interval
           /\ refillTime \in 0 .. now
           /\ intervals * RefillRate \in Nat
           /\ refilled = IF tokens + intervals * RefillRate > Limit THEN Limit
                         ELSE tokens + intervals * RefillRate
           /\ refilled \in 0 .. Limit
<1> USE LimiterAssumption
<1>1. /\ now \in Nat /\ lastRefill \in Nat /\ now - lastRefill \in Nat
      /\ tokens \in Nat /\ tokens <= Limit
  BY DEF LimiterTypeOK
<1>2. /\ intervals \in Nat
      /\ intervals * Interval <= now - lastRefill
      /\ now - lastRefill < intervals * Interval + Interval
  BY <1>1, DivBounds DEF intervals
<1>3. intervals * Interval \in Nat /\ intervals * RefillRate \in Nat
  BY <1>2, ProductNat
<1>4. refillTime \in 0 .. now
  BY <1>1, <1>2, <1>3 DEF refillTime
<1>5. intervals = 0 => intervals * RefillRate = 0
  BY <1>2
<1>6. refilled = IF tokens + intervals * RefillRate > Limit THEN Limit
                ELSE tokens + intervals * RefillRate
  BY <1>1, <1>2, <1>3, <1>5 DEF refilled
<1>7. refilled \in 0 .. Limit
  BY <1>1, <1>3, <1>6
<1>8. QED
  BY <1>1, <1>2, <1>3, <1>4, <1>6, <1>7

\* The eviction loop stops at the first timestamp that is not old, or at the
\* end of the log.
LEMMA EvictedFacts ==
    ASSUME LimiterTypeOK
    PROVE  LET kept == SubSeq(timestamps, evicted + 1, Len(timestamps))
           IN  /\ evicted \in 0 .. Len(timestamps) /\ Len(timestamps) \in Nat
               /\ \A i \in 1 .. evicted : Old(timestamps[i])
               /\ evicted < Len(timestamps) => ~ Old(timestamps[evicted + 1])
               /\ kept \in Seq(0 .. now)
               /\ Len(kept) = Len(timestamps) - evicted
               /\ \A i \in 1 .. Len(kept) : kept[i] = timestamps[evicted + i]
<1> DEFINE n == Len(timestamps)
           S == {k \in 0 .. n : k < n => ~ Old(timestamps[k + 1])}
<1>1. timestamps \in Seq(0 .. now) /\ n \in Nat
  BY DEF LimiterTypeOK
<1>2. n \in S /\ S \subseteq Nat
  BY <1>1
<1>3. PICK k \in S : \A j \in S : k <= j
  <2> HIDE DEF S
  <2>1. QED
    BY <1>2, FirstIndex
<1>4. \A i \in 1 .. k : Old(timestamps[i])
  <2>1. ASSUME NEW i \in 1 .. k PROVE Old(timestamps[i])
    <3>1. k \in 0 .. n
      BY <1>3
    <3>2. i - 1 \in 0 .. n /\ i - 1 < n /\ ~ (k <= i - 1) /\ (i - 1) + 1 = i
      BY <1>1, <3>1
    <3>3. i - 1 \notin S
      <4> HIDE DEF S
      <4>1. QED
        BY <1>3, <3>2
    <3>4. QED
      BY <3>2, <3>3
  <2>2. QED
    BY <2>1
<1>5. /\ k \in 0 .. n
      /\ \A i \in 1 .. k : Old(timestamps[i])
      /\ k < n => ~ Old(timestamps[k + 1])
  BY <1>3, <1>4
<1>6. /\ evicted \in 0 .. n
      /\ \A i \in 1 .. evicted : Old(timestamps[i])
      /\ evicted < n => ~ Old(timestamps[evicted + 1])
  BY <1>5 DEF evicted
<1> HIDE DEF n
<1>7. /\ evicted + 1 \in Int /\ n \in Int
      /\ \A i \in evicted + 1 .. n : timestamps[i] \in 0 .. now
  <2>1. evicted \in Nat
    BY <1>1, <1>6
  <2>2. \A i \in evicted + 1 .. n : i \in 1 .. n
    BY <1>1, <2>1
  <2>3. \A i \in 1 .. n : timestamps[i] \in 0 .. now
    BY <1>1, ElementOfSeq DEF n
  <2>4. QED
    BY <1>1, <2>1, <2>2, <2>3
<1>8. /\ SubSeq(timestamps, evicted + 1, n) \in Seq(0 .. now)
      /\ Len(SubSeq(timestamps, evicted + 1, n))
            = IF evicted + 1 <= n THEN n - (evicted + 1) + 1 ELSE 0
      /\ \A i \in 1 .. n - (evicted + 1) + 1 :
            SubSeq(timestamps, evicted + 1, n)[i] = timestamps[(evicted + 1) + i - 1]
  BY <1>7, SubSeqProperties
<1>9. /\ Len(SubSeq(timestamps, evicted + 1, n)) = n - evicted
      /\ \A i \in 1 .. n - evicted :
            SubSeq(timestamps, evicted + 1, n)[i] = timestamps[evicted + i]
  <2> DEFINE kept == SubSeq(timestamps, evicted + 1, n)
  <2>1. evicted \in Nat /\ evicted <= n
    BY <1>1, <1>6
  <2>2. n - (evicted + 1) + 1 = n - evicted /\ \A i \in Int : (evicted + 1) + i - 1 = evicted + i
    BY <1>1, <2>1
  <2>3. \A i \in 1 .. n - evicted : kept[i] = timestamps[evicted + i]
    BY <1>8, <2>2
  <2>4. Len(kept) = IF evicted + 1 <= n THEN n - (evicted + 1) + 1 ELSE 0
    BY <1>8
  <2> HIDE DEF kept
  <2>5. Len(kept) = n - evicted
    BY <1>1, <2>1, <2>4
  <2>6. QED
    BY <2>3, <2>5 DEF kept
<1>10. QED
  BY <1>1, <1>6, <1>8, <1>9 DEF n

LEMMA LimiterTypeInit == LimiterInit => LimiterTypeOK
<1> SUFFICES ASSUME LimiterInit PROVE LimiterTypeOK
  OBVIOUS
<1>1. <<>> \in Seq(0 .. now) /\ Len(<<>>) = 0
  OBVIOUS
<1>2. /\ now = 0 /\ tokens = Limit /\ lastRefill = 0 /\ count = 0 /\ windowStart = 0
      /\ timestamps = <<>> /\ admitted = <<>> /\ refused = FALSE
      /\ kind \in {"bucket", "fixed", "sliding"}
  BY DEF LimiterInit
<1>3. now \in 0 .. Horizon /\ 0 \in 0 .. now /\ 0 \in 0 .. Limit /\ Limit \in 0 .. Limit
  BY <1>2, LimiterAssumption
<1>4. Len(timestamps) <= Limit
  BY <1>1, <1>2, LimiterAssumption
<1>5. QED
  BY <1>1, <1>2, <1>3, <1>4 DEF LimiterTypeOK

\* What Return does to the history of admissions.
LEMMA ReturnTyped ==
    ASSUME LimiterTypeOK, NEW allowed \in BOOLEAN, Return(allowed)
    PROVE  admitted' \in Seq(0 .. now) /\ refused' \in BOOLEAN
<1>1. admitted \in Seq(0 .. now) /\ now \in 0 .. now
  BY LimiterAssumption DEF LimiterTypeOK
<1>2. Append(admitted, now) \in Seq(0 .. now)
  BY <1>1
<1>3. QED
  BY <1>1, <1>2 DEF Return

LEMMA LimiterTypeStep == LimiterTypeOK /\ [LimiterNext]_limiterVars => LimiterTypeOK'
<1> SUFFICES ASSUME LimiterTypeOK, [LimiterNext]_limiterVars PROVE LimiterTypeOK'
  OBVIOUS
<1> USE LimiterAssumption
<1>1. ASSUME AllowBucket PROVE LimiterTypeOK'
  <2>1. refillTime \in 0 .. now /\ refilled \in 0 .. Limit
    BY BucketFacts
  <2>2. admitted' \in Seq(0 .. now) /\ refused' \in BOOLEAN
    <3>1. (refilled > 0) \in BOOLEAN
      BY <2>1
    <3>2. QED
      BY <1>1, <3>1, ReturnTyped DEF AllowBucket
  <2>3. tokens' \in 0 .. Limit /\ lastRefill' \in 0 .. now
    BY <1>1, <2>1 DEF AllowBucket
  <2>4. QED
    BY <1>1, <2>2, <2>3 DEF AllowBucket, LimiterTypeOK, fixedVars
<1>2. ASSUME AllowFixed PROVE LimiterTypeOK'
  <2>1. counted \in 0 .. Limit
    BY DEF LimiterTypeOK, counted, Expired
  <2>2. admitted' \in Seq(0 .. now) /\ refused' \in BOOLEAN
    <3>1. (counted < Limit) \in BOOLEAN
      BY <2>1
    <3>2. QED
      BY <1>2, <3>1, ReturnTyped DEF AllowFixed
  <2>3. count' \in 0 .. Limit /\ windowStart' \in 0 .. now
    BY <1>2, <2>1 DEF AllowFixed, LimiterTypeOK
  <2>4. QED
    BY <1>2, <2>2, <2>3 DEF AllowFixed, LimiterTypeOK, bucketVars
<1>3. ASSUME AllowSliding PROVE LimiterTypeOK'
  <2> DEFINE kept == SubSeq(timestamps, evicted + 1, Len(timestamps))
  <2>1. /\ kept \in Seq(0 .. now) /\ Len(kept) = Len(timestamps) - evicted
        /\ evicted \in 0 .. Len(timestamps) /\ Len(timestamps) \in Nat
    BY EvictedFacts
  <2>2. /\ timestamps' = IF Len(kept) < Limit THEN Append(kept, now) ELSE kept
        /\ Return(Len(kept) < Limit)
        /\ UNCHANGED <<now, kind, bucketVars, fixedVars>>
    BY <1>3 DEF AllowSliding
  <2> HIDE DEF kept
  <2>3. admitted' \in Seq(0 .. now) /\ refused' \in BOOLEAN
    <3>1. (Len(kept) < Limit) \in BOOLEAN
      BY <2>1
    <3>2. QED
      BY <2>2, <3>1, ReturnTyped
  <2>4. now \in 0 .. now /\ Len(timestamps) <= Limit
    BY DEF LimiterTypeOK
  <2>5. Append(kept, now) \in Seq(0 .. now) /\ Len(Append(kept, now)) = Len(kept) + 1
    BY <2>1, <2>4
  <2>6. timestamps' \in Seq(0 .. now) /\ Len(timestamps') <= Limit
    <3>1. CASE Len(kept) < Limit
      <4>1. timestamps' \in Seq(0 .. now) /\ Len(timestamps') = Len(kept) + 1
        BY <2>2, <2>5, <3>1
      <4>2. QED
        BY <2>1, <3>1, <4>1
    <3>2. CASE ~ (Len(kept) < Limit)
      <4>1. timestamps' \in Seq(0 .. now) /\ Len(timestamps') = Len(kept)
        BY <2>1, <2>2, <3>2
      <4>2. QED
        BY <2>1, <2>4, <4>1
    <3>3. QED
      BY <3>1, <3>2
  <2>7. QED
    BY <2>2, <2>3, <2>6 DEF LimiterTypeOK, bucketVars, fixedVars
<1>4. ASSUME Tick PROVE LimiterTypeOK'
  <2>1. now \in Nat /\ now' = now + 1 /\ 0 .. now \subseteq 0 .. now'
    BY <1>4 DEF Tick, LimiterTypeOK
  <2>2. timestamps \in Seq(0 .. now') /\ admitted \in Seq(0 .. now')
    BY <2>1, SeqMonotonic DEF LimiterTypeOK
  <2>3. now' \in 0 .. Horizon /\ lastRefill \in 0 .. now' /\ windowStart \in 0 .. now'
    BY <1>4, <2>1 DEF Tick, LimiterTypeOK
  <2>4. UNCHANGED <<kind, tokens, lastRefill, count, windowStart, timestamps, admitted>>
        /\ refused' = FALSE
    BY <1>4 DEF Tick, bucketVars, fixedVars
  <2>5. QED
    BY <2>2, <2>3, <2>4 DEF LimiterTypeOK
<1>5. ASSUME UNCHANGED limiterVars PROVE LimiterTypeOK'
  BY <1>5 DEF limiterVars, LimiterTypeOK, bucketVars, fixedVars
<1>6. QED
  BY <1>1, <1>2, <1>3, <1>4, <1>5 DEF LimiterNext

\* The bucket holds between none and Limit tokens, no counter and no log
\* passes the limit, and no time stored lies ahead of the clock.
THEOREM LimiterTyped == LimiterSpec => []LimiterTypeOK
BY LimiterTypeInit, LimiterTypeStep, PTL DEF LimiterSpec

-----------------------------------------------------------------------------
(***************************************************************************)
(* The window limiters.  total is the number of admissions so far.         *)
(***************************************************************************)
total == Len(admitted)

Sorted == \A i, k \in 1 .. total : i <= k => admitted[i] <= admitted[k]

\* Of any d + 1 consecutive admissions the last comes more than an interval
\* after the first.
Spaced(d) ==
    \A i \in 1 .. total : i + d <= total => admitted[i] + Interval < admitted[i + d]

\* The last count admissions are those of the fixed window's current window;
\* the Limit before them, or more, belong to the window before it.
FixedInv ==
    kind = "fixed" =>
        /\ count <= total
        /\ \A i \in 1 .. total :
              /\ admitted[i] < windowStart + Interval
              /\ i > total - count => admitted[i] >= windowStart
              /\ i <= total - count => admitted[i] < windowStart
              /\ i <= total - count - Limit => admitted[i] < windowStart - Interval
        /\ Spaced(2 * Limit)
        /\ refused => count = Limit /\ now - windowStart < Interval

\* The sliding window's log is the end of the admissions, and what it no
\* longer holds is older than an interval.
SlidingInv ==
    kind = "sliding" =>
        /\ Len(timestamps) <= total
        /\ \A i \in 1 .. Len(timestamps) :
              timestamps[i] = admitted[total - Len(timestamps) + i]
        /\ \A i \in 1 .. total : i <= total - Len(timestamps) => admitted[i] < now - Interval
        /\ Spaced(Limit)
        /\ refused => /\ Len(timestamps) = Limit
                      /\ \A i \in 1 .. Limit : timestamps[i] >= now - Interval

LimiterInv == LimiterTypeOK /\ Sorted /\ FixedInv /\ SlidingInv

LEMMA AdmittedFacts ==
    ASSUME LimiterTypeOK
    PROVE  /\ total \in Nat /\ now \in Nat
           /\ \A i \in 1 .. total : admitted[i] \in Nat /\ admitted[i] <= now
<1>1. admitted \in Seq(0 .. now) /\ now \in Nat
  BY LimiterAssumption DEF LimiterTypeOK
<1>2. \A i \in 1 .. total : admitted[i] \in 0 .. now
  BY <1>1, ElementOfSeq DEF total
<1>3. QED
  BY <1>1, <1>2 DEF total

\* What Return does to the history, read by index.
LEMMA ReturnEffect ==
    ASSUME LimiterTypeOK, NEW allowed \in BOOLEAN, Return(allowed)
    PROVE  /\ refused' = ~ allowed
           /\ allowed => /\ total' = total + 1 /\ admitted'[total + 1] = now
                         /\ \A i \in 1 .. total : admitted'[i] = admitted[i]
           /\ ~ allowed => admitted' = admitted /\ total' = total
<1>1. admitted \in Seq(0 .. now) /\ now \in 0 .. now
  BY LimiterAssumption DEF LimiterTypeOK
<1>2. CASE allowed
  <2>1. admitted' = Append(admitted, now) /\ refused' = ~ allowed
    BY <1>2 DEF Return
  <2>2. /\ Len(Append(admitted, now)) = Len(admitted) + 1
        /\ \A i \in 1 .. Len(admitted) : Append(admitted, now)[i] = admitted[i]
        /\ Append(admitted, now)[Len(admitted) + 1] = now
    BY <1>1, AppendProperties
  <2>3. QED
    BY <1>2, <2>1, <2>2 DEF total
<1>3. CASE ~ allowed
  BY <1>3 DEF Return, total
<1>4. QED
  BY <1>2, <1>3

\* An interval's admissions are fewer than the spacing.
LEMMA SpacedBounds ==
    ASSUME LimiterTypeOK, Sorted, NEW d \in Nat, Spaced(d), NEW a \in Nat
    PROVE  Admitted(a, a + Interval) <= d
<1> USE LimiterAssumption
<1> DEFINE S == {i \in 1 .. Len(admitted) : admitted[i] \in a .. a + Interval}
<1>1. /\ total \in Nat
      /\ \A i \in 1 .. total : admitted[i] \in Nat
  BY AdmittedFacts
<1>2. S \subseteq Nat /\ Admitted(a, a + Interval) = Cardinality(S)
  BY <1>1 DEF Admitted
<1>3. \A i \in S : i \in 1 .. total /\ a <= admitted[i] /\ admitted[i] <= a + Interval
  BY <1>1 DEF total
<1> HIDE DEF S
<1>4. CASE S = {}
  BY <1>2, <1>4, FS_EmptySet
<1>5. CASE S # {}
  <2>1. PICK f \in S : \A i \in S : f <= i
    BY <1>2, <1>5, FirstIndex
  <2>2. ASSUME NEW i \in S PROVE i \in f .. f + d - 1
    <3>1. f \in 1 .. total /\ i \in 1 .. total /\ f <= i
      BY <1>3, <2>1
    <3>2. CASE i <= f + d - 1
      BY <1>1, <3>1, <3>2
    <3>3. CASE ~ (i <= f + d - 1)
      <4>1. f + d \in 1 .. total /\ f + d <= i
        BY <1>1, <3>1, <3>3
      <4>2. admitted[f] + Interval < admitted[f + d] /\ admitted[f + d] <= admitted[i]
        BY <3>1, <4>1 DEF Spaced, Sorted
      <4>3. a <= admitted[f] /\ admitted[i] <= a + Interval
        BY <1>3, <2>1
      <4>4. /\ admitted[f] \in Nat /\ admitted[i] \in Nat /\ admitted[f + d] \in Nat
        BY <1>1, <3>1, <4>1
      <4>5. QED
        BY <4>2, <4>3, <4>4
    <3>4. QED
      BY <3>2, <3>3
  <2>3. f \in Nat
    BY <1>2, <2>1
  <2>4. IsFiniteSet(f .. f + d - 1) /\ Cardinality(f .. f + d - 1) = d
    <3>1. f \in Int /\ f + d - 1 \in Int
      BY <2>3
    <3>2. /\ IsFiniteSet(f .. f + d - 1)
          /\ Cardinality(f .. f + d - 1)
               = IF f > f + d - 1 THEN 0 ELSE (f + d - 1) - f + 1
      BY <3>1, FS_Interval
    <3>3. QED
      BY <2>3, <3>2
  <2>5. Cardinality(S) <= Cardinality(f .. f + d - 1)
    BY <2>2, <2>4, FS_Subset
  <2>6. QED
    BY <1>2, <2>4, <2>5
<1>6. QED
  BY <1>4, <1>5

LEMMA LimiterInvInit == LimiterInit => Sorted /\ FixedInv /\ SlidingInv
<1> SUFFICES ASSUME LimiterInit PROVE Sorted /\ FixedInv /\ SlidingInv
  OBVIOUS
<1>1. /\ total = 0 /\ Len(timestamps) = 0 /\ count = 0 /\ refused = FALSE
      /\ 1 .. total = {} /\ 1 .. Len(timestamps) = {}
  BY DEF LimiterInit, total
<1>2. QED
  BY <1>1 DEF Sorted, FixedInv, SlidingInv, Spaced

\* An Allow keeps the history in the order of time.
LEMMA SortedReturn ==
    ASSUME LimiterTypeOK, Sorted, NEW allowed \in BOOLEAN, Return(allowed)
    PROVE  Sorted'
<1>1. CASE ~ allowed
  BY <1>1, ReturnEffect DEF Sorted
<1>2. CASE allowed
  <2>1. /\ total' = total + 1 /\ admitted'[total + 1] = now
        /\ \A i \in 1 .. total : admitted'[i] = admitted[i]
    BY <1>2, ReturnEffect
  <2>2. /\ total \in Nat /\ now \in Nat
        /\ \A i \in 1 .. total : admitted[i] \in Nat /\ admitted[i] <= now
    BY AdmittedFacts
  <2>3. ASSUME NEW i \in 1 .. total + 1, NEW k \in 1 .. total + 1, i <= k
        PROVE  admitted'[i] <= admitted'[k]
    <3>1. CASE k = total + 1
      BY <2>1, <2>2, <2>3, <3>1
    <3>2. CASE k # total + 1
      <4>1. i \in 1 .. total /\ k \in 1 .. total
        BY <2>2, <2>3, <3>2
      <4>2. QED
        BY <2>1, <2>3, <4>1 DEF Sorted
    <3>3. QED
      BY <3>1, <3>2
  <2>4. QED
    BY <2>1, <2>3 DEF Sorted
<1>3. QED
  BY <1>1, <1>2

\* An admission at now keeps the spacing if the d-th before it is more than an
\* interval old.
LEMMA SpacedReturn ==
    ASSUME LimiterTypeOK, NEW d \in Nat, Spaced(d), Return(TRUE),
           \A i \in 1 .. total + 1 : i + d = total + 1 =>
              i \in 1 .. total /\ admitted[i] + Interval < now
    PROVE  Spaced(d)'
<1>1. /\ total' = total + 1 /\ admitted'[total + 1] = now
      /\ \A i \in 1 .. total : admitted'[i] = admitted[i]
  BY ReturnEffect
<1>2. total \in Nat
  BY AdmittedFacts
<1>3. ASSUME NEW i \in 1 .. total + 1, i + d <= total + 1
      PROVE  admitted'[i] + Interval < admitted'[i + d]
  <2>1. CASE i + d = total + 1
    BY <1>1, <1>3, <2>1
  <2>2. CASE i + d # total + 1
    <3>1. i \in 1 .. total /\ i + d \in 1 .. total /\ i + d <= total
      BY <1>2, <1>3, <2>2
    <3>2. QED
      BY <1>1, <3>1 DEF Spaced
  <2>3. QED
    BY <2>1, <2>2
<1>4. QED
  BY <1>1, <1>3 DEF Spaced

LEMMA FixedAllow ==
    ASSUME LimiterTypeOK, Sorted, FixedInv, AllowFixed PROVE FixedInv'
<1> USE LimiterAssumption
<1>1. kind = "fixed"
  BY DEF AllowFixed
<1>2. /\ total \in Nat /\ now \in Nat
      /\ \A i \in 1 .. total : admitted[i] \in Nat /\ admitted[i] <= now
  BY AdmittedFacts
<1>3. count \in 0 .. Limit /\ windowStart \in 0 .. now
  BY DEF LimiterTypeOK
<1>4. now' = now /\ kind' = kind
  BY DEF AllowFixed
\* The window the call falls into, with the admissions before it.
<1> DEFINE w == windowStart'
<1>5. /\ w \in 0 .. now /\ now - w < Interval
      /\ counted \in 0 .. Limit /\ counted <= total
      /\ \A i \in 1 .. total :
            /\ i > total - counted => admitted[i] >= w
            /\ i <= total - counted => admitted[i] < w
            /\ i <= total - counted - Limit => admitted[i] < w - Interval
  <2>1. CASE Expired
    <3>1. w = now /\ counted = 0 /\ now - windowStart >= Interval
      BY <2>1 DEF AllowFixed, counted, Expired
    <3>2. \A i \in 1 .. total : admitted[i] < windowStart + Interval
      BY <1>1 DEF FixedInv
    <3>3. \A i \in 1 .. total : admitted[i] < w
      BY <1>2, <1>3, <3>1, <3>2
    <3>4. \A i \in 1 .. total : i <= total - Limit => admitted[i] < windowStart
      BY <1>1, <1>2, <1>3 DEF FixedInv
    <3>5. \A i \in 1 .. total : i <= total - Limit => admitted[i] < w - Interval
      BY <1>2, <1>3, <3>1, <3>4
    <3> HIDE DEF w
    <3>6. QED
      BY <1>2, <3>1, <3>3, <3>5
  <2>2. CASE ~ Expired
    <3>1. w = windowStart /\ counted = count /\ ~ (now - windowStart >= Interval)
      BY <2>2 DEF AllowFixed, counted, Expired
    <3>2. QED
      BY <1>1, <1>2, <1>3, <3>1 DEF FixedInv
  <2>3. QED
    BY <2>1, <2>2
<1>6. Spaced(2 * Limit)
  BY <1>1 DEF FixedInv
<1> HIDE DEF w
<1>7. CASE counted < Limit
  <2>1. count' = counted + 1 /\ Return(TRUE)
    BY <1>7 DEF AllowFixed
  <2>2. /\ total' = total + 1 /\ admitted'[total + 1] = now
        /\ \A i \in 1 .. total : admitted'[i] = admitted[i]
        /\ refused' = FALSE
    BY <2>1, ReturnEffect
  <2>3. Spaced(2 * Limit)'
    <3>1. ASSUME NEW i \in 1 .. total + 1, i + 2 * Limit = total + 1
          PROVE  i \in 1 .. total /\ admitted[i] + Interval < now
      <4>1. i \in 1 .. total /\ i <= total - counted - Limit
        BY <1>2, <1>5, <1>7, <3>1
      <4>2. admitted[i] < w - Interval /\ admitted[i] \in Nat
        BY <1>2, <1>5, <4>1
      <4>3. QED
        BY <1>2, <1>5, <4>1, <4>2
    <3>2. 2 * Limit \in Nat
      OBVIOUS
    <3> DEFINE d == 2 * Limit
    <3>3. /\ d \in Nat /\ Spaced(d)
          /\ \A i \in 1 .. total + 1 : i + d = total + 1 =>
                i \in 1 .. total /\ admitted[i] + Interval < now
      BY <1>6, <3>1, <3>2
    <3> HIDE DEF d
    <3>4. Spaced(d)'
      BY <2>1, <3>3, SpacedReturn
    <3>5. QED
      BY <3>4 DEF d
  <2>4. count' <= total'
    BY <1>2, <1>5, <2>1, <2>2
  <2>5. ASSUME NEW i \in 1 .. total'
        PROVE  /\ admitted'[i] < w + Interval
               /\ i > total' - count' => admitted'[i] >= w
               /\ i <= total' - count' => admitted'[i] < w
               /\ i <= total' - count' - Limit => admitted'[i] < w - Interval
    <3>1. total' - count' = total - counted
      BY <1>2, <1>5, <2>1, <2>2
    <3>2. CASE i = total + 1
      BY <1>2, <1>5, <2>2, <3>1, <3>2
    <3>3. CASE i # total + 1
      <4>1. i \in 1 .. total /\ admitted'[i] = admitted[i]
        BY <1>2, <2>2, <2>5, <3>3
      <4>2. admitted[i] < w + Interval
        BY <1>2, <1>5, <4>1
      <4>3. QED
        BY <1>5, <3>1, <4>1, <4>2
    <3>4. QED
      BY <3>2, <3>3
  <2>6. QED
    BY <2>2, <2>3, <2>4, <2>5 DEF FixedInv, w
<1>8. CASE ~ (counted < Limit)
  <2>1. count' = counted /\ Return(FALSE)
    <3>1. (counted < Limit) = FALSE
      BY <1>5, <1>8
    <3>2. QED
      BY <3>1 DEF AllowFixed
  <2>2. admitted' = admitted /\ total' = total
    BY <2>1, ReturnEffect
  <2>3. Spaced(2 * Limit)'
    BY <1>6, <2>2 DEF Spaced
  <2>4. counted = Limit
    BY <1>5, <1>8
  <2>5. \A i \in 1 .. total : admitted[i] < w + Interval
    BY <1>2, <1>5
  <2>6. QED
    BY <1>4, <1>5, <2>1, <2>2, <2>3, <2>4, <2>5 DEF FixedInv, w
<1>9. QED
  BY <1>5, <1>7, <1>8

LEMMA SlidingAllow ==
    ASSUME LimiterTypeOK, Sorted, SlidingInv, AllowSliding PROVE SlidingInv'
<1> USE LimiterAssumption
<1> DEFINE kept == SubSeq(timestamps, evicted + 1, Len(timestamps))
           l == Len(timestamps)
           c == Len(kept)
<1>1. kind = "sliding"
  BY DEF AllowSliding
<1>2. /\ total \in Nat /\ now \in Nat
      /\ \A i \in 1 .. total : admitted[i] \in Nat /\ admitted[i] <= now
  BY AdmittedFacts
<1>3. /\ evicted \in 0 .. l /\ l \in Nat /\ kept \in Seq(0 .. now)
      /\ c = l - evicted
      /\ \A i \in 1 .. evicted : Old(timestamps[i])
      /\ evicted < l => ~ Old(timestamps[evicted + 1])
      /\ \A i \in 1 .. c : kept[i] = timestamps[evicted + i]
  BY EvictedFacts
<1>4. /\ timestamps' = IF c < Limit THEN Append(kept, now) ELSE kept
      /\ Return(c < Limit) /\ now' = now /\ kind' = kind
  BY DEF AllowSliding
<1>5. /\ l <= total /\ l <= Limit
      /\ \A i \in 1 .. l : timestamps[i] = admitted[total - l + i]
      /\ \A i \in 1 .. total : i <= total - l => admitted[i] < now - Interval
      /\ Spaced(Limit)
  BY <1>1 DEF SlidingInv, LimiterTypeOK
<1> HIDE DEF kept, l, c
<1>6. c \in Nat /\ c <= l /\ total - c \in Nat
  BY <1>2, <1>3, <1>5
\* kept is the end of the history, and nothing before it is recent.
<1>7. \A i \in 1 .. c : kept[i] = admitted[total - c + i]
  <2>1. ASSUME NEW i \in 1 .. c PROVE kept[i] = admitted[total - c + i]
    <3>1. evicted + i \in 1 .. l /\ total - l + (evicted + i) = total - c + i
      BY <1>2, <1>3, <1>5, <1>6
    <3>2. QED
      BY <1>3, <1>5, <3>1
  <2>2. QED
    BY <2>1
<1>8. \A i \in 1 .. total : i <= total - c => admitted[i] < now - Interval
  <2>1. ASSUME NEW i \in 1 .. total, i <= total - c PROVE admitted[i] < now - Interval
    <3>1. CASE i <= total - l
      BY <1>5, <3>1
    <3>2. CASE ~ (i <= total - l)
      <4>1. /\ i - (total - l) \in 1 .. evicted /\ i - (total - l) \in 1 .. l
            /\ total - l + (i - (total - l)) = i
        BY <1>2, <1>3, <1>5, <2>1, <3>2
      <4>2. Old(timestamps[i - (total - l)]) /\ timestamps[i - (total - l)] = admitted[i]
        BY <1>3, <1>5, <4>1
      <4>3. QED
        BY <4>2 DEF Old
    <3>3. QED
      BY <3>1, <3>2
  <2>2. QED
    BY <2>1
\* What is kept is recent.
<1>9. \A i \in 1 .. c : admitted[total - c + i] >= now - Interval
  <2>1. ASSUME NEW i \in 1 .. c PROVE admitted[total - c + i] >= now - Interval
    <3>1. evicted < l /\ evicted + 1 \in 1 .. l /\ total - l + (evicted + 1) = total - c + 1
      BY <1>2, <1>3, <1>5, <1>6
    <3>2. ~ Old(timestamps[evicted + 1]) /\ timestamps[evicted + 1] = admitted[total - c + 1]
      BY <1>3, <1>5, <3>1
    <3>3. /\ total - c + 1 \in 1 .. total /\ total - c + i \in 1 .. total
          /\ total - c + 1 <= total - c + i
      BY <1>2, <1>5, <1>6
    <3>4. /\ admitted[total - c + 1] \in Nat /\ admitted[total - c + i] \in Nat
          /\ admitted[total - c + 1] <= admitted[total - c + i]
      BY <1>2, <3>3 DEF Sorted
    <3>5. ~ (admitted[total - c + 1] < now - Interval)
      BY <3>2 DEF Old
    <3>6. QED
      BY <1>2, <3>4, <3>5
  <2>2. QED
    BY <2>1
<1>10. CASE c < Limit
  <2>1. Return(TRUE) /\ timestamps' = Append(kept, now)
    <3>1. (c < Limit) = TRUE
      BY <1>6, <1>10
    <3>2. QED
      BY <1>4, <3>1
  <2>2. /\ total' = total + 1 /\ admitted'[total + 1] = now
        /\ \A i \in 1 .. total : admitted'[i] = admitted[i]
        /\ refused' = FALSE
    BY <2>1, ReturnEffect
  <2>3. /\ Len(timestamps') = c + 1 /\ timestamps'[c + 1] = now
        /\ \A i \in 1 .. c : timestamps'[i] = kept[i]
    <3>1. now \in 0 .. now
      BY <1>2
    <3>2. QED
      BY <1>3, <2>1, <3>1, AppendProperties DEF c
  <2>4. total' - Len(timestamps') = total - c
    BY <1>2, <1>6, <2>2, <2>3
  <2>5. Spaced(Limit)'
    <3>1. ASSUME NEW i \in 1 .. total + 1, i + Limit = total + 1
          PROVE  i \in 1 .. total /\ admitted[i] + Interval < now
      <4>1. i \in 1 .. total /\ i <= total - c
        BY <1>2, <1>6, <1>10, <3>1
      <4>2. admitted[i] < now - Interval /\ admitted[i] \in Nat
        BY <1>2, <1>8, <4>1
      <4>3. QED
        BY <1>2, <4>1, <4>2
    <3>2. QED
      BY <1>5, <2>1, <3>1, SpacedReturn
  <2>6. ASSUME NEW i \in 1 .. Len(timestamps')
        PROVE  timestamps'[i] = admitted'[total' - Len(timestamps') + i]
    <3>1. CASE i = c + 1
      <4>1. total - c + i = total + 1
        BY <1>2, <1>6, <3>1
      <4>2. QED
        BY <2>2, <2>3, <2>4, <3>1, <4>1
    <3>2. CASE i # c + 1
      <4>1. i \in 1 .. c /\ total - c + i \in 1 .. total
        BY <1>2, <1>5, <1>6, <2>3, <2>6, <3>2
      <4>2. QED
        BY <1>7, <2>2, <2>3, <2>4, <4>1
    <3>3. QED
      BY <3>1, <3>2
  <2>7. ASSUME NEW i \in 1 .. total', i <= total' - Len(timestamps')
        PROVE  admitted'[i] < now - Interval
    <3>1. i \in 1 .. total /\ i <= total - c
      BY <1>2, <1>6, <2>2, <2>4, <2>7
    <3>2. QED
      BY <1>8, <2>2, <3>1
  <2>8. Len(timestamps') <= total'
    BY <1>2, <1>5, <1>6, <2>2, <2>3
  <2>9. QED
    BY <1>4, <2>2, <2>5, <2>6, <2>7, <2>8 DEF SlidingInv
<1>11. CASE ~ (c < Limit)
  <2>1. Return(FALSE) /\ timestamps' = kept
    <3>1. (c < Limit) = FALSE
      BY <1>6, <1>11
    <3>2. QED
      BY <1>4, <3>1
  <2>2. admitted' = admitted /\ total' = total
    BY <2>1, ReturnEffect
  <2>3. Len(timestamps') = c /\ c = Limit /\ c <= total
    <3>1. Len(timestamps') = c
      BY <2>1 DEF c
    <3>2. QED
      BY <1>2, <1>3, <1>5, <1>6, <1>11, <3>1
  <2>4. Spaced(Limit)'
    BY <1>5, <2>2 DEF Spaced
  <2>5. \A i \in 1 .. Limit : kept[i] >= now - Interval
    BY <1>7, <1>9, <2>3
  <2>6. QED
    BY <1>4, <1>7, <1>8, <2>1, <2>2, <2>3, <2>4, <2>5 DEF SlidingInv
<1>12. QED
  BY <1>6, <1>10, <1>11

LEMMA LimiterInvStep ==
    LimiterTypeOK /\ Sorted /\ FixedInv /\ SlidingInv /\ [LimiterNext]_limiterVars
       => Sorted' /\ FixedInv' /\ SlidingInv'
<1> SUFFICES ASSUME LimiterTypeOK, Sorted, FixedInv, SlidingInv, [LimiterNext]_limiterVars
             PROVE  Sorted' /\ FixedInv' /\ SlidingInv'
  OBVIOUS
<1>1. ASSUME AllowBucket PROVE Sorted' /\ FixedInv' /\ SlidingInv'
  <2>1. kind' = "bucket" /\ Return(refilled > 0)
    BY <1>1 DEF AllowBucket
  <2>2. (refilled > 0) \in BOOLEAN
    BY BucketFacts, LimiterAssumption
  <2>3. Sorted'
    BY <2>1, <2>2, SortedReturn
  <2>4. QED
    BY <2>1, <2>3 DEF FixedInv, SlidingInv
<1>2. ASSUME AllowFixed PROVE Sorted' /\ FixedInv' /\ SlidingInv'
  <2>1. kind' = "fixed" /\ Return(counted < Limit)
    BY <1>2 DEF AllowFixed
  <2>2. (counted < Limit) \in BOOLEAN
    BY LimiterAssumption DEF LimiterTypeOK, counted, Expired
  <2>3. Sorted'
    BY <2>1, <2>2, SortedReturn
  <2>4. QED
    BY <1>2, <2>1, <2>3, FixedAllow DEF SlidingInv
<1>3. ASSUME AllowSliding PROVE Sorted' /\ FixedInv' /\ SlidingInv'
  <2> DEFINE kept == SubSeq(timestamps, evicted + 1, Len(timestamps))
  <2>1. kind' = "sliding" /\ Return(Len(kept) < Limit)
    BY <1>3 DEF AllowSliding
  <2>2. (Len(kept) < Limit) \in BOOLEAN
    OBVIOUS
  <2>3. Sorted'
    <3> HIDE DEF kept
    <3>1. QED
      BY <2>1, <2>2, SortedReturn
  <2>4. QED
    BY <1>3, <2>1, <2>3, SlidingAllow DEF FixedInv
<1>4. ASSUME Tick PROVE Sorted' /\ FixedInv' /\ SlidingInv'
  <2>1. /\ now' = now + 1 /\ refused' = FALSE
        /\ UNCHANGED <<kind, count, windowStart, timestamps, admitted, total>>
    BY <1>4 DEF Tick, bucketVars, fixedVars, total
  <2>2. /\ now \in Nat /\ Interval \in Nat
        /\ \A i \in 1 .. total : admitted[i] \in Nat
    BY AdmittedFacts, LimiterAssumption
  <2>3. \A i \in 1 .. total : admitted[i] < now - Interval => admitted[i] < now' - Interval
    BY <2>1, <2>2
  <2>4. \A d : Spaced(d) => Spaced(d)'
    BY <2>1 DEF Spaced
  <2>5. Sorted'
    BY <2>1 DEF Sorted
  <2>6. FixedInv'
    BY <2>1, <2>4 DEF FixedInv
  <2>7. SlidingInv'
    BY <2>1, <2>3, <2>4 DEF SlidingInv
  <2>8. QED
    BY <2>5, <2>6, <2>7
<1>5. ASSUME UNCHANGED limiterVars PROVE Sorted' /\ FixedInv' /\ SlidingInv'
  BY <1>5 DEF limiterVars, bucketVars, fixedVars, Sorted, FixedInv, SlidingInv, Spaced, total
<1>6. QED
  BY <1>1, <1>2, <1>3, <1>4, <1>5 DEF LimiterNext

\* Every reachable state of a limiter satisfies the inductive invariant.
THEOREM LimiterInvariant == LimiterSpec => []LimiterInv
BY LimiterTypeInit, LimiterTypeStep, LimiterInvInit, LimiterInvStep, PTL
   DEF LimiterSpec, LimiterInv

\* No interval of the window's length, wherever it begins, sees more than
\* Limit admissions of the sliding window, nor more than twice as many of the
\* fixed window.
THEOREM LimitsKept == LimiterSpec => []NoIntervalExceeded
<1>1. ASSUME LimiterInv PROVE NoIntervalExceeded
  <2>1. LimiterTypeOK /\ Sorted
    BY <1>1 DEF LimiterInv
  <2>2. ASSUME NEW a \in 0 .. now, kind = "fixed"
        PROVE  Admitted(a, a + Interval) <= 2 * Limit
    <3> DEFINE d == 2 * Limit
    <3>1. a \in Nat /\ d \in Nat /\ Spaced(d)
      BY <1>1, <2>2, LimiterAssumption DEF LimiterInv, FixedInv
    <3> HIDE DEF d
    <3>2. Admitted(a, a + Interval) <= d
      BY <2>1, <3>1, SpacedBounds
    <3>3. QED
      BY <3>2 DEF d
  <2>3. ASSUME NEW a \in 0 .. now, kind = "sliding"
        PROVE  Admitted(a, a + Interval) <= Limit
    <3>1. a \in Nat /\ Limit \in Nat /\ Spaced(Limit)
      BY <1>1, <2>3, LimiterAssumption DEF LimiterInv, SlidingInv
    <3>2. QED
      BY <2>1, <3>1, SpacedBounds
  <2>4. QED
    BY <2>2, <2>3 DEF NoIntervalExceeded
<1>2. QED
  BY <1>1, LimiterInvariant, PTL

\* The indices of the last m admissions.
LEMMA LastIndices ==
    ASSUME NEW m \in Nat, LimiterTypeOK, m <= total
    PROVE  /\ IsFiniteSet(total - m + 1 .. total)
           /\ Cardinality(total - m + 1 .. total) = m
           /\ total - m + 1 .. total \subseteq 1 .. total
<1>1. total \in Nat
  BY AdmittedFacts
<1>2. total - m + 1 \in Int /\ total \in Int
  BY <1>1
<1>3. /\ IsFiniteSet(total - m + 1 .. total)
      /\ Cardinality(total - m + 1 .. total)
           = IF total - m + 1 > total THEN 0 ELSE total - (total - m + 1) + 1
  BY <1>2, FS_Interval
<1>4. Cardinality(total - m + 1 .. total) = m
  BY <1>1, <1>3
<1>5. total - m + 1 .. total \subseteq 1 .. total
  BY <1>1
<1>6. QED
  BY <1>3, <1>4, <1>5

\* Neither window limiter refuses a request that its limit has room for.
THEOREM LimitsUsed == LimiterSpec => []RefusesOnlyWhenFull
<1>1. ASSUME LimiterInv PROVE RefusesOnlyWhenFull
  <2> USE LimiterAssumption
  <2> DEFINE T == total - Limit + 1 .. total
  <2>1. LimiterTypeOK /\ FixedInv /\ SlidingInv
    BY <1>1 DEF LimiterInv
  <2>2. /\ total \in Nat /\ now \in Nat /\ windowStart \in 0 .. now
        /\ \A i \in 1 .. total : admitted[i] \in Nat /\ admitted[i] <= now
    BY <2>1, AdmittedFacts DEF LimiterTypeOK
  <2>3. ASSUME kind = "fixed", refused PROVE Admitted(now - Interval + 1, now) >= Limit
    <3> DEFINE S == {i \in 1 .. Len(admitted) : admitted[i] \in now - Interval + 1 .. now}
    <3>1. /\ count = Limit /\ now - windowStart < Interval /\ count <= total
          /\ \A i \in 1 .. total : i > total - count => admitted[i] >= windowStart
      BY <2>1, <2>3 DEF FixedInv
    <3>2. IsFiniteSet(T) /\ Cardinality(T) = Limit /\ T \subseteq 1 .. total
      BY <2>1, <3>1, LastIndices
    <3>3. \A i \in T : i > total - count
      BY <2>2, <3>1
    <3>4. \A i \in T : admitted[i] \in now - Interval + 1 .. now
      <4> HIDE DEF T
      <4>1. QED
        BY <2>2, <3>1, <3>2, <3>3
    <3>5. T \subseteq S /\ S \subseteq 1 .. total
      <4> HIDE DEF T
      <4>1. QED
        BY <3>2, <3>4 DEF total
    <3>6. IsFiniteSet(1 .. total)
      <4>1. 1 \in Int /\ total \in Int
        BY <2>2
      <4>2. QED
        BY <4>1, FS_Interval
    <3> HIDE DEF S, T
    <3>7. IsFiniteSet(S)
      BY <3>5, <3>6, FS_Subset
    <3>8. Cardinality(T) <= Cardinality(S) /\ Cardinality(S) \in Nat
      BY <3>5, <3>7, FS_Subset, FS_CardinalityType
    <3>9. Cardinality(S) >= Limit
      BY <3>2, <3>8
    <3>10. QED
      BY <3>9 DEF Admitted, S
  <2>4. ASSUME kind = "sliding", refused PROVE Admitted(now - Interval, now) = Limit
    <3> DEFINE S == {i \in 1 .. Len(admitted) : admitted[i] \in now - Interval .. now}
    <3>1. /\ Len(timestamps) = Limit /\ Limit <= total
          /\ \A i \in 1 .. Limit : timestamps[i] >= now - Interval
          /\ \A i \in 1 .. Limit : timestamps[i] = admitted[total - Limit + i]
          /\ \A i \in 1 .. total : i <= total - Limit => admitted[i] < now - Interval
      BY <2>1, <2>4 DEF SlidingInv
    <3>2. Cardinality(T) = Limit /\ T \subseteq 1 .. total
      BY <2>1, <3>1, LastIndices
    <3>3. \A i \in T : i - (total - Limit) \in 1 .. Limit
                      /\ total - Limit + (i - (total - Limit)) = i
      BY <2>2, <3>1
    <3>4. \A i \in 1 .. total : i \notin T => i <= total - Limit
      BY <2>2, <3>1
    <3> HIDE DEF T
    <3>5. \A i \in T : admitted[i] >= now - Interval
      BY <3>1, <3>3
    <3>6. \A i \in T : admitted[i] \in now - Interval .. now
      BY <2>2, <3>2, <3>5
    <3>7. \A i \in 1 .. total : i \notin T => admitted[i] \notin now - Interval .. now
      BY <2>2, <3>1, <3>4
    <3>8. S = T
      BY <3>2, <3>6, <3>7 DEF total
    <3>9. QED
      BY <3>2, <3>8 DEF Admitted
  <2>5. QED
    BY <2>3, <2>4 DEF RefusesOnlyWhenFull
<1>2. QED
  BY <1>1, LimiterInvariant, PTL

-----------------------------------------------------------------------------
(***************************************************************************)
(* The token bucket implements the steady one.  It needs one more fact:    *)
(* lastRefill lies on a multiple of the interval, where the steady bucket  *)
(* refills.                                                                *)
(***************************************************************************)
OnBeat == \E k \in Nat : lastRefill = k * Interval

LEMMA OnBeatInit == LimiterInit => OnBeat
<1>1. 0 \in Nat /\ 0 * Interval = 0
  BY LimiterAssumption
<1>2. QED
  BY <1>1 DEF LimiterInit, OnBeat

LEMMA OnBeatStep == LimiterTypeOK /\ OnBeat /\ [LimiterNext]_limiterVars => OnBeat'
<1> SUFFICES ASSUME LimiterTypeOK, OnBeat, [LimiterNext]_limiterVars PROVE OnBeat'
  OBVIOUS
<1>1. ASSUME AllowBucket PROVE OnBeat'
  <2>1. PICK k \in Nat : lastRefill = k * Interval
    BY DEF OnBeat
  <2>2. intervals \in Nat /\ Interval \in Nat
    BY BucketFacts, LimiterAssumption
  <2>3. lastRefill' = k * Interval + intervals * Interval
    BY <1>1, <2>1 DEF AllowBucket, refillTime
  <2>4. k * Interval + intervals * Interval = (k + intervals) * Interval
    BY <2>2
  <2>5. k + intervals \in Nat
    BY <2>2
  <2>6. QED
    BY <2>3, <2>4, <2>5 DEF OnBeat
<1>2. ASSUME lastRefill' = lastRefill PROVE OnBeat'
  BY <1>2 DEF OnBeat
<1>3. QED
  BY <1>1, <1>2 DEF LimiterNext, AllowFixed, AllowSliding, Tick, limiterVars, bucketVars

\* After an Allow nothing is left to refill.
LEMMA AllowedLevel ==
    ASSUME LimiterTypeOK, LimiterTypeOK', AllowBucket
    PROVE  refilled' = tokens'
<1> USE LimiterAssumption
<1>1. /\ intervals \in Nat /\ intervals * Interval \in Nat
      /\ lastRefill + intervals * Interval <= now
      /\ now < lastRefill + intervals * Interval + Interval
  BY BucketFacts
<1>2. now \in Nat /\ lastRefill \in Nat
  BY DEF LimiterTypeOK
<1>3. now' = now /\ lastRefill' = lastRefill + intervals * Interval
  BY DEF AllowBucket, refillTime
<1>4. now' - lastRefill' \in Nat /\ now' - lastRefill' < Interval
  BY <1>1, <1>2, <1>3
<1>5. 0 * Interval = 0
  OBVIOUS
<1>6. (now' - lastRefill') \div Interval = 0
  BY <1>4, <1>5, DivUnique
<1>7. intervals' = 0
  BY <1>6 DEF intervals
<1>8. tokens' \in Nat /\ 0 * RefillRate = 0
  BY DEF LimiterTypeOK
<1>9. intervals' * RefillRate = 0 /\ ~ (intervals' > 0)
  BY <1>7, <1>8
<1>10. refilled' = tokens' + intervals' * RefillRate
  BY <1>9 DEF refilled
<1>11. QED
  BY <1>8, <1>9, <1>10

\* When the clock ticks, the bucket's next Allow would find a refill more
\* exactly if the new instant is a multiple of the interval.
LEMMA TickedLevel ==
    ASSUME LimiterTypeOK, OnBeat, Tick
    PROVE  refilled' = IF (now + 1) % Interval = 0
                       THEN (IF refilled + RefillRate > Limit THEN Limit
                             ELSE refilled + RefillRate)
                       ELSE refilled
<1> USE LimiterAssumption
<1> DEFINE q == intervals
<1>1. PICK k \in Nat : lastRefill = k * Interval
  BY DEF OnBeat
<1>2. /\ q \in Nat /\ q * Interval \in Nat /\ q * RefillRate \in Nat
      /\ lastRefill + q * Interval <= now
      /\ now < lastRefill + q * Interval + Interval
      /\ refilled = IF tokens + q * RefillRate > Limit THEN Limit
                    ELSE tokens + q * RefillRate
  BY BucketFacts
<1>3. now \in Nat /\ lastRefill \in Nat /\ tokens \in Nat /\ tokens <= Limit
  BY DEF LimiterTypeOK
<1>4. now' = now + 1 /\ lastRefill' = lastRefill /\ tokens' = tokens
  BY DEF Tick, bucketVars
<1> HIDE DEF q
<1>5. intervals' = (now + 1 - lastRefill) \div Interval
  <2>1. intervals' = (now' - lastRefill') \div Interval
    BY DEF intervals
  <2>2. now' - lastRefill' = now + 1 - lastRefill
    BY <1>3, <1>4
  <2>3. QED
    BY <2>1, <2>2
<1>6. /\ (k + q) * Interval = lastRefill + q * Interval
      /\ (k + q + 1) * Interval = lastRefill + q * Interval + Interval
      /\ (q + 1) * Interval = q * Interval + Interval
      /\ (q + 1) * RefillRate = q * RefillRate + RefillRate
  BY <1>1, <1>2
<1>7. \A a, d \in Nat : a * Interval <= d /\ d < a * Interval + Interval =>
         d \div Interval = a /\ d % Interval = d - a * Interval
  <2>1. ASSUME NEW a \in Nat, NEW d \in Nat, a * Interval <= d, d < a * Interval + Interval
        PROVE  d \div Interval = a /\ d % Interval = d - a * Interval
    <3>1. d \div Interval = a
      BY <2>1, DivUnique
    <3>2. d = Interval * (d \div Interval) + (d % Interval)
      OBVIOUS
    <3>3. Interval * a = a * Interval /\ a * Interval \in Nat
      OBVIOUS
    <3>4. d % Interval \in Int
      OBVIOUS
    <3>5. QED
      BY <3>1, <3>2, <3>3, <3>4
  <2>2. QED
    BY <2>1
<1>8. CASE now + 1 = lastRefill + q * Interval + Interval
  <2>1. (now + 1) % Interval = 0
    <3>1. /\ now + 1 \in Nat /\ k + q + 1 \in Nat
          /\ (k + q + 1) * Interval = now + 1
      BY <1>2, <1>3, <1>6, <1>8
    <3>2. (now + 1) % Interval = (now + 1) - (k + q + 1) * Interval
      BY <1>7, <3>1
    <3>3. QED
      BY <3>1, <3>2
  <2>2. (now + 1 - lastRefill) \div Interval = q + 1
    <3>1. /\ now + 1 - lastRefill \in Nat /\ q + 1 \in Nat
          /\ (q + 1) * Interval = now + 1 - lastRefill
      BY <1>2, <1>3, <1>6, <1>8
    <3>2. QED
      BY <1>7, <3>1
  <2>3. intervals' = q + 1
    BY <1>5, <2>2
  <2>4. intervals' * RefillRate = q * RefillRate + RefillRate /\ intervals' > 0
    BY <1>2, <1>6, <2>3
  <2>5. refilled' = IF tokens + intervals' * RefillRate > Limit THEN Limit
                    ELSE tokens + intervals' * RefillRate
    BY <1>4, <2>4 DEF refilled
  <2>6. QED
    BY <1>2, <1>3, <2>1, <2>4, <2>5
<1>9. CASE now + 1 # lastRefill + q * Interval + Interval
  <2>1. (now + 1) % Interval # 0
    <3>1. /\ now + 1 \in Nat /\ k + q \in Nat /\ (k + q) * Interval \in Nat
          /\ (k + q) * Interval <= now /\ now + 1 < (k + q) * Interval + Interval
      BY <1>2, <1>3, <1>6, <1>9
    <3>2. (k + q) * Interval <= now + 1
      BY <1>3, <3>1
    <3>3. (now + 1) % Interval = (now + 1) - (k + q) * Interval
      BY <1>7, <3>1, <3>2
    <3>4. QED
      BY <1>3, <3>1, <3>3
  <2>2. (now + 1 - lastRefill) \div Interval = q
    <3>1. /\ now + 1 - lastRefill \in Nat
          /\ q * Interval <= now + 1 - lastRefill
          /\ now + 1 - lastRefill < q * Interval + Interval
      BY <1>2, <1>3, <1>9
    <3>2. QED
      BY <1>2, <1>7, <3>1
  <2>3. intervals' = intervals
    BY <1>5, <2>2 DEF q
  <2>4. refilled' = refilled
    BY <1>4, <2>3 DEF refilled
  <2>5. QED
    BY <2>1, <2>4
<1>10. QED
  BY <1>8, <1>9

\* The lazy refill of Allow implements a bucket that refills on every multiple
\* of the interval: no caller gains or loses a token by when it asks.
THEOREM BucketRefillsSteadily == LimiterSpec => RefillsSteadily
<1> USE LimiterAssumption
<1>1. LimiterInit => Steady!Init
  <2> SUFFICES ASSUME LimiterInit PROVE Steady!Init
    OBVIOUS
  <2>1. LimiterTypeOK
    BY LimiterTypeInit
  <2>2. intervals = 0
    <3>1. now = 0 /\ lastRefill = 0 /\ 0 \in Nat /\ 0 * Interval = 0 /\ 0 - 0 = 0
      BY DEF LimiterInit
    <3>2. 0 \div Interval = 0
      BY <3>1, DivUnique
    <3>3. QED
      BY <3>1, <3>2 DEF intervals
  <2>3. refilled = Limit
    <3>1. tokens = Limit /\ intervals * RefillRate = 0
      BY <2>2 DEF LimiterInit
    <3>2. QED
      BY <2>1, <3>1, BucketFacts
  <2>4. now = 0 /\ Len(admitted) = 0
    BY DEF LimiterInit
  <2>5. QED
    BY <2>3, <2>4 DEF LimiterInit, Steady!Init
<1>2. ASSUME LimiterTypeOK, LimiterTypeOK', OnBeat, [LimiterNext]_limiterVars
      PROVE  [Steady!Tick \/ Steady!Grant \/ Steady!Refuse]_
                <<IF kind = "bucket" THEN now ELSE 0,
                  IF kind = "bucket" THEN refilled ELSE Limit,
                  IF kind = "bucket" THEN Len(admitted) ELSE 0,
                  IF kind = "bucket" THEN refused ELSE FALSE>>
  <2>1. CASE AllowBucket
    <3>1. kind = "bucket" /\ kind' = "bucket" /\ now' = now /\ Return(refilled > 0)
      BY <2>1 DEF AllowBucket
    <3>2. refilled' = tokens' /\ refilled \in 0 .. Limit
      BY <1>2, <2>1, AllowedLevel, BucketFacts
    <3>3. CASE refilled > 0
      <4>1. refilled' = refilled - 1
        BY <2>1, <3>2, <3>3 DEF AllowBucket
      <4>2. Return(TRUE)
        <5>1. (refilled > 0) = TRUE
          BY <3>2, <3>3
        <5>2. QED
          BY <3>1, <5>1
      <4>3. Len(admitted') = Len(admitted) + 1
        BY <1>2, <4>2, ReturnEffect DEF total
      <4>4. Steady!Grant
        BY <3>1, <3>3, <4>1, <4>2, <4>3 DEF Steady!Grant, Return
      <4>5. QED
        BY <4>4
    <3>4. CASE ~ (refilled > 0)
      <4>1. refilled = 0 /\ refilled' = refilled
        BY <2>1, <3>2, <3>4 DEF AllowBucket
      <4>2. Return(FALSE)
        <5>1. (refilled > 0) = FALSE
          BY <3>2, <3>4
        <5>2. QED
          BY <3>1, <5>1
      <4>3. admitted' = admitted /\ refused' = TRUE
        BY <1>2, <4>2, ReturnEffect
      <4>4. Steady!Refuse
        BY <3>1, <4>1, <4>3 DEF Steady!Refuse
      <4>5. QED
        BY <4>4
    <3>5. QED
      BY <3>3, <3>4
  <2>2. CASE AllowFixed \/ AllowSliding
    BY <2>2 DEF AllowFixed, AllowSliding
  <2>3. CASE Tick
    <3>1. /\ now < Horizon /\ now' = now + 1 /\ kind' = kind /\ admitted' = admitted
          /\ refused' = FALSE
      BY <2>3 DEF Tick
    <3>2. CASE kind = "bucket"
      <4>1. refilled' = IF (now + 1) % Interval = 0
                        THEN (IF refilled + RefillRate > Limit THEN Limit
                              ELSE refilled + RefillRate)
                        ELSE refilled
        BY <1>2, <2>3, TickedLevel
      <4>2. Steady!Tick
        BY <3>1, <3>2, <4>1 DEF Steady!Tick, Steady!Capped
      <4>3. QED
        BY <4>2
    <3>3. CASE kind # "bucket"
      BY <3>1, <3>3
    <3>4. QED
      BY <3>2, <3>3
  <2>4. CASE UNCHANGED limiterVars
    <3>1. /\ kind' = kind /\ now' = now /\ admitted' = admitted /\ refused' = refused
          /\ tokens' = tokens /\ lastRefill' = lastRefill
      BY <2>4 DEF limiterVars, bucketVars
    <3>2. refilled' = refilled
      BY <3>1 DEF refilled, intervals
    <3>3. QED
      BY <3>1, <3>2
  <2>5. QED
    BY <1>2, <2>1, <2>2, <2>3, <2>4 DEF LimiterNext
<1>3. QED
  BY <1>1, <1>2, LimiterTypeInit, LimiterTypeStep, OnBeatInit, OnBeatStep, PTL
     DEF LimiterSpec, RefillsSteadily, Steady!Spec
=============================================================================
