------------------------------ MODULE Numbers -------------------------------
(***************************************************************************)
(* The functions on numbers of package pkg and the percentile of           *)
(* api-gateway/observability.go, and below each the result it owes its     *)
(* caller.  A loop is a fold over what it ranges over, or a recursive      *)
(* function whose arguments are the variables it changes.                  *)
(***************************************************************************)
EXTENDS Integers, Sequences, SequencesExt, FiniteSetsExt

Total(s) == FoldLeft(+, 0, s)
-----------------------------------------------------------------------------
\* Reverse.  The 64-bit argument is the sequence of the digits that x % 10 and
\* x /= 10 take off it, each with the sign of x.
INT_MAX == 2147483647
INT_MIN == - INT_MAX - 1
TenthMax == INT_MAX \div 10
TenthMin == - TenthMax        \* Go's division truncates

ReverseInt(x) ==
    LET overflows(rev, pop) ==
            \/ rev > TenthMax \/ (rev = TenthMax /\ pop > 7)
            \/ rev < TenthMin \/ (rev = TenthMin /\ pop < -8)
        step(st, pop) ==
            IF st.returned THEN st
            ELSE IF overflows(st.rev, pop) THEN [rev |-> 0, returned |-> TRUE]
            ELSE [rev |-> st.rev * 10 + pop, returned |-> FALSE]
    IN  FoldLeft(step, [rev |-> 0, returned |-> FALSE], x).rev

\* The digits read the other way round, or 0 if that is no 32-bit number.
DropZeros(x) ==
    LET nonzero == {i \in DOMAIN x : x[i] # 0}
    IN  IF nonzero = {} THEN <<>> ELSE SubSeq(x, Min(nonzero), Len(x))
AtMost(x, limit) ==
    x = limit \/ \E i \in DOMAIN limit : x[i] < limit[i] /\ \A k \in 1 .. i - 1 : x[k] = limit[k]
Reversed(x) ==
    LET d    == DropZeros(x)
        n    == Len(d)
        size == [i \in 1 .. n |-> IF d[i] < 0 THEN - d[i] ELSE d[i]]
        last == IF n > 0 /\ \E i \in 1 .. n : d[i] < 0 THEN 8 ELSE 7
    IN  IF n < 10 \/ (n = 10 /\ AtMost(size, <<2, 1, 4, 7, 4, 8, 3, 6, 4, last>>))
        THEN MapThenSumSet(LAMBDA i : d[i] * 10^(n - i), 1 .. n) ELSE 0
-----------------------------------------------------------------------------
gapLoop[n \in Int, maxGap \in Nat, currentGap \in Nat, foundOne \in BOOLEAN] ==
    IF n <= 0 THEN maxGap
    ELSE IF n % 2 = 1
    THEN gapLoop[n \div 2, IF foundOne /\ currentGap > maxGap THEN currentGap ELSE maxGap, 0, TRUE]
    ELSE gapLoop[n \div 2, maxGap, IF foundOne THEN currentGap + 1 ELSE currentGap, foundOne]

BinaryGap(n) == gapLoop[n, 0, 0, FALSE]

\* The widest run of zeros between two neighbouring ones.
WidestGap(n) ==
    LET ones == {i \in 0 .. 30 : (n \div 2^i) % 2 = 1}
        gaps == {p[2] - p[1] - 1 : p \in {p \in ones \X ones :
                    p[1] < p[2] /\ ones \cap (p[1] + 1 .. p[2] - 1) = {}}}
    IN  Max({0} \union gaps)
-----------------------------------------------------------------------------
\* AddNumbers.  A list of digits, the lowest first, is a sequence.
Digit(l) == IF l = <<>> THEN 0 ELSE Head(l)
Rest(l)  == IF l = <<>> THEN l ELSE Tail(l)

\* Mutant: the loop ends with the longer list, without the last carry.
addEnds_NoLastCarry(l1, l2, carry) == l1 = <<>> /\ l2 = <<>>

addEnds(l1, l2, carry) == l1 = <<>> /\ l2 = <<>> /\ carry = 0

addLoop[l1 \in Seq(0 .. 9), l2 \in Seq(0 .. 9), carry \in 0 .. 1] ==
    IF addEnds(l1, l2, carry) THEN <<>>
    ELSE LET sum == carry + Digit(l1) + Digit(l2)
         IN  <<sum % 10>> \o addLoop[Rest(l1), Rest(l2), sum \div 10]

AddNumbers(l1, l2) == addLoop[l1, l2, 0]

Value(l) == MapThenSumSet(LAMBDA i : l[i] * 10^(i - 1), DOMAIN l)

\* One list of digits has the sum for its value, and no zeros in front that
\* neither argument has.
IsSum(l, l1, l2) ==
    LET longer == Max({Len(l1), Len(l2)})
    IN  /\ Value(l) = Value(l1) + Value(l2)
        /\ ToSet(l) \subseteq 0 .. 9
        /\ Len(l) = longer \/ (Len(l) = longer + 1 /\ Last(l) = 1)
-----------------------------------------------------------------------------
\* MonthlyFee.  A month is the sequence of its transactions.
fee(txs) ==
    LET negatives == SelectSeq(txs, LAMBDA v : v < 0)
    IN  IF Len(negatives) >= 3 /\ - Total(negatives) >= 100 THEN 0 ELSE 5

MonthlyFee(A) == Total([month \in DOMAIN A |-> fee(A[month])])

\* Five for each month that has no three or more payments worth 100 together.
WaivedBy(txs, S) ==
    /\ Cardinality(S) >= 3
    /\ \A i \in S : txs[i] < 0
    /\ MapThenSumSet(LAMBDA i : txs[i], S) <= -100
FeeOwed(A) ==
    5 * Cardinality({month \in DOMAIN A : \A S \in SUBSET DOMAIN A[month] : ~ WaivedBy(A[month], S)})
-----------------------------------------------------------------------------
\* RequestMetrics.P99 of the samples.  For every length up to the 1000 samples
\* that Record keeps, the float64 product rounds to this integer quotient.
P99(samples) ==
    LET n      == Len(samples)
        sorted == SortSeq(samples, <)
        idx    == IF (n * 99) \div 100 >= n THEN n - 1 ELSE (n * 99) \div 100
    IN  IF n = 0 THEN 0 ELSE sorted[idx + 1]

\* A sample that less than one in a hundred exceed and one in a hundred reach;
\* of up to a hundred samples this is the greatest.
IsP99(r, samples) ==
    LET n     == Len(samples)
        above == Cardinality({i \in 1 .. n : samples[i] > r})
        least == Cardinality({i \in 1 .. n : samples[i] >= r})
    IN  IF n = 0 THEN r = 0
        ELSE r \in ToSet(samples) /\ 100 * above < n /\ 100 * least >= n
=============================================================================
