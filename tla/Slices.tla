------------------------------- MODULE Slices -------------------------------
(***************************************************************************)
(* The functions on slices and maps of package pkg, and below each the     *)
(* result it owes its caller.  Go's indices start at 0; where one is       *)
(* returned it is shifted, elsewhere positions start at 1.                 *)
(***************************************************************************)
EXTENDS Integers, Sequences, SequencesExt, FiniteSetsExt, Bags

Sum(s)   == FoldLeft(+, 0, s)
Pairs(s) == (DOMAIN s) \X (DOMAIN s)

\* The assignment m[x] = v of a Go map.
Assign(m, x, v) == [y \in DOMAIN m \union {x} |-> IF y = x THEN v ELSE m[y]]
-----------------------------------------------------------------------------
\* SubarraySum; sumFreq is a bag of prefix sums.
\* Mutant: the empty prefix is not counted.
sumFreq0_Empty == EmptyBag
sumFreq0 == SetToBag({0})

SubarraySum(nums, k) ==
    LET step(st, num) ==
            LET sum  == st.sum + num
                freq == IF BagIn(sum - k, st.sumFreq) THEN st.sumFreq[sum - k] ELSE 0
            IN  [sum     |-> sum,
                 count   |-> st.count + freq,
                 sumFreq |-> st.sumFreq (+) SetToBag({sum})]
    IN  FoldLeft(step, [sum |-> 0, count |-> 0, sumFreq |-> sumFreq0], nums).count

\* As many subarrays as there are pairs of ends with that sum between them.
Subarrays(nums, k) ==
    Cardinality({p \in Pairs(nums) :
                    p[1] <= p[2] /\ Sum(SubSeq(nums, p[1], p[2])) = k})
-----------------------------------------------------------------------------
\* TwoSum: <<>> for nil.  seen maps a number to its last index so far.
TwoSum(nums, target) ==
    LET step(st, i) ==
            IF st.result # <<>> THEN st
            ELSE IF target - nums[i] \in DOMAIN st.seen
            THEN [st EXCEPT !.result = <<st.seen[target - nums[i]], i - 1>>]
            ELSE [st EXCEPT !.seen = Assign(@, nums[i], i - 1)]
    IN  FoldLeftDomain(step, [seen |-> <<>>, result |-> <<>>], nums).result

\* Two different places that sum up to the target, the right one as early as
\* any pair allows; nil only if there are none.
IsTwoSum(r, nums, target) ==
    LET pairs == {p \in Pairs(nums) :
                    p[1] < p[2] /\ nums[p[1]] + nums[p[2]] = target}
    IN  IF pairs = {} THEN r = <<>>
        ELSE /\ <<r[1] + 1, r[2] + 1>> \in pairs
             /\ \A p \in pairs : r[2] + 1 <= p[2]
-----------------------------------------------------------------------------
\* MinDeletionsToSorted.  The binary search for the first tail above x.
search(tails, x) ==
    LET between[lo \in Nat, hi \in Nat] ==
            LET mid == (lo + hi) \div 2
            IN  IF lo >= hi THEN lo
                ELSE IF tails[mid + 1] > x THEN between[lo, mid]
                ELSE between[mid + 1, hi]
    IN  between[0, Len(tails)]

MinDeletionsToSorted(A) ==
    LET step(tails, x) ==
            LET lo == search(tails, x)
            IN  IF lo = Len(tails) THEN Append(tails, x) ELSE [tails EXCEPT ![lo + 1] = x]
    IN  Len(A) - Len(FoldLeft(step, <<>>, A))

\* The least number of places without which the rest does not decrease.
FewestDeletions(A) ==
    Min({Cardinality(D) : D \in {D \in SUBSET DOMAIN A :
            \A i, k \in DOMAIN A \ D : i < k => A[i] <= A[k]}})
-----------------------------------------------------------------------------
\* MinOperations: the lowest staircase above the slice that goes up or down
\* by one step, 1 or -1, at every place.
cost(a, step) ==
    LET base == Max({a[i] - step * (i - 1) : i \in DOMAIN a})
    IN  IF a = <<>> THEN 0 ELSE Sum([i \in DOMAIN a |-> base + step * (i - 1) - a[i]])

MinOperations(a) == IF cost(a, 1) < cost(a, -1) THEN cost(a, 1) ELSE cost(a, -1)

\* The cheapest way to raise the places to a staircase, of all that could be.
CheapestStairs(a) ==
    LET floor  == Min(ToSet(a)) - Len(a)
        reach  == Max(ToSet(a)) + Len(a)
        stairs == {[i \in DOMAIN a |-> first + step * (i - 1)] :
                     first \in floor .. reach, step \in {1, -1}}
        above  == {t \in stairs : \A i \in DOMAIN a : t[i] >= a[i]}
    IN  IF a = <<>> THEN 0 ELSE Min({Sum(t) - Sum(a) : t \in above})
-----------------------------------------------------------------------------
\* The two pointers of ReverseArray, which ReverseMiddle uses as well.
swapInward(s, left, right) ==
    LET after[k \in Nat] ==
            LET t == after[k - 1]
                l == left + k - 1
                r == right - k + 1
            IN  IF k = 0 THEN s
                ELSE IF l >= r THEN t
                ELSE [t EXCEPT ![l] = t[r], ![r] = t[l]]
    IN  after[Len(s)]

ReverseArray(nums) == swapInward(nums, 1, Len(nums))
-----------------------------------------------------------------------------
\* GetPredictionDiff.  A JSON object gives every key a string, nothing or a
\* value of another type; <<>> is a text that is no JSON object.
absent == 0
other  == -1
empty  == 1     \* the string "", before the strings 2, 3, ...

\* json.Unmarshal into a map of strings, its error ignored: a value of another
\* type leaves its key with the empty string.
Unmarshal(pred) ==
    [key \in {k \in DOMAIN pred : pred[k] # absent} |->
        IF pred[key] = other THEN empty ELSE pred[key]]

GetPredictionDiff(pred1, pred2) ==
    LET map1 == Unmarshal(pred1)
        map2 == Unmarshal(pred2)
    IN  SetToSortSeq({key \in DOMAIN map1 \intersect DOMAIN map2 : map1[key] # map2[key]}, <)

\* In ascending order and once each, the keys both objects have with different
\* values.
IsDiff(r, pred1, pred2) ==
    /\ \A i \in 2 .. Len(r) : r[i - 1] < r[i]
    /\ ToSet(r) = {k \in DOMAIN pred1 \intersect DOMAIN pred2 :
                     absent \notin {pred1[k], pred2[k]} /\ pred1[k] # pred2[k]}
=============================================================================
