------------------------------ MODULE Library -------------------------------
(***************************************************************************)
(* The parts that other code calls and that call nothing themselves, each  *)
(* checked alone: the job heap, the linked list, the metrics registry, the *)
(* rate limiters of package pkg and the pure functions.  A behaviour       *)
(* exercises one part; the others keep their initial state, so that the    *)
(* states of the run are the sum and not the product of theirs.            *)
(***************************************************************************)
EXTENDS JobHeap, LinkedList, Metrics, RateLimiter, Backoff, Numbers, Texts

VARIABLES part,   \* the part this behaviour exercises
          input   \* the function that is called and its arguments

libraryVars == <<part, input, vars, listVars, metricsVars, limiterVars>>

Call(fn, X, Y) == [fn : {fn}, x : X, y : Y]
UpTo(n)        == {[i \in 1 .. k |-> i - 1] : k \in 0 .. n}   \* 0, 1, ..., k - 1
One(S)         == {<<v>> : v \in S}

\* Numbers whose reverse is near the ends of int32, and short ones.
Reversible ==
    {[i \in DOMAIN d |-> sign * d[i]] : sign \in {1, -1}, d \in
        SeqOf({0, 1, 9}, 3) \union
        {<<a, b, 4, 7, 4, 8, 3, 6, c, d>> : a \in 1 .. 3, b \in 0 .. 2, c \in 3 .. 5, d \in 1 .. 9}
        \union {<<0, 2, 1, 4, 7, 4, 8, 3, 6, 4, d>> : d \in 7 .. 9}
        \union {<<2, 1, 4, 7, 4, 8, 3, 6, 4, 7, 1>>}}

Months == SeqOf({-51, -34, -33, 60}, 4)

\* The calls: every function on all arguments of a small range.
Calls ==
    UNION {
      Call("backoff", One(1 .. 80), {<<>>}),
      Call("Reverse", {d \in Reversible : d = <<>> \/ Last(d) # 0}, {<<>>}),
      Call("BinaryGap", One(-1 .. 260 \union {529, 1041}), {<<>>}),
      Call("AddNumbers", SeqOf({0, 4, 9}, 3), SeqOf({0, 5, 9}, 3)),
      Call("MonthlyFee", Months, {<<>>, <<-50, -30, -20>>}),
      Call("P99", SeqOf(1 .. 3, 4) \union UpTo(101) \union {[i \in 1 .. 250 |-> 251 - i]}, {<<>>}),
      Call("SubarraySum", SeqOf(-1 .. 1, 5), One(-1 .. 2)),
      Call("TwoSum", SeqOf({-1, 1, 2, 3}, 4), One(0 .. 5)),
      Call("MinDeletionsToSorted", SeqOf(1 .. 4, 5), {<<>>}),
      Call("MinOperations", SeqOf(0 .. 3, 4), {<<>>}),
      Call("ReverseArray", UpTo(7), {<<>>}),
      Call("GetPredictionDiff", TupleOf({other, absent, empty, 2}, 3) \union {<<>>},
                                TupleOf({other, absent, empty, 3}, 3) \union {<<>>}),
      Call("LengthOfLongestSubstring", SeqOf(1 .. 3, 6), {<<>>}),
      Call("Convert", UpTo(12), One(1 .. 6)),
      Call("ReverseMiddle", SeqOf(1 .. 4, 5), {<<>>, <<1>>, <<2, 3, 4, 1>>}),
      Call("CaseDiff", SeqOf(1 .. 3, 5), {<<>>}),
      Call("remoteIP", SeqOf(0 .. 2, 5), {<<7>>}),
      Call("formatNewspaper", SeqOf({0, 1, 2, 4}, 4), (2 .. 5) \X (0 .. 4))}

LibraryInit ==
    /\ part \in {"heap", "list", "metrics", "limiter", "function"}
    /\ Init /\ ListInit /\ MetricsInit /\ LimiterInit
    /\ part # "limiter" => kind = "bucket"
    /\ input \in IF part = "function" THEN Calls ELSE Call("none", {<<>>}, {<<>>})

HeapStep ==
    part = "heap" /\ Next /\ UNCHANGED <<part, input, listVars, metricsVars, limiterVars>>
ListStep ==
    part = "list" /\ ListNext /\ UNCHANGED <<part, input, vars, metricsVars, limiterVars>>
MetricsStep ==
    part = "metrics" /\ MetricsNext /\ UNCHANGED <<part, input, vars, listVars, limiterVars>>
LimiterStep ==
    part = "limiter" /\ LimiterNext /\ UNCHANGED <<part, input, vars, listVars, metricsVars>>

LibraryNext == HeapStep \/ ListStep \/ MetricsStep \/ LimiterStep

LibrarySpec == LibraryInit /\ [][LibraryNext]_libraryVars

Symmetry == Permutations(Ids)
-----------------------------------------------------------------------------
Of(fn, P) == input.fn = fn => P

\* dispatcher.go:137-142, "attempt 1 -> 1 s, attempt 2 -> 2 s ... capped at
\* 5 min": the retry delay is the documented one for every attempt, whichever
\* way the conversion from float64 to int64 overflows.
DocumentedDelay ==
    Of("backoff", \A overflow \in {"least", "greatest"} :
        AsDocumented(backoff(input.x[1], overflow), input.x[1]))

\* The functions on numbers are exact at their edges: a retry delay is the
\* documented one while its product fits 64 bits, up to attempt 34; a reversal
\* that leaves 32 bits, the last carry of a sum, gaps at either end of a
\* number, a waiver reached exactly, the percentile of very few samples.
NumbersExact ==
    LET x == input.x
        y == input.y
    IN  /\ Of("backoff", x[1] <= 34 => AsDocumented(backoff(x[1], "least"), x[1]))
        /\ Of("Reverse", ReverseInt(x) = Reversed(x))
        /\ Of("BinaryGap", BinaryGap(x[1]) = IF x[1] < 0 THEN 0 ELSE WidestGap(x[1]))
        /\ Of("AddNumbers", IsSum(AddNumbers(x, y), x, y))
        /\ Of("MonthlyFee", MonthlyFee(<<x, y>>) = FeeOwed(<<x, y>>))
        /\ Of("P99", IsP99(P99(x), x))

\* The loops that go through a slice or a string once, with two pointers or a
\* map of what they have seen, find what a look at every pair or piece finds.
\* (The difference between upper- and lower-case letters is that of a text of
\* letters alone: CaseDiff takes any other character for a lower-case letter.)
ScansExact ==
    LET x     == input.x
        y     == input.y
        words == <<x>> \o IF y = <<>> THEN <<>> ELSE <<y>>
    IN  /\ Of("TwoSum", IsTwoSum(TwoSum(x, y[1]), x, y[1]))
        /\ Of("ReverseArray", \A i \in DOMAIN x : ReverseArray(x)[i] = x[Len(x) + 1 - i])
        /\ Of("LengthOfLongestSubstring", LengthOfLongestSubstring(x) = LongestDistinct(x))
        /\ Of("ReverseMiddle",
              IF x = <<>> THEN ReverseMiddle(words) = <<>>
              ELSE \A i \in DOMAIN words : IsMiddleReversed(ReverseMiddle(words)[1][i], words[i]))
        /\ Of("CaseDiff", ToSet(x) \subseteq {Upper, Lower} => CaseDiff(x) = LettersDiff(x))
        /\ Of("remoteIP", IsFirstEntry(remoteIP(x, y), x, y))

\* The functions that count or choose find what a search through all subarrays,
\* subsets or staircases finds, and those that lay out a text lose nothing of
\* it, put all of it in its place, and panic only on a word too wide.  (The
\* predictions differ as documented when all their values are strings: others
\* are all read as the empty string.)
SearchesExact ==
    LET x     == input.x
        y     == input.y
        cut   == Min({y[2], Len(x)})
        paras == <<SubSeq(x, 1, cut), SubSeq(x, cut + 1, Len(x))>>
    IN  /\ Of("SubarraySum", SubarraySum(x, y[1]) = Subarrays(x, y[1]))
        /\ Of("MinDeletionsToSorted", MinDeletionsToSorted(x) = FewestDeletions(x))
        /\ Of("MinOperations", MinOperations(x) = CheapestStairs(x))
        /\ Of("GetPredictionDiff",
              other \notin ToSet(x) \union ToSet(y) => IsDiff(GetPredictionDiff(x, y), x, y))
        /\ Of("Convert", IsZigzag(Convert(x, y[1]), Len(x), y[1]))
        /\ Of("formatNewspaper", IsPage(formatNewspaper(paras, y[1]), paras, y[1]))
=============================================================================
