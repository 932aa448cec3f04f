--------------------------- MODULE LibraryProofs ----------------------------
(***************************************************************************)
(* What TLAPS proves about the parts of module Library: for any jobs and   *)
(* any length of the slice, the pending heap of the job queue implements   *)
(* the priority pool; for any number of addresses and any values, the      *)
(* linked list implements a sequence; and for every argument, the retry    *)
(* delay, the scans of slices and strings and the reversal of a number are *)
(* what their callers are owed.                                            *)
(***************************************************************************)
EXTENDS Library, FiniteSetTheorems, SequenceTheorems, WellFoundedInduction, TLAPS

\* Every nonempty set of naturals has a least element.
LEMMA Least ==
    ASSUME NEW S, S \subseteq Nat, S # {}
    PROVE  \E m \in S : \A k \in S : m <= k
<1>1. PICK m \in S : \A k \in S : ~ (<<k, m>> \in OpToRel(<, Nat))
  BY NatLessThanWellFounded, WFMin, Zenon
<1>2. \A k \in S : ~ (k < m)
  BY <1>1 DEF OpToRel
<1>3. QED
  BY <1>2
-----------------------------------------------------------------------------
(***************************************************************************)
(* The pending heap of job-queue/queue.go.                                 *)
(***************************************************************************)
\* The positions that the heap order is about: while a pop sifts down, the
\* last one already holds the job to be returned.
Size == IF sift.loop = "down" THEN Len(heap) - 1 ELSE Len(heap)

Typed ==
    /\ heap \in Seq(Job)
    /\ sift \in [loop : {"none", "up", "down"}, at : Nat]
    /\ sift.loop = "none" => sift = None
    /\ sift.loop # "none" => sift.at \in 1 .. Len(heap)

Distinct == \A i, j \in 1 .. Len(heap) : heap[i].id = heap[j].id => i = j

\* The order between a position and its parent that the sift has yet to settle.
Unsettled(k) ==
    \/ sift.loop = "up" /\ k = sift.at
    \/ sift.loop = "down" /\ k \div 2 = sift.at

\* No job is less than its parent elsewhere, and none below the job that moves
\* is less than the parent of that job.
Ordered ==
    /\ \A k \in 2 .. Size : Unsettled(k) \/ ~ Less(heap[k], heap[k \div 2])
    /\ \A k \in 2 .. Size : sift.loop # "none" /\ sift.at > 1 /\ k \div 2 = sift.at =>
          ~ Less(heap[k], heap[sift.at \div 2])

\* The job that a pop is about to return is preceded by none.
ForemostLast ==
    sift.loop = "down" => \A k \in 1 .. Size : ~ Less(heap[k], heap[Len(heap)])

\* The inductive invariant.
HeapInv == Typed /\ Distinct /\ Ordered /\ ForemostLast
-----------------------------------------------------------------------------
(***************************************************************************)
(* jobHeap.Less is a strict weak order.                                    *)
(***************************************************************************)
LEMMA JobFields ==
    ASSUME NEW a \in Job
    PROVE  a.priority \in Int /\ a.runAt \in Int
BY HeapAssumption DEF Job

LEMMA LessAsymmetric ==
    ASSUME NEW a \in Job, NEW b \in Job, Less(a, b)
    PROVE  ~ Less(b, a)
BY JobFields DEF Less

LEMMA LessIrreflexive ==
    ASSUME NEW a \in Job
    PROVE  ~ Less(a, a)
BY JobFields DEF Less

LEMMA NotLessTransitive ==
    ASSUME NEW a \in Job, NEW b \in Job, NEW c \in Job, ~ Less(b, a), ~ Less(c, b)
    PROVE  ~ Less(c, a)
<1>1. /\ a.priority \in Int /\ a.runAt \in Int /\ b.priority \in Int
      /\ b.runAt \in Int /\ c.priority \in Int /\ c.runAt \in Int
  BY JobFields
<1>2. QED
  BY <1>1 DEF Less

-----------------------------------------------------------------------------
(***************************************************************************)
(* Positions, swaps and the lesser child.                                  *)
(***************************************************************************)
LEMMA Parent ==
    ASSUME NEW k \in Nat, k >= 2
    PROVE  k \div 2 \in 1 .. k - 1 /\ k \in {2 * (k \div 2), 2 * (k \div 2) + 1}
OBVIOUS

LEMMA JobAt ==
    ASSUME Typed, NEW i \in 1 .. Len(heap)
    PROVE  heap[i] \in Job
BY ElementOfSeq DEF Typed

LEMMA SwapProperties ==
    ASSUME NEW h \in Seq(Job), NEW i \in 1 .. Len(h), NEW j \in 1 .. Len(h)
    PROVE  /\ Swap(h, i, j) \in Seq(Job) /\ Len(Swap(h, i, j)) = Len(h)
           /\ Swap(h, i, j)[i] = h[j] /\ Swap(h, i, j)[j] = h[i]
           /\ \A k \in 1 .. Len(h) : k # i /\ k # j => Swap(h, i, j)[k] = h[k]
<1>1. h[i] \in Job /\ h[j] \in Job
  BY ElementOfSeq
<1> DEFINE g == [h EXCEPT ![i] = h[j]]
<1>2. g \in Seq(Job) /\ Len(g) = Len(h) /\ \A k \in 1 .. Len(h) : g[k] = IF k = i THEN h[j] ELSE h[k]
  BY <1>1, ExceptSeq
<1>3. Swap(h, i, j) = [g EXCEPT ![j] = h[i]]
  BY DEF Swap
<1> HIDE DEF g
<1>4. /\ Swap(h, i, j) \in Seq(Job) /\ Len(Swap(h, i, j)) = Len(h)
      /\ \A k \in 1 .. Len(h) : Swap(h, i, j)[k] = IF k = j THEN h[i] ELSE g[k]
  BY <1>1, <1>2, <1>3, ExceptSeq
<1>5. QED
  BY <1>2, <1>4

\* A swap permutes the jobs.
LEMMA SwapKeeps ==
    ASSUME heap \in Seq(Job), NEW i \in 1 .. Len(heap), NEW j \in 1 .. Len(heap),
           heap' = Swap(heap, i, j), Distinct
    PROVE  Distinct' /\ ToSet(heap)' = ToSet(heap)
<1>1. PICK n \in Nat : n = Len(heap)
  OBVIOUS
<1>2. /\ heap' \in Seq(Job) /\ Len(heap') = n /\ heap'[i] = heap[j] /\ heap'[j] = heap[i]
      /\ \A k \in 1 .. n : k # i /\ k # j => heap'[k] = heap[k]
  <2>1. /\ Swap(heap, i, j) \in Seq(Job) /\ Len(Swap(heap, i, j)) = Len(heap)
        /\ Swap(heap, i, j)[i] = heap[j] /\ Swap(heap, i, j)[j] = heap[i]
        /\ \A k \in 1 .. Len(heap) : k # i /\ k # j => Swap(heap, i, j)[k] = heap[k]
    BY SwapProperties
  <2>2. QED
    BY <1>1, <2>1
<1>3. DOMAIN heap' = 1 .. n /\ DOMAIN heap = 1 .. n /\ i \in 1 .. n /\ j \in 1 .. n
  BY <1>1, <1>2, LenProperties
<1>4. ToSet(heap') = ToSet(heap)
  BY <1>2, <1>3 DEF ToSet
<1>5. ASSUME NEW p \in 1 .. n, NEW q \in 1 .. n, heap'[p].id = heap'[q].id
      PROVE  p = q
  <2>1. \A k, l \in 1 .. n : heap[k].id = heap[l].id => k = l
    BY <1>1 DEF Distinct
  <2>2. QED
    BY <1>2, <1>3, <1>5, <2>1
<1>6. QED
  BY <1>2, <1>4, <1>5 DEF Distinct

\* The lesser child exists where there is one and is not above any other.
LEMMA LesserProperties ==
    ASSUME Typed, NEW i \in 1 .. Len(heap), 2 * i < Len(heap)
    PROVE  /\ Lesser(i) \in 2 .. Len(heap) - 1 /\ Lesser(i) \div 2 = i
           /\ \A o \in 2 .. Len(heap) - 1 : o \div 2 = i => ~ Less(heap[o], heap[Lesser(i)])
<1>1. Len(heap) \in Nat
  BY DEF Typed
<1>2. (2 * i) \div 2 = i /\ (2 * i + 1) \div 2 = i
  OBVIOUS
<1>3. ASSUME NEW o \in 2 .. Len(heap) - 1, o \div 2 = i PROVE o = 2 * i \/ o = 2 * i + 1
  BY <1>1, <1>3
<1>4. CASE 2 * i + 1 < Len(heap) /\ Less(heap[2 * i + 1], heap[2 * i])
  <2>1. Lesser(i) = 2 * i + 1
    BY <1>4 DEF Lesser
  <2>2. ~ Less(heap[2 * i], heap[2 * i + 1]) /\ ~ Less(heap[2 * i + 1], heap[2 * i + 1])
    BY <1>1, <1>4, JobAt, LessAsymmetric, LessIrreflexive
  <2>3. QED
    BY <1>1, <1>2, <1>3, <1>4, <2>1, <2>2
<1>5. CASE ~ (2 * i + 1 < Len(heap) /\ Less(heap[2 * i + 1], heap[2 * i]))
  <2>1. Lesser(i) = 2 * i
    BY <1>5 DEF Lesser
  <2>2. ~ Less(heap[2 * i], heap[2 * i])
    BY <1>1, JobAt, LessIrreflexive
  <2>3. QED
    BY <1>1, <1>2, <1>3, <1>5, <2>1, <2>2
<1>6. QED
  BY <1>4, <1>5

\* Between operations no job precedes the root: of the jobs that did, the one
\* at the least position would have a parent that does not.
LEMMA RootForemost ==
    ASSUME Typed, Ordered, sift.loop = "none", NEW k \in 1 .. Len(heap)
    PROVE  ~ Less(heap[k], heap[1])
<1> DEFINE S == {m \in 1 .. Len(heap) : Less(heap[m], heap[1])}
<1> SUFFICES ASSUME S # {} PROVE FALSE
  OBVIOUS
<1>1. PICK m \in S : \A n \in S : m <= n
  <2>1. S \subseteq Nat
    OBVIOUS
  <2>2. QED
    BY <2>1, Least
<1>2. m \in 1 .. Len(heap) /\ Less(heap[m], heap[1]) /\ Len(heap) \in Nat
  BY DEF Typed
<1>3. heap[1] \in Job /\ heap[m] \in Job
  BY <1>2, JobAt
<1>4. m >= 2
  BY <1>2, <1>3, LessIrreflexive
<1>5. m \div 2 \in 1 .. Len(heap) /\ m \div 2 < m
  BY <1>2, <1>4, Parent
<1>6. heap[m \div 2] \in Job /\ ~ Less(heap[m \div 2], heap[1])
  BY <1>1, <1>5, JobAt
<1>7. ~ Less(heap[m], heap[m \div 2])
  BY <1>2, <1>4 DEF Ordered, Unsettled, Size
<1>8. QED
  BY <1>2, <1>3, <1>6, <1>7, NotLessTransitive
-----------------------------------------------------------------------------
(***************************************************************************)
(* Every step preserves the invariant.                                     *)
(***************************************************************************)
LEMMA PushKeeps ==
    ASSUME HeapInv, NEW x \in Job, Push(x)
    PROVE  HeapInv'
<1> DEFINE n == Len(heap)
<1>1. /\ heap \in Seq(Job) /\ n \in Nat /\ sift = None /\ sift' = [loop |-> "up", at |-> n + 1]
      /\ heap' = Append(heap, x) /\ \A i \in 1 .. n : heap[i].id # x.id
  BY DEF HeapInv, Typed, Push
<1>2. /\ heap' \in Seq(Job) /\ Len(heap') = n + 1 /\ heap'[n + 1] = x
      /\ \A i \in 1 .. n : heap'[i] = heap[i]
  BY <1>1, AppendProperties
<1>3. sift'.loop = "up" /\ sift'.at = n + 1 /\ sift.loop = "none"
  BY <1>1 DEF None
<1> HIDE DEF n
<1>4. Typed'
  BY <1>1, <1>2, <1>3 DEF Typed
<1>5. Distinct'
  <2>1. \A i, j \in 1 .. n : heap[i].id = heap[j].id => i = j
    BY DEF HeapInv, Distinct, n
  <2>2. QED
    BY <1>1, <1>2, <2>1 DEF Distinct
<1>6. Ordered'
  <2>1. Size' = n + 1
    BY <1>2, <1>3 DEF Size
  <2>2. \A k \in 2 .. n : ~ Less(heap[k], heap[k \div 2])
    BY <1>3 DEF HeapInv, Ordered, Unsettled, Size, n
  <2>3. ASSUME NEW k \in 2 .. n + 1 PROVE Unsettled(k)' \/ ~ Less(heap'[k], heap'[k \div 2])
    <3>1. CASE k = n + 1
      BY <1>3, <3>1 DEF Unsettled
    <3>2. CASE k \in 2 .. n
      <4>1. k \div 2 \in 1 .. n
        BY <1>1, <3>2, Parent
      <4>2. QED
        BY <1>2, <2>2, <3>2, <4>1
    <3>3. k = n + 1 \/ k \in 2 .. n
      BY <1>1
    <3>4. QED
      BY <3>1, <3>2, <3>3
  <2>4. ASSUME NEW k \in 2 .. n + 1 PROVE k \div 2 # n + 1
    BY <1>1, Parent
  <2>5. QED
    BY <1>3, <2>1, <2>3, <2>4 DEF Ordered
<1>7. ForemostLast'
  BY <1>3 DEF ForemostLast
<1>8. QED
  BY <1>4, <1>5, <1>6, <1>7 DEF HeapInv

\* The job has reached the root or a parent that it is not less than.
LEMMA UpEnds ==
    ASSUME HeapInv, Up, sift.at = 1 \/ ~ Less(heap[sift.at], heap[sift.at \div 2])
    PROVE  HeapInv'
<1>1. /\ sift.loop = "up" /\ sift' = None /\ heap' = heap /\ sift'.loop = "none" /\ sift'.at = 0
  BY DEF Up, None
<1>2. Typed'
  BY <1>1 DEF HeapInv, Typed, None
<1>3. Distinct'
  BY <1>1 DEF HeapInv, Distinct
<1>4. Ordered'
  <2>1. Size' = Size
    BY <1>1 DEF Size
  <2>2. ASSUME NEW k \in 2 .. Size PROVE ~ Less(heap[k], heap[k \div 2])
    BY <1>1 DEF HeapInv, Ordered, Unsettled
  <2>3. QED
    BY <1>1, <2>1, <2>2 DEF Ordered
<1>5. ForemostLast'
  BY <1>1 DEF ForemostLast
<1>6. QED
  BY <1>2, <1>3, <1>4, <1>5 DEF HeapInv

\* The job changes places with its parent, which is greater than it; what is
\* below the job is not less than that parent.
LEMMA UpSwaps ==
    ASSUME HeapInv, Up, sift.at # 1, Less(heap[sift.at], heap[sift.at \div 2])
    PROVE  HeapInv'
<1>1. PICK j \in Nat, i \in Nat, n \in Nat : j = sift.at /\ i = j \div 2 /\ n = Len(heap)
  <2>1. sift.at \in Nat /\ sift.at \div 2 \in Nat /\ Len(heap) \in Nat
    BY DEF HeapInv, Typed
  <2>2. QED
    BY <2>1
<1>2. /\ sift.loop = "up" /\ sift \in [loop : {"none", "up", "down"}, at : Nat]
      /\ sift' = [sift EXCEPT !.at = i] /\ heap' = Swap(heap, i, j) /\ heap \in Seq(Job)
      /\ j \in 1 .. n /\ j # 1 /\ Less(heap[j], heap[i])
  BY <1>1 DEF HeapInv, Typed, Up
<1>3. sift'.loop = "up" /\ sift'.at = i /\ sift' \in [loop : {"none", "up", "down"}, at : Nat]
  BY <1>2
<1>4. i \in 1 .. j - 1 /\ i \in 1 .. n
  BY <1>1, <1>2, Parent
<1>5. /\ heap' \in Seq(Job) /\ Len(heap') = n /\ heap'[i] = heap[j] /\ heap'[j] = heap[i]
      /\ \A k \in 1 .. n : k # i /\ k # j => heap'[k] = heap[k]
  <2>1. i \in 1 .. Len(heap) /\ j \in 1 .. Len(heap)
    BY <1>1, <1>2, <1>4
  <2>2. /\ Swap(heap, i, j) \in Seq(Job) /\ Len(Swap(heap, i, j)) = Len(heap)
        /\ Swap(heap, i, j)[i] = heap[j] /\ Swap(heap, i, j)[j] = heap[i]
        /\ \A k \in 1 .. Len(heap) : k # i /\ k # j => Swap(heap, i, j)[k] = heap[k]
    BY <1>2, <2>1, SwapProperties
  <2>3. QED
    BY <1>1, <1>2, <2>2
<1>6. Typed'
  BY <1>3, <1>4, <1>5 DEF Typed
<1>7. Distinct'
  BY <1>1, <1>2, <1>4, <1>5, SwapKeeps DEF HeapInv
<1>8. /\ Size = n /\ Size' = n
      /\ \A k \in 2 .. n : k # j => ~ Less(heap[k], heap[k \div 2])
      /\ \A k \in 2 .. n : k \div 2 = j => ~ Less(heap[k], heap[i])
  <2>1. Size = n /\ Size' = n
    BY <1>1, <1>2, <1>3, <1>5 DEF Size
  <2>2. ASSUME NEW k \in 2 .. n, k # j PROVE ~ Less(heap[k], heap[k \div 2])
    BY <1>1, <1>2, <2>1, <2>2 DEF HeapInv, Ordered, Unsettled
  <2>3. j > 1
    BY <1>2
  <2>4. ASSUME NEW k \in 2 .. n, k \div 2 = j PROVE ~ Less(heap[k], heap[i])
    BY <1>1, <1>2, <2>1, <2>3, <2>4 DEF HeapInv, Ordered
  <2>5. QED
    BY <2>1, <2>2, <2>4
<1>9. \A k \in 1 .. n : heap[k] \in Job
  BY <1>1, JobAt DEF HeapInv
<1>10. ASSUME NEW k \in 2 .. n, k # i PROVE ~ Less(heap'[k], heap'[k \div 2])
  <2>1. k \div 2 \in 1 .. n /\ k \div 2 # k
    BY Parent
  <2>2. CASE k = j
    BY <1>1, <1>2, <1>4, <1>5, <1>9, <2>2, LessAsymmetric
  <2>3. CASE k # j /\ k \div 2 = j
    BY <1>5, <1>8, <1>10, <2>3
  <2>4. CASE k # j /\ k \div 2 = i
    <3>1. ~ Less(heap[k], heap[i]) /\ ~ Less(heap[i], heap[j])
      BY <1>2, <1>4, <1>8, <1>9, <2>4, LessAsymmetric
    <3>2. ~ Less(heap[k], heap[j])
      BY <1>2, <1>4, <1>9, <3>1, NotLessTransitive, SMTT(30)
    <3>3. QED
      BY <1>5, <1>10, <2>4, <3>2
  <2>5. CASE k # j /\ k \div 2 # j /\ k \div 2 # i
    BY <1>5, <1>8, <1>10, <2>1, <2>5
  <2>6. QED
    BY <2>2, <2>3, <2>4, <2>5
<1>11. ASSUME NEW k \in 2 .. n, k \div 2 = i, i > 1 PROVE ~ Less(heap'[k], heap'[i \div 2])
  <2>1. i \div 2 \in 1 .. n /\ i \div 2 # i /\ i \div 2 # j /\ k # i
    BY <1>2, <1>4, <1>11, Parent, SMTT(30)
  <2>2. ~ Less(heap[i], heap[i \div 2])
    BY <1>4, <1>8, <1>11
  <2>3. CASE k = j
    BY <1>5, <2>1, <2>2, <2>3
  <2>4. CASE k # j
    <3>1. ~ Less(heap[k], heap[i])
      BY <1>8, <1>11, <2>4
    <3>2. ~ Less(heap[k], heap[i \div 2])
      BY <1>4, <1>9, <2>1, <2>2, <3>1, NotLessTransitive
    <3>3. QED
      BY <1>5, <2>1, <2>4, <3>2
  <2>5. QED
    BY <2>3, <2>4
<1>12. Ordered'
  <2>1. \A k \in 2 .. n : k = i => Unsettled(k)'
    BY <1>3 DEF Unsettled
  <2>2. QED
    BY <1>3, <1>8, <1>10, <1>11, <2>1 DEF Ordered
<1>13. ForemostLast'
  BY <1>3 DEF ForemostLast
<1>14. QED
  BY <1>6, <1>7, <1>12, <1>13 DEF HeapInv

LEMMA PopKeeps ==
    ASSUME HeapInv, Pop
    PROVE  HeapInv'
<1>1. PICK n \in Nat : n = Len(heap)
  BY DEF HeapInv, Typed
<1>2. /\ sift = None /\ sift.loop = "none" /\ heap \in Seq(Job) /\ n >= 1
      /\ sift' = [loop |-> "down", at |-> 1] /\ heap' = Swap(heap, 1, n)
  BY <1>1, EmptySeq DEF HeapInv, Typed, Pop, None
<1>3. /\ heap' \in Seq(Job) /\ Len(heap') = n /\ heap'[1] = heap[n] /\ heap'[n] = heap[1]
      /\ \A k \in 1 .. n : k # 1 /\ k # n => heap'[k] = heap[k]
  <2>1. 1 \in 1 .. Len(heap) /\ n \in 1 .. Len(heap)
    BY <1>1, <1>2
  <2>2. /\ Swap(heap, 1, n) \in Seq(Job) /\ Len(Swap(heap, 1, n)) = Len(heap)
        /\ Swap(heap, 1, n)[1] = heap[n] /\ Swap(heap, 1, n)[n] = heap[1]
        /\ \A k \in 1 .. Len(heap) : k # 1 /\ k # n => Swap(heap, 1, n)[k] = heap[k]
    BY <1>2, <2>1, SwapProperties
  <2>3. QED
    BY <1>1, <1>2, <2>2
<1>4. sift'.loop = "down" /\ sift'.at = 1
  BY <1>2
<1>5. Typed'
  BY <1>2, <1>3, <1>4 DEF Typed
<1>6. Distinct'
  BY <1>1, <1>2, <1>3, SwapKeeps DEF HeapInv
<1>7. Size' = n - 1 /\ Size = n
  BY <1>1, <1>2, <1>3, <1>4 DEF Size
<1>8. Ordered'
  <2>1. ASSUME NEW k \in 2 .. n - 1, k \div 2 # 1 PROVE ~ Less(heap'[k], heap'[k \div 2])
    <3>1. k \div 2 \in 1 .. n /\ k \div 2 # n
      BY Parent
    <3>2. ~ Less(heap[k], heap[k \div 2])
      BY <1>2, <1>7 DEF HeapInv, Ordered, Unsettled
    <3>3. QED
      BY <1>3, <2>1, <3>1, <3>2
  <2>2. \A k \in 2 .. n - 1 : k \div 2 = 1 => Unsettled(k)'
    BY <1>4 DEF Unsettled
  <2>3. QED
    BY <1>4, <1>7, <2>1, <2>2 DEF Ordered
<1>9. ForemostLast'
  <2>1. \A k \in 1 .. n : ~ Less(heap[k], heap[1])
    BY <1>1, <1>2, RootForemost DEF HeapInv
  <2>2. ASSUME NEW k \in 1 .. n - 1 PROVE ~ Less(heap'[k], heap'[n])
    <3>1. heap'[k] = heap[n] \/ heap'[k] = heap[k]
      BY <1>2, <1>3
    <3>2. n \in 1 .. n /\ k \in 1 .. n /\ heap'[n] = heap[1]
      BY <1>2, <1>3
    <3>3. QED
      BY <2>1, <3>1, <3>2, Zenon
  <2>3. QED
    BY <1>3, <1>7, <2>2 DEF ForemostLast
<1>10. QED
  BY <1>5, <1>6, <1>8, <1>9 DEF HeapInv

\* The job changes places with its lesser child, which is less than it.
LEMMA DownKeeps ==
    ASSUME HeapInv, Down
    PROVE  HeapInv'
<1>1. PICK i \in Nat, c \in Nat, n \in Nat : i = sift.at /\ c = Lesser(i) /\ n = Len(heap)
  <2>1. sift.at \in Nat /\ Lesser(sift.at) \in Nat /\ Len(heap) \in Nat
    BY DEF HeapInv, Typed, Lesser
  <2>2. QED
    BY <2>1
<1>2. /\ sift.loop = "down" /\ sift \in [loop : {"none", "up", "down"}, at : Nat]
      /\ sift' = [sift EXCEPT !.at = c] /\ heap' = Swap(heap, i, c) /\ heap \in Seq(Job)
      /\ i \in 1 .. n /\ 2 * i < n /\ Less(heap[c], heap[i])
  BY <1>1 DEF HeapInv, Typed, Down, Sinks
<1>3. sift'.loop = "down" /\ sift'.at = c /\ sift' \in [loop : {"none", "up", "down"}, at : Nat]
  BY <1>2
<1>4. /\ c \in 2 .. n - 1 /\ c \div 2 = i
      /\ \A o \in 2 .. n - 1 : o \div 2 = i => ~ Less(heap[o], heap[c])
  BY <1>1, <1>2, LesserProperties DEF HeapInv
<1>5. i \in 1 .. n - 1 /\ i # c
  BY <1>2, <1>4
<1>6. /\ heap' \in Seq(Job) /\ Len(heap') = n /\ heap'[i] = heap[c] /\ heap'[c] = heap[i]
      /\ \A k \in 1 .. n : k # i /\ k # c => heap'[k] = heap[k]
  <2>1. i \in 1 .. Len(heap) /\ c \in 1 .. Len(heap)
    BY <1>1, <1>4, <1>5
  <2>2. /\ Swap(heap, i, c) \in Seq(Job) /\ Len(Swap(heap, i, c)) = Len(heap)
        /\ Swap(heap, i, c)[i] = heap[c] /\ Swap(heap, i, c)[c] = heap[i]
        /\ \A k \in 1 .. Len(heap) : k # i /\ k # c => Swap(heap, i, c)[k] = heap[k]
    BY <1>2, <2>1, SwapProperties
  <2>3. QED
    BY <1>1, <1>2, <2>2
<1>7. Typed'
  BY <1>3, <1>4, <1>6 DEF Typed
<1>8. Distinct'
  BY <1>1, <1>2, <1>4, <1>5, <1>6, SwapKeeps DEF HeapInv
<1>9. /\ Size = n - 1 /\ Size' = n - 1
      /\ \A k \in 2 .. n - 1 : k \div 2 # i => ~ Less(heap[k], heap[k \div 2])
      /\ \A k \in 2 .. n - 1 : i > 1 /\ k \div 2 = i => ~ Less(heap[k], heap[i \div 2])
  <2>1. Size = n - 1 /\ Size' = n - 1
    BY <1>1, <1>2, <1>3, <1>6 DEF Size
  <2>2. ASSUME NEW k \in 2 .. n - 1, k \div 2 # i PROVE ~ Less(heap[k], heap[k \div 2])
    BY <1>1, <1>2, <2>1, <2>2 DEF HeapInv, Ordered, Unsettled
  <2>3. ASSUME NEW k \in 2 .. n - 1, i > 1, k \div 2 = i PROVE ~ Less(heap[k], heap[i \div 2])
    BY <1>1, <1>2, <2>1, <2>3 DEF HeapInv, Ordered
  <2>4. QED
    BY <2>1, <2>2, <2>3
<1>10. \A k \in 1 .. n : heap[k] \in Job
  BY <1>1, JobAt DEF HeapInv
<1>11. ASSUME NEW k \in 2 .. n - 1, k \div 2 # c PROVE ~ Less(heap'[k], heap'[k \div 2])
  <2>1. k \div 2 \in 1 .. n /\ k \div 2 # k
    BY Parent
  <2>2. CASE k = c
    BY <1>2, <1>4, <1>5, <1>6, <1>10, <2>2, LessAsymmetric
  <2>3. CASE k # c /\ k \div 2 = i
    BY <1>4, <1>6, <2>1, <2>3
  <2>4. CASE k = i
    <3>1. i > 1 /\ i \div 2 # i /\ i \div 2 \in 1 .. n
      BY <2>1, <2>4
    <3>2. ~ Less(heap[c], heap[i \div 2])
      BY <1>4, <1>9, <3>1
    <3>3. QED
      BY <1>6, <1>11, <2>4, <3>1, <3>2
  <2>5. CASE k # c /\ k # i /\ k \div 2 # i
    BY <1>6, <1>9, <1>11, <2>1, <2>5
  <2>6. QED
    BY <2>2, <2>3, <2>4, <2>5
<1>12. ASSUME NEW k \in 2 .. n - 1, k \div 2 = c PROVE ~ Less(heap'[k], heap'[c \div 2])
  <2>1. k # c /\ k # i
    BY <1>4, <1>5, <1>12, Parent
  <2>2. ~ Less(heap[k], heap[c])
    BY <1>5, <1>9, <1>12
  <2>3. QED
    BY <1>4, <1>6, <2>1, <2>2
<1>13. Ordered'
  <2>1. \A k \in 2 .. n - 1 : k \div 2 = c => Unsettled(k)'
    BY <1>3 DEF Unsettled
  <2>2. QED
    BY <1>3, <1>9, <1>11, <1>12, <2>1 DEF Ordered
<1>14. ForemostLast'
  <2>1. \A k \in 1 .. n - 1 : ~ Less(heap[k], heap[n])
    BY <1>1, <1>2, <1>9 DEF HeapInv, ForemostLast
  <2>2. ASSUME NEW k \in 1 .. n - 1 PROVE ~ Less(heap'[k], heap'[n])
    <3>1. heap'[n] = heap[n]
      BY <1>4, <1>5, <1>6
    <3>2. QED
      BY <1>4, <1>5, <1>6, <2>1, <3>1
  <2>3. QED
    BY <1>6, <1>9, <2>2 DEF ForemostLast
<1>15. QED
  BY <1>7, <1>8, <1>13, <1>14 DEF HeapInv

LEMMA CutKeeps ==
    ASSUME HeapInv, Cut
    PROVE  HeapInv'
<1>1. PICK i \in Nat, n \in Nat : i = sift.at /\ n = Len(heap)
  BY DEF HeapInv, Typed
<1>2. /\ sift.loop = "down" /\ heap \in Seq(Job) /\ i \in 1 .. n /\ sift' = None
      /\ sift'.loop = "none" /\ heap' = SubSeq(heap, 1, n - 1) /\ ~ Sinks(i)
  BY <1>1 DEF HeapInv, Typed, Cut, None
<1>3. /\ heap' \in Seq(Job) /\ Len(heap') = n - 1
      /\ \A k \in 1 .. n - 1 : heap'[k] = heap[k]
  BY <1>1, <1>2, SubSeqProperties
<1>4. Typed'
  BY <1>2, <1>3 DEF Typed, None
<1>5. Distinct'
  BY <1>1, <1>2, <1>3 DEF HeapInv, Distinct
<1>6. Size = n - 1 /\ Size' = n - 1
  BY <1>1, <1>2, <1>3 DEF Size
<1>7. \A k \in 1 .. n : heap[k] \in Job
  BY <1>1, JobAt DEF HeapInv
<1>8. ASSUME NEW k \in 2 .. n - 1 PROVE ~ Less(heap[k], heap[k \div 2])
  <2>1. CASE k \div 2 # i
    BY <1>1, <1>2, <1>6, <2>1 DEF HeapInv, Ordered, Unsettled
  <2>2. CASE k \div 2 = i
    <3>1. 2 * i < n
      BY <1>1, <2>2, Parent
    <3>2. ~ Less(heap[Lesser(i)], heap[i])
      BY <1>1, <1>2, <3>1 DEF Sinks
    <3>3. Lesser(i) \in 2 .. n - 1 /\ ~ Less(heap[k], heap[Lesser(i)])
      BY <1>1, <1>2, <2>2, <3>1, LesserProperties DEF HeapInv
    <3>4. heap[i] \in Job /\ heap[k] \in Job /\ heap[Lesser(i)] \in Job
      BY <1>2, <1>7, <3>3
    <3>5. QED
      BY <2>2, <3>2, <3>3, <3>4, NotLessTransitive
  <2>3. QED
    BY <2>1, <2>2
<1>9. Ordered'
  <2>1. ASSUME NEW k \in 2 .. n - 1 PROVE ~ Less(heap'[k], heap'[k \div 2])
    <3>1. k \div 2 \in 1 .. n - 1
      BY Parent
    <3>2. QED
      BY <1>3, <1>8, <3>1
  <2>2. QED
    BY <1>2, <1>6, <2>1 DEF Ordered
<1>10. ForemostLast'
  BY <1>2 DEF ForemostLast
<1>11. QED
  BY <1>4, <1>5, <1>9, <1>10 DEF HeapInv

LEMMA HeapInvInit == Init => HeapInv
<1> SUFFICES ASSUME Init PROVE HeapInv
  OBVIOUS
<1>1. heap = <<>> /\ sift = None /\ sift.loop = "none" /\ sift.at = 0
  BY DEF Init, None
<1>2. heap \in Seq(Job) /\ Len(heap) = 0
  BY <1>1
<1>3. Typed
  BY <1>1, <1>2 DEF Typed, None
<1>4. Distinct /\ Ordered /\ ForemostLast
  BY <1>1, <1>2 DEF Distinct, Ordered, ForemostLast, Size
<1>5. QED
  BY <1>3, <1>4 DEF HeapInv

LEMMA HeapInvStep == HeapInv /\ [Next]_vars => HeapInv'
<1> SUFFICES ASSUME HeapInv, [Next]_vars PROVE HeapInv'
  OBVIOUS
<1>1. CASE Up
  <2>1. CASE sift.at = 1 \/ ~ Less(heap[sift.at], heap[sift.at \div 2])
    BY <1>1, <2>1, UpEnds
  <2>2. CASE ~ (sift.at = 1 \/ ~ Less(heap[sift.at], heap[sift.at \div 2]))
    BY <1>1, <2>2, UpSwaps
  <2>3. QED
    BY <2>1, <2>2
<1>2. CASE Pop
  BY <1>2, PopKeeps
<1>3. CASE Down
  BY <1>3, DownKeeps
<1>4. CASE Cut
  BY <1>4, CutKeeps
<1>5. CASE \E x \in Job : Push(x)
  BY <1>5, PushKeeps
<1>6. CASE UNCHANGED vars
  BY <1>6 DEF vars, HeapInv, Typed, Distinct, Ordered, Unsettled, ForemostLast, Size
<1>7. QED
  BY <1>1, <1>2, <1>3, <1>4, <1>5, <1>6 DEF Next
-----------------------------------------------------------------------------
(***************************************************************************)
(* The refinement: a push adds, the end of a pop takes, and every turn of  *)
(* a loop leaves the set of the jobs as it is.                             *)
(***************************************************************************)
\* What Less compares is the documented precedence.
LEMMA LessIsPrecedes ==
    ASSUME NEW a \in Job, NEW b \in Job
    PROVE  Pool!Precedes(a, b) <=> Less(a, b)
BY JobFields DEF Pool!Precedes, Less

LEMMA PushAdds ==
    ASSUME HeapInv, NEW x \in Job, Push(x)
    PROVE  Pool!Add
<1>1. PICK n \in Nat : n = Len(heap)
  BY DEF HeapInv, Typed
<1>2. /\ heap \in Seq(Job) /\ heap' = Append(heap, x) /\ popped' = {}
      /\ \A i \in 1 .. n : heap[i].id # x.id
  BY <1>1 DEF HeapInv, Typed, Push
<1>3. /\ heap' \in Seq(Job) /\ Len(heap') = n + 1 /\ heap'[n + 1] = x
      /\ \A i \in 1 .. n : heap'[i] = heap[i]
  BY <1>1, <1>2, AppendProperties
<1>4. DOMAIN heap = 1 .. n /\ DOMAIN heap' = 1 .. n + 1
  BY <1>1, <1>2, <1>3, LenProperties
<1>5. x \notin ToSet(heap)
  BY <1>2, <1>4 DEF ToSet
<1>6. ToSet(heap') = ToSet(heap) \union {x}
  <2>1. ASSUME NEW y \in ToSet(heap') PROVE y \in ToSet(heap) \union {x}
    BY <1>3, <1>4 DEF ToSet
  <2>2. ASSUME NEW y \in ToSet(heap) PROVE y \in ToSet(heap')
    BY <1>3, <1>4 DEF ToSet
  <2>3. x \in ToSet(heap')
    BY <1>3, <1>4 DEF ToSet
  <2>4. QED
    BY <2>1, <2>2, <2>3
<1>7. QED
  BY <1>2, <1>5, <1>6 DEF Pool!Add

LEMMA CutTakes ==
    ASSUME HeapInv, Cut
    PROVE  Pool!Take
<1>1. PICK n \in Nat : n = Len(heap)
  BY DEF HeapInv, Typed
<1>2. /\ heap \in Seq(Job) /\ heap' = SubSeq(heap, 1, n - 1) /\ popped' = {heap[n]}
      /\ n >= 1 /\ sift.loop = "down" /\ Size = n - 1
  BY <1>1 DEF HeapInv, Typed, Cut, Size
<1>3. /\ heap' \in Seq(Job) /\ Len(heap') = n - 1
      /\ \A k \in 1 .. n - 1 : heap'[k] = heap[k]
  BY <1>1, <1>2, SubSeqProperties
<1>4. DOMAIN heap = 1 .. n /\ DOMAIN heap' = 1 .. n - 1
  BY <1>1, <1>2, <1>3, LenProperties
<1>5. \A k \in 1 .. n : heap[k] \in Job
  BY <1>1, JobAt DEF HeapInv
<1>6. heap[n] \in ToSet(heap) /\ heap[n] \in Job
  BY <1>2, <1>4, <1>5 DEF ToSet
<1>7. ASSUME NEW y \in ToSet(heap) PROVE ~ Pool!Precedes(y, heap[n])
  <2>1. PICK k \in 1 .. n : y = heap[k]
    BY <1>4 DEF ToSet
  <2>2. ~ Less(heap[k], heap[n])
    <3>1. CASE k = n
      BY <1>6, <3>1, LessIrreflexive
    <3>2. CASE k \in 1 .. n - 1
      BY <1>1, <1>2, <3>2 DEF HeapInv, ForemostLast
    <3>3. k = n \/ k \in 1 .. n - 1
      BY <1>2
    <3>4. QED
      BY <3>1, <3>2, <3>3
  <2>3. QED
    BY <1>5, <1>6, <2>1, <2>2, LessIsPrecedes
<1>8. ToSet(heap') = ToSet(heap) \ {heap[n]}
  <2>1. \A k \in 1 .. n - 1 : heap[k] # heap[n]
    BY <1>1, <1>2 DEF HeapInv, Distinct
  <2>2. ASSUME NEW y \in ToSet(heap') PROVE y \in ToSet(heap) \ {heap[n]}
    BY <1>2, <1>3, <1>4, <2>1 DEF ToSet
  <2>3. ASSUME NEW y \in ToSet(heap) \ {heap[n]} PROVE y \in ToSet(heap')
    <3>1. PICK k \in 1 .. n : y = heap[k]
      BY <1>4 DEF ToSet
    <3>2. k \in 1 .. n - 1
      BY <1>2, <3>1
    <3>3. QED
      BY <1>3, <1>4, <3>1, <3>2 DEF ToSet
  <2>4. QED
    BY <2>2, <2>3
<1>9. QED
  BY <1>2, <1>6, <1>7, <1>8 DEF Pool!Take

LEMMA PoolStep ==
    ASSUME HeapInv, [Next]_vars
    PROVE  [Pool!Add \/ Pool!Take]_<<ToSet(heap), popped>>
<1>0. heap \in Seq(Job) /\ Distinct /\ Len(heap) \in Nat
  BY DEF HeapInv, Typed
<1>1. CASE Up
  <2>1. CASE sift.at = 1 \/ ~ Less(heap[sift.at], heap[sift.at \div 2])
    BY <1>1, <2>1 DEF Up
  <2>2. CASE ~ (sift.at = 1 \/ ~ Less(heap[sift.at], heap[sift.at \div 2]))
    <3>1. sift.at \in 1 .. Len(heap) /\ sift.at >= 2
      BY <1>1, <2>2 DEF HeapInv, Typed, Up
    <3>2. sift.at \div 2 \in 1 .. Len(heap)
      BY <1>0, <3>1, Parent
    <3>3. heap' = Swap(heap, sift.at \div 2, sift.at) /\ UNCHANGED popped
      BY <1>1, <2>2 DEF Up
    <3>4. QED
      BY <1>0, <3>1, <3>2, <3>3, SwapKeeps
  <2>3. QED
    BY <2>1, <2>2
<1>2. CASE Pop
  <2>1. 1 \in 1 .. Len(heap) /\ Len(heap) \in 1 .. Len(heap)
    BY <1>0, <1>2, EmptySeq DEF Pop
  <2>2. heap' = Swap(heap, 1, Len(heap)) /\ UNCHANGED popped
    BY <1>2 DEF Pop
  <2>3. QED
    BY <1>0, <2>1, <2>2, SwapKeeps
<1>3. CASE Down
  <2>1. sift.at \in 1 .. Len(heap) /\ 2 * sift.at < Len(heap)
    BY <1>3 DEF HeapInv, Typed, Down, Sinks
  <2>2. Lesser(sift.at) \in 1 .. Len(heap)
    BY <1>0, <2>1, LesserProperties DEF HeapInv
  <2>3. heap' = Swap(heap, sift.at, Lesser(sift.at)) /\ UNCHANGED popped
    BY <1>3 DEF Down
  <2>4. QED
    BY <1>0, <2>1, <2>2, <2>3, SwapKeeps
<1>4. CASE Cut
  BY <1>4, CutTakes
<1>5. CASE \E x \in Job : Push(x)
  BY <1>5, PushAdds
<1>6. CASE UNCHANGED vars
  BY <1>6 DEF vars
<1>7. QED
  BY <1>1, <1>2, <1>3, <1>4, <1>5, <1>6 DEF Next

\* The array under heap.Push and heap.Pop implements the priority pool: no
\* push, pop or turn of a sift loses or duplicates a job, and what a pop
\* returns is preceded by no job of the heap (queue.go:99-121).
THEOREM HeapImplementsPool == Spec => PopsForemost
<1>1. Init => Pool!Init
  <2>1. ASSUME Init PROVE ToSet(heap) = {}
    BY <2>1 DEF Init, ToSet
  <2>2. QED
    BY <2>1 DEF Init, Pool!Init
<1>2. HeapInv /\ [Next]_vars => [Pool!Add \/ Pool!Take]_<<ToSet(heap), popped>>
  BY PoolStep
<1>3. QED
  BY <1>1, <1>2, HeapInvInit, HeapInvStep, PTL DEF Spec, PopsForemost, Pool!Spec
-----------------------------------------------------------------------------
(***************************************************************************)
(* The linked list of pkg/linked_list.go.                                  *)
(***************************************************************************)
Cell == [Value : Values, Next : Nodes \union {nil}]

\* The addresses c, all different, are linked in this order from the head.
IsChain(c) ==
    /\ \A i, j \in 1 .. Len(c) : c[i] = c[j] => i = j
    /\ head = IF Len(c) = 0 THEN nil ELSE c[1]
    /\ \A i \in 1 .. Len(c) :
          node[c[i]] \in Cell /\ node[c[i]].Next = IF i = Len(c) THEN nil ELSE c[i + 1]

\* Walking along Next passes the addresses of the chain and stays at nil.
LEMMA WalkFollowsChain ==
    ASSUME NEW c \in Seq(Nodes), IsChain(c), NEW k \in Nat
    PROVE  Walk[k] = IF k < Len(c) THEN c[k + 1] ELSE nil
<1> DEFINE step(w, i) == IF i = 0 THEN head
                         ELSE IF w[i - 1] = nil THEN nil ELSE node[w[i - 1]].Next
           f == [i \in Nat |-> IF i < Len(c) THEN c[i + 1] ELSE nil]
<1>1. \A i \in Nat : f[i] = step(f, i)
  <2> TAKE i \in Nat
  <2>0. Len(c) \in Nat /\ \A j \in 1 .. Len(c) : c[j] \in Nodes /\ c[j] # nil
    BY ElementOfSeq, ListAssumption
  <2>1. CASE i = 0
    BY <2>0, <2>1 DEF IsChain
  <2>2. CASE i # 0 /\ i - 1 >= Len(c)
    BY <2>0, <2>2
  <2>3. CASE i # 0 /\ i - 1 < Len(c)
    <3>1. i \in 1 .. Len(c) /\ f[i - 1] = c[i] /\ c[i] # nil
      BY <2>0, <2>3
    <3>2. step(f, i) = node[c[i]].Next
      BY <2>3, <3>1
    <3>3. node[c[i]].Next = IF i = Len(c) THEN nil ELSE c[i + 1]
      BY <3>1 DEF IsChain
    <3>4. QED
      BY <2>0, <3>1, <3>2, <3>3
  <2>4. QED
    BY <2>0, <2>1, <2>2, <2>3
<1>2. f = [i \in Nat |-> step(f, i)]
  BY <1>1
<1>3. Walk = CHOOSE w : w = [i \in Nat |-> step(w, i)]
  BY DEF Walk
<1>4. Walk = [i \in Nat |-> step(Walk, i)]
  BY <1>2, <1>3
<1> HIDE DEF f
<1> DEFINE S == {i \in Nat : Walk[i] # f[i]}
<1>5. S = {}
  <2> SUFFICES ASSUME S # {} PROVE FALSE
    OBVIOUS
  <2>1. PICK m \in S : \A i \in S : m <= i
    <3>1. S \subseteq Nat
      OBVIOUS
    <3>2. QED
      BY <3>1, Least
  <2>2. m \in Nat /\ Walk[m] # f[m] /\ Walk[m] = step(Walk, m) /\ f[m] = step(f, m)
    BY <1>1, <1>4
  <2>3. CASE m = 0
    BY <2>2, <2>3
  <2>4. CASE m # 0
    <3>1. m - 1 \in Nat /\ ~ (m <= m - 1)
      BY <2>2, <2>4
    <3>2. m - 1 \notin S
      <4> HIDE DEF S
      <4> QED
        BY <2>1, <3>1
    <3>3. Walk[m - 1] = f[m - 1]
      BY <3>1, <3>2
    <3>4. QED
      BY <2>2, <3>3
  <2>5. QED
    BY <2>3, <2>4
<1>6. Walk[k] = f[k]
  BY <1>5
<1>7. QED
  BY <1>6 DEF f

\* A chain without repetition is no longer than there are addresses.
LEMMA ChainBound ==
    ASSUME NEW c \in Seq(Nodes), \A i, j \in 1 .. Len(c) : c[i] = c[j] => i = j
    PROVE  Len(c) \in Nat /\ Cardinality(Nodes) \in Nat /\ Len(c) <= Cardinality(Nodes)
<1>1. Len(c) \in Nat /\ c \in [1 .. Len(c) -> Nodes]
  BY LenProperties
<1>2. IsFiniteSet(Nodes) /\ Cardinality(Nodes) \in Nat
  BY ListAssumption, FS_CardinalityType
<1>3. IsFiniteSet(1 .. Len(c)) /\ Cardinality(1 .. Len(c)) = Len(c)
  <2>1. 1 \in Int /\ Len(c) \in Int
    BY <1>1
  <2>2. /\ IsFiniteSet(1 .. Len(c))
        /\ Cardinality(1 .. Len(c)) = IF 1 > Len(c) THEN 0 ELSE Len(c) - 1 + 1
    BY <2>1, FS_Interval
  <2>3. QED
    BY <1>1, <2>2
<1>4. ~ (Cardinality(Nodes) < Cardinality(1 .. Len(c)))
  BY <1>1, <1>2, <1>3, FS_PigeonHole
<1>5. QED
  BY <1>1, <1>2, <1>3, <1>4

\* There is one chain, and the list holds the values along it.
LEMMA ChainIs == \A c \in Seq(Nodes) : IsChain(c) => Chain = c /\ Contents = [i \in 1 .. Len(c) |-> node[c[i]].Value]
<1> SUFFICES ASSUME NEW c \in Seq(Nodes), IsChain(c)
             PROVE  Chain = c /\ Contents = [i \in 1 .. Len(c) |-> node[c[i]].Value]
  OBVIOUS
<1>1. Len(c) \in Nat /\ Cardinality(Nodes) \in Nat /\ Len(c) <= Cardinality(Nodes)
  BY ChainBound DEF IsChain
<1>2. \A k \in Nat : Walk[k] = IF k < Len(c) THEN c[k + 1] ELSE nil
  BY WalkFollowsChain
<1>3. \A i \in 1 .. Len(c) : c[i] # nil
  BY ElementOfSeq, ListAssumption
<1> DEFINE T == {k \in 0 .. Cardinality(Nodes) : Walk[k] = nil}
<1>4. Len(c) \in T
  BY <1>1, <1>2
<1>5. \A k \in T : k \in Nat /\ Len(c) <= k
  BY <1>1, <1>2, <1>3
<1>6. Length = Len(c)
  <2>1. Length = CHOOSE x \in T : \A y \in T : x <= y
    BY DEF Length, Min
  <2> HIDE DEF T
  <2>2. \A x \in T : (\A y \in T : x <= y) => x = Len(c)
    BY <1>1, <1>4, <1>5
  <2>3. QED
    BY <1>4, <1>5, <2>1, <2>2
<1>7. Chain = [i \in 1 .. Len(c) |-> c[i]]
  BY <1>1, <1>2, <1>6 DEF Chain
<1>8. c = [i \in 1 .. Len(c) |-> c[i]]
  BY LenProperties
<1>9. Chain = c /\ DOMAIN c = 1 .. Len(c)
  BY <1>7, <1>8
<1>10. QED
  BY <1>9 DEF Contents

\* The same of the next state.
LEMMA ChainIsNext == (\A c \in Seq(Nodes) : IsChain(c) => Chain = c /\ Contents = [i \in 1 .. Len(c) |-> node[c[i]].Value])'
BY ChainIs, PTL

\* The inductive invariant: memory holds cells, and a chain without a cycle
\* leads from the head to nil.
ListInv ==
    /\ node \in [Nodes -> Cell \union {nil}]
    /\ \E c \in Seq(Nodes) : IsChain(c)

\* The values along a chain.
ValuesOf(c) == [i \in 1 .. Len(c) |-> node[c[i]].Value]

LEMMA ValuesOfChain ==
    ASSUME NEW c \in Seq(Nodes), IsChain(c)
    PROVE  /\ ValuesOf(c) \in Seq(Values) /\ Len(ValuesOf(c)) = Len(c)
           /\ \A i \in 1 .. Len(c) : ValuesOf(c)[i] = node[c[i]].Value
<1>1. Len(c) \in Nat
  OBVIOUS
<1>2. \A i \in 1 .. Len(c) : node[c[i]].Value \in Values
  BY DEF IsChain, Cell
<1>3. ValuesOf(c) \in [1 .. Len(c) -> Values]
  BY <1>2 DEF ValuesOf
<1>4. QED
  BY <1>1, <1>3, IsASeq, LenProperties DEF ValuesOf

\* The new node is none of the list's.
LEMMA NewIsFresh ==
    ASSUME NEW c \in Seq(Nodes), IsChain(c), Fresh # {}
    PROVE  New \in Nodes /\ \A i \in 1 .. Len(c) : c[i] # New
<1>1. Fresh = Nodes \ ToSet(c)
  BY ChainIs DEF Fresh
<1>2. PICK m \in Fresh : \A k \in Fresh : m <= k
  <2>1. Fresh \subseteq Nat
    BY <1>1, ListAssumption
  <2>2. QED
    BY <2>1, Least
<1>3. New \in Fresh
  BY <1>2 DEF New, Min
<1>4. QED
  BY <1>1, <1>3 DEF ToSet

\* A sequence with an element in front.
LEMMA Prepend ==
    ASSUME NEW S, NEW e \in S, NEW s \in Seq(S)
    PROVE  \E t \in Seq(S) : /\ t = Cons(e, s) /\ Len(t) = Len(s) + 1 /\ t[1] = e
                             /\ \A i \in 2 .. Len(s) + 1 : t[i] = s[i - 1]
<1> DEFINE t == <<e>> \o s
<1>1. <<e>> \in Seq(S) /\ Len(<<e>>) = 1 /\ <<e>>[1] = e /\ Len(s) \in Nat
  OBVIOUS
<1>2. /\ t \in Seq(S) /\ Len(t) = Len(<<e>>) + Len(s)
      /\ \A i \in 1 .. Len(<<e>>) + Len(s) :
            t[i] = IF i <= Len(<<e>>) THEN <<e>>[i] ELSE s[i - Len(<<e>>)]
  BY <1>1, ConcatProperties, Zenon
<1> HIDE DEF t
<1>3. Len(t) = Len(s) + 1 /\ t[1] = e /\ \A i \in 2 .. Len(s) + 1 : t[i] = s[i - 1]
  BY <1>1, <1>2
<1>4. QED
  BY <1>2, <1>3 DEF t, Cons

\* A cell whose Next is overwritten.
LEMMA Relinked ==
    ASSUME NEW cell \in Cell, NEW n \in Nodes \union {nil}
    PROVE  /\ [cell EXCEPT !.Next = n] \in Cell
           /\ [cell EXCEPT !.Next = n].Value = cell.Value
           /\ [cell EXCEPT !.Next = n].Next = n
BY DEF Cell

LEMMA InsertFrontStep ==
    ASSUME ListInv, NEW v \in Values, InsertFront(v)
    PROVE  ListInv' /\ Contents' = <<v>> \o Contents
<1>1. PICK c \in Seq(Nodes) : IsChain(c)
  BY DEF ListInv
<1>2. PICK n \in Nat, m \in Nodes : n = Len(c) /\ m = New
  BY <1>1, NewIsFresh DEF InsertFront
<1>3. \A i \in 1 .. n : c[i] \in Nodes /\ c[i] # m
  BY <1>1, <1>2, NewIsFresh, ElementOfSeq DEF InsertFront
<1>4. /\ node' = [node EXCEPT ![m] = [Value |-> v, Next |-> head]] /\ head' = m
      /\ node \in [Nodes -> Cell \union {nil}]
  BY <1>2 DEF InsertFront, Stored, ListInv
<1>5. PICK d \in Seq(Nodes) : /\ d = Cons(m, c) /\ Len(d) = n + 1 /\ d[1] = m
                              /\ \A i \in 2 .. n + 1 : d[i] = c[i - 1]
  <2>1. \E d \in Seq(Nodes) : /\ d = Cons(m, c) /\ Len(d) = Len(c) + 1 /\ d[1] = m
                              /\ \A i \in 2 .. Len(c) + 1 : d[i] = c[i - 1]
    BY Prepend
  <2>2. QED
    BY <1>2, <2>1
<1>6. head = (IF n = 0 THEN nil ELSE c[1]) /\ head \in Nodes \union {nil}
  BY <1>1, <1>2, <1>3 DEF IsChain
<1>7. /\ node' \in [Nodes -> Cell \union {nil}] /\ node'[m] = [Value |-> v, Next |-> head]
      /\ node'[m] \in Cell /\ \A i \in 1 .. n : node'[c[i]] = node[c[i]]
  BY <1>3, <1>4, <1>6 DEF Cell
<1>8. IsChain(d)'
  <2>1. ASSUME NEW i \in 1 .. n + 1, NEW j \in 1 .. n + 1, d[i] = d[j] PROVE i = j
    <3>1. \A k, l \in 1 .. n : c[k] = c[l] => k = l
      BY <1>1, <1>2 DEF IsChain
    <3>2. CASE i = 1 \/ j = 1
      <4>1. \A k \in 2 .. n + 1 : d[k] # m
        BY <1>3, <1>5
      <4>2. QED
        BY <1>5, <2>1, <3>2, <4>1
    <3>3. CASE i # 1 /\ j # 1
      <4>1. i - 1 \in 1 .. n /\ j - 1 \in 1 .. n /\ d[i] = c[i - 1] /\ d[j] = c[j - 1]
        BY <1>5, <3>3
      <4>2. i - 1 = j - 1
        BY <2>1, <3>1, <4>1
      <4>3. QED
        BY <4>2
    <3>4. QED
      BY <3>2, <3>3
  <2>2. head' = IF n + 1 = 0 THEN nil ELSE d[1]
    BY <1>4, <1>5
  <2>3. ASSUME NEW i \in 1 .. n + 1
        PROVE  /\ node'[d[i]] \in Cell
               /\ node'[d[i]].Next = IF i = n + 1 THEN nil ELSE d[i + 1]
    <3>1. CASE i = 1
      <4>1. node'[d[i]].Next = head /\ node'[d[i]] \in Cell
        BY <1>5, <1>7, <3>1
      <4>2. n # 0 => d[2] = c[1]
        BY <1>5
      <4>3. QED
        BY <1>6, <3>1, <4>1, <4>2
    <3>2. CASE i # 1
      <4>1. i - 1 \in 1 .. n /\ d[i] = c[i - 1] /\ (i # n + 1 => d[i + 1] = c[i])
        BY <1>5, <3>2
      <4>2. /\ node[c[i - 1]] \in Cell
            /\ node[c[i - 1]].Next = IF i - 1 = n THEN nil ELSE c[(i - 1) + 1]
        BY <1>1, <1>2, <4>1 DEF IsChain
      <4>3. node'[d[i]] = node[c[i - 1]]
        <5>1. \A k \in 1 .. n : node'[c[k]] = node[c[k]]
          BY <1>7
        <5>2. node'[c[i - 1]] = node[c[i - 1]]
          BY <4>1, <5>1
        <5>3. QED
          BY <4>1, <5>2
      <4>4. (i - 1) + 1 = i /\ (i - 1 = n <=> i = n + 1)
        OBVIOUS
      <4>5. QED
        BY <4>1, <4>2, <4>3, <4>4
    <3>3. QED
      BY <3>1, <3>2
  <2>4. QED
    BY <1>5, <2>1, <2>2, <2>3 DEF IsChain
<1>9. Contents = ValuesOf(c) /\ Contents' = ValuesOf(d)'
  BY <1>1, <1>8, ChainIs, ChainIsNext DEF ValuesOf
<1>10. Contents' = <<v>> \o Contents
  <2>1. /\ Contents \in Seq(Values) /\ Len(Contents) = n
        /\ \A i \in 1 .. n : Contents[i] = node[c[i]].Value
    BY <1>1, <1>2, <1>9, ValuesOfChain
  <2>2. PICK s \in Seq(Values) : /\ s = Cons(v, Contents) /\ Len(s) = n + 1 /\ s[1] = v
                                 /\ \A i \in 2 .. n + 1 : s[i] = Contents[i - 1]
    <3>1. PICK old \in Seq(Values) : old = Contents
      BY <2>1
    <3>2. \E s \in Seq(Values) : /\ s = Cons(v, old) /\ Len(s) = Len(old) + 1 /\ s[1] = v
                                 /\ \A i \in 2 .. Len(old) + 1 : s[i] = old[i - 1]
      BY Prepend
    <3>3. QED
      BY <2>1, <3>1, <3>2
  <2>3. Contents' = [i \in 1 .. n + 1 |-> node'[d[i]].Value]
    BY <1>5, <1>9 DEF ValuesOf
  <2>4. ASSUME NEW i \in 1 .. n + 1 PROVE s[i] = node'[d[i]].Value
    <3>1. CASE i = 1
      BY <1>5, <1>7, <2>2, <3>1
    <3>2. CASE i # 1
      <4>1. i - 1 \in 1 .. n /\ d[i] = c[i - 1] /\ s[i] = Contents[i - 1]
        BY <1>5, <2>2, <3>2
      <4>2. QED
        BY <1>7, <2>1, <4>1
    <3>3. QED
      BY <3>1, <3>2
  <2>5. s = [i \in 1 .. n + 1 |-> s[i]]
    BY <2>2, LenProperties
  <2>6. QED
    BY <2>2, <2>3, <2>4, <2>5 DEF Cons
<1>11. QED
  BY <1>7, <1>8, <1>10 DEF ListInv

\* The node at the end of the chain is linked to the new one.
LEMMA InsertBackStep ==
    ASSUME ListInv, NEW v \in Values, InsertBack(v)
    PROVE  ListInv' /\ Contents' = Append(Contents, v)
<1>1. PICK c \in Seq(Nodes) : IsChain(c)
  BY DEF ListInv
<1>2. PICK n \in Nat, m \in Nodes : n = Len(c) /\ m = New
  BY <1>1, NewIsFresh DEF InsertBack
<1>3. \A i \in 1 .. n : c[i] \in Nodes /\ c[i] # m /\ c[i] # nil
  BY <1>1, <1>2, NewIsFresh, ElementOfSeq, ListAssumption DEF InsertBack
<1>4. /\ node \in [Nodes -> Cell \union {nil}] /\ Chain = c
      /\ head = IF n = 0 THEN nil ELSE c[1]
      /\ \A k, l \in 1 .. n : c[k] = c[l] => k = l
      /\ \A i \in 1 .. n : /\ node[c[i]] \in Cell
                           /\ node[c[i]].Next = IF i = n THEN nil ELSE c[i + 1]
  BY <1>1, <1>2, ChainIs DEF ListInv, IsChain
<1>5. PICK d \in Seq(Nodes) : /\ d = Append(c, m) /\ Len(d) = n + 1 /\ d[n + 1] = m
                              /\ \A i \in 1 .. n : d[i] = c[i]
  <2>1. /\ Append(c, m) \in Seq(Nodes) /\ Len(Append(c, m)) = Len(c) + 1
        /\ Append(c, m)[Len(c) + 1] = m /\ \A i \in 1 .. Len(c) : Append(c, m)[i] = c[i]
    BY AppendProperties
  <2>2. QED
    BY <1>2, <2>1
<1>6. PICK g \in [Nodes -> Cell \union {nil}] :
         /\ g = Stored(v, nil) /\ g[m] = [Value |-> v, Next |-> nil] /\ g[m] \in Cell
         /\ \A i \in 1 .. n : g[c[i]] = node[c[i]]
  <2>1. Stored(v, nil) = [node EXCEPT ![m] = [Value |-> v, Next |-> nil]]
    BY <1>2 DEF Stored
  <2>2. [Value |-> v, Next |-> nil] \in Cell
    BY DEF Cell
  <2>3. QED
    BY <1>3, <1>4, <2>1, <2>2
<1>7. head' = d[1]
  <2>1. CASE head = nil
    <3>1. n = 0
      BY <1>3, <1>4, <2>1
    <3>2. QED
      BY <1>2, <1>5, <2>1, <3>1 DEF InsertBack
  <2>2. CASE head # nil
    <3>1. n # 0 /\ d[1] = c[1]
      BY <1>4, <1>5, <2>2
    <3>2. QED
      BY <1>4, <2>2, <3>1 DEF InsertBack
  <2>3. QED
    BY <2>1, <2>2
<1>8. /\ node' \in [Nodes -> Cell \union {nil}] /\ node'[m] = [Value |-> v, Next |-> nil]
      /\ node'[m] \in Cell
      /\ \A i \in 1 .. n : /\ node'[c[i]] \in Cell /\ node'[c[i]].Value = node[c[i]].Value
                           /\ node'[c[i]].Next = d[i + 1]
  <2>1. CASE n = 0
    <3>1. node' = g
      BY <1>4, <1>6, <2>1 DEF InsertBack
    <3>2. QED
      BY <1>6, <2>1, <3>1
  <2>2. CASE n # 0
    <3>1. n \in 1 .. n /\ head # nil /\ Last(Chain) = c[n]
      <4>1. n \in 1 .. n
        BY <1>2, <2>2
      <4>2. head # nil
        BY <1>3, <1>4, <2>2, <4>1
      <4>3. Last(Chain) = c[n]
        BY <1>2, <1>3, <1>4 DEF Last
      <4>4. QED
        BY <4>1, <4>2, <4>3
    <3>2. node' = [g EXCEPT ![c[n]].Next = m]
      BY <1>2, <1>6, <3>1 DEF InsertBack
    <3>3. g[c[n]] \in Cell /\ c[n] \in Nodes /\ c[n] # m
      BY <1>3, <1>4, <1>6, <3>1
    <3>4. node' = [g EXCEPT ![c[n]] = [g[c[n]] EXCEPT !.Next = m]]
      BY <3>2
    <3>5. PICK e \in Cell : e = [g[c[n]] EXCEPT !.Next = m] /\ e.Value = g[c[n]].Value /\ e.Next = m
      BY <3>3, Relinked
    <3>6. /\ node' \in [Nodes -> Cell \union {nil}] /\ node'[c[n]] = e
          /\ \A k \in Nodes : k # c[n] => node'[k] = g[k]
      BY <3>3, <3>4, <3>5
    <3>7. ASSUME NEW i \in 1 .. n
          PROVE  /\ node'[c[i]] \in Cell /\ node'[c[i]].Value = node[c[i]].Value
                 /\ node'[c[i]].Next = d[i + 1]
      <4>1. CASE i = n
        BY <1>5, <1>6, <3>5, <3>6, <4>1
      <4>2. CASE i # n
        <5>1. c[i] # c[n] /\ c[i] \in Nodes /\ d[i + 1] = c[i + 1]
          BY <1>3, <1>4, <1>5, <3>1, <4>2
        <5>2. node'[c[i]] = node[c[i]]
          BY <1>6, <3>6, <5>1
        <5>3. QED
          BY <1>4, <4>2, <5>1, <5>2
      <4>3. QED
        BY <4>1, <4>2
    <3>8. QED
      BY <1>6, <3>3, <3>6, <3>7
  <2>3. QED
    BY <2>1, <2>2
<1>9. IsChain(d)'
  <2>1. ASSUME NEW i \in 1 .. n + 1, NEW j \in 1 .. n + 1, d[i] = d[j] PROVE i = j
    <3>1. \A k \in 1 .. n : d[k] # m
      BY <1>3, <1>5
    <3>2. QED
      BY <1>4, <1>5, <2>1, <3>1
  <2>2. ASSUME NEW i \in 1 .. n + 1
        PROVE  /\ node'[d[i]] \in Cell
               /\ node'[d[i]].Next = IF i = n + 1 THEN nil ELSE d[i + 1]
    <3>1. CASE i = n + 1
      BY <1>5, <1>8, <3>1
    <3>2. CASE i # n + 1
      BY <1>5, <1>8, <3>2
    <3>3. QED
      BY <3>1, <3>2
  <2>3. QED
    BY <1>5, <1>7, <2>1, <2>2, SMTT(30) DEF IsChain
<1>10. Contents = ValuesOf(c) /\ Contents' = ValuesOf(d)'
  BY <1>1, <1>9, ChainIs, ChainIsNext DEF ValuesOf
<1>11. Contents' = Append(Contents, v)
  <2>1. /\ Contents \in Seq(Values) /\ Len(Contents) = n
        /\ \A i \in 1 .. n : Contents[i] = node[c[i]].Value
    BY <1>1, <1>2, <1>10, ValuesOfChain
  <2>2. PICK s \in Seq(Values) : /\ s = Append(Contents, v) /\ Len(s) = n + 1 /\ s[n + 1] = v
                                 /\ \A i \in 1 .. n : s[i] = Contents[i]
    <3>1. PICK old \in Seq(Values) : old = Contents
      BY <2>1
    <3>2. /\ Append(old, v) \in Seq(Values) /\ Len(Append(old, v)) = Len(old) + 1
          /\ Append(old, v)[Len(old) + 1] = v
          /\ \A i \in 1 .. Len(old) : Append(old, v)[i] = old[i]
      BY AppendProperties
    <3>3. QED
      BY <2>1, <3>1, <3>2
  <2>3. Contents' = [i \in 1 .. n + 1 |-> node'[d[i]].Value]
    BY <1>5, <1>10 DEF ValuesOf
  <2>4. ASSUME NEW i \in 1 .. n + 1 PROVE s[i] = node'[d[i]].Value
    <3>1. CASE i = n + 1
      BY <1>5, <1>8, <2>2, <3>1, SMTT(30)
    <3>2. CASE i # n + 1
      BY <1>5, <1>8, <2>1, <2>2, <3>2, SMTT(30)
    <3>3. QED
      BY <3>1, <3>2
  <2>5. s = [i \in 1 .. n + 1 |-> s[i]]
    BY <2>2, LenProperties
  <2>6. QED
    BY <2>2, <2>3, <2>4, <2>5
<1>12. QED
  BY <1>8, <1>9, <1>11 DEF ListInv

LEMMA RemoveAtProperties ==
    ASSUME NEW S, NEW s \in Seq(S), NEW m \in 1 .. Len(s)
    PROVE  /\ RemoveAt(s, m) \in Seq(S) /\ Len(RemoveAt(s, m)) = Len(s) - 1
           /\ \A i \in 1 .. Len(s) - 1 : RemoveAt(s, m)[i] = IF i < m THEN s[i] ELSE s[i + 1]
<1> DEFINE a == SubSeq(s, 1, m - 1)
           b == SubSeq(s, m + 1, Len(s))
<1>1. Len(s) \in Nat
  OBVIOUS
<1>2. /\ a \in Seq(S) /\ Len(a) = m - 1 /\ \A i \in 1 .. m - 1 : a[i] = s[i]
  BY <1>1, SubSeqProperties
<1>3. /\ b \in Seq(S) /\ Len(b) = Len(s) - m /\ \A i \in 1 .. Len(s) - m : b[i] = s[m + i]
  <2>1. m + 1 \in 1 .. Len(s) + 1 /\ Len(s) \in m .. Len(s)
    BY <1>1
  <2>2. /\ b \in Seq(S)
        /\ Len(b) = IF m + 1 <= Len(s) THEN Len(s) - (m + 1) + 1 ELSE 0
        /\ \A i \in 1 .. Len(s) - (m + 1) + 1 : b[i] = s[(m + 1) + i - 1]
    BY <1>1, <2>1, SubSeqProperties
  <2> HIDE DEF b
  <2>3. Len(b) = Len(s) - m
    BY <1>1, <2>2
  <2>4. ASSUME NEW i \in 1 .. Len(s) - m PROVE b[i] = s[m + i]
    <3>1. i \in 1 .. Len(s) - (m + 1) + 1 /\ (m + 1) + i - 1 = m + i
      BY <1>1
    <3>2. QED
      BY <2>2, <3>1
  <2>5. QED
    BY <2>2, <2>3, <2>4
<1>4. RemoveAt(s, m) = a \o b
  BY DEF RemoveAt
<1> HIDE DEF a, b
<1>5. /\ a \o b \in Seq(S) /\ Len(a \o b) = Len(a) + Len(b)
      /\ \A i \in 1 .. Len(a) + Len(b) : (a \o b)[i] = IF i <= Len(a) THEN a[i] ELSE b[i - Len(a)]
  BY <1>2, <1>3, ConcatProperties
<1>6. ASSUME NEW i \in 1 .. Len(s) - 1
      PROVE  (a \o b)[i] = IF i < m THEN s[i] ELSE s[i + 1]
  <2>1. CASE i < m
    BY <1>1, <1>2, <1>3, <1>5, <2>1
  <2>2. CASE ~ (i < m)
    <3>1. i - (m - 1) \in 1 .. Len(s) - m /\ m + (i - (m - 1)) = i + 1
      BY <1>1, <2>2
    <3>2. (a \o b)[i] = b[i - (m - 1)]
      BY <1>1, <1>2, <1>3, <1>5, <2>2
    <3>3. QED
      BY <1>3, <2>2, <3>1, <3>2
  <2>3. QED
    BY <2>1, <2>2
<1>7. Len(a \o b) = Len(s) - 1
  BY <1>1, <1>2, <1>3, <1>5
<1>8. QED
  BY <1>4, <1>5, <1>6, <1>7, Zenon

LEMMA RemoveFirstFound ==
    ASSUME NEW S, NEW s \in Seq(S), NEW e, NEW m \in 1 .. Len(s), s[m] = e,
           \A i \in 1 .. m - 1 : s[i] # e
    PROVE  RemoveFirst(s, e) = RemoveAt(s, m)
<1> DEFINE I == {i \in 1 .. Len(s) : s[i] = e}
<1>1. m \in I /\ \A i \in I : m <= i
  OBVIOUS
<1>2. SelectInSeq(s, LAMBDA v : v = e) = IF I # {} THEN Min(I) ELSE 0
  BY DEF SelectInSeq
<1>3. Min(I) = m
  <2>1. Min(I) = CHOOSE x \in I : \A y \in I : x <= y
    BY DEF Min
  <2>2. \A x \in I : (\A y \in I : x <= y) => x = m
    BY <1>1
  <2>3. QED
    BY <1>1, <2>1, <2>2
<1>4. QED
  BY <1>1, <1>2, <1>3 DEF RemoveFirst

LEMMA RemoveFirstMissing ==
    ASSUME NEW s, NEW e, \A i \in 1 .. Len(s) : s[i] # e
    PROVE  RemoveFirst(s, e) = s
BY DEF RemoveFirst

\* The chain without the address at m is the chain after m's predecessor, or
\* the head, has been linked to what followed m.
LEMMA Unlinked ==
    ASSUME ListInv, NEW c \in Seq(Nodes), IsChain(c), NEW m \in 1 .. Len(c),
           m = 1 => head' = node[c[1]].Next /\ node' = node,
           m # 1 => head' = head /\ node' = [node EXCEPT ![c[m - 1]].Next = node[c[m]].Next]
    PROVE  ListInv' /\ Contents' = RemoveAt(Contents, m)
<1>1. PICK n \in Nat : n = Len(c)
  OBVIOUS
<1>2. /\ node \in [Nodes -> Cell \union {nil}] /\ m \in 1 .. n
      /\ head = IF n = 0 THEN nil ELSE c[1]
      /\ \A k, l \in 1 .. n : c[k] = c[l] => k = l
      /\ \A i \in 1 .. n : /\ c[i] \in Nodes /\ node[c[i]] \in Cell
                           /\ node[c[i]].Next = IF i = n THEN nil ELSE c[i + 1]
  <2>1. \A i \in 1 .. Len(c) : c[i] \in Nodes
    BY ElementOfSeq
  <2>2. QED
    BY <1>1, <2>1 DEF ListInv, IsChain
<1>3. PICK d \in Seq(Nodes) :
         /\ d = RemoveAt(c, m) /\ Len(d) = n - 1
         /\ \A i \in 1 .. n - 1 : d[i] = IF i < m THEN c[i] ELSE c[i + 1]
  <2>1. /\ RemoveAt(c, m) \in Seq(Nodes) /\ Len(RemoveAt(c, m)) = Len(c) - 1
        /\ \A i \in 1 .. Len(c) - 1 : RemoveAt(c, m)[i] = IF i < m THEN c[i] ELSE c[i + 1]
    BY RemoveAtProperties
  <2>2. QED
    BY <1>1, <2>1
<1>4. head' = IF n - 1 = 0 THEN nil ELSE d[1]
  <2>1. CASE m = 1
    <3>1. head' = node[c[1]].Next /\ 1 \in 1 .. n
      BY <1>2, <2>1
    <3>2. head' = IF 1 = n THEN nil ELSE c[1 + 1]
      BY <1>2, <3>1
    <3>3. n # 1 => d[1] = c[1 + 1]
      BY <1>2, <1>3, <2>1
    <3>4. QED
      BY <3>2, <3>3
  <2>2. CASE m # 1
    <3>1. head' = head /\ n > 1
      BY <1>2, <2>2
    <3>2. d[1] = c[1]
      BY <1>2, <1>3, <2>2, <3>1, SMTT(30)
    <3>3. QED
      BY <1>2, <3>1, <3>2
  <2>3. QED
    BY <2>1, <2>2
<1>5. /\ node' \in [Nodes -> Cell \union {nil}]
      /\ \A i \in 1 .. n : /\ node'[c[i]] \in Cell /\ node'[c[i]].Value = node[c[i]].Value
                           /\ node'[c[i]].Next = IF i = m - 1 THEN node[c[m]].Next
                                                 ELSE node[c[i]].Next
  <2>1. CASE m = 1
    BY <1>2, <2>1
  <2>2. CASE m # 1
    <3>1. m - 1 \in 1 .. n
      BY <1>2, <2>2
    <3>2. /\ c[m - 1] \in Nodes /\ node[c[m - 1]] \in Cell
          /\ node[c[m]].Next \in Nodes \union {nil}
      BY <1>2, <3>1 DEF Cell
    <3>3. PICK e \in Cell : /\ e = [node[c[m - 1]] EXCEPT !.Next = node[c[m]].Next]
                            /\ e.Value = node[c[m - 1]].Value /\ e.Next = node[c[m]].Next
      <4>1. PICK cell \in Cell, next \in Nodes \union {nil} :
               cell = node[c[m - 1]] /\ next = node[c[m]].Next
        BY <3>2
      <4>2. /\ [cell EXCEPT !.Next = next] \in Cell
            /\ [cell EXCEPT !.Next = next].Value = cell.Value
            /\ [cell EXCEPT !.Next = next].Next = next
        BY Relinked
      <4>3. QED
        BY <4>1, <4>2
    <3>4. node' = [node EXCEPT ![c[m - 1]] = e]
      BY <2>2, <3>3
    <3>5. /\ node' \in [Nodes -> Cell \union {nil}] /\ node'[c[m - 1]] = e
          /\ \A k \in Nodes : k # c[m - 1] => node'[k] = node[k]
      BY <1>2, <3>2, <3>4
    <3>6. ASSUME NEW i \in 1 .. n
          PROVE  /\ node'[c[i]] \in Cell /\ node'[c[i]].Value = node[c[i]].Value
                 /\ node'[c[i]].Next = IF i = m - 1 THEN node[c[m]].Next ELSE node[c[i]].Next
      <4>1. CASE i = m - 1
        BY <3>3, <3>5, <4>1
      <4>2. CASE i # m - 1
        <5>1. c[i] # c[m - 1] /\ c[i] \in Nodes
          BY <1>2, <3>1, <4>2
        <5>2. node'[c[i]] = node[c[i]]
          BY <3>5, <5>1
        <5>3. QED
          BY <1>2, <4>2, <5>2
      <4>3. QED
        BY <4>1, <4>2
    <3>7. QED
      BY <3>5, <3>6
  <2>3. QED
    BY <2>1, <2>2
<1>6. IsChain(d)'
  <2>1. ASSUME NEW i \in 1 .. n - 1, NEW j \in 1 .. n - 1, d[i] = d[j] PROVE i = j
    <3>1. PICK k \in 1 .. n, l \in 1 .. n :
             /\ k = (IF i < m THEN i ELSE i + 1) /\ l = (IF j < m THEN j ELSE j + 1)
      BY <1>2, SMTT(30)
    <3>2. d[i] = c[k] /\ d[j] = c[l]
      BY <1>3, <3>1
    <3>3. k = l
      BY <1>2, <2>1, <3>2, ZenonT(30)
    <3>4. QED
      BY <1>2, <3>1, <3>3
  <2>2. ASSUME NEW i \in 1 .. n - 1
        PROVE  /\ node'[d[i]] \in Cell
               /\ node'[d[i]].Next = IF i = n - 1 THEN nil ELSE d[i + 1]
    <3>1. CASE i < m - 1
      <4>1. i \in 1 .. n /\ i # n /\ i # m - 1 /\ d[i] = c[i] /\ i # n - 1 /\ d[i + 1] = c[i + 1]
        BY <1>2, <1>3, <3>1, SMTT(30)
      <4>2. QED
        BY <1>2, <1>5, <4>1
    <3>2. CASE i = m - 1
      <4>1. i \in 1 .. n /\ d[i] = c[i] /\ (i # n - 1 => d[i + 1] = c[m + 1]) /\ (i = n - 1 <=> m = n)
        BY <1>2, <1>3, <3>2, SMTT(30)
      <4>2. QED
        BY <1>2, <1>5, <3>2, <4>1
    <3>3. CASE i > m - 1
      <4>1. /\ i + 1 \in 1 .. n /\ i + 1 # m - 1 /\ d[i] = c[i + 1]
            /\ (i # n - 1 => d[i + 1] = c[(i + 1) + 1]) /\ (i = n - 1 <=> i + 1 = n)
        BY <1>2, <1>3, <3>3
      <4>2. QED
        BY <1>2, <1>5, <4>1
    <3>4. QED
      BY <1>2, <3>1, <3>2, <3>3
  <2>3. QED
    BY <1>3, <1>4, <2>1, <2>2 DEF IsChain
<1>7. Contents = ValuesOf(c) /\ Contents' = ValuesOf(d)'
  BY <1>6, ChainIs, ChainIsNext DEF ValuesOf
<1>8. Contents' = RemoveAt(Contents, m)
  <2>1. /\ Contents \in Seq(Values) /\ Len(Contents) = n
        /\ \A i \in 1 .. n : Contents[i] = node[c[i]].Value
    BY <1>1, <1>7, ValuesOfChain
  <2>2. PICK s \in Seq(Values) :
           /\ s = RemoveAt(Contents, m) /\ Len(s) = n - 1
           /\ \A i \in 1 .. n - 1 : s[i] = IF i < m THEN Contents[i] ELSE Contents[i + 1]
    <3>1. PICK old \in Seq(Values) : old = Contents
      BY <2>1
    <3>2. m \in 1 .. Len(old)
      BY <1>2, <2>1, <3>1
    <3>3. /\ RemoveAt(old, m) \in Seq(Values) /\ Len(RemoveAt(old, m)) = Len(old) - 1
          /\ \A i \in 1 .. Len(old) - 1 :
                RemoveAt(old, m)[i] = IF i < m THEN old[i] ELSE old[i + 1]
      BY <3>2, RemoveAtProperties
    <3>4. QED
      BY <2>1, <3>1, <3>3
  <2>3. Contents' = [i \in 1 .. n - 1 |-> node'[d[i]].Value]
    BY <1>3, <1>7 DEF ValuesOf
  <2>4. ASSUME NEW i \in 1 .. n - 1 PROVE s[i] = node'[d[i]].Value
    <3>1. CASE i < m
      BY <1>2, <1>3, <1>5, <2>1, <2>2, <3>1, SMTT(30)
    <3>2. CASE ~ (i < m)
      <4>1. i + 1 \in 1 .. n /\ d[i] = c[i + 1] /\ s[i] = Contents[i + 1]
        BY <1>2, <1>3, <2>2, <3>2
      <4>2. QED
        BY <1>5, <2>1, <4>1
    <3>3. QED
      BY <3>1, <3>2
  <2>5. s = [i \in 1 .. n - 1 |-> s[i]]
    BY <2>2, LenProperties
  <2>6. QED
    BY <2>2, <2>3, <2>4, <2>5
<1>9. QED
  BY <1>5, <1>6, <1>8 DEF ListInv

LEMMA DeleteStep ==
    ASSUME ListInv, NEW v \in Values, Delete(v)
    PROVE  ListInv' /\ Contents' = RemoveFirst(Contents, v)
<1>1. PICK c \in Seq(Nodes) : IsChain(c)
  BY DEF ListInv
<1>2. PICK n \in Nat : n = Len(c)
  OBVIOUS
<1>3. /\ head = IF n = 0 THEN nil ELSE c[1]
      /\ \A i \in 1 .. n : /\ c[i] \in Nodes /\ c[i] # nil /\ node[c[i]] \in Cell
                           /\ node[c[i]].Next = IF i = n THEN nil ELSE c[i + 1]
  <2>1. \A i \in 1 .. Len(c) : c[i] \in Nodes /\ c[i] # nil
    BY ElementOfSeq, ListAssumption
  <2>2. QED
    BY <1>1, <1>2, <2>1 DEF IsChain
<1>4. Chain = c /\ Contents = ValuesOf(c)
  BY <1>1, ChainIs DEF ValuesOf
<1>5. /\ Contents \in Seq(Values) /\ Len(Contents) = n
      /\ \A i \in 1 .. n : Contents[i] = node[c[i]].Value
  BY <1>1, <1>2, <1>4, ValuesOfChain
<1>6. ASSUME UNCHANGED <<head, node>>, \A i \in 1 .. n : Contents[i] # v
      PROVE  ListInv' /\ Contents' = RemoveFirst(Contents, v)
  <2>1. ListInv' /\ IsChain(c)'
    BY <1>1, <1>6 DEF ListInv, IsChain
  <2>2. Contents' = Contents
    <3>1. Contents' = ValuesOf(c)'
      BY <2>1, ChainIsNext DEF ValuesOf
    <3>2. QED
      BY <1>4, <1>6, <3>1 DEF ValuesOf
  <2>3. RemoveFirst(Contents, v) = Contents
    BY <1>5, <1>6, RemoveFirstMissing
  <2>4. QED
    BY <2>1, <2>2, <2>3
<1>7. ASSUME NEW m \in 1 .. n, Contents[m] = v, \A i \in 1 .. m - 1 : Contents[i] # v
      PROVE  RemoveFirst(Contents, v) = RemoveAt(Contents, m)
  <2>1. PICK old \in Seq(Values) : old = Contents /\ Len(old) = n
    BY <1>5
  <2>2. m \in 1 .. Len(old) /\ old[m] = v /\ \A i \in 1 .. m - 1 : old[i] # v
    BY <1>7, <2>1
  <2>3. RemoveFirst(old, v) = RemoveAt(old, m)
    BY <2>2, RemoveFirstFound
  <2>4. QED
    BY <2>1, <2>3
<1>8. CASE head = nil /\ UNCHANGED listVars
  <2>1. n = 0
    BY <1>3, <1>8
  <2>2. QED
    BY <1>6, <1>8, <2>1 DEF listVars
<1>9. CASE head # nil /\ node[head].Value = v /\ head' = node[head].Next /\ UNCHANGED node
  <2>1. n # 0 /\ head = c[1] /\ 1 \in 1 .. n
    BY <1>3, <1>9
  <2>2. Contents[1] = v
    BY <1>5, <1>9, <2>1
  <2>3. ListInv' /\ Contents' = RemoveAt(Contents, 1)
    BY <1>1, <1>2, <1>9, <2>1, Unlinked
  <2>4. RemoveFirst(Contents, v) = RemoveAt(Contents, 1)
    BY <1>7, <2>1, <2>2
  <2>5. QED
    BY <2>3, <2>4
<1>10. CASE /\ head # nil /\ node[head].Value # v /\ UNCHANGED head
            /\ node' = IF node[Stop(v)].Next = nil THEN node
                       ELSE [node EXCEPT ![Stop(v)].Next = node[node[Stop(v)].Next].Next]
  <2>1. n \in 1 .. n /\ head = c[1] /\ Contents[1] # v
    BY <1>3, <1>5, <1>10
  <2> DEFINE T == {i \in 1 .. n : i = n \/ node[c[i + 1]].Value = v}
  <2>2. PICK p \in T : \A i \in T : p <= i
    <3>1. T # {} /\ T \subseteq Nat
      BY <2>1
    <3>2. QED
      BY <3>1, Least
  <2>3. Stop(v) = c[p]
    <3>1. DOMAIN c = 1 .. n
      BY <1>2, LenProperties
    <3>2. Stop(v) = c[Min(T)]
      BY <1>2, <1>4, <3>1 DEF Stop
    <3>3. Min(T) = CHOOSE x \in T : \A y \in T : x <= y
      BY DEF Min
    <3>4. \A x \in T : (\A y \in T : x <= y) => x = p
      BY <2>2
    <3>5. Min(T) = p
      BY <2>2, <3>3, <3>4
    <3>6. QED
      BY <3>2, <3>5
  <2>4. p \in 1 .. n /\ (p = n \/ node[c[p + 1]].Value = v)
    BY <2>2
  <2>5. \A i \in 1 .. p - 1 : i \in 1 .. n /\ i + 1 \in 1 .. n /\ node[c[i + 1]].Value # v
    <3> TAKE i \in 1 .. p - 1
    <3>1. i \in 1 .. n /\ i + 1 \in 1 .. n /\ ~ (p <= i)
      BY <2>4
    <3>2. i \notin T
      <4> HIDE DEF T
      <4> QED
        BY <2>2, <3>1
    <3>3. QED
      BY <3>1, <3>2
  <2> HIDE DEF T
  <2>6. \A i \in 1 .. p : Contents[i] # v
    <3> TAKE i \in 1 .. p
    <3>1. CASE i = 1
      BY <2>1, <3>1
    <3>2. CASE i # 1
      <4>1. i - 1 \in 1 .. p - 1 /\ (i - 1) + 1 = i
        BY <2>4, <3>2
      <4>2. i \in 1 .. n /\ node[c[i]].Value # v
        BY <2>5, <4>1
      <4>3. QED
        BY <1>5, <4>2
    <3>3. QED
      BY <3>1, <3>2
  <2>7. CASE p = n
    <3>1. node[Stop(v)].Next = nil
      BY <1>3, <2>3, <2>4, <2>7
    <3>2. UNCHANGED <<head, node>>
      BY <1>10, <3>1
    <3>3. QED
      BY <1>6, <2>6, <2>7, <3>2
  <2>8. CASE p # n
    <3>1. p + 1 \in 1 .. n /\ p + 1 # 1 /\ (p + 1) - 1 = p
      BY <2>4, <2>8
    <3>2. node[c[p]].Next = c[p + 1] /\ c[p + 1] # nil
      BY <1>3, <2>4, <2>8, <3>1
    <3>3. head' = head /\ node' = [node EXCEPT ![c[p]].Next = node[c[p + 1]].Next]
      BY <1>10, <2>3, <3>2
    <3>4. ListInv' /\ Contents' = RemoveAt(Contents, p + 1)
      BY <1>1, <1>2, <3>1, <3>3, Unlinked
    <3>5. RemoveFirst(Contents, v) = RemoveAt(Contents, p + 1)
      <4>1. Contents[p + 1] = v
        BY <1>5, <2>4, <2>8, <3>1
      <4>2. QED
        BY <1>7, <2>6, <3>1, <4>1
    <3>6. QED
      BY <3>4, <3>5
  <2>9. QED
    BY <2>7, <2>8
<1>11. QED
  BY <1>8, <1>9, <1>10 DEF Delete

LEMMA ListInvInit == ListInit => ListInv
<1> SUFFICES ASSUME ListInit PROVE ListInv
  OBVIOUS
<1>1. <<>> \in Seq(Nodes) /\ Len(<<>>) = 0
  OBVIOUS
<1>2. IsChain(<<>>)
  BY <1>1 DEF ListInit, IsChain
<1>3. node \in [Nodes -> Cell \union {nil}]
  BY DEF ListInit
<1>4. QED
  BY <1>1, <1>2, <1>3 DEF ListInv

LEMMA ListInvStep == ListInv /\ [ListNext]_listVars => ListInv'
<1> SUFFICES ASSUME ListInv, [ListNext]_listVars PROVE ListInv'
  OBVIOUS
<1>1. CASE ListNext
  BY <1>1, InsertFrontStep, InsertBackStep, DeleteStep DEF ListNext
<1>2. CASE UNCHANGED listVars
  BY <1>2 DEF listVars, ListInv, IsChain
<1>3. QED
  BY <1>1, <1>2

\* The pointers implement a sequence, for any number of addresses and any
\* values: after every operation of linked_list.go the nodes reachable from
\* Head hold what the operation makes of the sequence before it.
THEOREM ListImplementsSequence == ListSpec => ListIsSequence
<1>1. ListInv /\ [ListNext]_listVars =>
         [\A v \in Values :
             /\ InsertFront(v) => Contents' = <<v>> \o Contents
             /\ InsertBack(v) => Contents' = Append(Contents, v)
             /\ Delete(v) => Contents' = RemoveFirst(Contents, v)]_listVars
  BY InsertFrontStep, InsertBackStep, DeleteStep
<1>2. QED
  BY <1>1, ListInvInit, ListInvStep, PTL DEF ListSpec, ListIsSequence
-----------------------------------------------------------------------------
(***************************************************************************)
(* The retry delay of job-queue/dispatcher.go, backoff.                    *)
(***************************************************************************)
Shift == [k \in Nat |-> 2^k]

\* The provers evaluate a power of numbers, not 2^k: the table of those backoff
\* divides by.
LEMMA Table ==
    /\ Shift[0] = 1 /\ Shift[1] = 2 /\ Shift[2] = 4 /\ Shift[3] = 8
    /\ Shift[4] = 16 /\ Shift[5] = 32 /\ Shift[6] = 64 /\ Shift[7] = 128
    /\ Shift[8] = 256 /\ Shift[9] = 512 /\ Shift[10] = 1024 /\ Shift[11] = 2048
    /\ Shift[12] = 4096 /\ Shift[13] = 8192 /\ Shift[14] = 16384 /\ Shift[15] = 32768
    /\ Shift[16] = 65536 /\ Shift[17] = 131072 /\ Shift[18] = 262144 /\ Shift[19] = 524288
    /\ Shift[20] = 1048576 /\ Shift[21] = 2097152 /\ Shift[22] = 4194304 /\ Shift[23] = 8388608
    /\ Shift[24] = 16777216 /\ Shift[25] = 33554432 /\ Shift[26] = 67108864 /\ Shift[27] = 134217728
    /\ Shift[28] = 268435456 /\ Shift[29] = 536870912 /\ Shift[30] = 1073741824
BY SMT DEF Shift

LEMMA ShiftIsPower ==
    ASSUME NEW k \in Nat
    PROVE  Shift[k] = 2^k
BY Zenon DEF Shift

LEMMA PowerBounds ==
    ASSUME NEW k \in 0 .. 30
    PROVE  /\ Shift[k] \in Nat \ {0}
           /\ k <= 8 => 585937500 \div Shift[k] >= 1953125
           /\ k > 8 => 585937500 \div Shift[k] < 1953125
<1>1. k \in {0, 1, 2, 3, 4, 5, 6, 7, 8, 9, 10, 11, 12, 13, 14, 15, 16, 17, 18, 19, 20, 21, 22, 23, 24, 25, 26, 27, 28, 29, 30}
  BY SMT
<1>2. QED
  BY <1>1, Table, SMT

\* The low bits of 5^9 are an integer, and all of it while 22 bits are kept.
LEMMA LowBitsType ==
    ASSUME NEW w \in Int
    PROVE  LowBits(w) \in Int
<1>1. CASE w > 21 \/ w <= 0
  BY <1>1, SMT DEF LowBits, Five9
<1>2. CASE ~ (w > 21 \/ w <= 0)
  <2>1. w \in 0 .. 30 /\ w - 1 \in 0 .. 30 /\ w \in Nat
    BY <1>2, SMT
  <2>2. 2^w \in Nat \ {0}
    <3>1. Shift[w] \in Nat \ {0} /\ Shift[w] = 2^w
      BY <2>1, PowerBounds, ShiftIsPower, SMT
    <3>2. QED
      BY <3>1, Zenon
  <2>3. PICK p \in Nat \ {0} : p = 2^w
    BY <2>2, Zenon
  <2>4. Five9 % p \in Int /\ (Five9 % p) - p \in Int
    BY SMT DEF Five9
  <2>5. LowBits(w) = Five9 % 2^w \/ LowBits(w) = (Five9 % 2^w) - 2^w
    BY <1>2, <2>1 DEF LowBits
  <2>6. QED
    BY <2>3, <2>4, <2>5, Zenon
<1>3. QED
  BY <1>1, <1>2, Zenon

\* Up to attempt 34 the product keeps all the bits of 5^9 and is cut exactly
\* from the tenth attempt on.
LEMMA ExactProduct ==
    ASSUME NEW k \in 0 .. 33, NEW overflow
    PROVE  /\ Product(k, overflow) = [mant |-> Five9, exp |-> k + 9]
           /\ AboveCap(Product(k, overflow)) <=> k > 8
<1>1. Product(k, overflow) = [mant |-> Five9, exp |-> k + 9]
  BY SMT DEF Product, LowBits
<1>2. PICK d : d = Product(k, overflow)
  BY Zenon
<1>3. d.mant = Five9 /\ d.exp - 9 = k
  BY <1>1, <1>2, SMT
<1>4. cap.mant = 585937500 /\ Five9 = 1953125
  BY SMT DEF cap, Five9
<1>5. CASE k > 30
  <2>1. AboveCap(d) <=> d.mant > 0
    BY <1>3, <1>5, SMT DEF AboveCap
  <2>2. QED
    BY <1>1, <1>2, <1>3, <1>4, <1>5, <2>1, SMT
<1>6. CASE k <= 30
  <2>1. AboveCap(d) <=> Five9 > cap.mant \div 2^k
    <3>1. AboveCap(d) <=> d.mant > cap.mant \div 2^(d.exp - 9)
      BY <1>3, <1>6, SMT DEF AboveCap
    <3>2. QED
      BY <1>3, <3>1, Zenon
  <2>2. AboveCap(d) <=> Five9 > cap.mant \div Shift[k]
    <3>1. Shift[k] = 2^k
      BY ShiftIsPower, SMT
    <3>2. QED
      BY <2>1, <3>1, Zenon
  <2>3. /\ Shift[k] \in Nat \ {0}
        /\ k <= 8 => 585937500 \div Shift[k] >= 1953125
        /\ k > 8 => 585937500 \div Shift[k] < 1953125
    BY <1>6, PowerBounds, SMT
  <2>4. AboveCap(d) <=> k > 8
    BY <1>4, <2>2, <2>3, SMT
  <2>5. QED
    BY <1>1, <1>2, <2>4, Zenon
<1>7. QED
  BY <1>5, <1>6, SMT

\* dispatcher.go:137-142: up to attempt 34, whose delay is the last that fits
\* 64 bits, backoff waits as documented: twice as long for every attempt, and
\* from the tenth attempt on for five minutes.
THEOREM BackoffAsDocumented ==
    ASSUME NEW attempt \in 1 .. 34, NEW overflow
    PROVE  AsDocumented(backoff(attempt, overflow), attempt)
<1>1. PICK k \in 0 .. 33 : k = attempt - 1
  BY SMT
<1>2. /\ Product(k, overflow) = [mant |-> Five9, exp |-> k + 9]
      /\ AboveCap(Product(k, overflow)) <=> k > 8
  BY ExactProduct, Zenon
<1>3. backoff(attempt, overflow) = IF k > 8 THEN cap ELSE [mant |-> Five9, exp |-> k + 9]
  BY <1>1, <1>2, SMT DEF backoff, Capped
<1>4. [second EXCEPT !.exp = @ + attempt - 1] = [mant |-> Five9, exp |-> k + 9]
  BY <1>1, SMT DEF second
<1>5. QED
  BY <1>1, <1>3, <1>4, SMT DEF AsDocumented

\* dispatcher.go:151: from attempt 35 on the product overflows, and backoff
\* waits the five minutes or, as at attempt 35, not at all.  (The run
\* backoff_overflow shows it.)
THEOREM BackoffOverflows ==
    /\ \A overflow : ~ AsDocumented(backoff(35, overflow), 35)
    /\ \A attempt \in Nat : \A overflow :
          attempt > 34 => \/ backoff(attempt, overflow) = cap
                          \/ backoff(attempt, overflow).mant <= 0
<1>1. ASSUME NEW overflow PROVE ~ AsDocumented(backoff(35, overflow), 35)
  <2>1. Product(34, overflow) = [mant |-> -144027, exp |-> 43]
    BY SMT DEF Product, LowBits, Five9
  <2>2. PICK d : d = Product(34, overflow)
    BY Zenon
  <2>3. d.mant = -144027 /\ d.exp - 9 = 34
    BY <2>1, <2>2, SMT
  <2>4. ~ AboveCap(d)
    BY <2>3, SMT DEF AboveCap
  <2>5. backoff(35, overflow) = d
    BY <2>2, <2>4, SMT DEF backoff, Capped
  <2>6. cap.mant = 585937500
    BY SMT DEF cap, Five9
  <2>7. AsDocumented(backoff(35, overflow), 35) => backoff(35, overflow) = cap
    BY SMT DEF AsDocumented
  <2>8. QED
    BY <2>3, <2>5, <2>6, <2>7, SMT
<1>2. ASSUME NEW attempt \in Nat, NEW overflow, attempt > 34
      PROVE  backoff(attempt, overflow) = cap \/ backoff(attempt, overflow).mant <= 0
  <2>0. PICK k \in Nat : k = attempt - 1 /\ k > 33
    BY <1>2, SMT
  <2>1. PICK d : d = Product(k, overflow)
    BY Zenon
  <2>2. d.mant \in Int /\ (d.mant <= 0 \/ d.exp - 9 > 30)
    <3>1. CASE k <= 62
      <4>1. LowBits(55 - k) \in Int
        BY LowBitsType, SMT
      <4>2. d = [mant |-> LowBits(55 - k), exp |-> k + 9]
        BY <2>1, <3>1, SMT DEF Product
      <4>3. QED
        BY <2>0, <4>1, <4>2, SMT
    <3>2. CASE k > 62
      BY <2>1, <3>2, SMT DEF Product, Five9
    <3>3. QED
      BY <3>1, <3>2, SMT
  <2>3. AboveCap(d) \/ d.mant <= 0
    BY <2>2, SMT DEF AboveCap
  <2>4. QED
    BY <2>0, <2>1, <2>3, SMT DEF backoff, Capped
<1>3. QED
  BY <1>1, <1>2, Zenon
-----------------------------------------------------------------------------
(***************************************************************************)
(* The loops of package pkg for all arguments.  A range loop is a fold of  *)
(* the library, and any other a recursive function.                        *)
(***************************************************************************)
\* Induction on the naturals, over a set of them.
LEMMA Induct ==
    ASSUME NEW T, 0 \in T, \A k \in Nat : k \in T => k + 1 \in T
    PROVE  Nat \subseteq T
<1> DEFINE S == Nat \ T
<1> SUFFICES ASSUME S # {} PROVE FALSE
  OBVIOUS
<1>1. PICK m \in S : \A k \in S : m <= k
  <2>1. S \subseteq Nat
    OBVIOUS
  <2>2. QED
    BY <2>1, Least
<1>2. m \in Nat /\ m # 0 /\ m \notin T
  OBVIOUS
<1>3. m - 1 \in Nat /\ m - 1 \notin S
  <2> HIDE DEF S
  <2> QED
    BY <1>1, <1>2
<1>4. QED
  BY <1>2, <1>3

\* The greatest and the least element are what the library chooses.
LEMMA MaxIs ==
    ASSUME NEW S, S \subseteq Int, NEW m \in S, \A k \in S : m >= k
    PROVE  Max(S) = m
<1>1. \A x \in S : (\A y \in S : x >= y) => x = m
  OBVIOUS
<1>2. QED
  BY <1>1 DEF Max

LEMMA MinIs ==
    ASSUME NEW S, S \subseteq Int, NEW m \in S, \A k \in S : m <= k
    PROVE  Min(S) = m
<1>1. \A x \in S : (\A y \in S : x <= y) => x = m
  OBVIOUS
<1>2. QED
  BY <1>1 DEF Min

\* A fold of the library chooses a function on the subsets of the positions;
\* there is one, whatever G[k], the turn at position k, makes of a value.
FoldsOf(n, V, base, G) ==
    {f \in [SUBSET (1 .. n) -> V] : \A s \in SUBSET (1 .. n) :
        f[s] = IF s = {} THEN base ELSE G[Max(s)][f[s \ {Max(s)}]]}

LEMMA FoldExists ==
    ASSUME NEW n \in Nat, NEW V, NEW base \in V, NEW G \in [1 .. n -> [V -> V]]
    PROVE  FoldsOf(n, V, base, G) # {}
<1> DEFINE Good(f, m) ==
              /\ f \in [SUBSET (1 .. m) -> V]
              /\ \A s \in SUBSET (1 .. m) :
                    f[s] = IF s = {} THEN base ELSE G[Max(s)][f[s \ {Max(s)}]]
           T == {m \in Nat : m <= n => \E f : Good(f, m)}
<1>1. 0 \in T
  <2>1. 1 .. 0 = {} /\ SUBSET (1 .. 0) = {{}}
    OBVIOUS
  <2>2. Good([s \in SUBSET (1 .. 0) |-> base], 0)
    BY <2>1
  <2>3. QED
    BY <2>2
<1> HIDE DEF Good
<1>2. ASSUME NEW m \in Nat, m \in T PROVE m + 1 \in T
  <2> SUFFICES ASSUME m + 1 <= n PROVE \E f : Good(f, m + 1)
    OBVIOUS
  <2>1. PICK f : Good(f, m)
    <3>1. m <= n
      OBVIOUS
    <3>2. QED
      BY <1>2, <3>1
  <2> DEFINE g == [s \in SUBSET (1 .. m + 1) |->
                      IF m + 1 \in s THEN G[m + 1][f[s \ {m + 1}]] ELSE f[s]]
  <2>2. m + 1 \in 1 .. n /\ G[m + 1] \in [V -> V]
    OBVIOUS
  <2>3. ASSUME NEW s \in SUBSET (1 .. m + 1), m + 1 \in s
        PROVE  /\ s \ {m + 1} \in SUBSET (1 .. m) /\ s \ {m + 1} \in SUBSET (1 .. m + 1)
               /\ Max(s) = m + 1 /\ g[s] = G[m + 1][g[s \ {m + 1}]] /\ g[s] \in V
    <3>1. s \ {m + 1} \in SUBSET (1 .. m) /\ s \ {m + 1} \in SUBSET (1 .. m + 1)
      OBVIOUS
    <3>2. Max(s) = m + 1
      <4>1. s \subseteq Int /\ \A k \in s : m + 1 >= k
        OBVIOUS
      <4>2. QED
        BY <2>3, <4>1, MaxIs
    <3>3. g[s \ {m + 1}] = f[s \ {m + 1}] /\ f[s \ {m + 1}] \in V
      BY <2>1, <3>1 DEF Good
    <3>4. QED
      BY <2>2, <2>3, <3>1, <3>2, <3>3
  <2>4. ASSUME NEW s \in SUBSET (1 .. m + 1), m + 1 \notin s
        PROVE  /\ s \in SUBSET (1 .. m) /\ g[s] = f[s] /\ g[s] \in V
               /\ s # {} => g[s \ {Max(s)}] = f[s \ {Max(s)}]
    <3>1. s \in SUBSET (1 .. m)
      <4>1. \A k \in s : k \in 1 .. m
        BY <2>4
      <4>2. QED
        BY <4>1
    <3>2. s \ {Max(s)} \in SUBSET (1 .. m + 1) /\ m + 1 \notin s \ {Max(s)}
      BY <2>4
    <3>3. QED
      BY <2>1, <2>4, <3>1, <3>2 DEF Good
  <2>5. g \in [SUBSET (1 .. m + 1) -> V]
    BY <2>3, <2>4
  <2>6. ASSUME NEW s \in SUBSET (1 .. m + 1)
        PROVE  g[s] = IF s = {} THEN base ELSE G[Max(s)][g[s \ {Max(s)}]]
    <3> HIDE DEF g
    <3>1. CASE m + 1 \in s
      BY <2>3, <3>1
    <3>2. CASE m + 1 \notin s
      BY <2>1, <2>4, <3>2 DEF Good
    <3>3. QED
      BY <3>1, <3>2
  <2>7. Good(g, m + 1)
    <3> HIDE DEF g
    <3> QED
      BY <2>5, <2>6 DEF Good
  <2>8. QED
    BY <2>7
<1>3. n \in T
  <2> HIDE DEF T
  <2> QED
    BY <1>1, <1>2, Induct
<1>4. PICK f : Good(f, n)
  BY <1>3
<1>5. QED
  BY <1>4 DEF Good, FoldsOf
-----------------------------------------------------------------------------
\* The subsets that the value of a fold depends on are the prefixes.
LEMMA PrefixFacts ==
    ASSUME NEW k \in Nat \ {0}
    PROVE  Max(1 .. k) = k /\ (1 .. k) \ {k} = 1 .. k - 1 /\ 1 .. k # {}
<1>1. 1 .. k \subseteq Int /\ k \in 1 .. k /\ \A i \in 1 .. k : k >= i
  OBVIOUS
<1>2. Max(1 .. k) = k
  BY <1>1, MaxIs
<1>3. QED
  BY <1>1, <1>2

\* A nonempty set of positions has its greatest among them.
LEMMA MaxInside ==
    ASSUME NEW n \in Nat, NEW S \in SUBSET (1 .. n), S # {}
    PROVE  Max(S) \in S /\ \A k \in S : Max(S) >= k
<1> DEFINE T == {n - k : k \in S}
<1>1. PICK t \in T : \A u \in T : t <= u
  <2>1. T \subseteq Nat /\ T # {}
    <3>1. PICK k \in S : TRUE
      OBVIOUS
    <3>2. n - k \in T
      BY <3>1
    <3>3. \A i \in S : n - i \in Nat
      OBVIOUS
    <3>4. QED
      BY <3>2, <3>3, Zenon
  <2> HIDE DEF T
  <2>2. QED
    BY <2>1, Least
<1>2. PICK m \in S : t = n - m
  OBVIOUS
<1>3. \A k \in S : m >= k
  <2> TAKE k \in S
  <2>1. n - k \in T
    OBVIOUS
  <2>2. t <= n - k
    <3> HIDE DEF T
    <3> QED
      BY <1>1, <2>1
  <2>3. QED
    BY <1>2, <2>2
<1>4. S \subseteq Int
  OBVIOUS
<1>5. Max(S) = m
  BY <1>3, <1>4, MaxIs
<1>6. QED
  BY <1>3, <1>5

\* The loop of case_diff.go: the value after every prefix of the text.
LEMMA CaseDiffRuns ==
    ASSUME NEW S, NEW text \in Seq(S)
    PROVE  \E w : /\ w[1 .. 0] = 0 /\ w[1 .. Len(text)] = CaseDiff(text)
                  /\ \A k \in 1 .. Len(text) :
                        w[1 .. k] = IF text[k] = Upper THEN w[1 .. k - 1] + 1
                                    ELSE w[1 .. k - 1] - 1
<1> DEFINE n == Len(text)
           step(v, k) == IF text[k] = Upper THEN v + 1 ELSE v - 1
           Runs(w) == w = [s \in SUBSET (1 .. n) |->
                             IF s = {} THEN 0 ELSE step(w[s \ {Max(s)}], Max(s))]
           G == [k \in 1 .. n |-> [v \in Int |-> step(v, k)]]
<1>1. n \in Nat /\ DOMAIN text = 1 .. n
  OBVIOUS
<1>2. CaseDiff(text) = (CHOOSE w : Runs(w))[1 .. n]
  BY <1>1 DEF CaseDiff, FoldLeft, MapThenFoldSet
<1> HIDE DEF n
<1>3. PICK f \in [SUBSET (1 .. n) -> Int] : \A s \in SUBSET (1 .. n) :
              f[s] = IF s = {} THEN 0 ELSE G[Max(s)][f[s \ {Max(s)}]]
  <2>1. G \in [1 .. n -> [Int -> Int]]
    OBVIOUS
  <2> HIDE DEF G
  <2>2. 0 \in Int
    OBVIOUS
  <2>3. FoldsOf(n, Int, 0, G) # {}
    BY <1>1, <2>1, <2>2, FoldExists, Zenon
  <2>4. QED
    BY <2>3 DEF FoldsOf
<1>4. Runs(f)
  <2>1. ASSUME NEW s \in SUBSET (1 .. n), s # {}
        PROVE  f[s] = step(f[s \ {Max(s)}], Max(s))
    <3>1. Max(s) \in 1 .. n
      BY <1>1, <2>1, MaxInside
    <3>2. f[s \ {Max(s)}] \in Int
      OBVIOUS
    <3>3. G[Max(s)][f[s \ {Max(s)}]] = step(f[s \ {Max(s)}], Max(s))
      BY <3>1, <3>2
    <3>4. QED
      BY <1>3, <2>1, <3>3
  <2>2. f = [s \in SUBSET (1 .. n) |-> f[s]]
    OBVIOUS
  <2>3. \A s \in SUBSET (1 .. n) : f[s] = IF s = {} THEN 0 ELSE step(f[s \ {Max(s)}], Max(s))
    BY <1>3, <2>1
  <2> HIDE DEF step
  <2>4. QED
    BY <2>2, <2>3
<1>5. PICK w : w = (CHOOSE x : Runs(x)) /\ Runs(w)
  <2> HIDE DEF Runs
  <2> QED
    BY <1>4, Zenon
<1>6. w[1 .. 0] = 0 /\ \A k \in 1 .. n : w[1 .. k] = step(w[1 .. k - 1], k)
  <2>1. \A s \in SUBSET (1 .. n) : w[s] = IF s = {} THEN 0 ELSE step(w[s \ {Max(s)}], Max(s))
    BY <1>5, Zenon
  <2>2. 1 .. 0 = {}
    OBVIOUS
  <2>3. ASSUME NEW k \in 1 .. n PROVE w[1 .. k] = step(w[1 .. k - 1], k)
    <3>1. 1 .. k \in SUBSET (1 .. n) /\ k \in Nat \ {0}
      BY <1>1
    <3>2. Max(1 .. k) = k /\ (1 .. k) \ {k} = 1 .. k - 1 /\ 1 .. k # {}
      BY <3>1, PrefixFacts
    <3> HIDE DEF step
    <3>3. QED
      BY <2>1, <3>1, <3>2, Zenon
  <2>4. QED
    BY <2>1, <2>2, <2>3
<1>7. w[1 .. n] = CaseDiff(text)
  <2> HIDE DEF Runs
  <2>1. QED
    BY <1>2, <1>5, Zenon
<1> HIDE DEF Runs, G
<1>8. QED
  BY <1>6, <1>7, Zenon DEF n

\* One more element.
LEMMA AddOne ==
    ASSUME NEW A, NEW B, NEW x, NEW c \in Nat, IsFiniteSet(A), Cardinality(A) = c, x \notin A,
           B = A \union {x}
    PROVE  IsFiniteSet(B) /\ Cardinality(B) = c + 1
BY FS_AddElement, Zenon

\* CaseDiff counts the upper-case letters and takes all else off.
LEMMA CaseDiffCounts ==
    ASSUME NEW S, NEW text \in Seq(S)
    PROVE  CaseDiff(text) = 2 * Quantify(DOMAIN text, LAMBDA i : text[i] = Upper) - Len(text)
<1> DEFINE n == Len(text)
           U(k) == {i \in 1 .. k : text[i] = Upper}
<1>1. PICK w : /\ w[1 .. 0] = 0 /\ w[1 .. n] = CaseDiff(text)
               /\ \A k \in 1 .. n :
                     w[1 .. k] = IF text[k] = Upper THEN w[1 .. k - 1] + 1 ELSE w[1 .. k - 1] - 1
  BY CaseDiffRuns
<1>2. n \in Nat /\ DOMAIN text = 1 .. n
  OBVIOUS
<1> HIDE DEF n
<1> DEFINE T == {k \in Nat : k <= n => /\ IsFiniteSet(U(k)) /\ Cardinality(U(k)) \in Nat
                                       /\ w[1 .. k] = 2 * Cardinality(U(k)) - k}
<1>3. 0 \in T
  <2>1. U(0) = {}
    OBVIOUS
  <2>2. IsFiniteSet(U(0)) /\ Cardinality(U(0)) = 0
    BY <2>1, FS_EmptySet
  <2> HIDE DEF U
  <2>3. QED
    BY <1>1, <2>2
<1>4. ASSUME NEW k \in Nat, k \in T PROVE k + 1 \in T
  <2> SUFFICES ASSUME k + 1 <= n
               PROVE  /\ IsFiniteSet(U(k + 1)) /\ Cardinality(U(k + 1)) \in Nat
                      /\ w[1 .. k + 1] = 2 * Cardinality(U(k + 1)) - (k + 1)
    OBVIOUS
  <2>1. k + 1 \in 1 .. n /\ (k + 1) - 1 = k
    BY <1>2
  <2>2. PICK c \in Nat : IsFiniteSet(U(k)) /\ Cardinality(U(k)) = c /\ w[1 .. k] = 2 * c - k
    <3> HIDE DEF U
    <3>1. k <= n
      BY <1>2
    <3>2. QED
      BY <1>4, <3>1
  <2>3. CASE text[k + 1] = Upper
    <3>1. U(k + 1) = U(k) \union {k + 1} /\ k + 1 \notin U(k)
      BY <2>3
    <3>2. IsFiniteSet(U(k + 1)) /\ Cardinality(U(k + 1)) = c + 1
      <4> HIDE DEF U
      <4> QED
        BY <2>2, <3>1, AddOne
    <3>3. w[1 .. k + 1] = 2 * c - k + 1
      BY <1>1, <2>1, <2>2, <2>3
    <3> HIDE DEF U
    <3>4. QED
      BY <3>2, <3>3
  <2>4. CASE text[k + 1] # Upper
    <3>1. U(k + 1) = U(k)
      BY <2>4
    <3>2. w[1 .. k + 1] = 2 * c - k - 1
      BY <1>1, <2>1, <2>2, <2>4
    <3> HIDE DEF U
    <3>3. QED
      BY <2>2, <3>1, <3>2
  <2>5. QED
    BY <2>3, <2>4
<1>5. n \in T
  <2> HIDE DEF T
  <2> QED
    BY <1>2, <1>3, <1>4, Induct
<1>6. CaseDiff(text) = 2 * Cardinality(U(n)) - n
  BY <1>1, <1>2, <1>5
<1>7. QED
  BY <1>2, <1>6 DEF Quantify, n

\* pkg/case_diff.go: of a text of letters, CaseDiff returns the difference
\* between the upper-case and the lower-case ones.
THEOREM CaseDiffExact ==
    ASSUME NEW text \in Seq({Upper, Lower})
    PROVE  CaseDiff(text) = LettersDiff(text)
<1> DEFINE n == Len(text)
           U == {i \in DOMAIN text : text[i] = Upper}
           L == {i \in DOMAIN text : text[i] = Lower}
<1>1. n \in Nat /\ DOMAIN text = 1 .. n
  OBVIOUS
<1>2. U \union L = 1 .. n /\ U \intersect L = {}
  <2>1. \A i \in 1 .. n : text[i] \in {Upper, Lower}
    OBVIOUS
  <2>2. QED
    BY <1>1, <2>1 DEF Upper, Lower
<1>3. CaseDiff(text) = 2 * Cardinality(U) - n
  BY CaseDiffCounts DEF Quantify
<1>4. LettersDiff(text) = Cardinality(U) - Cardinality(L)
  BY DEF LettersDiff, Quantify
<1> HIDE DEF n, U, L
<1>5. IsFiniteSet(1 .. n) /\ Cardinality(1 .. n) = n
  <2>1. 1 \in Int /\ n \in Int
    BY <1>1
  <2>2. /\ IsFiniteSet(1 .. n)
        /\ Cardinality(1 .. n) = IF 1 > n THEN 0 ELSE n - 1 + 1
    BY <2>1, FS_Interval
  <2>3. QED
    BY <1>1, <2>2
<1>6. /\ IsFiniteSet(U) /\ IsFiniteSet(L)
      /\ Cardinality(U) \in Nat /\ Cardinality(L) \in Nat
  <2>1. IsFiniteSet(U) /\ IsFiniteSet(L)
    BY <1>2, <1>5, FS_Subset
  <2>2. QED
    BY <2>1, FS_CardinalityType
<1>7. Cardinality(U \union L) = Cardinality(U) + Cardinality(L) - Cardinality(U \intersect L)
  BY <1>6, FS_Union
<1>8. Cardinality(U \intersect L) = 0 /\ Cardinality(U \union L) = n
  BY <1>2, <1>5, FS_EmptySet
<1>9. PICK u \in Nat, l \in Nat : u = Cardinality(U) /\ l = Cardinality(L)
  BY <1>6
<1>10. n = u + l
  BY <1>7, <1>8, <1>9
<1>11. CaseDiff(text) = 2 * u - n /\ LettersDiff(text) = u - l
  BY <1>3, <1>4, <1>9
<1>12. QED
  BY <1>9, <1>10, <1>11
-----------------------------------------------------------------------------
\* The sequence after k swaps.
Swapped(s, left, right, k) ==
    [i \in DOMAIN s |->
        IF i \in left .. right /\ (i < left + k \/ i > right - k) THEN s[left + right - i] ELSE s[i]]

\* One turn of the loop.
Exchanged(t, l, r) == IF l >= r THEN t ELSE [t EXCEPT ![l] = t[r], ![r] = t[l]]

\* One more swap is one more turn.
LEMMA SwapsOnce ==
    ASSUME NEW n \in Nat, NEW s, DOMAIN s = 1 .. n, NEW left \in Nat \ {0}, NEW right \in 0 .. n,
           NEW k \in Nat \ {0}, NEW t, t = Swapped(s, left, right, k - 1),
           NEW l \in Int, l = left + k - 1, NEW r \in Int, r = right - k + 1
    PROVE  Swapped(s, left, right, k) = Exchanged(t, l, r)
<1> DEFINE u == Swapped(s, left, right, k)
<1>1. /\ \A i \in 1 .. n : u[i] = IF i \in left .. right /\ (i < left + k \/ i > right - k)
                                  THEN s[left + right - i] ELSE s[i]
      /\ \A i \in 1 .. n : t[i] = IF i \in left .. right /\ (i < l \/ i > r)
                                  THEN s[left + right - i] ELSE s[i]
      /\ u = [i \in 1 .. n |-> u[i]] /\ t = [i \in 1 .. n |-> t[i]]
  BY DEF Swapped
<1> HIDE DEF u
<1>2. CASE l >= r
  <2>1. ASSUME NEW i \in 1 .. n PROVE u[i] = t[i]
    <3>1. CASE i = l /\ i = r
      BY <1>1, <3>1
    <3>2. CASE ~ (i = l /\ i = r)
      <4>1. i < left + k \/ i > right - k <=> i < l \/ i > r
        BY <1>2, <3>2
      <4>2. QED
        BY <1>1, <4>1
    <3>3. QED
      BY <3>1, <3>2
  <2>2. u = t
    BY <1>1, <2>1
  <2>3. QED
    BY <1>2, <2>2 DEF u, Exchanged
<1>3. CASE l < r
  <2>1. l \in 1 .. n /\ r \in 1 .. n /\ l \in left .. right /\ r \in left .. right /\ l # r
        /\ left + right - l = r /\ left + right - r = l
    BY <1>3
  <2>2. t[l] = s[l] /\ t[r] = s[r] /\ u[l] = s[r] /\ u[r] = s[l]
    <3>1. ~ (l < l \/ l > r) /\ ~ (r < l \/ r > r)
      BY <1>3
    <3>2. l < left + k /\ r > right - k
      OBVIOUS
    <3>3. t[l] = s[l] /\ t[r] = s[r]
      BY <1>1, <2>1, <3>1
    <3>4. u[l] = s[left + right - l] /\ u[r] = s[left + right - r]
      BY <1>1, <2>1, <3>2
    <3>5. QED
      BY <2>1, <3>3, <3>4
  <2>3. ASSUME NEW i \in 1 .. n, i # l, i # r PROVE u[i] = t[i]
    <3>1. i < left + k \/ i > right - k <=> i < l \/ i > r
      BY <2>3
    <3>2. QED
      BY <1>1, <3>1
  <2>4. [t EXCEPT ![l] = t[r], ![r] = t[l]]
           = [i \in 1 .. n |-> IF i = r THEN t[l] ELSE IF i = l THEN t[r] ELSE t[i]]
    BY <1>1, <2>1
  <2>5. u = [t EXCEPT ![l] = t[r], ![r] = t[l]]
    BY <1>1, <2>1, <2>2, <2>3, <2>4
  <2>6. QED
    BY <1>3, <2>5 DEF u, Exchanged
<1>4. QED
  BY <1>2, <1>3

\* The sequence with the piece between two places turned round.
Turned(s, n, left, right) ==
    [i \in 1 .. n |-> IF i \in left .. right THEN s[left + right - i] ELSE s[i]]

\* The two pointers of reverse_array.go and reverse_mid.go turn round the piece
\* that they start at the ends of, for every sequence and every two places.
LEMMA SwapInwardTurns ==
    ASSUME NEW n \in Nat, NEW s, DOMAIN s = 1 .. n, Len(s) = n, s = [i \in 1 .. n |-> s[i]],
           NEW left \in Nat \ {0}, NEW right \in 0 .. n
    PROVE  swapInward(s, left, right) = Turned(s, n, left, right)
<1> DEFINE step(w, k) == LET t == w[k - 1]
                             l == left + k - 1
                             r == right - k + 1
                         IN  IF k = 0 THEN s
                             ELSE IF l >= r THEN t
                             ELSE [t EXCEPT ![l] = t[r], ![r] = t[l]]
           Runs(w) == w = [k \in Nat |-> step(w, k)]
           F == [k \in Nat |-> Swapped(s, left, right, k)]
<1>1. swapInward(s, left, right) = (CHOOSE w : Runs(w))[n]
  BY DEF swapInward
<1>2. s = [i \in 1 .. n |-> s[i]] /\ Swapped(s, left, right, 0) = s
  <2>1. s = [i \in 1 .. n |-> s[i]]
    OBVIOUS
  <2>2. \A i \in 1 .. n : ~ (i \in left .. right /\ (i < left + 0 \/ i > right - 0))
    OBVIOUS
  <2>3. QED
    BY <2>1, <2>2 DEF Swapped
<1>3. ASSUME NEW k \in Nat PROVE F[k] = step(F, k)
  <2>1. CASE k = 0
    BY <1>2, <2>1
  <2>2. CASE k # 0
    <3>1. k \in Nat \ {0} /\ k - 1 \in Nat
      BY <2>2
    <3>2. F[k - 1] = Swapped(s, left, right, k - 1) /\ F[k] = Swapped(s, left, right, k)
      BY <3>1
    <3> HIDE DEF F
    <3>3. PICK t : t = F[k - 1] /\ t = Swapped(s, left, right, k - 1)
      BY <3>2
    <3>4. PICK l \in Int : l = left + k - 1
      OBVIOUS
    <3>5. PICK r \in Int : r = right - k + 1
      OBVIOUS
    <3>6. Swapped(s, left, right, k) = Exchanged(t, l, r)
      <4>1. DOMAIN s = 1 .. n /\ t = Swapped(s, left, right, k - 1)
        BY <3>3
      <4>2. QED
        BY <3>1, <3>4, <3>5, <4>1, SwapsOnce
    <3>7. QED
      BY <2>2, <3>2, <3>3, <3>4, <3>5, <3>6 DEF Exchanged
  <2>3. QED
    BY <2>1, <2>2
<1>4. Runs(F)
  <2> HIDE DEF step
  <2>1. F = [k \in Nat |-> F[k]]
    OBVIOUS
  <2>2. QED
    BY <1>3, <2>1
<1>5. PICK w : w = (CHOOSE x : Runs(x)) /\ Runs(w)
  <2> HIDE DEF Runs
  <2> QED
    BY <1>4, Zenon
<1> DEFINE T == {k \in Nat : w[k] = F[k]}
<1>6. 0 \in T
  BY <1>2, <1>5
<1>7. ASSUME NEW k \in Nat, k \in T PROVE k + 1 \in T
  <2>1. k + 1 \in Nat /\ (k + 1) - 1 = k /\ w[k] = F[k] /\ k + 1 # 0
    BY <1>7
  <2>2. F[k + 1] = step(F, k + 1) /\ w[k + 1] = step(w, k + 1)
    <3> HIDE DEF F, step
    <3>1. QED
      BY <1>3, <1>5, <2>1
  <2> HIDE DEF F
  <2>3. step(w, k + 1) = step(F, k + 1)
    BY <2>1
  <2>4. QED
    BY <2>1, <2>2, <2>3
<1>8. w[n] = Swapped(s, left, right, n)
  <2> HIDE DEF T
  <2>1. n \in T
    BY <1>6, <1>7, Induct
  <2>2. QED
    BY <2>1 DEF T
<1>9. \A i \in left .. right : i < left + n \/ i > right - n
  OBVIOUS
<1>10. QED
  BY <1>1, <1>5, <1>8, <1>9 DEF Swapped, Turned

\* pkg/reverse_array.go: ReverseArray turns every slice round.
THEOREM ReverseArrayExact ==
    ASSUME NEW S, NEW nums \in Seq(S)
    PROVE  \A i \in DOMAIN nums : ReverseArray(nums)[i] = nums[Len(nums) + 1 - i]
<1>1. PICK n \in Nat : n = Len(nums) /\ DOMAIN nums = 1 .. n
  OBVIOUS
<1>2. ReverseArray(nums) = Turned(nums, n, 1, n)
  <2>1. nums = [i \in 1 .. n |-> nums[i]] /\ 1 \in Nat \ {0} /\ n \in 0 .. n
    BY <1>1
  <2>2. QED
    BY <1>1, <2>1, SwapInwardTurns, ZenonT(30) DEF ReverseArray
<1>3. \A i \in 1 .. n : 1 + n - i = Len(nums) + 1 - i
  BY <1>1
<1>4. QED
  BY <1>1, <1>2, <1>3 DEF Turned

\* pkg/reverse_mid.go: of every word that is not empty, ReverseMiddle keeps the
\* ends, and turns the rest round if vowels bound the word.
THEOREM ReverseMiddleExact ==
    ASSUME NEW S, NEW word \in Seq(S), word # <<>>
    PROVE  IsMiddleReversed(middleReversed(word), word)
<1>1. PICK n \in Nat : n = Len(word) /\ DOMAIN word = 1 .. n /\ n >= 1
  BY EmptySeq
<1>2. word = [i \in 1 .. n |-> word[i]]
  BY <1>1
<1> DEFINE bounded == word[1] \in Vowels /\ word[n] \in Vowels
<1>3. CASE bounded
  <2>1. middleReversed(word) = swapInward(word, 2, n - 1)
    BY <1>1, <1>3 DEF middleReversed, Last
  <2>2. 2 \in Nat \ {0} /\ n - 1 \in 0 .. n
    BY <1>1
  <2>3. swapInward(word, 2, n - 1) = Turned(word, n, 2, n - 1)
    BY <1>1, <1>2, <2>2, SwapInwardTurns, ZenonT(30)
  <2>4. \A i \in 1 .. n : (i \in 2 .. n - 1 <=> i \notin {1, n}) /\ 2 + (n - 1) - i = n + 1 - i
    BY <1>1
  <2>5. Turned(word, n, 2, n - 1)
           = [i \in 1 .. n |-> IF bounded /\ i \notin {1, n} THEN word[n + 1 - i] ELSE word[i]]
    BY <1>3, <2>4 DEF Turned
  <2>6. QED
    BY <1>1, <2>1, <2>3, <2>5 DEF IsMiddleReversed
<1>4. CASE ~ bounded
  <2>1. middleReversed(word) = word
    BY <1>1, <1>4 DEF middleReversed, Last
  <2>2. QED
    BY <1>1, <1>2, <1>4, <2>1 DEF IsMiddleReversed
<1>5. QED
  BY <1>3, <1>4
-----------------------------------------------------------------------------
\* The maps from numbers to numbers.
Maps == UNION {[D -> Int] : D \in SUBSET Int}

\* Assigning a number to a number leaves a map between numbers.
LEMMA MapGrows ==
    ASSUME NEW m \in Maps, NEW x \in Int, NEW v \in Int
    PROVE  /\ Assign(m, x, v) \in Maps
           /\ DOMAIN Assign(m, x, v) = DOMAIN m \union {x}
           /\ \A y \in DOMAIN m \union {x} : Assign(m, x, v)[y] = IF y = x THEN v ELSE m[y]
<1>1. PICK D \in SUBSET Int : m \in [D -> Int]
  BY Zenon DEF Maps
<1>2. Assign(m, x, v) = [y \in D \union {x} |-> IF y = x THEN v ELSE m[y]]
  BY <1>1 DEF Assign
<1>3. [y \in D \union {x} |-> IF y = x THEN v ELSE m[y]] \in [D \union {x} -> Int]
  BY <1>1
<1>4. [D \union {x} -> Int] \in {[E -> Int] : E \in SUBSET Int}
  OBVIOUS
<1>5. Assign(m, x, v) \in Maps
  BY <1>2, <1>3, <1>4, Zenon DEF Maps
<1>6. QED
  BY <1>1, <1>2, <1>5

\* So is the empty map.
LEMMA NoMap == <<>> \in Maps /\ DOMAIN <<>> = {}
<1>1. <<>> \in [{} -> Int] /\ {} \in SUBSET Int
  OBVIOUS
<1>2. QED
  BY <1>1, Zenon DEF Maps

\* One turn of the loop of two_sum.go.
TwoSumTurn(nums, target, st, i) ==
    IF st.result # <<>> THEN st
    ELSE IF target - nums[i] \in DOMAIN st.seen
    THEN [st EXCEPT !.result = <<st.seen[target - nums[i]], i - 1>>]
    ELSE [st EXCEPT !.seen = Assign(@, nums[i], i - 1)]

TwoSumState == [seen : Maps, result : Seq(Int)]

\* What the two updates of the state make of it.
LEMMA TwoSumFields ==
    ASSUME NEW st \in TwoSumState, NEW v
    PROVE  /\ [st EXCEPT !.seen = v] = [seen |-> v, result |-> st.result]
           /\ [st EXCEPT !.result = v] = [seen |-> st.seen, result |-> v]
BY DEF TwoSumState

LEMMA TwoSumTurnType ==
    ASSUME NEW nums \in Seq(Int), NEW target \in Int, NEW st \in TwoSumState, NEW i \in DOMAIN nums
    PROVE  TwoSumTurn(nums, target, st, i) \in TwoSumState
<1>1. nums[i] \in Int /\ i \in Int /\ i - 1 \in Int /\ target - nums[i] \in Int
  OBVIOUS
<1>2. CASE target - nums[i] \in DOMAIN st.seen
  <2>1. st.seen \in Maps
    BY DEF TwoSumState
  <2>2. st.seen[target - nums[i]] \in Int
    BY <1>2, <2>1 DEF Maps
  <2>3. PICK v \in Seq(Int) : v = <<st.seen[target - nums[i]], i - 1>>
    <3>1. PICK a, b \in Int : a = st.seen[target - nums[i]] /\ b = i - 1
      BY <1>1, <2>2
    <3>2. <<a, b>> \in Seq(Int)
      OBVIOUS
    <3>3. QED
      BY <3>1, <3>2, Zenon
  <2>4. [st EXCEPT !.result = v] \in TwoSumState
    <3>1. [st EXCEPT !.result = v] = [seen |-> st.seen, result |-> v]
      BY TwoSumFields
    <3>2. QED
      BY <2>1, <3>1 DEF TwoSumState
  <2>5. TwoSumTurn(nums, target, st, i) = IF st.result # <<>> THEN st ELSE [st EXCEPT !.result = v]
    BY <1>2, <2>3, Zenon DEF TwoSumTurn
  <2>6. QED
    BY <2>4, <2>5
<1>3. CASE target - nums[i] \notin DOMAIN st.seen
  <2>1. Assign(st.seen, nums[i], i - 1) \in Maps
    BY <1>1, MapGrows DEF TwoSumState
  <2>2. QED
    BY <1>3, <2>1 DEF TwoSumTurn, TwoSumState
<1>4. QED
  BY <1>2, <1>3

\* The loop: the state after every prefix of the slice.
LEMMA TwoSumRuns ==
    ASSUME NEW nums \in Seq(Int), NEW target \in Int
    PROVE  \E w : /\ w[1 .. 0] = [seen |-> <<>>, result |-> <<>>]
                  /\ w[1 .. Len(nums)].result = TwoSum(nums, target)
                  /\ \A k \in 1 .. Len(nums) :
                        w[1 .. k] = TwoSumTurn(nums, target, w[1 .. k - 1], k)
<1> DEFINE n == Len(nums)
           index == [i \in DOMAIN nums |-> i]
           base == [seen |-> <<>>, result |-> <<>>]
           step(st, i) == TwoSumTurn(nums, target, st, i)
           Runs(w) == w = [s \in SUBSET DOMAIN index |->
                             IF s = {} THEN base ELSE step(w[s \ {Max(s)}], index[Max(s)])]
           G == [k \in 1 .. n |-> [v \in TwoSumState |-> step(v, k)]]
<1>1. n \in Nat /\ DOMAIN nums = 1 .. n /\ DOMAIN index = 1 .. n
      /\ \A i \in 1 .. n : index[i] = i
  OBVIOUS
<1>2. TwoSum(nums, target) = (CHOOSE w : Runs(w))[1 .. n].result
  BY <1>1 DEF TwoSum, FoldLeftDomain, FoldLeft, MapThenFoldSet, TwoSumTurn
<1> HIDE DEF n, index
<1>3. PICK f \in [SUBSET (1 .. n) -> TwoSumState] : \A s \in SUBSET (1 .. n) :
              f[s] = IF s = {} THEN base ELSE G[Max(s)][f[s \ {Max(s)}]]
  <2>1. G \in [1 .. n -> [TwoSumState -> TwoSumState]]
    BY <1>1, TwoSumTurnType
  <2>2. base \in TwoSumState
    <3>1. <<>> \in Maps /\ <<>> \in Seq(Int)
      BY NoMap
    <3>2. QED
      BY <3>1 DEF TwoSumState
  <2> HIDE DEF G, base
  <2>3. FoldsOf(n, TwoSumState, base, G) # {}
    BY <1>1, <2>1, <2>2, FoldExists, Zenon
  <2>4. QED
    BY <2>3 DEF FoldsOf
<1>4. Runs(f)
  <2>1. ASSUME NEW s \in SUBSET (1 .. n), s # {}
        PROVE  f[s] = step(f[s \ {Max(s)}], index[Max(s)])
    <3>1. Max(s) \in 1 .. n /\ index[Max(s)] = Max(s)
      BY <1>1, <2>1, MaxInside
    <3>2. f[s \ {Max(s)}] \in TwoSumState
      OBVIOUS
    <3>3. G[Max(s)][f[s \ {Max(s)}]] = step(f[s \ {Max(s)}], Max(s))
      BY <3>1, <3>2
    <3>4. QED
      BY <1>3, <2>1, <3>1, <3>3
  <2>2. f = [s \in SUBSET (1 .. n) |-> f[s]]
    OBVIOUS
  <2>3. \A s \in SUBSET (1 .. n) :
           f[s] = IF s = {} THEN base ELSE step(f[s \ {Max(s)}], index[Max(s)])
    BY <1>3, <2>1
  <2> HIDE DEF step, base
  <2>4. QED
    BY <1>1, <2>2, <2>3
<1>5. PICK w : w = (CHOOSE x : Runs(x)) /\ Runs(w)
  <2> HIDE DEF Runs
  <2> QED
    BY <1>4, Zenon
<1>6. w[1 .. 0] = base /\ \A k \in 1 .. n : w[1 .. k] = step(w[1 .. k - 1], k)
  <2>1. \A s \in SUBSET (1 .. n) :
           w[s] = IF s = {} THEN base ELSE step(w[s \ {Max(s)}], index[Max(s)])
    BY <1>1, <1>5, ZenonT(30)
  <2>2. 1 .. 0 = {} /\ 1 .. 0 \in SUBSET (1 .. n)
    OBVIOUS
  <2>3. ASSUME NEW k \in 1 .. n PROVE w[1 .. k] = step(w[1 .. k - 1], k)
    <3>1. 1 .. k \in SUBSET (1 .. n) /\ k \in Nat \ {0}
      BY <1>1
    <3>2. Max(1 .. k) = k /\ (1 .. k) \ {k} = 1 .. k - 1 /\ 1 .. k # {}
      BY <3>1, PrefixFacts
    <3> HIDE DEF step, base
    <3>3. QED
      BY <1>1, <2>1, <3>1, <3>2, Zenon
  <2> HIDE DEF base
  <2>4. w[1 .. 0] = base
    BY <2>1, <2>2, Zenon
  <2>5. QED
    BY <2>3, <2>4, Zenon
<1>7. w[1 .. n].result = TwoSum(nums, target)
  <2> HIDE DEF Runs
  <2>1. QED
    BY <1>2, <1>5, Zenon
<1> HIDE DEF Runs, G
<1>8. QED
  BY <1>6, <1>7, Zenon DEF n

\* After k turns: nothing is found and seen holds the last place of every
\* number so far, or the pair with the earliest right end is.
TwoSumInv(nums, target, st, k) ==
    /\ st \in TwoSumState
    /\ \/ /\ st.result = <<>>
          /\ \A i, j \in 1 .. k : i < j => nums[i] + nums[j] # target
          /\ DOMAIN st.seen = {nums[i] : i \in 1 .. k}
          /\ \A x \in DOMAIN st.seen : st.seen[x] + 1 \in 1 .. k /\ nums[st.seen[x] + 1] = x
       \/ \E a, b \in 1 .. k :
             /\ st.result = <<a - 1, b - 1>> /\ a < b /\ nums[a] + nums[b] = target
             /\ \A i, j \in 1 .. b - 1 : i < j => nums[i] + nums[j] # target

LEMMA TwoSumTurnKeeps ==
    ASSUME NEW nums \in Seq(Int), NEW target \in Int, NEW k \in DOMAIN nums, NEW st,
           TwoSumInv(nums, target, st, k - 1)
    PROVE  TwoSumInv(nums, target, TwoSumTurn(nums, target, st, k), k)
<1> DEFINE after == TwoSumTurn(nums, target, st, k)
           c == target - nums[k]
<1>1. st \in TwoSumState /\ after \in TwoSumState
  BY TwoSumTurnType DEF TwoSumInv
<1>2. /\ k \in Nat \ {0} /\ nums[k] \in Int /\ c \in Int /\ \A i \in 1 .. k : nums[i] \in Int
      /\ \A i \in 1 .. k - 1 : i \in 1 .. k /\ i < k
  OBVIOUS
<1>3. CASE st.result # <<>>
  <2>1. after = st
    BY <1>3 DEF TwoSumTurn
  <2>2. PICK a, b \in 1 .. k - 1 :
             /\ st.result = <<a - 1, b - 1>> /\ a < b /\ nums[a] + nums[b] = target
             /\ \A i, j \in 1 .. b - 1 : i < j => nums[i] + nums[j] # target
    BY <1>3 DEF TwoSumInv
  <2>3. a \in 1 .. k /\ b \in 1 .. k
    BY <1>2
  <2> HIDE DEF after
  <2>4. QED
    BY <1>1, <2>1, <2>2, <2>3 DEF TwoSumInv, after
<1>4. CASE st.result = <<>>
  <2>1. /\ \A i, j \in 1 .. k - 1 : i < j => nums[i] + nums[j] # target
        /\ DOMAIN st.seen = {nums[i] : i \in 1 .. k - 1}
        /\ \A x \in DOMAIN st.seen : st.seen[x] + 1 \in 1 .. k - 1 /\ nums[st.seen[x] + 1] = x
    BY <1>4 DEF TwoSumInv
  <2>2. st.seen \in Maps
    BY <1>1 DEF TwoSumState
  <2>3. CASE c \in DOMAIN st.seen
    <3>1. PICK a \in 1 .. k - 1 : a = st.seen[c] + 1 /\ nums[a] = c
      BY <2>1, <2>3
    <3>2. st.seen[c] = a - 1
      BY <2>2, <2>3, <3>1, SMTT(30) DEF Maps
    <3>3. after.result = <<a - 1, k - 1>>
      BY <1>1, <1>4, <2>3, <3>2 DEF TwoSumTurn, TwoSumState
    <3>4. a \in 1 .. k /\ k \in 1 .. k /\ a < k /\ nums[a] + nums[k] = target
      <4>1. k \in 1 .. k /\ c + nums[k] = target
        BY <1>2
      <4>2. QED
        BY <1>2, <3>1, <4>1
    <3> HIDE DEF after
    <3>5. QED
      BY <1>1, <2>1, <3>3, <3>4 DEF TwoSumInv, after
  <2>4. CASE c \notin DOMAIN st.seen
    <3>1. after.result = <<>> /\ after.seen = Assign(st.seen, nums[k], k - 1)
      BY <1>1, <1>4, <2>4 DEF TwoSumTurn, TwoSumState
    <3>2. PICK seen : seen = after.seen
      OBVIOUS
    <3>3. /\ DOMAIN seen = DOMAIN st.seen \union {nums[k]}
          /\ \A y \in DOMAIN st.seen \union {nums[k]} :
                seen[y] = IF y = nums[k] THEN k - 1 ELSE st.seen[y]
      BY <3>1, <3>2 DEF Assign
    <3>4. DOMAIN seen = {nums[i] : i \in 1 .. k}
      <4>1. 1 .. k = (1 .. k - 1) \union {k}
        BY <1>2
      <4>2. QED
        BY <2>1, <3>3, <4>1
    <3>5. ASSUME NEW x \in DOMAIN seen PROVE seen[x] + 1 \in 1 .. k /\ nums[seen[x] + 1] = x
      <4>1. CASE x = nums[k]
        BY <1>2, <3>3, <4>1
      <4>2. CASE x # nums[k]
        <5>1. x \in DOMAIN st.seen /\ seen[x] = st.seen[x]
          BY <3>3, <4>2
        <5>2. QED
          <6>1. st.seen[x] + 1 \in 1 .. k - 1 /\ nums[st.seen[x] + 1] = x
            BY <2>1, <5>1
          <6>2. QED
            BY <1>2, <5>1, <6>1
      <4>3. QED
        BY <4>1, <4>2
    <3>6. ASSUME NEW i \in 1 .. k, NEW j \in 1 .. k, i < j PROVE nums[i] + nums[j] # target
      <4>1. CASE j = k
        <5>1. i \in 1 .. k - 1 /\ nums[i] \in DOMAIN st.seen
          BY <1>2, <2>1, <3>6, <4>1
        <5>2. QED
          BY <1>2, <2>4, <4>1, <5>1, SMTT(30)
      <4>2. CASE j # k
        <5>1. i \in 1 .. k - 1 /\ j \in 1 .. k - 1
          BY <1>2, <3>6, <4>2, SMTT(30)
        <5>2. QED
          BY <2>1, <3>6, <5>1
      <4>3. QED
        BY <4>1, <4>2
    <3> HIDE DEF after
    <3>7. QED
      BY <1>1, <3>1, <3>2, <3>4, <3>5, <3>6 DEF TwoSumInv, after
  <2>5. QED
    BY <2>3, <2>4
<1>5. QED
  BY <1>3, <1>4

\* pkg/two_sum.go: for every slice and every target, TwoSum returns nil if no
\* two places sum up to the target, and otherwise two that do, the right one
\* as early as any pair allows.
THEOREM TwoSumExact ==
    ASSUME NEW nums \in Seq(Int), NEW target \in Int
    PROVE  IsTwoSum(TwoSum(nums, target), nums, target)
<1> DEFINE n == Len(nums)
<1>1. PICK w : /\ w[1 .. 0] = [seen |-> <<>>, result |-> <<>>]
               /\ w[1 .. n].result = TwoSum(nums, target)
               /\ \A k \in 1 .. n : w[1 .. k] = TwoSumTurn(nums, target, w[1 .. k - 1], k)
  BY TwoSumRuns
<1>2. n \in Nat /\ DOMAIN nums = 1 .. n /\ \A i \in 1 .. n : nums[i] \in Int
  OBVIOUS
<1> HIDE DEF n
<1> DEFINE T == {k \in Nat : k <= n => TwoSumInv(nums, target, w[1 .. k], k)}
<1>3. 0 \in T
  <2>1. <<>> \in Maps /\ DOMAIN <<>> = {} /\ <<>> \in Seq(Int)
    BY NoMap
  <2>2. TwoSumInv(nums, target, [seen |-> <<>>, result |-> <<>>], 0)
    BY <2>1 DEF TwoSumInv, TwoSumState
  <2>3. QED
    BY <1>1, <2>2
<1>4. ASSUME NEW k \in Nat, k \in T PROVE k + 1 \in T
  <2> SUFFICES ASSUME k + 1 <= n PROVE TwoSumInv(nums, target, w[1 .. k + 1], k + 1)
    OBVIOUS
  <2>1. k + 1 \in 1 .. n /\ (k + 1) - 1 = k /\ k <= n /\ k + 1 \in DOMAIN nums
    BY <1>2
  <2>2. TwoSumInv(nums, target, w[1 .. k], (k + 1) - 1)
    BY <1>4, <2>1
  <2>3. w[1 .. k + 1] = TwoSumTurn(nums, target, w[1 .. k], k + 1)
    BY <1>1, <2>1
  <2>4. QED
    BY <2>1, <2>2, <2>3, TwoSumTurnKeeps
<1>5. TwoSumInv(nums, target, w[1 .. n], n)
  <2>1. n \in T
    <3> HIDE DEF T
    <3> QED
      BY <1>2, <1>3, <1>4, Induct
  <2>2. QED
    BY <1>2, <2>1
<1>6. PICK r : r = TwoSum(nums, target) /\ r = w[1 .. n].result
  BY <1>1
<1> DEFINE pairs == {p \in Pairs(nums) : p[1] < p[2] /\ nums[p[1]] + nums[p[2]] = target}
<1>7. CASE r = <<>>
  <2>1. \A i, j \in 1 .. n : i < j => nums[i] + nums[j] # target
    BY <1>5, <1>6, <1>7 DEF TwoSumInv
  <2>2. pairs = {}
    BY <1>2, <2>1 DEF Pairs
  <2>3. QED
    BY <1>6, <1>7, <2>2 DEF IsTwoSum
<1>8. CASE r # <<>>
  <2>1. PICK a, b \in 1 .. n :
             /\ r = <<a - 1, b - 1>> /\ a < b /\ nums[a] + nums[b] = target
             /\ \A i, j \in 1 .. b - 1 : i < j => nums[i] + nums[j] # target
    BY <1>5, <1>6, <1>8 DEF TwoSumInv
  <2>2. r[1] + 1 = a /\ r[2] + 1 = b
    BY <1>2, <2>1
  <2>3. <<a, b>> \in pairs
    BY <1>2, <2>1 DEF Pairs
  <2>4. ASSUME NEW p \in pairs PROVE b <= p[2]
    <3>1. p[1] \in 1 .. n /\ p[2] \in 1 .. n /\ p[1] < p[2] /\ nums[p[1]] + nums[p[2]] = target
      BY <1>2 DEF Pairs
    <3>2. p[2] < b => p[1] \in 1 .. b - 1 /\ p[2] \in 1 .. b - 1
      BY <1>2, <3>1
    <3>3. ~ (p[2] < b)
      BY <2>1, <3>1, <3>2
    <3>4. b \in Int /\ p[2] \in Int
      BY <1>2, <3>1
    <3>5. QED
      BY <3>3, <3>4
  <2>5. <<r[1] + 1, r[2] + 1>> \in pairs /\ \A p \in pairs : r[2] + 1 <= p[2]
    BY <2>2, <2>3, <2>4
  <2>6. pairs # {}
    BY <2>3
  <2> HIDE DEF pairs
  <2>7. QED
    BY <1>6, <2>5, <2>6 DEF IsTwoSum, pairs
<1>9. QED
  BY <1>7, <1>8
-----------------------------------------------------------------------------
\* max of two numbers.
LEMMA GreaterOfTwo ==
    ASSUME NEW a \in Int, NEW b \in Int
    PROVE  Max({a, b}) = IF a >= b THEN a ELSE b
<1>1. {a, b} \subseteq Int
  OBVIOUS
<1>2. CASE a >= b
  <2>1. a \in {a, b} /\ \A y \in {a, b} : a >= y
    BY <1>2
  <2>2. QED
    BY <1>1, <1>2, <2>1, MaxIs
<1>3. CASE ~ (a >= b)
  <2>1. b \in {a, b} /\ \A y \in {a, b} : b >= y
    BY <1>3
  <2>2. QED
    BY <1>1, <1>3, <2>1, MaxIs
<1>4. QED
  BY <1>2, <1>3

\* One turn of the loop of length_of_longest_substring.go.
SubstringTurn(s, st, right) ==
    LET left == IF inWindow(st, s[right]) THEN st.charIndex[s[right]] + 1 ELSE st.left
    IN  [left |-> left,
         charIndex |-> Assign(st.charIndex, s[right], right),
         maxLen |-> Max({st.maxLen, right - left + 1})]

SubstringState == [left : Int, charIndex : Maps, maxLen : Int]

\* The fields after one turn.
LEMMA SubstringTurnIs ==
    ASSUME NEW s \in Seq(Int), NEW st \in SubstringState, NEW right \in DOMAIN s
    PROVE  LET after == SubstringTurn(s, st, right)
               again == s[right] \in DOMAIN st.charIndex /\ st.charIndex[s[right]] >= st.left
           IN  /\ after \in SubstringState
               /\ after.left = IF again THEN st.charIndex[s[right]] + 1 ELSE st.left
               /\ after.charIndex = Assign(st.charIndex, s[right], right)
               /\ after.maxLen = IF st.maxLen >= right - after.left + 1 THEN st.maxLen
                                 ELSE right - after.left + 1
<1> DEFINE again == s[right] \in DOMAIN st.charIndex /\ st.charIndex[s[right]] >= st.left
           left == IF again THEN st.charIndex[s[right]] + 1 ELSE st.left
           next == Assign(st.charIndex, s[right], right)
           longer == Max({st.maxLen, right - left + 1})
<1>1. s[right] \in Int /\ right \in Int /\ st.left \in Int /\ st.charIndex \in Maps /\ st.maxLen \in Int
  BY DEF SubstringState
<1>2. left \in Int
  <2>1. s[right] \in DOMAIN st.charIndex => st.charIndex[s[right]] \in Int
    BY <1>1 DEF Maps
  <2>2. QED
    BY <1>1, <2>1
<1>3. next \in Maps
  BY <1>1, MapGrows
<1> HIDE DEF left, next
<1>4. longer = (IF st.maxLen >= right - left + 1 THEN st.maxLen ELSE right - left + 1) /\ longer \in Int
  BY <1>1, <1>2, GreaterOfTwo
<1> HIDE DEF longer
<1>5. SubstringTurn(s, st, right) = [left |-> left, charIndex |-> next, maxLen |-> longer]
  BY DEF SubstringTurn, inWindow, left, next, longer
<1>6. [left |-> left, charIndex |-> next, maxLen |-> longer] \in SubstringState
  BY <1>2, <1>3, <1>4 DEF SubstringState
<1>7. QED
  BY <1>4, <1>5, <1>6 DEF left, next

\* The loop: the state after every prefix of the string.
LEMMA SubstringRuns ==
    ASSUME NEW s \in Seq(Int)
    PROVE  \E w : /\ w[1 .. 0] = [left |-> 1, charIndex |-> <<>>, maxLen |-> 0]
                  /\ w[1 .. Len(s)].maxLen = LengthOfLongestSubstring(s)
                  /\ \A k \in 1 .. Len(s) :
                        w[1 .. k] = SubstringTurn(s, w[1 .. k - 1], k)
<1> DEFINE n == Len(s)
           index == [i \in DOMAIN s |-> i]
           base == [left |-> 1, charIndex |-> <<>>, maxLen |-> 0]
           step(st, i) == SubstringTurn(s, st, i)
           Runs(w) == w = [p \in SUBSET DOMAIN index |->
                             IF p = {} THEN base ELSE step(w[p \ {Max(p)}], index[Max(p)])]
           G == [k \in 1 .. n |-> [v \in SubstringState |-> step(v, k)]]
<1>1. n \in Nat /\ DOMAIN s = 1 .. n /\ DOMAIN index = 1 .. n
      /\ \A i \in 1 .. n : index[i] = i
  OBVIOUS
<1>2. LengthOfLongestSubstring(s) = (CHOOSE w : Runs(w))[1 .. n].maxLen
  BY <1>1 DEF LengthOfLongestSubstring, FoldLeftDomain, FoldLeft, MapThenFoldSet, SubstringTurn
<1> HIDE DEF n, index
<1>3. PICK f \in [SUBSET (1 .. n) -> SubstringState] : \A p \in SUBSET (1 .. n) :
              f[p] = IF p = {} THEN base ELSE G[Max(p)][f[p \ {Max(p)}]]
  <2>1. G \in [1 .. n -> [SubstringState -> SubstringState]]
    BY <1>1, SubstringTurnIs
  <2>2. base \in SubstringState
    <3>1. <<>> \in Maps
      BY NoMap
    <3>2. QED
      BY <3>1 DEF SubstringState
  <2> HIDE DEF G, base
  <2>3. FoldsOf(n, SubstringState, base, G) # {}
    BY <1>1, <2>1, <2>2, FoldExists, Zenon
  <2>4. QED
    BY <2>3 DEF FoldsOf
<1>4. Runs(f)
  <2>1. ASSUME NEW p \in SUBSET (1 .. n), p # {}
        PROVE  f[p] = step(f[p \ {Max(p)}], index[Max(p)])
    <3>1. Max(p) \in 1 .. n /\ index[Max(p)] = Max(p)
      BY <1>1, <2>1, MaxInside
    <3>2. f[p \ {Max(p)}] \in SubstringState
      OBVIOUS
    <3>3. G[Max(p)][f[p \ {Max(p)}]] = step(f[p \ {Max(p)}], Max(p))
      BY <3>1, <3>2
    <3>4. QED
      BY <1>3, <2>1, <3>1, <3>3
  <2>2. f = [p \in SUBSET (1 .. n) |-> f[p]]
    OBVIOUS
  <2>3. \A p \in SUBSET (1 .. n) :
           f[p] = IF p = {} THEN base ELSE step(f[p \ {Max(p)}], index[Max(p)])
    BY <1>3, <2>1
  <2> HIDE DEF step, base
  <2>4. QED
    BY <1>1, <2>2, <2>3
<1>5. PICK w : w = (CHOOSE x : Runs(x)) /\ Runs(w)
  <2> HIDE DEF Runs
  <2> QED
    BY <1>4, Zenon
<1>6. w[1 .. 0] = base /\ \A k \in 1 .. n : w[1 .. k] = step(w[1 .. k - 1], k)
  <2>1. \A p \in SUBSET (1 .. n) :
           w[p] = IF p = {} THEN base ELSE step(w[p \ {Max(p)}], index[Max(p)])
    BY <1>1, <1>5, ZenonT(30)
  <2>2. 1 .. 0 = {} /\ 1 .. 0 \in SUBSET (1 .. n)
    OBVIOUS
  <2>3. ASSUME NEW k \in 1 .. n PROVE w[1 .. k] = step(w[1 .. k - 1], k)
    <3>1. 1 .. k \in SUBSET (1 .. n) /\ k \in Nat \ {0}
      BY <1>1
    <3>2. Max(1 .. k) = k /\ (1 .. k) \ {k} = 1 .. k - 1 /\ 1 .. k # {}
      BY <3>1, PrefixFacts
    <3> HIDE DEF step, base
    <3>3. QED
      BY <1>1, <2>1, <3>1, <3>2, Zenon
  <2> HIDE DEF base
  <2>4. w[1 .. 0] = base
    BY <2>1, <2>2, Zenon
  <2>5. QED
    BY <2>3, <2>4, Zenon
<1>7. w[1 .. n].maxLen = LengthOfLongestSubstring(s)
  <2> HIDE DEF Runs
  <2>1. QED
    BY <1>2, <1>5, Zenon
<1> HIDE DEF Runs, G
<1>8. QED
  BY <1>6, <1>7, Zenon DEF n

\* No character twice between two places.
NoRepeat(s, from, to) == \A a, b \in from .. to : s[a] = s[b] => a = b

\* After k turns: charIndex holds the last place of every character so far, the
\* window that starts at left is free of repetitions and no wider one that ends
\* at k is, and maxLen is the length of the longest piece so far.
SubstringInv(s, st, k) ==
    /\ st \in SubstringState
    /\ st.left \in 1 .. k + 1 /\ st.maxLen \in Nat
    /\ DOMAIN st.charIndex = {s[i] : i \in 1 .. k}
    /\ \A x \in DOMAIN st.charIndex :
          /\ st.charIndex[x] \in 1 .. k /\ s[st.charIndex[x]] = x
          /\ \A i \in 1 .. k : s[i] = x => i <= st.charIndex[x]
    /\ NoRepeat(s, st.left, k)
    /\ \A i \in 1 .. st.left - 1 : ~ NoRepeat(s, i, k)
    /\ \A i, j \in 1 .. k : i <= j /\ NoRepeat(s, i, j) => j - i + 1 <= st.maxLen
    /\ st.maxLen > 0 =>
          \E i, j \in 1 .. k : i <= j /\ NoRepeat(s, i, j) /\ st.maxLen = j - i + 1

LEMMA SubstringTurnKeeps ==
    ASSUME NEW s \in Seq(Int), NEW k \in DOMAIN s, NEW st, SubstringInv(s, st, k - 1)
    PROVE  SubstringInv(s, SubstringTurn(s, st, k), k)
<1>1. PICK last, l, m : last = st.charIndex /\ l = st.left /\ m = st.maxLen
  OBVIOUS
<1>2. /\ l \in 1 .. k /\ m \in Nat /\ st \in SubstringState
      /\ DOMAIN last = {s[i] : i \in 1 .. k - 1}
      /\ \A x \in DOMAIN last :
            /\ last[x] \in 1 .. k - 1 /\ s[last[x]] = x
            /\ \A i \in 1 .. k - 1 : s[i] = x => i <= last[x]
      /\ NoRepeat(s, l, k - 1)
      /\ \A i \in 1 .. l - 1 : ~ NoRepeat(s, i, k - 1)
      /\ \A i, j \in 1 .. k - 1 : i <= j /\ NoRepeat(s, i, j) => j - i + 1 <= m
      /\ m > 0 =>
            \E i, j \in 1 .. k - 1 : i <= j /\ NoRepeat(s, i, j) /\ m = j - i + 1
  <2>1. k \in Int
    OBVIOUS
  <2>2. (k - 1) + 1 = k
    BY <2>1
  <2>3. QED
    BY <1>1, <2>2 DEF SubstringInv
<1>3. /\ k \in Nat \ {0} /\ 1 .. k = (1 .. k - 1) \union {k}
      /\ \A i \in 1 .. k - 1 : i \in 1 .. k /\ i < k
  OBVIOUS
<1> DEFINE again == s[k] \in DOMAIN last /\ last[s[k]] >= l
<1>4. PICK after, left, next, longer :
         /\ after = SubstringTurn(s, st, k) /\ after \in SubstringState
         /\ left = after.left /\ next = after.charIndex /\ longer = after.maxLen
         /\ left = IF again THEN last[s[k]] + 1 ELSE l
         /\ next = Assign(last, s[k], k)
         /\ longer = IF m >= k - left + 1 THEN m ELSE k - left + 1
  BY <1>1, <1>2, SubstringTurnIs
<1>5. left \in 1 .. k /\ left >= l
  <2>1. CASE again
    <3>1. PICK q \in 1 .. k - 1 : q = last[s[k]]
      BY <1>2, <2>1
    <3>2. q >= l /\ left = q + 1
      BY <1>4, <2>1, <3>1
    <3>3. l \in Int
      BY <1>2
    <3>4. QED
      BY <1>3, <3>1, <3>2, <3>3, SMTT(30)
  <2>2. CASE ~ again
    <3>1. left = l
      BY <1>4, <2>2
    <3>2. QED
      BY <1>2, <3>1
  <2>3. QED
    BY <2>1, <2>2
<1>6. longer \in Nat /\ longer >= m /\ longer >= k - left + 1 /\ longer > 0
  <2>1. PICK size \in Nat \ {0} : size = k - left + 1
    BY <1>3, <1>5
  <2>2. longer = IF m >= size THEN m ELSE size
    BY <1>4, <2>1
  <2>3. m \in Nat
    BY <1>2
  <2>4. longer \in Nat /\ longer >= m /\ longer >= size /\ longer > 0
    BY <2>2, <2>3
  <2>5. QED
    BY <2>1, <2>4
<1>7. /\ DOMAIN next = DOMAIN last \union {s[k]}
      /\ next[s[k]] = k
      /\ \A x \in DOMAIN last : x # s[k] => next[x] = last[x]
  BY <1>4 DEF Assign
<1>8. DOMAIN next = {s[i] : i \in 1 .. k}
  BY <1>2, <1>3, <1>7
<1>9. ASSUME NEW x \in DOMAIN next
      PROVE  /\ next[x] \in 1 .. k /\ s[next[x]] = x
             /\ \A i \in 1 .. k : s[i] = x => i <= next[x]
  <2>1. CASE x = s[k]
    BY <1>3, <1>7, <2>1
  <2>2. CASE x # s[k]
    <3>1. x \in DOMAIN last /\ next[x] = last[x]
      BY <1>7, <2>2
    <3>2. last[x] \in 1 .. k - 1 /\ s[last[x]] = x /\ \A i \in 1 .. k - 1 : s[i] = x => i <= last[x]
      BY <1>2, <3>1
    <3>3. QED
      BY <1>3, <2>2, <3>1, <3>2
  <2>3. QED
    BY <2>1, <2>2
<1>10. ASSUME NEW a \in left .. k - 1 PROVE s[a] # s[k]
  <2>1. a \in 1 .. k - 1
    BY <1>3, <1>5
  <2>2. SUFFICES ASSUME s[a] = s[k] PROVE FALSE
    OBVIOUS
  <2>3. s[k] \in DOMAIN last
    BY <1>2, <2>1, <2>2
  <2>4. a <= last[s[k]] /\ last[s[k]] \in 1 .. k - 1
    BY <1>2, <2>1, <2>2, <2>3
  <2>5. left = last[s[k]] + 1
    <3>1. last[s[k]] >= l
      BY <1>3, <1>5, <1>2, <2>4, SMTT(30)
    <3>2. QED
      BY <1>4, <2>3, <3>1
  <2>6. QED
    BY <1>3, <1>5, <2>4, <2>5
<1>11. NoRepeat(s, left, k)
  <2> SUFFICES ASSUME NEW a \in left .. k, NEW b \in left .. k, s[a] = s[b] PROVE a = b
    BY DEF NoRepeat
  <2>1. CASE a = k /\ b = k
    BY <2>1
  <2>2. CASE a = k /\ b # k
    <3>1. b \in left .. k - 1
      BY <1>3, <1>5, <2>2
    <3>2. QED
      BY <1>10, <2>2, <3>1
  <2>3. CASE a # k /\ b = k
    <3>1. a \in left .. k - 1
      BY <1>3, <1>5, <2>3
    <3>2. QED
      BY <1>10, <2>3, <3>1
  <2>4. CASE a # k /\ b # k
    <3>1. a \in l .. k - 1 /\ b \in l .. k - 1
      BY <1>2, <1>3, <1>5, <2>4, SMTT(30)
    <3>2. QED
      BY <1>2, <3>1 DEF NoRepeat
  <2>5. QED
    BY <2>1, <2>2, <2>3, <2>4
<1>12. ASSUME NEW i \in 1 .. left - 1 PROVE ~ NoRepeat(s, i, k)
  <2>1. CASE i < l
    <3>1. i \in 1 .. l - 1
      BY <1>2, <1>3, <1>5, <2>1
    <3>2. PICK a, b \in i .. k - 1 : s[a] = s[b] /\ a # b
      BY <1>2, <3>1 DEF NoRepeat
    <3>3. a \in i .. k /\ b \in i .. k
      BY <1>3
    <3>4. QED
      BY <3>2, <3>3 DEF NoRepeat
  <2>2. CASE ~ (i < l)
    <3>1. left # l
      BY <1>2, <1>5, <2>2
    <3>2. again /\ left = last[s[k]] + 1
      BY <1>4, <3>1
    <3>3. last[s[k]] \in 1 .. k - 1 /\ s[last[s[k]]] = s[k]
      BY <1>2, <3>2
    <3>4. last[s[k]] \in i .. k /\ k \in i .. k /\ last[s[k]] # k
      BY <1>3, <1>5, <3>2, <3>3, SMTT(30)
    <3>5. QED
      BY <3>3, <3>4 DEF NoRepeat
  <2>3. QED
    BY <2>1, <2>2
<1>13. ASSUME NEW i \in 1 .. k, NEW j \in 1 .. k, i <= j, NoRepeat(s, i, j)
       PROVE  j - i + 1 <= longer
  <2>1. CASE j = k
    <3>1. ~ (i \in 1 .. left - 1)
      BY <1>12, <1>13, <2>1
    <3>2. i >= left
      BY <1>3, <1>5, <3>1
    <3>3. QED
      BY <1>3, <1>5, <1>6, <2>1, <3>2, SMTT(30)
  <2>2. CASE j # k
    <3>1. i \in 1 .. k - 1 /\ j \in 1 .. k - 1
      BY <1>3, <1>13, <2>2
    <3>2. j - i + 1 <= m
      BY <1>2, <1>13, <3>1
    <3>3. QED
      BY <1>2, <1>6, <3>1, <3>2
  <2>3. QED
    BY <2>1, <2>2
<1>14. \E i, j \in 1 .. k : i <= j /\ NoRepeat(s, i, j) /\ longer = j - i + 1
  <2>1. CASE longer = k - left + 1
    <3>1. left \in 1 .. k /\ k \in 1 .. k /\ left <= k
      BY <1>3, <1>5
    <3>2. QED
      BY <1>11, <2>1, <3>1
  <2>2. CASE longer # k - left + 1
    <3>1. longer = m /\ m > 0
      BY <1>4, <1>6, <2>2
    <3>2. PICK i, j \in 1 .. k - 1 : i <= j /\ NoRepeat(s, i, j) /\ m = j - i + 1
      BY <1>2, <3>1
    <3>3. QED
      BY <1>3, <3>1, <3>2
  <2>3. QED
    BY <2>1, <2>2
<1>15. left \in 1 .. k + 1
  BY <1>3, <1>5
<1> HIDE DEF again
<1>16. QED
  BY <1>4, <1>6, <1>8, <1>9, <1>11, <1>12, <1>13, <1>14, <1>15 DEF SubstringInv

\* pkg/length_of_longest_substring.go: for every string, the function returns the
\* length of the longest piece without a repetition.
THEOREM LongestSubstringExact ==
    ASSUME NEW s \in Seq(Int)
    PROVE  LengthOfLongestSubstring(s) = LongestDistinct(s)
<1> DEFINE n == Len(s)
<1>1. PICK w : /\ w[1 .. 0] = [left |-> 1, charIndex |-> <<>>, maxLen |-> 0]
               /\ w[1 .. n].maxLen = LengthOfLongestSubstring(s)
               /\ \A k \in 1 .. n : w[1 .. k] = SubstringTurn(s, w[1 .. k - 1], k)
  BY SubstringRuns
<1>2. n \in Nat /\ DOMAIN s = 1 .. n
  OBVIOUS
<1>3. \A i, j \in 1 .. n : i <= j => (IsInjective(SubSeq(s, i, j)) <=> NoRepeat(s, i, j))
  <2> SUFFICES ASSUME NEW i \in 1 .. n, NEW j \in 1 .. n, i <= j
               PROVE  IsInjective(SubSeq(s, i, j)) <=> NoRepeat(s, i, j)
    OBVIOUS
  <2>1. PICK p : p = SubSeq(s, i, j)
    OBVIOUS
  <2>2. DOMAIN p = 1 .. j - i + 1 /\ \A a \in 1 .. j - i + 1 : p[a] = s[i + a - 1]
    BY <1>2, <2>1
  <2>3. ASSUME IsInjective(p), NEW a \in i .. j, NEW b \in i .. j, s[a] = s[b] PROVE a = b
    <3>1. PICK c, d \in 1 .. j - i + 1 : c = a - i + 1 /\ d = b - i + 1
      BY <1>2
    <3>2. i + c - 1 = a /\ i + d - 1 = b
      BY <1>2, <3>1
    <3>3. p[c] = p[d]
      BY <2>2, <2>3, <3>2
    <3>4. c = d
      BY <2>2, <2>3, <3>3 DEF IsInjective
    <3>5. QED
      BY <3>2, <3>4
  <2>4. ASSUME NoRepeat(s, i, j), NEW c \in 1 .. j - i + 1, NEW d \in 1 .. j - i + 1, p[c] = p[d]
        PROVE  c = d
    <3>1. PICK a, b \in i .. j : a = i + c - 1 /\ b = i + d - 1
      BY <1>2
    <3>2. s[a] = s[b]
      BY <2>2, <2>4, <3>1
    <3>3. a = b
      BY <2>4, <3>2 DEF NoRepeat
    <3>4. QED
      BY <1>2, <3>1, <3>3
  <2>5. QED
    BY <2>1, <2>2, <2>3, <2>4 DEF IsInjective, NoRepeat
<1> HIDE DEF n
<1> DEFINE T == {k \in Nat : k <= n => SubstringInv(s, w[1 .. k], k)}
<1>4. 0 \in T
  <2>1. <<>> \in Maps /\ DOMAIN <<>> = {}
    BY NoMap
  <2>2. SubstringInv(s, [left |-> 1, charIndex |-> <<>>, maxLen |-> 0], 0)
    BY <2>1 DEF SubstringInv, SubstringState, NoRepeat
  <2>3. QED
    BY <1>1, <2>2
<1>5. ASSUME NEW k \in Nat, k \in T PROVE k + 1 \in T
  <2> SUFFICES ASSUME k + 1 <= n PROVE SubstringInv(s, w[1 .. k + 1], k + 1)
    OBVIOUS
  <2>1. k + 1 \in 1 .. n /\ (k + 1) - 1 = k /\ k <= n /\ k + 1 \in DOMAIN s
    BY <1>2
  <2>2. SubstringInv(s, w[1 .. k], (k + 1) - 1)
    BY <1>5, <2>1
  <2>3. w[1 .. k + 1] = SubstringTurn(s, w[1 .. k], k + 1)
    BY <1>1, <2>1
  <2>4. QED
    BY <2>1, <2>2, <2>3, SubstringTurnKeeps
<1>6. SubstringInv(s, w[1 .. n], n)
  <2>1. n \in T
    <3> HIDE DEF T
    <3> QED
      BY <1>2, <1>4, <1>5, Induct
  <2>2. QED
    BY <1>2, <2>1
<1>7. PICK m : m = LengthOfLongestSubstring(s) /\ m = w[1 .. n].maxLen
  BY <1>1
<1>8. /\ m \in Nat
      /\ \A i, j \in 1 .. n : i <= j /\ NoRepeat(s, i, j) => j - i + 1 <= m
      /\ m > 0 => \E i, j \in 1 .. n : i <= j /\ NoRepeat(s, i, j) /\ m = j - i + 1
  BY <1>6, <1>7 DEF SubstringInv
<1> DEFINE pieces == {p \in Pairs(s) : p[1] <= p[2] /\ IsInjective(SubSeq(s, p[1], p[2]))}
           S == {0} \union {p[2] - p[1] + 1 : p \in pieces}
<1>9. \A p \in pieces : /\ p[1] \in 1 .. n /\ p[2] \in 1 .. n /\ p[1] <= p[2]
                        /\ NoRepeat(s, p[1], p[2])
  BY <1>2, <1>3 DEF Pairs
<1>10. \A x \in S : x \in Int /\ x <= m
  <2> HIDE DEF pieces
  <2>1. ASSUME NEW p \in pieces PROVE p[2] - p[1] + 1 \in Int /\ p[2] - p[1] + 1 <= m
    BY <1>2, <1>8, <1>9
  <2>2. QED
    BY <1>8, <2>1
<1>11. m \in S
  <2>1. CASE m = 0
    BY <2>1
  <2>2. CASE m > 0
    <3>1. PICK i, j \in 1 .. n : i <= j /\ NoRepeat(s, i, j) /\ m = j - i + 1
      BY <1>8, <2>2
    <3>2. <<i, j>> \in pieces
      BY <1>2, <1>3, <3>1 DEF Pairs
    <3> HIDE DEF pieces
    <3>3. PICK p \in pieces : p = <<i, j>>
      BY <3>2
    <3>4. p[2] - p[1] + 1 = m
      BY <3>1, <3>3
    <3>5. QED
      BY <3>3, <3>4
  <2>3. QED
    BY <1>8, <2>1, <2>2
<1>12. Max(S) = m
  <2> HIDE DEF S
  <2>1. S \subseteq Int /\ \A x \in S : m >= x
    BY <1>8, <1>10
  <2>2. QED
    BY <1>11, <2>1, MaxIs
<1>13. QED
  BY <1>7, <1>12, Zenon DEF LongestDistinct
-----------------------------------------------------------------------------
\* A 32-bit number and whether the function has returned early, with 0.
Int32 == INT_MIN .. INT_MAX
ReverseState == [rev : Int32, returned : BOOLEAN]

\* One turn of the loop of reverse_int.go.
ReverseTurn(st, pop) ==
    IF st.returned THEN st
    ELSE IF \/ st.rev > TenthMax \/ (st.rev = TenthMax /\ pop > 7)
            \/ st.rev < TenthMin \/ (st.rev = TenthMin /\ pop < -8)
    THEN [rev |-> 0, returned |-> TRUE]
    ELSE [rev |-> st.rev * 10 + pop, returned |-> FALSE]

\* Its bounds; the provers must not list the range.
LEMMA Int32Is == \A v : v \in Int32 <=> v \in Int /\ -2147483648 <= v /\ v <= 2147483647
<1>1. INT_MAX = 2147483647
  BY SMT DEF INT_MAX
<1>2. INT_MIN = -2147483648
  BY <1>1, SMT DEF INT_MIN
<1>3. PICK least, most \in Int : least = INT_MIN /\ most = INT_MAX
  BY <1>1, <1>2, SMT
<1>4. \A v : v \in least .. most <=> v \in Int /\ least <= v /\ v <= most
  BY SMT
<1>5. Int32 = least .. most
  BY <1>3 DEF Int32
<1>6. \A v : v \in Int32 <=> v \in Int /\ least <= v /\ v <= most
  BY <1>4, <1>5
<1>7. least = -2147483648 /\ most = 2147483647
  BY <1>1, <1>2, <1>3, SMT
<1>8. QED
  BY <1>6, <1>7, SMT

\* The checks before the multiplication keep the number a 32-bit one.
LEMMA ReverseTurnType ==
    ASSUME NEW st \in ReverseState, NEW pop \in -9 .. 9
    PROVE  ReverseTurn(st, pop) \in ReverseState
<1>1. PICK rev : rev = st.rev /\ rev \in Int32 /\ st.returned \in BOOLEAN
  BY DEF ReverseState
<1>2. 0 \in Int32
  BY Int32Is, SMT
<1>3. TenthMax = 214748364 /\ TenthMin = - 214748364
  BY SMT DEF TenthMax, TenthMin, INT_MAX
<1>4. ~ (\/ rev > TenthMax \/ (rev = TenthMax /\ pop > 7)
         \/ rev < TenthMin \/ (rev = TenthMin /\ pop < -8)) => rev * 10 + pop \in Int32
  BY <1>1, <1>3, Int32Is, SMT
<1>5. QED
  BY <1>1, <1>2, <1>4 DEF ReverseTurn, ReverseState

\* The loop: the state after every prefix of the digits.
LEMMA ReverseRuns ==
    ASSUME NEW x \in Seq(-9 .. 9)
    PROVE  \E w : /\ w[1 .. 0] = [rev |-> 0, returned |-> FALSE]
                  /\ w[1 .. Len(x)].rev = ReverseInt(x)
                  /\ \A k \in 1 .. Len(x) : w[1 .. k] = ReverseTurn(w[1 .. k - 1], x[k])
<1> DEFINE n == Len(x)
           base == [rev |-> 0, returned |-> FALSE]
           Runs(w) == w = [s \in SUBSET (1 .. n) |->
                             IF s = {} THEN base ELSE ReverseTurn(w[s \ {Max(s)}], x[Max(s)])]
           G == [k \in 1 .. n |-> [v \in ReverseState |-> ReverseTurn(v, x[k])]]
<1>1. n \in Nat /\ DOMAIN x = 1 .. n /\ \A i \in 1 .. n : x[i] \in -9 .. 9
  BY SMTT(30)
<1>2. ReverseInt(x) = (CHOOSE w : Runs(w))[1 .. n].rev
  BY <1>1 DEF ReverseInt, FoldLeft, MapThenFoldSet, ReverseTurn
<1> HIDE DEF n
<1>3. PICK f \in [SUBSET (1 .. n) -> ReverseState] : \A s \in SUBSET (1 .. n) :
              f[s] = IF s = {} THEN base ELSE G[Max(s)][f[s \ {Max(s)}]]
  <2>1. G \in [1 .. n -> [ReverseState -> ReverseState]]
    BY <1>1, ReverseTurnType
  <2>2. base \in ReverseState
    BY Int32Is, SMT DEF ReverseState
  <2> HIDE DEF G, base
  <2>3. FoldsOf(n, ReverseState, base, G) # {}
    BY <1>1, <2>1, <2>2, FoldExists, Zenon
  <2>4. QED
    BY <2>3 DEF FoldsOf
<1>4. Runs(f)
  <2>1. ASSUME NEW s \in SUBSET (1 .. n), s # {}
        PROVE  f[s] = ReverseTurn(f[s \ {Max(s)}], x[Max(s)])
    <3>1. Max(s) \in 1 .. n
      BY <1>1, <2>1, MaxInside
    <3>2. f[s \ {Max(s)}] \in ReverseState
      OBVIOUS
    <3>3. G[Max(s)][f[s \ {Max(s)}]] = ReverseTurn(f[s \ {Max(s)}], x[Max(s)])
      BY <3>1, <3>2
    <3>4. QED
      BY <1>3, <2>1, <3>3
  <2>2. f = [s \in SUBSET (1 .. n) |-> f[s]]
    OBVIOUS
  <2>3. \A s \in SUBSET (1 .. n) :
           f[s] = IF s = {} THEN base ELSE ReverseTurn(f[s \ {Max(s)}], x[Max(s)])
    BY <1>3, <2>1
  <2> HIDE DEF base
  <2>4. QED
    BY <2>2, <2>3
<1>5. PICK w : w = (CHOOSE v : Runs(v)) /\ Runs(w)
  <2> HIDE DEF Runs
  <2> QED
    BY <1>4, Zenon
<1>6. w[1 .. 0] = base /\ \A k \in 1 .. n : w[1 .. k] = ReverseTurn(w[1 .. k - 1], x[k])
  <2>1. \A s \in SUBSET (1 .. n) :
           w[s] = IF s = {} THEN base ELSE ReverseTurn(w[s \ {Max(s)}], x[Max(s)])
    BY <1>5, Zenon
  <2>2. 1 .. 0 = {} /\ 1 .. 0 \in SUBSET (1 .. n)
    OBVIOUS
  <2>3. ASSUME NEW k \in 1 .. n PROVE w[1 .. k] = ReverseTurn(w[1 .. k - 1], x[k])
    <3>1. 1 .. k \in SUBSET (1 .. n) /\ k \in Nat \ {0}
      BY <1>1
    <3>2. Max(1 .. k) = k /\ (1 .. k) \ {k} = 1 .. k - 1 /\ 1 .. k # {}
      BY <3>1, PrefixFacts
    <3> HIDE DEF base
    <3>3. QED
      BY <2>1, <3>1, <3>2, Zenon
  <2> HIDE DEF base
  <2>4. w[1 .. 0] = base
    BY <2>1, <2>2, Zenon
  <2>5. QED
    BY <2>3, <2>4, Zenon
<1>7. w[1 .. n].rev = ReverseInt(x)
  <2> HIDE DEF Runs
  <2>1. QED
    BY <1>2, <1>5, Zenon
<1> HIDE DEF Runs, G
<1>8. QED
  BY <1>6, <1>7, Zenon DEF n

\* pkg/reverse_int.go: whatever the digits and however many, the reversed number
\* is a 32-bit integer.
THEOREM ReverseStaysInInt32 ==
    ASSUME NEW x \in Seq(-9 .. 9)
    PROVE  ReverseInt(x) \in INT_MIN .. INT_MAX
<1> DEFINE n == Len(x)
<1>1. PICK w : /\ w[1 .. 0] = [rev |-> 0, returned |-> FALSE]
               /\ w[1 .. n].rev = ReverseInt(x)
               /\ \A k \in 1 .. n : w[1 .. k] = ReverseTurn(w[1 .. k - 1], x[k])
  BY ReverseRuns
<1>2. n \in Nat /\ DOMAIN x = 1 .. n /\ \A i \in 1 .. n : x[i] \in -9 .. 9
  BY SMTT(30)
<1> HIDE DEF n
<1> DEFINE T == {k \in Nat : k <= n => w[1 .. k] \in ReverseState}
<1>3. 0 \in T
  <2>1. [rev |-> 0, returned |-> FALSE] \in ReverseState
    BY Int32Is, SMT DEF ReverseState
  <2>2. QED
    BY <1>1, <2>1
<1>4. ASSUME NEW k \in Nat, k \in T PROVE k + 1 \in T
  <2> SUFFICES ASSUME k + 1 <= n PROVE w[1 .. k + 1] \in ReverseState
    OBVIOUS
  <2>1. k + 1 \in 1 .. n /\ (k + 1) - 1 = k /\ k <= n /\ x[k + 1] \in -9 .. 9
    BY <1>2
  <2>2. w[1 .. k] \in ReverseState
    BY <1>4, <2>1
  <2>3. w[1 .. k + 1] = ReverseTurn(w[1 .. k], x[k + 1])
    BY <1>1, <2>1
  <2>4. QED
    BY <2>1, <2>2, <2>3, ReverseTurnType
<1>5. w[1 .. n] \in ReverseState
  <2>1. n \in T
    <3> HIDE DEF T
    <3> QED
      BY <1>2, <1>3, <1>4, Induct
  <2>2. QED
    BY <1>2, <2>1
<1>6. QED
  BY <1>1, <1>5 DEF ReverseState, Int32
-----------------------------------------------------------------------------
\* A nonempty set of positions has its least among them.
LEMMA MinInside ==
    ASSUME NEW S, S \subseteq Nat, S # {}
    PROVE  Min(S) \in S /\ \A k \in S : Min(S) <= k
<1>1. PICK m \in S : \A k \in S : m <= k
  BY Least
<1>2. Min(S) = m
  <2>1. S \subseteq Int
    OBVIOUS
  <2>2. QED
    BY <1>1, <2>1, MinIs
<1>3. QED
  BY <1>1, <1>2

\* strings.SplitN(s, sep, 2)[0] is what precedes the first separator.
IsFirst(p, s, sep) ==
    /\ Len(p) \in 0 .. Len(s)
    /\ \A i \in 1 .. Len(p) : p[i] = s[i] /\ s[i] # sep
    /\ Len(p) < Len(s) => s[Len(p) + 1] = sep

LEMMA SplitFirstIs ==
    ASSUME NEW S, NEW s \in Seq(S), NEW sep
    PROVE  splitFirst(s, sep) \in Seq(S) /\ IsFirst(splitFirst(s, sep), s, sep)
<1> DEFINE at == {i \in DOMAIN s : s[i] = sep}
           n == Len(s)
<1>1. n \in Nat /\ DOMAIN s = 1 .. n
  OBVIOUS
<1>2. CASE at = {}
  <2>1. splitFirst(s, sep) = s
    BY <1>2 DEF splitFirst
  <2>2. n \in 0 .. n /\ \A i \in 1 .. n : s[i] # sep
    BY <1>1, <1>2
  <2>3. QED
    BY <2>1, <2>2 DEF IsFirst
<1>3. CASE at # {}
  <2>1. PICK m : m = Min(at) /\ m \in at /\ \A k \in at : m <= k
    <3>1. at \subseteq Nat
      BY <1>1
    <3> HIDE DEF at
    <3>2. QED
      BY <1>3, <3>1, MinInside
  <2>2. m \in 1 .. n /\ s[m] = sep /\ m - 1 \in 0 .. n
    BY <1>1, <2>1
  <2>3. splitFirst(s, sep) = SubSeq(s, 1, m - 1)
    BY <1>3, <2>1, Zenon DEF splitFirst
  <2>4. /\ SubSeq(s, 1, m - 1) \in Seq(S) /\ Len(SubSeq(s, 1, m - 1)) = m - 1
        /\ \A i \in 1 .. m - 1 : SubSeq(s, 1, m - 1)[i] = s[i]
    BY <1>1, <2>2
  <2>5. ASSUME NEW i \in 1 .. m - 1 PROVE s[i] # sep
    <3>1. i \in DOMAIN s /\ ~ (m <= i)
      BY <1>1, <2>2
    <3>2. QED
      BY <2>1, <3>1
  <2>6. (m - 1) + 1 = m
    BY <2>2
  <2>7. PICK p : p = splitFirst(s, sep) /\ p \in Seq(S) /\ Len(p) = m - 1
                 /\ \A i \in 1 .. m - 1 : p[i] = s[i]
    BY <2>3, <2>4
  <2>8. IsFirst(p, s, sep)
    BY <2>2, <2>5, <2>6, <2>7 DEF IsFirst
  <2>9. QED
    BY <2>7, <2>8
<1>4. QED
  BY <1>2, <1>3

\* strings.TrimSpace takes off the blanks at both ends.
IsTrimmed(r, s, left, right) ==
    /\ left + Len(r) + right = Len(s)
    /\ \A i \in 1 .. Len(r) : r[i] = s[left + i]
    /\ \A i \in 1 .. Len(s) : i <= left \/ i > left + Len(r) => s[i] = Blank
    /\ r # <<>> => r[1] # Blank /\ r[Len(r)] # Blank

LEMMA TrimSpaceIs ==
    ASSUME NEW S, NEW s \in Seq(S)
    PROVE  /\ trimSpace(s) \in Seq(S)
           /\ \E left, right \in Nat : IsTrimmed(trimSpace(s), s, left, right)
<1> DEFINE ink == {i \in DOMAIN s : s[i] # Blank}
           n == Len(s)
<1>1. n \in Nat /\ DOMAIN s = 1 .. n
  OBVIOUS
<1>2. CASE ink = {}
  <2>1. trimSpace(s) = <<>> /\ <<>> \in Seq(S) /\ Len(<<>>) = 0
    BY <1>2 DEF trimSpace
  <2>2. \A i \in 1 .. n : s[i] = Blank
    BY <1>1, <1>2
  <2>3. PICK r : r = <<>> /\ r \in Seq(S) /\ r = trimSpace(s) /\ Len(r) = 0
    BY <2>1
  <2>4. IsTrimmed(r, s, n, 0)
    BY <1>1, <2>2, <2>3 DEF IsTrimmed
  <2>5. n \in Nat /\ 0 \in Nat
    BY <1>1
  <2> HIDE DEF n
  <2>6. QED
    BY <2>3, <2>4, <2>5, Zenon
<1>3. CASE ink # {}
  <2>1. PICK a, b : /\ a = Min(ink) /\ a \in ink /\ \A k \in ink : a <= k
                    /\ b = Max(ink) /\ b \in ink /\ \A k \in ink : b >= k
    <3>1. ink \subseteq Nat /\ ink \in SUBSET (1 .. n)
      BY <1>1
    <3> HIDE DEF ink
    <3>2. QED
      BY <1>1, <1>3, <3>1, MinInside, MaxInside
  <2>2. a \in 1 .. n /\ b \in 1 .. n /\ a <= b /\ s[a] # Blank /\ s[b] # Blank
    BY <1>1, <2>1
  <2>3. PICK r : r = trimSpace(s) /\ r = SubSeq(s, a, b)
    BY <1>3, <2>1, Zenon DEF trimSpace
  <2>4. PICK k, left, right : k = b - a + 1 /\ left = a - 1 /\ right = n - b
                              /\ k \in Nat \ {0} /\ left \in Nat /\ right \in Nat
    <3>1. b - a + 1 \in Nat \ {0} /\ a - 1 \in Nat /\ n - b \in Nat
      BY <1>1, <2>2
    <3> HIDE DEF n
    <3>2. QED
      BY <3>1
  <2>5. r \in Seq(S) /\ Len(r) = k /\ \A i \in 1 .. k : r[i] = s[a + i - 1]
    BY <1>1, <2>2, <2>3, <2>4
  <2>6. \A i \in 1 .. k : a + i - 1 = left + i
    BY <2>2, <2>4
  <2>7. ASSUME NEW i \in 1 .. n, i <= left \/ i > left + k PROVE s[i] = Blank
    <3>1. i < a \/ i > b
      BY <2>2, <2>4, <2>7
    <3>2. i \notin ink
      <4> HIDE DEF ink, n
      <4>1. ~ (a <= i /\ b >= i)
        BY <1>1, <2>2, <3>1
      <4>2. QED
        BY <2>1, <4>1
    <3>3. QED
      BY <1>1, <3>2
  <2>8. r[1] # Blank /\ r[k] # Blank
    <3>1. 1 \in 1 .. k /\ k \in 1 .. k /\ a + 1 - 1 = a /\ a + k - 1 = b
      BY <2>2, <2>4
    <3>2. QED
      BY <2>2, <2>5, <3>1
  <2>9. left + k + right = n
    BY <1>1, <2>2, <2>4
  <2>10. IsTrimmed(r, s, left, right)
    BY <2>5, <2>6, <2>7, <2>8, <2>9 DEF IsTrimmed
  <2> HIDE DEF n
  <2>11. QED
    BY <2>3, <2>4, <2>5, <2>10, Zenon
<1>4. QED
  BY <1>2, <1>3

\* A text with blanks round it, as IsFirstEntry puts it together and by places.
Padded(r, left, right) ==
    LET blank == [i \in 1 .. left + Len(r) + right |-> Blank]
    IN  SubSeq(blank, 1, left) \o r \o SubSeq(blank, 1, right)

PaddedAt(r, left, right) ==
    [i \in 1 .. left + Len(r) + right |->
        IF i <= left \/ i > left + Len(r) THEN Blank ELSE r[i - left]]

LEMMA PaddedIs ==
    ASSUME NEW S, Blank \in S, NEW r \in Seq(S), NEW left \in Nat, NEW right \in Nat
    PROVE  Padded(r, left, right) = PaddedAt(r, left, right)
<1> DEFINE n == left + Len(r) + right
           blank == [i \in 1 .. n |-> Blank]
           u == SubSeq(blank, 1, left)
           v == SubSeq(blank, 1, right)
<1>1. PICK k \in Nat : k = Len(r)
  OBVIOUS
<1>2. blank \in Seq(S) /\ Len(blank) = n /\ \A i \in 1 .. n : blank[i] = Blank
  <2>1. n \in Nat
    BY <1>1
  <2> HIDE DEF n
  <2>2. QED
    BY <2>1
<1>3. /\ u \in Seq(S) /\ Len(u) = left /\ \A i \in 1 .. left : u[i] = Blank
      /\ v \in Seq(S) /\ Len(v) = right /\ \A i \in 1 .. right : v[i] = Blank
  <2>1. left <= n /\ right <= n /\ n \in Nat
    BY <1>1
  <2> HIDE DEF n, blank
  <2>2. QED
    BY <1>2, <2>1
<1> HIDE DEF u, v
<1>4. PICK p : p = u \o r
  OBVIOUS
<1>5. /\ p \in Seq(S) /\ Len(p) = left + k
      /\ \A i \in 1 .. left + k : p[i] = IF i <= left THEN u[i] ELSE r[i - left]
  BY <1>1, <1>3, <1>4, ConcatProperties
<1>6. PICK q : q = p \o v
  OBVIOUS
<1>7. /\ q \in Seq(S) /\ Len(q) = left + k + right
      /\ \A i \in 1 .. left + k + right :
            q[i] = IF i <= left + k THEN p[i] ELSE v[i - (left + k)]
  <2>1. /\ p \o v \in Seq(S) /\ Len(p \o v) = Len(p) + Len(v)
        /\ \A i \in 1 .. Len(p) + Len(v) :
              (p \o v)[i] = IF i <= Len(p) THEN p[i] ELSE v[i - Len(p)]
    <3>1. p \in Seq(S) /\ v \in Seq(S)
      BY <1>3, <1>5
    <3>2. QED
      BY <3>1, ConcatProperties
  <2>2. Len(p) = left + k /\ Len(v) = right
    BY <1>3, <1>5
  <2>3. QED
    BY <1>6, <2>1, <2>2
<1>8. ASSUME NEW i \in 1 .. left + k + right
      PROVE  q[i] = IF i <= left \/ i > left + k THEN Blank ELSE r[i - left]
  <2>1. CASE i <= left
    <3>1. i \in 1 .. left /\ i \in 1 .. left + k
      BY <2>1
    <3>2. q[i] = u[i]
      BY <1>5, <1>7, <2>1, <3>1
    <3>3. QED
      BY <1>3, <2>1, <3>1, <3>2
  <2>2. CASE i > left /\ i <= left + k
    <3>1. i \in 1 .. left + k
      BY <2>2
    <3>2. QED
      BY <1>5, <1>7, <2>2, <3>1
  <2>3. CASE i > left + k
    <3>1. i - (left + k) \in 1 .. right
      BY <2>3
    <3>2. QED
      BY <1>3, <1>7, <2>3, <3>1
  <2>4. QED
    BY <2>1, <2>2, <2>3
<1>9. q = [i \in 1 .. left + k + right |-> q[i]]
  <2>1. q \in [1 .. Len(q) -> S]
    BY <1>7, LenProperties
  <2>2. q \in [1 .. left + k + right -> S]
    BY <1>7, <2>1
  <2>3. QED
    BY <2>2
<1>10. q = [i \in 1 .. left + k + right |-> IF i <= left \/ i > left + k THEN Blank ELSE r[i - left]]
  BY <1>8, <1>9
<1>11. q = PaddedAt(r, left, right)
  BY <1>1, <1>10 DEF PaddedAt
<1>12. QED
  BY <1>4, <1>6, <1>11 DEF u, v, Padded

\* api-gateway/observability.go, remoteIP: for every header, the address is
\* what precedes the first comma without the blanks round it, and the address
\* of the connection stands in for an empty header alone.
THEOREM RemoteIPExact ==
    ASSUME NEW xff \in Seq(Nat), NEW addr
    PROVE  IsFirstEntry(remoteIP(xff, addr), xff, addr)
<1>1. CASE xff = <<>>
  BY <1>1 DEF remoteIP, IsFirstEntry
<1>2. CASE xff # <<>>
  <2>1. PICK m, s : /\ s = splitFirst(xff, Comma) /\ s \in Seq(Nat)
                    /\ m = Len(s) /\ m \in 0 .. Len(xff)
                    /\ \A i \in 1 .. m : s[i] = xff[i] /\ xff[i] # Comma
                    /\ m < Len(xff) => xff[m + 1] = Comma
    <3>1. PICK s : s = splitFirst(xff, Comma) /\ s \in Seq(Nat) /\ IsFirst(s, xff, Comma)
      BY SplitFirstIs
    <3>2. QED
      BY <3>1 DEF IsFirst
  <2>2. PICK left \in Nat, right \in Nat, r \in Seq(Nat) :
           r = trimSpace(s) /\ IsTrimmed(r, s, left, right)
    BY <2>1, TrimSpaceIs
  <2>3. remoteIP(xff, addr) = r
    BY <1>2, <2>1, <2>2, Zenon DEF remoteIP
  <2> DEFINE k == Len(r)
  <2>4. /\ k \in Nat /\ DOMAIN r = 1 .. k /\ left + k + right = m
        /\ \A i \in 1 .. k : r[i] = s[left + i]
        /\ \A i \in 1 .. m : i <= left \/ i > left + k => s[i] = Blank
        /\ r # <<>> => r[1] # Blank /\ r[k] # Blank
    <3>1. k \in Nat /\ DOMAIN r = 1 .. k
      OBVIOUS
    <3>2. m = Len(s)
      BY <2>1
    <3>3. QED
      BY <2>2, <3>1, <3>2 DEF IsTrimmed
  <2>5. Comma \notin ToSet(r)
    <3>1. ASSUME NEW i \in 1 .. k PROVE r[i] # Comma
      <4>1. left + i \in 1 .. m
        BY <2>4
      <4>2. QED
        BY <2>1, <2>4, <4>1
    <3>2. QED
      BY <2>4, <3>1 DEF ToSet
  <2>6. r # <<>> => Head(r) # Blank /\ Last(r) # Blank
    BY <2>2, <2>4 DEF Last
  <2>7. SubSeq(xff, 1, m) = Padded(r, left, right)
    <3> HIDE DEF k
    <3>1. SubSeq(xff, 1, m) = [i \in 1 .. m |-> s[i]]
      BY <2>1
    <3>2. ASSUME NEW i \in 1 .. m
          PROVE  s[i] = IF i <= left \/ i > left + k THEN Blank ELSE r[i - left]
      <4>1. CASE i <= left \/ i > left + k
        BY <2>4, <4>1
      <4>2. CASE ~ (i <= left \/ i > left + k)
        <5>1. i - left \in 1 .. k /\ left + (i - left) = i
          BY <2>4, <4>2
        <5>2. QED
          BY <2>4, <4>2, <5>1
      <4>3. QED
        BY <4>1, <4>2
    <3>3. SubSeq(xff, 1, m)
            = [i \in 1 .. m |-> IF i <= left \/ i > left + k THEN Blank ELSE r[i - left]]
      BY <3>1, <3>2
    <3>4. SubSeq(xff, 1, m) = PaddedAt(r, left, right)
      BY <2>4, <3>3 DEF PaddedAt, k
    <3>5. Blank \in Nat
      BY DEF Blank
    <3>6. QED
      BY <3>4, <3>5, PaddedIs
  <2>8. m <= Len(xff) /\ left \in 0 .. Len(xff) /\ right \in 0 .. Len(xff)
    BY <2>1, <2>4
  <2>9. IsFirstEntry(r, xff, addr)
    <3>1. left + Len(r) + right = m
      BY <2>4
    <3>2. m < Len(xff) => xff[m + 1] = Comma
      BY <2>1
    <3> DEFINE Around(a, b) ==
                  LET n     == a + Len(r) + b
                      blank == [i \in 1 .. n |-> Blank]
                  IN  /\ n <= Len(xff)
                      /\ SubSeq(xff, 1, n) = SubSeq(blank, 1, a) \o r \o SubSeq(blank, 1, b)
                      /\ n < Len(xff) => xff[n + 1] = Comma
    <3>3. Around(left, right)
      BY <2>7, <2>8, <3>1, <3>2, Zenon DEF Padded
    <3> HIDE DEF Around
    <3>4. \E a, b \in 0 .. Len(xff) : Around(a, b)
      BY <2>8, <3>3, Zenon
    <3>5. QED
      BY <1>2, <2>5, <2>6, <3>4, Zenon DEF IsFirstEntry, Around
  <2>10. QED
    BY <2>3, <2>9
<1>3. QED
  BY <1>1, <1>2
-----------------------------------------------------------------------------
\* The arguments of a call with a bounded first argument are sequences.
LEMMA ShortIsSeq ==
    ASSUME NEW S, NEW n \in Nat, NEW x \in SeqOf(S, n)
    PROVE  x \in Seq(S)
<1>1. PICK m \in 0 .. n : x \in [1 .. m -> S]
  BY Zenon DEF SeqOf
<1>2. QED
  BY <1>1

LEMMA CallArguments ==
    ASSUME NEW fn, NEW X, NEW Y, NEW call \in Call(fn, X, Y)
    PROVE  call.fn = fn /\ call.x \in X /\ call.y \in Y
BY DEF Call

\* What the functions of ScansExact are called with.
LEMMA ScanCalls ==
    ASSUME NEW call \in Calls
    PROVE  /\ call.fn = "TwoSum" => call.x \in Seq(Int) /\ call.y[1] \in Int
           /\ call.fn = "ReverseArray" => call.x \in Seq(Int)
           /\ call.fn = "LengthOfLongestSubstring" => call.x \in Seq(Int)
           /\ call.fn = "ReverseMiddle" =>
                 call.x \in Seq(Int) /\ call.y \in {<<>>, << 1 >>, <<2, 3, 4, 1>>}
           /\ call.fn = "CaseDiff" => call.x \in Seq(Int)
           /\ call.fn = "remoteIP" => call.x \in Seq(Nat)
<1>1. ASSUME call.fn = "TwoSum" PROVE call.x \in Seq(Int) /\ call.y[1] \in Int
  <2>1. call \in Call("TwoSum", SeqOf({-1, 1, 2, 3}, 4), One(0 .. 5))
    BY <1>1, CallArguments DEF Calls
  <2>2. call.x \in Seq({-1, 1, 2, 3}) /\ call.y \in One(0 .. 5)
    BY <2>1, CallArguments, ShortIsSeq
  <2>3. call.y[1] \in Int
    BY <2>2 DEF One
  <2>4. QED
    BY <2>2, <2>3
<1>2. ASSUME call.fn = "ReverseArray" PROVE call.x \in Seq(Int)
  <2>1. call \in Call("ReverseArray", UpTo(7), {<<>>})
    BY <1>2, CallArguments DEF Calls
  <2>2. call.x \in UpTo(7)
    BY <2>1, CallArguments
  <2>3. PICK k \in 0 .. 7 : call.x = [i \in 1 .. k |-> i - 1]
    BY <2>2 DEF UpTo
  <2>4. [i \in 1 .. k |-> i - 1] \in [1 .. k -> Int] /\ k \in Nat
    OBVIOUS
  <2>5. QED
    BY <2>3, <2>4
<1>3. ASSUME call.fn = "LengthOfLongestSubstring" PROVE call.x \in Seq(Int)
  <2>1. call \in Call("LengthOfLongestSubstring", SeqOf(1 .. 3, 6), {<<>>})
    BY <1>3, CallArguments DEF Calls
  <2>2. call.x \in Seq(1 .. 3)
    BY <2>1, CallArguments, ShortIsSeq
  <2>3. QED
    BY <2>2
<1>4. ASSUME call.fn = "ReverseMiddle"
      PROVE  call.x \in Seq(Int) /\ call.y \in {<<>>, << 1 >>, <<2, 3, 4, 1>>}
  <2>1. call \in Call("ReverseMiddle", SeqOf(1 .. 4, 5), {<<>>, << 1 >>, <<2, 3, 4, 1>>})
    BY <1>4, CallArguments DEF Calls
  <2>2. call.x \in Seq(1 .. 4) /\ call.y \in {<<>>, << 1 >>, <<2, 3, 4, 1>>}
    BY <2>1, CallArguments, ShortIsSeq
  <2>3. QED
    BY <2>2
<1>5. ASSUME call.fn = "CaseDiff" PROVE call.x \in Seq(Int)
  <2>1. call \in Call("CaseDiff", SeqOf(1 .. 3, 5), {<<>>})
    BY <1>5, CallArguments DEF Calls
  <2>2. call.x \in Seq(1 .. 3)
    BY <2>1, CallArguments, ShortIsSeq
  <2>3. QED
    BY <2>2
<1>6. ASSUME call.fn = "remoteIP" PROVE call.x \in Seq(Nat)
  <2>1. call \in Call("remoteIP", SeqOf(0 .. 2, 5), {<<7>>})
    BY <1>6, CallArguments DEF Calls
  <2>2. call.x \in Seq(0 .. 2)
    BY <2>1, CallArguments, ShortIsSeq
  <2>3. QED
    BY <2>2
<1>7. QED
  BY <1>1, <1>2, <1>3, <1>4, <1>5, <1>6

\* Two texts of one word each.
LEMMA TwoWords ==
    ASSUME NEW v, NEW w
    PROVE  <<v>> \o <<w>> = <<v, w>>
<1> DEFINE S == {v, w}
<1>1. PICK a, b, c : a = <<v>> /\ b = <<w>> /\ c = <<v, w>>
  OBVIOUS
<1>2. /\ a \in Seq(S) /\ Len(a) = 1 /\ a[1] = v
      /\ b \in Seq(S) /\ Len(b) = 1 /\ b[1] = w
      /\ c \in Seq(S) /\ Len(c) = 2 /\ c[1] = v /\ c[2] = w
  BY <1>1
<1>3. /\ a \o b \in Seq(S) /\ Len(a \o b) = Len(a) + Len(b)
      /\ \A i \in 1 .. Len(a) + Len(b) :
            (a \o b)[i] = IF i <= Len(a) THEN a[i] ELSE b[i - Len(a)]
  <2>1. a \in Seq(S) /\ b \in Seq(S)
    BY <1>2
  <2> HIDE DEF S
  <2>2. QED
    BY <2>1, ConcatProperties
<1>4. (a \o b)[1] = v /\ (a \o b)[2] = w
  <2>1. 1 \in 1 .. Len(a) + Len(b) /\ 2 \in 1 .. Len(a) + Len(b) /\ 2 - Len(a) = 1
        /\ 1 <= Len(a) /\ ~ (2 <= Len(a))
    BY <1>2
  <2>2. (a \o b)[1] = a[1] /\ (a \o b)[2] = b[1]
    BY <1>3, <2>1
  <2>3. QED
    BY <1>2, <2>2
<1>5. a \o b = c
  <2>1. \A i \in 1 .. Len(a \o b) : (a \o b)[i] = c[i]
    <3>1. \A i \in 1 .. Len(a \o b) : i = 1 \/ i = 2
      BY <1>2, <1>3
    <3>2. QED
      BY <1>2, <1>4, <3>1
  <2>2. Len(a \o b) = Len(c)
    BY <1>2, <1>3
  <2> HIDE DEF S
  <2>3. QED
    BY <1>2, <1>3, <2>1, <2>2, SeqEqual
<1>6. QED
  BY <1>1, <1>5, Zenon

\* A text of one or two words: the function panics on an empty one.
LEMMA ReverseMiddleCalls ==
    ASSUME NEW x \in Seq(Int), NEW y \in {<<>>, << 1 >>, <<2, 3, 4, 1>>}
    PROVE  LET words == <<x>> \o IF y = <<>> THEN <<>> ELSE <<y>>
           IN  IF x = <<>> THEN ReverseMiddle(words) = <<>>
               ELSE \A i \in DOMAIN words :
                       IsMiddleReversed(ReverseMiddle(words)[1][i], words[i])
<1> DEFINE words == <<x>> \o IF y = <<>> THEN <<>> ELSE <<y>>
<1>1. /\ words \in Seq(Seq(Int)) /\ 1 \in DOMAIN words /\ words[1] = x
      /\ x # <<>> => \A i \in DOMAIN words : words[i] # <<>>
  <2>1. y \in Seq(Int)
    <3>1. <<>> \in Seq(Int) /\ << 1 >> \in Seq(Int) /\ <<2, 3, 4, 1>> \in Seq(Int)
      OBVIOUS
    <3>2. QED
      BY <3>1, Zenon
  <2>2. CASE y = <<>>
    <3>1. words = <<x>>
      BY <2>2
    <3>2. <<x>> \in Seq(Seq(Int)) /\ DOMAIN <<x>> = {1} /\ <<x>>[1] = x
      OBVIOUS
    <3> HIDE DEF words
    <3>3. QED
      BY <3>1, <3>2
  <2>3. CASE y # <<>>
    <3>1. words = <<x, y>>
      BY <2>3, TwoWords, Zenon
    <3>2. <<x, y>> \in Seq(Seq(Int)) /\ DOMAIN <<x, y>> = {1, 2}
          /\ <<x, y>>[1] = x /\ <<x, y>>[2] = y
      BY <2>1
    <3> HIDE DEF words
    <3>3. QED
      BY <2>3, <3>1, <3>2
  <2>4. QED
    BY <2>2, <2>3
<1> HIDE DEF words
<1>2. CASE x = <<>>
  <2>1. <<>> \in ToSet(words)
    BY <1>1, <1>2 DEF ToSet
  <2>2. ReverseMiddle(words) = <<>>
    BY <2>1, Zenon DEF ReverseMiddle
  <2>3. QED
    BY <1>2, <2>2 DEF words
<1>3. CASE x # <<>>
  <2>1. <<>> \notin ToSet(words)
    BY <1>1, <1>3 DEF ToSet
  <2> DEFINE turned == [i \in DOMAIN words |-> middleReversed(words[i])]
  <2>2. ReverseMiddle(words) = <<turned>>
    BY <2>1, Zenon DEF ReverseMiddle
  <2>3. ASSUME NEW i \in DOMAIN words PROVE IsMiddleReversed(turned[i], words[i])
    <3>1. words[i] \in Seq(Int) /\ words[i] # <<>>
      BY <1>1, <1>3
    <3>2. turned[i] = middleReversed(words[i])
      OBVIOUS
    <3> HIDE DEF turned
    <3>3. QED
      BY <3>1, <3>2, ReverseMiddleExact
  <2> HIDE DEF turned
  <2>4. ReverseMiddle(words)[1] = turned
    BY <2>2
  <2>5. QED
    BY <1>3, <2>3, <2>4 DEF words
<1>4. QED
  BY <1>2, <1>3

\* The call under way is one of those of the run, or none.
Called == input \in Calls \/ input.fn = "none"

LEMMA CalledAlways == LibrarySpec => []Called
<1>1. LibraryInit => Called
  BY CallArguments DEF LibraryInit, Called
<1>2. Called /\ [LibraryNext]_libraryVars => Called'
  BY DEF Called, LibraryNext, HeapStep, ListStep, MetricsStep, LimiterStep, libraryVars
<1>3. QED
  BY <1>1, <1>2, PTL DEF LibrarySpec

\* In every state the scan under way finds what it owes its caller.
THEOREM ScansAreExact == LibrarySpec => []ScansExact
<1>1. Called => ScansExact
  <2>1. ASSUME input \in Calls PROVE ScansExact
    <3> DEFINE x == input.x
               y == input.y
    <3>1. Of("TwoSum", IsTwoSum(TwoSum(x, y[1]), x, y[1]))
      BY <2>1, ScanCalls, TwoSumExact DEF Of
    <3>2. Of("ReverseArray", \A i \in DOMAIN x : ReverseArray(x)[i] = x[Len(x) + 1 - i])
      BY <2>1, ScanCalls, ReverseArrayExact DEF Of
    <3>3. Of("LengthOfLongestSubstring", LengthOfLongestSubstring(x) = LongestDistinct(x))
      BY <2>1, ScanCalls, LongestSubstringExact DEF Of
    <3>4. Of("ReverseMiddle",
             LET words == <<x>> \o IF y = <<>> THEN <<>> ELSE <<y>>
             IN  IF x = <<>> THEN ReverseMiddle(words) = <<>>
                 ELSE \A i \in DOMAIN words :
                         IsMiddleReversed(ReverseMiddle(words)[1][i], words[i]))
      BY <2>1, ScanCalls, ReverseMiddleCalls DEF Of
    <3>5. Of("CaseDiff", ToSet(x) \subseteq {Upper, Lower} => CaseDiff(x) = LettersDiff(x))
      <4>1. ASSUME input.fn = "CaseDiff", ToSet(x) \subseteq {Upper, Lower}
            PROVE  x \in Seq({Upper, Lower})
        <5>1. x \in Seq(Int)
          BY <2>1, <4>1, ScanCalls
        <5>2. \A i \in DOMAIN x : x[i] \in ToSet(x)
          BY Zenon DEF ToSet
        <5>3. \A i \in DOMAIN x : x[i] \in {Upper, Lower}
          BY <4>1, <5>2, Zenon
        <5> HIDE DEF x
        <5>4. QED
          BY <5>1, <5>3
      <4>2. QED
        BY <4>1, CaseDiffExact DEF Of
    <3>6. Of("remoteIP", IsFirstEntry(remoteIP(x, y), x, y))
      BY <2>1, ScanCalls, RemoteIPExact DEF Of
    <3>7. QED
      BY <3>1, <3>2, <3>3, <3>4, <3>5, <3>6, Zenon DEF ScansExact
  <2>2. ASSUME input.fn = "none" PROVE ScansExact
    BY <2>2 DEF ScansExact, Of
  <2>3. QED
    BY <2>1, <2>2 DEF Called
<1>2. QED
  BY <1>1, CalledAlways, PTL

\* A behaviour of module Library is one of each part that it exercises.
THEOREM LibraryExercisesParts ==
    LibrarySpec => Spec /\ ListSpec /\ MetricsSpec /\ LimiterSpec
<1>1. LibraryInit => Init /\ ListInit /\ MetricsInit /\ LimiterInit
  BY DEF LibraryInit
<1>2. [LibraryNext]_libraryVars
         => /\ [Next]_vars /\ [ListNext]_listVars /\ [MetricsNext]_metricsVars
            /\ [LimiterNext]_limiterVars
  BY DEF LibraryNext, HeapStep, ListStep, MetricsStep, LimiterStep, libraryVars
<1>3. QED
  BY <1>1, <1>2, PTL DEF LibrarySpec, Spec, ListSpec, MetricsSpec, LimiterSpec

\* In every behaviour of module Library the heap implements the priority pool
\* and the list a sequence.
THEOREM LibraryImplements == LibrarySpec => PopsForemost /\ ListIsSequence
BY LibraryExercisesParts, HeapImplementsPool, ListImplementsSequence
=============================================================================
