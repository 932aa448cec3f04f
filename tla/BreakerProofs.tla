--------------------------- MODULE BreakerProofs ----------------------------
(***************************************************************************)
(* What TLAPS proves about the circuit breaker for every configuration and *)
(* any set of callers.                                                     *)
(***************************************************************************)
EXTENDS CircuitBreaker, FiniteSetTheorems, SequenceTheorems, TLAPS

LEMMA SizePositive == Size \in Nat /\ Size >= 1
BY WindowAssumption DEF Size

\* The failed slots of a window are finite in number.
LEMMA FailedSlotsFinite ==
    ASSUME NEW w \in Windows
    PROVE  /\ IsFiniteSet(FailedSlots(w))
           /\ Cardinality(FailedSlots(w)) \in 0 .. w.total
<1>1. w.total \in Nat
  BY SizePositive DEF Windows
<1>2. /\ IsFiniteSet(0 .. w.total - 1)
      /\ Cardinality(0 .. w.total - 1) = w.total
  <2>1. 0 \in Int /\ w.total - 1 \in Int
    BY <1>1
  <2>2. /\ IsFiniteSet(0 .. w.total - 1)
        /\ Cardinality(0 .. w.total - 1) =
              IF 0 > w.total - 1 THEN 0 ELSE (w.total - 1) - 0 + 1
    BY <2>1, FS_Interval
  <2>3. QED
    BY <1>1, <2>2
<1>3. FailedSlots(w) \subseteq 0 .. w.total - 1
  BY DEF FailedSlots
<1>4. /\ IsFiniteSet(FailedSlots(w))
      /\ Cardinality(FailedSlots(w)) <= Cardinality(0 .. w.total - 1)
  BY <1>2, <1>3, FS_Subset
<1>5. Cardinality(FailedSlots(w)) \in Nat
  BY <1>4, FS_CardinalityType
<1>6. QED
  BY <1>1, <1>2, <1>4, <1>5

\* The index arithmetic of the ring.
LEMMA NextHead ==
    ASSUME NEW h \in Slots
    PROVE  (h + 1) % Size = IF h + 1 = Size THEN 0 ELSE h + 1
BY SizePositive DEF Slots

\* Recording an outcome keeps the window well formed and its counter exact.
LEMMA RecordExact ==
    ASSUME NEW w \in Windows, Exact(w), NEW success \in BOOLEAN
    PROVE  record(w, success) \in Windows /\ Exact(record(w, success))
<1> DEFINE v == record(w, success)
           h == w.head
           F == FailedSlots(w)
           G == FailedSlots(v)
<1>1. /\ w.ring \in [Slots -> BOOLEAN] /\ h \in Slots /\ w.total \in 0 .. Size
      /\ w.failures = Cardinality(F)
      /\ w.total < Size => h = w.total
      /\ Size \in Nat /\ Size >= 1
  BY SizePositive DEF Windows, Exact
<1>2. /\ v.ring = [w.ring EXCEPT ![h] = success]
      /\ v.head = IF h + 1 = Size THEN 0 ELSE h + 1
      /\ v.total = IF w.total = Size THEN Size ELSE w.total + 1
      /\ v.failures = w.failures - (IF w.total = Size /\ ~ w.ring[h] THEN 1 ELSE 0)
                                 + (IF success THEN 0 ELSE 1)
  BY <1>1, NextHead DEF record
<1>3. v.head \in Slots /\ v.total \in 0 .. Size /\ v.ring \in [Slots -> BOOLEAN]
  BY <1>1, <1>2 DEF Slots
<1>4. v.total < Size => v.head = v.total
  BY <1>1, <1>2
<1>5. IsFiniteSet(F) /\ Cardinality(F) \in Nat
  BY <1>1, FailedSlotsFinite
<1>6. F = {i \in 0 .. w.total - 1 : ~ w.ring[i]}
  BY DEF FailedSlots
<1>7. G = {i \in 0 .. v.total - 1 : ~ v.ring[i]}
  BY DEF FailedSlots
<1> HIDE DEF v, F, G
<1>8. \A i \in Slots : v.ring[i] = IF i = h THEN success ELSE w.ring[i]
  BY <1>1, <1>2
<1>9. h \in F <=> w.total = Size /\ ~ w.ring[h]
  BY <1>1, <1>6 DEF Slots
<1>10. G \ {h} = F \ {h}
  <2>1. ASSUME NEW i, i # h PROVE i \in 0 .. v.total - 1 <=> i \in 0 .. w.total - 1
    BY <1>1, <1>2, <2>1 DEF Slots
  <2>2. ASSUME NEW i, i # h, i \in 0 .. w.total - 1 PROVE v.ring[i] = w.ring[i]
    <3>1. i \in Slots
      BY <1>1, <2>2 DEF Slots
    <3>2. QED
      BY <1>8, <2>2, <3>1
  <2>3. ASSUME NEW i, i # h PROVE i \in G <=> i \in F
    BY <1>6, <1>7, <2>1, <2>2, <2>3
  <2>4. QED
    BY <2>3
<1>11. h \in G <=> ~ success
  BY <1>1, <1>2, <1>7, <1>8 DEF Slots
<1>12. /\ IsFiniteSet(F \ {h})
       /\ Cardinality(F \ {h}) = IF h \in F THEN Cardinality(F) - 1 ELSE Cardinality(F)
  BY <1>5, FS_RemoveElement
<1>13. Cardinality(G) = Cardinality(F \ {h}) + (IF success THEN 0 ELSE 1)
  <2>1. CASE success
    <3>1. G = F \ {h}
      BY <1>10, <1>11, <2>1
    <3>2. Cardinality(F \ {h}) \in Nat
      BY <1>12, FS_CardinalityType
    <3>3. QED
      BY <2>1, <3>1, <3>2
  <2>2. CASE ~ success
    <3>1. G = (F \ {h}) \union {h}
      BY <1>10, <1>11, <2>2
    <3>2. Cardinality((F \ {h}) \union {h}) = Cardinality(F \ {h}) + 1
      BY <1>12, FS_AddElement
    <3>3. QED
      BY <2>2, <3>1, <3>2
  <2>3. QED
    BY <2>1, <2>2
<1>14. v.failures = Cardinality(G)
  BY <1>1, <1>2, <1>5, <1>9, <1>12, <1>13
<1>15. Cardinality(G) \in 0 .. Size
  <2>1. IsFiniteSet(0 .. v.total - 1) /\ Cardinality(0 .. v.total - 1) = v.total
    <3>1. 0 \in Int /\ v.total - 1 \in Int
      BY <1>1, <1>3
    <3>2. /\ IsFiniteSet(0 .. v.total - 1)
          /\ Cardinality(0 .. v.total - 1) =
                IF 0 > v.total - 1 THEN 0 ELSE (v.total - 1) - 0 + 1
      BY <3>1, FS_Interval
    <3>3. QED
      BY <1>1, <1>3, <3>2
  <2>2. G \subseteq 0 .. v.total - 1
    BY <1>7
  <2>3. IsFiniteSet(G) /\ Cardinality(G) <= v.total
    BY <2>1, <2>2, FS_Subset
  <2>4. Cardinality(G) \in Nat
    BY <2>3, FS_CardinalityType
  <2>5. QED
    BY <1>1, <1>3, <2>3, <2>4
<1>16. v = [ring |-> v.ring, head |-> v.head, total |-> v.total, failures |-> v.failures]
  BY DEF v, record
<1>17. v \in Windows
  BY <1>3, <1>14, <1>15, <1>16 DEF Windows
<1>18. Exact(v)
  BY <1>4, <1>14 DEF Exact, G
<1>19. QED
  BY <1>17, <1>18 DEF v

LEMMA ResetExact ==
    ASSUME NEW w \in Windows
    PROVE  reset(w) \in Windows /\ Exact(reset(w))
<1> DEFINE v == reset(w)
<1>1. v.head = 0 /\ v.total = 0 /\ v.failures = 0
  BY DEF reset
<1>2. v \in Windows
  BY SizePositive DEF reset, Windows, Slots
<1>3. FailedSlots(v) = {}
  BY <1>1 DEF FailedSlots
<1>4. Exact(v)
  BY <1>1, <1>3, FS_EmptySet DEF Exact
<1>5. QED
  BY <1>2, <1>4
-----------------------------------------------------------------------------
\* The inductive invariant: the type, the exact counter, and the two facts
\* about the state machine.
Inv == TypeOK /\ WindowExact /\ ClosedMeansBelowThreshold /\ ProbingHasProbe

LEMMA InitInv == Init => Inv
<1> SUFFICES ASSUME Init PROVE Inv
  OBVIOUS
<1>1. win.head = 0 /\ win.total = 0 /\ win.failures = 0
  BY DEF Init, newWindow
<1>2. win \in Windows
  BY SizePositive DEF Init, newWindow, Windows, Slots
<1>3. TypeOK
  <2>1. 0 \in 0 .. OpenTimeout
    BY BreakerAssumption
  <2>2. call \in [Callers -> {"none", "normal", "probe"}]
    BY DEF Init
  <2>3. QED
    BY <1>2, <2>1, <2>2, Zenon DEF Init, TypeOK
<1>4. WindowExact
  <2>1. FailedSlots(win) = {}
    BY <1>1 DEF FailedSlots
  <2>2. QED
    BY <1>1, <2>1, FS_EmptySet DEF WindowExact, Exact
<1>5. ClosedMeansBelowThreshold
  BY <1>1 DEF ClosedMeansBelowThreshold, shouldTrip, RateReaches
<1>6. ProbingHasProbe
  BY DEF Init, ProbingHasProbe
<1>7. QED
  BY <1>3, <1>4, <1>5, <1>6 DEF Inv

\* A step that records nothing and does not close the circuit keeps the
\* window's part of the invariant.
LEMMA WindowUntouched ==
    ASSUME Inv, UNCHANGED win, state' = "closed" => state = "closed"
    PROVE  WindowExact' /\ ClosedMeansBelowThreshold'
BY DEF Inv, WindowExact, ClosedMeansBelowThreshold

LEMMA AfterCallInv ==
    ASSUME Inv, NEW c \in Callers, NEW success \in BOOLEAN, afterCall(c, success)
    PROVE  Inv'
<1>0. /\ win \in Windows /\ Exact(win) /\ age \in 0 .. OpenTimeout
      /\ OpenTimeout \in Nat
      /\ call' \in [Callers -> {"none", "normal", "probe"}] /\ healthy' \in BOOLEAN
      /\ lost \in BOOLEAN
  BY BreakerAssumption DEF Inv, TypeOK, WindowExact, afterCall
<1>1. CASE AfterClosed(success)
  <2>1. win' = record(win, success) /\ win' \in Windows /\ WindowExact'
    BY <1>0, <1>1, RecordExact DEF AfterClosed, WindowExact
  <2>2. CASE shouldTrip(win')
    <3>1. state' = "open" /\ age' = 0 /\ probing' = probing /\ lost' = lost /\ state = "closed"
      BY <1>1, <2>2 DEF AfterClosed, transition
    <3>2. TypeOK'
      BY <1>0, <2>1, <3>1 DEF TypeOK, Inv
    <3>3. ClosedMeansBelowThreshold' /\ ProbingHasProbe'
      BY <3>1 DEF ClosedMeansBelowThreshold, ProbingHasProbe, Inv
    <3>4. QED
      BY <2>1, <3>2, <3>3 DEF Inv
  <2>3. CASE ~ shouldTrip(win')
    <3>1. state' = state /\ age' = age /\ probing' = probing /\ lost' = lost /\ state = "closed"
      BY <1>1, <2>3 DEF AfterClosed
    <3>2. TypeOK'
      BY <1>0, <2>1, <3>1 DEF TypeOK, Inv
    <3>3. ClosedMeansBelowThreshold' /\ ProbingHasProbe'
      BY <2>3, <3>1 DEF ClosedMeansBelowThreshold, ProbingHasProbe, Inv, shouldTrip
    <3>4. QED
      BY <2>1, <3>2, <3>3 DEF Inv
  <2>4. QED
    BY <2>2, <2>3
<1>2. CASE AfterHalfOpen(success)
  <2>0. 0 \in 0 .. OpenTimeout
    BY <1>0
  <2>1. /\ age' = 0 /\ probing' = FALSE /\ lost' = FALSE
        /\ state' = IF success THEN "closed" ELSE "open"
    BY <1>2 DEF AfterHalfOpen, transition
  <2>2. ProbingHasProbe'
    BY <2>1 DEF ProbingHasProbe
  <2>3. CASE success
    <3>1. win' = reset(win) /\ win' \in Windows /\ WindowExact'
      BY <1>0, <1>2, <2>3, ResetExact DEF AfterHalfOpen, WindowExact
    <3>2. TypeOK'
      BY <1>0, <2>0, <2>1, <3>1, Zenon DEF TypeOK
    <3>3. ClosedMeansBelowThreshold'
      BY <3>1 DEF ClosedMeansBelowThreshold, shouldTrip, RateReaches, reset
    <3>4. QED
      BY <2>2, <3>1, <3>2, <3>3 DEF Inv
  <2>4. CASE ~ success
    <3>1. win' = win /\ state' = "open"
      BY <1>2, <2>1, <2>4 DEF AfterHalfOpen
    <3>2. TypeOK'
      BY <1>0, <2>0, <2>1, <3>1, Zenon DEF TypeOK
    <3>3. QED
      BY <2>2, <3>1, <3>2, WindowUntouched DEF Inv
  <2>5. QED
    BY <2>3, <2>4
<1>3. CASE AfterOpen
  <2>1. /\ win' = win /\ state' = "open" /\ age' = age /\ probing' = probing
        /\ lost' = lost /\ state = "open"
    BY <1>3 DEF AfterOpen, breakerVars
  <2>2. TypeOK' /\ ProbingHasProbe'
    BY <1>0, <2>1 DEF TypeOK, Inv, ProbingHasProbe
  <2>3. QED
    BY <2>1, <2>2, WindowUntouched DEF Inv
<1>4. QED
  BY <1>1, <1>2, <1>3 DEF afterCall

LEMMA BeforeCallInv ==
    ASSUME Inv, NEW c \in Callers, beforeCall(c)
    PROVE  Inv'
<1>1. /\ OpenTimeout \in Nat /\ age \in 0 .. OpenTimeout /\ win \in Windows
      /\ state \in {"closed", "open", "halfOpen"} /\ probing \in BOOLEAN /\ lost \in BOOLEAN
      /\ call \in [Callers -> {"none", "normal", "probe"}]
  BY BreakerAssumption DEF Inv, TypeOK
<1>2. /\ win' = win /\ healthy' = healthy /\ lost' = lost
      /\ state' = IF state = "open" /\ age >= OpenTimeout THEN "halfOpen" ELSE state
      /\ age' \in 0 .. OpenTimeout
  BY <1>1 DEF beforeCall, Advanced
<1>3. WindowExact' /\ ClosedMeansBelowThreshold'
  BY <1>1, <1>2, WindowUntouched
<1>4. \/ probing' = probing /\ state' = state /\ call[c] # "probe"
         /\ (call' = call \/ call' = [call EXCEPT ![c] = "normal"])
      \/ probing' = TRUE /\ state' = "halfOpen" /\ call' = [call EXCEPT ![c] = "probe"]
      \/ probing' = probing /\ call' = call /\ state' = "halfOpen"
  BY <1>1, <1>2 DEF beforeCall
<1>5. TypeOK'
  BY <1>1, <1>2, <1>4 DEF TypeOK, Inv
<1>6. ProbingHasProbe'
  BY <1>1, <1>2, <1>4 DEF ProbingHasProbe, Inv
<1>7. QED
  BY <1>3, <1>5, <1>6 DEF Inv

\* A panic takes no probe away without being remembered in lost.
LEMMA CallPanicsInv ==
    ASSUME Inv, NEW c \in Callers, CallPanics(c)
    PROVE  Inv'
<1>1. /\ UNCHANGED <<state, win, age, probing, healthy>>
      /\ call \in [Callers -> {"none", "normal", "probe"}]
      /\ call' = [call EXCEPT ![c] = "none"]
      /\ probing \in BOOLEAN /\ lost \in BOOLEAN
      /\ lost' = (lost \/ (probing /\ call[c] = "probe"))
  BY DEF Inv, TypeOK, CallPanics, breakerVars
<1>2. TypeOK'
  <2>1. call' \in [Callers -> {"none", "normal", "probe"}]
    BY <1>1
  <2>2. lost' \in BOOLEAN
    BY <1>1
  <2>3. QED
    BY <1>1, <2>1, <2>2 DEF Inv, TypeOK
<1>3. ProbingHasProbe'
  <2>1. SUFFICES ASSUME probing', ~ lost'
                 PROVE  state' = "halfOpen" /\ \E d \in Callers : call'[d] = "probe"
    BY <1>1 DEF ProbingHasProbe, Inv
  <2>2. PICK d \in Callers : call[d] = "probe"
    BY <1>1, <2>1 DEF ProbingHasProbe, Inv
  <2>3. d # c /\ call'[d] = "probe"
    BY <1>1, <2>1, <2>2
  <2>4. QED
    BY <1>1, <2>1, <2>3 DEF ProbingHasProbe, Inv
<1>4. QED
  BY <1>1, <1>2, <1>3, WindowUntouched DEF Inv

LEMMA NextInv == Inv /\ [Next]_vars => Inv'
<1> SUFFICES ASSUME Inv, [Next]_vars PROVE Inv'
  OBVIOUS
<1>0. OpenTimeout \in Nat /\ age \in 0 .. OpenTimeout
  BY BreakerAssumption DEF Inv, TypeOK
<1>1. ASSUME NEW c \in Callers, CallReturns(c) PROVE Inv'
  BY <1>1, AfterCallInv DEF CallReturns
<1>2. CASE ReadState
  <2>1. /\ win' = win /\ healthy' = healthy /\ probing' = probing /\ call' = call
        /\ lost' = lost
        /\ state' = state \/ state' = "halfOpen"
        /\ age' \in 0 .. OpenTimeout
    BY <1>0, <1>2 DEF ReadState, Advanced
  <2>2. TypeOK' /\ ProbingHasProbe'
    BY <2>1 DEF TypeOK, Inv, ProbingHasProbe
  <2>3. QED
    BY <2>1, <2>2, WindowUntouched DEF Inv
<1>3. CASE Tick
  <2>1. TypeOK' /\ ProbingHasProbe'
    BY <1>0, <1>3 DEF Tick, TypeOK, Inv, ProbingHasProbe
  <2>2. QED
    BY <1>3, <2>1, WindowUntouched DEF Inv, Tick
<1>4. CASE HealthChanges
  <2>1. TypeOK' /\ ProbingHasProbe'
    BY <1>4 DEF HealthChanges, breakerVars, TypeOK, Inv, ProbingHasProbe
  <2>2. QED
    BY <1>4, <2>1, WindowUntouched DEF Inv, HealthChanges, breakerVars
<1>5. CASE UNCHANGED vars
  <2>1. TypeOK' /\ ProbingHasProbe'
    BY <1>5 DEF vars, TypeOK, Inv, ProbingHasProbe
  <2>2. QED
    BY <1>5, <2>1, WindowUntouched DEF Inv, vars
<1>6. QED
  BY <1>1, <1>2, <1>3, <1>4, <1>5, BeforeCallInv, CallPanicsInv DEF Next

\* The failure counter of the window is exact for every window size and every
\* sequence of calls, evictions and resets (window.go).
THEOREM CounterExact == Spec => []WindowExact
<1>1. Inv => WindowExact
  BY DEF Inv
<1>2. QED
  BY InitInv, NextInv, <1>1, PTL DEF Spec

\* The breaker is never closed on a window that calls for tripping it.
THEOREM ClosedBelowThreshold == Spec => []ClosedMeansBelowThreshold
<1>1. Inv => ClosedMeansBelowThreshold
  BY DEF Inv
<1>2. QED
  BY InitInv, NextInv, <1>1, PTL DEF Spec

\* A set probing flag always has its probe in flight in the half-open state,
\* so no caller is shed for a probe that is gone, except for one that panicked.
THEOREM ProbingIsOwned == Spec => []ProbingHasProbe
<1>1. Inv => ProbingHasProbe
  BY DEF Inv
<1>2. QED
  BY InitInv, NextInv, <1>1, PTL DEF Spec

\* The state of the breaker keeps its shape: in particular the window's head
\* and counters stay within the ring.
THEOREM BreakerTypeCorrect == Spec => []TypeOK
<1>1. Inv => TypeOK
  BY DEF Inv
<1>2. QED
  BY InitInv, NextInv, <1>1, PTL DEF Spec

\* breaker.go:115 leaves a MinimumCalls above the window's capacity as it is;
\* such a breaker never trips, whatever fails.
THEOREM NeverTrips ==
    ASSUME Minimum > Size
    PROVE  Spec => [](state = "closed")
<1> DEFINE Closed == state = "closed"
<1>1. Init => Closed
  BY DEF Init
<1>2. Inv /\ Closed /\ Inv' /\ [Next]_vars => Closed'
  <2> SUFFICES ASSUME Inv, state = "closed", Inv', [Next]_vars PROVE state' = "closed"
    OBVIOUS
  <2>1. Minimum \in Int /\ Size \in Nat
    BY SizePositive, BreakerAssumption DEF Minimum
  <2>2. win'.total \in 0 .. Size
    BY DEF Inv, TypeOK, Windows
  <2>3. ~ shouldTrip(win')
    BY <2>1, <2>2 DEF shouldTrip
  <2>4. ASSUME NEW c \in Callers, CallReturns(c) PROVE state' = "closed"
    BY <2>3, <2>4 DEF CallReturns, afterCall, AfterClosed, AfterHalfOpen, AfterOpen
  <2>5. ASSUME NEW c \in Callers, beforeCall(c) \/ CallPanics(c) PROVE state' = "closed"
    BY <2>5 DEF beforeCall, Advanced, CallPanics, breakerVars
  <2>6. CASE ReadState \/ Tick \/ HealthChanges \/ UNCHANGED vars
    BY <2>6 DEF ReadState, Advanced, Tick, HealthChanges, breakerVars, vars
  <2>7. QED
    BY <2>4, <2>5, <2>6 DEF Next
<1> HIDE DEF Closed
<1>3. Spec => []Closed
  BY <1>1, <1>2, InitInv, NextInv, PTL DEF Spec
<1>4. QED
  BY <1>3 DEF Closed

-----------------------------------------------------------------------------
(***************************************************************************)
(* The window implements the sliding window of module SlidingWindow.       *)
(***************************************************************************)
\* The slot of the i-th oldest outcome.
LEMMA SlotOf ==
    ASSUME NEW h \in Slots, NEW t \in 0 .. Size, NEW i \in 1 .. t
    PROVE  /\ (h - t + i - 1) % Size =
                 IF h - t + i - 1 < 0 THEN h - t + i - 1 + Size ELSE h - t + i - 1
           /\ (h - t + i - 1) % Size \in Slots
<1>1. Size \in Nat /\ Size >= 1 /\ h \in 0 .. Size - 1 /\ t \in Int /\ i \in Int
  BY SizePositive DEF Slots
<1>2. h - t + i - 1 \in - Size .. Size - 1
  BY <1>1
<1>3. ASSUME NEW x \in Int, NEW n \in Nat, n >= 1, x \in - n .. n - 1
      PROVE  x % n = IF x < 0 THEN x + n ELSE x
  BY <1>3
<1> DEFINE x == h - t + i - 1
<1>4. x \in Int
  BY <1>1
<1>5. x % Size = IF x < 0 THEN x + Size ELSE x
  <2> HIDE DEF x
  <2>1. QED
    BY <1>1, <1>2, <1>4, <1>3 DEF x
<1>6. QED
  BY <1>1, <1>2, <1>5 DEF Slots

LEMMA OutcomesTyped ==
    ASSUME NEW w \in Windows
    PROVE  /\ w.total \in Nat /\ Outcomes(w) \in Seq(BOOLEAN) /\ Len(Outcomes(w)) = w.total
           /\ \A i \in 1 .. w.total :
                 Outcomes(w)[i] = w.ring[(w.head - w.total + i - 1) % Size]
<1>1. /\ w.ring \in [Slots -> BOOLEAN] /\ w.head \in Slots /\ w.total \in 0 .. Size
      /\ w.total \in Nat
  BY SizePositive DEF Windows
<1>2. \A i \in 1 .. w.total : w.ring[(w.head - w.total + i - 1) % Size] \in BOOLEAN
  BY <1>1, SlotOf
<1>3. Outcomes(w) \in [1 .. w.total -> BOOLEAN]
  BY <1>2 DEF Outcomes
<1>4. \A i \in 1 .. w.total :
         Outcomes(w)[i] = w.ring[(w.head - w.total + i - 1) % Size]
  BY DEF Outcomes
<1> DEFINE s == Outcomes(w)
           n == w.total
<1>5. s \in [1 .. n -> BOOLEAN] /\ n \in Nat
  BY <1>1, <1>3
<1> HIDE DEF s, n
<1>6. s \in Seq(BOOLEAN) /\ Len(s) = n
  BY <1>5
<1>7. QED
  BY <1>1, <1>4, <1>6 DEF s, n

\* record drops the oldest outcome of a full ring and adds the new one.
LEMMA RecordSlides ==
    ASSUME NEW w \in Windows, Exact(w), NEW success \in BOOLEAN
    PROVE  Outcomes(record(w, success)) = Sliding!LastOf(Append(Outcomes(w), success))
<1> DEFINE v == record(w, success)
           h == w.head
           n == w.total
           k == v.head
           p == v.total
           s == Outcomes(w)
           u == Outcomes(v)
           a == Append(s, success)
<1>1. /\ w.ring \in [Slots -> BOOLEAN] /\ h \in Slots /\ n \in 0 .. Size
      /\ n < Size => h = n
  BY DEF Windows, Exact
<1>2. Size \in Nat /\ Size >= 1 /\ h \in 0 .. Size - 1
  BY <1>1, SizePositive DEF Slots
<1>3. v \in Windows
  BY RecordExact
<1>4. /\ v.ring = [w.ring EXCEPT ![h] = success]
      /\ k = IF h + 1 = Size THEN 0 ELSE h + 1
      /\ p = IF n = Size THEN Size ELSE n + 1
  BY <1>1, NextHead DEF record
<1>5. k \in Slots /\ p \in 0 .. Size
  BY <1>3 DEF Windows
<1>6. /\ s \in Seq(BOOLEAN) /\ Len(s) = n
      /\ \A i \in 1 .. n : s[i] = w.ring[(h - n + i - 1) % Size]
  BY OutcomesTyped
<1>7. /\ u \in Seq(BOOLEAN) /\ Len(u) = p
      /\ \A i \in 1 .. p : u[i] = v.ring[(k - p + i - 1) % Size]
  BY <1>3, OutcomesTyped
<1>8. /\ a \in Seq(BOOLEAN) /\ Len(a) = Len(s) + 1
      /\ \A i \in 1 .. Len(s) : a[i] = s[i]
      /\ a[Len(s) + 1] = success
  BY <1>6, AppendProperties
<1> HIDE DEF v, h, n, k, p, s, u, a
<1>9. \A i \in Slots : v.ring[i] = IF i = h THEN success ELSE w.ring[i]
  BY <1>1, <1>4
<1>10. Len(a) = n + 1 /\ (\A i \in 1 .. n : a[i] = s[i]) /\ a[n + 1] = success
  BY <1>6, <1>8
<1>11. CASE n < Size
  <2>1. h = n /\ p = n + 1 /\ n \in Nat
    BY <1>1, <1>2, <1>4, <1>11
  <2>2. ASSUME NEW i \in 1 .. n PROVE s[i] = w.ring[i - 1]
    <3>1. (h - n + i - 1) % Size =
             IF h - n + i - 1 < 0 THEN h - n + i - 1 + Size ELSE h - n + i - 1
      BY <1>1, SlotOf
    <3>2. (IF h - n + i - 1 < 0 THEN h - n + i - 1 + Size ELSE h - n + i - 1) = i - 1
      BY <2>1
    <3>3. QED
      BY <1>6, <3>1, <3>2
  <2>3. ASSUME NEW i \in 1 .. n + 1 PROVE u[i] = v.ring[i - 1]
    <3>1. (k - p + i - 1) % Size =
             IF k - p + i - 1 < 0 THEN k - p + i - 1 + Size ELSE k - p + i - 1
      BY <1>5, <2>1, SlotOf
    <3>2. (IF k - p + i - 1 < 0 THEN k - p + i - 1 + Size ELSE k - p + i - 1) = i - 1
      BY <1>2, <1>4, <2>1
    <3>3. QED
      BY <1>7, <2>1, <3>1, <3>2
  <2>4. ASSUME NEW i \in 1 .. n + 1 PROVE u[i] = a[i]
    <3>1. i - 1 \in Slots
      BY <1>2, <1>11, <2>1 DEF Slots
    <3>2. CASE i = n + 1
      BY <1>9, <1>10, <2>1, <2>3, <3>1, <3>2
    <3>3. CASE i # n + 1
      <4>1. i \in 1 .. n /\ i - 1 # h
        BY <2>1, <3>3
      <4>2. QED
        BY <1>9, <1>10, <2>2, <2>3, <3>1, <4>1
    <3>4. QED
      BY <3>2, <3>3
  <2>5. Len(u) = Len(a) /\ Len(u) = n + 1
    BY <1>7, <1>10, <2>1
  <2>6. u = a
    BY <1>7, <1>8, <2>4, <2>5, SeqEqual
  <2>7. ~ (Len(a) > Size)
    BY <1>2, <1>10, <1>11, <2>1
  <2>8. QED
    BY <2>6, <2>7 DEF Sliding!LastOf, u, v, a, s
<1>12. CASE n = Size
  <2>1. p = n /\ n \in Nat /\ n >= 1
    BY <1>2, <1>4, <1>12
  <2>2. ASSUME NEW i \in 1 .. n, i < n PROVE u[i] = s[i + 1]
    <3> DEFINE x == (h - n + (i + 1) - 1) % Size
               y == (k - p + i - 1) % Size
    <3>1. i + 1 \in 1 .. n
      BY <2>1, <2>2
    <3>2. x = IF h - n + (i + 1) - 1 < 0 THEN h - n + (i + 1) - 1 + Size
              ELSE h - n + (i + 1) - 1
      BY <1>1, <3>1, SlotOf
    <3>3. x \in Slots
      BY <1>1, <3>1, SlotOf
    <3>4. y = IF k - p + i - 1 < 0 THEN k - p + i - 1 + Size ELSE k - p + i - 1
      BY <1>5, <2>1, SlotOf
    <3>5. s[i + 1] = w.ring[x] /\ u[i] = v.ring[y]
      BY <1>6, <1>7, <2>1, <3>1
    <3> HIDE DEF x, y
    <3>6. x = y /\ x # h
      BY <1>2, <1>4, <1>12, <2>1, <2>2, <3>2, <3>4
    <3>7. QED
      BY <1>9, <3>3, <3>5, <3>6
  <2>3. u[n] = success
    <3> DEFINE y == (k - p + n - 1) % Size
    <3>1. n \in 1 .. p
      BY <2>1
    <3>2. y = IF k - p + n - 1 < 0 THEN k - p + n - 1 + Size ELSE k - p + n - 1
      BY <1>5, <3>1, SlotOf
    <3>3. u[n] = v.ring[y]
      BY <1>7, <3>1
    <3> HIDE DEF y
    <3>4. y = h
      BY <1>2, <1>4, <1>12, <2>1, <3>2
    <3>5. QED
      BY <1>1, <1>9, <3>3, <3>4
  <2>4. /\ Tail(a) \in Seq(BOOLEAN) /\ Len(Tail(a)) = n
        /\ \A i \in 1 .. n : Tail(a)[i] = a[i + 1]
    <3>1. a # <<>>
      BY <1>10, <2>1
    <3>2. /\ Tail(a) \in Seq(BOOLEAN) /\ Len(Tail(a)) = Len(a) - 1
          /\ \A i \in 1 .. Len(Tail(a)) : Tail(a)[i] = a[i + 1]
      BY <1>8, <3>1, HeadTailProperties
    <3>3. QED
      BY <1>10, <2>1, <3>2
  <2>5. ASSUME NEW i \in 1 .. n PROVE u[i] = Tail(a)[i]
    <3>1. Tail(a)[i] = a[i + 1]
      BY <2>4
    <3>2. CASE i = n
      BY <1>10, <2>3, <3>1, <3>2
    <3>3. CASE i # n
      <4>1. i < n /\ i + 1 \in 1 .. n
        BY <2>1, <3>3
      <4>2. QED
        BY <1>10, <2>2, <3>1, <4>1
    <3>4. QED
      BY <3>2, <3>3
  <2>6. Len(u) = Len(Tail(a)) /\ Len(u) = n
    BY <1>7, <2>1, <2>4
  <2>7. u = Tail(a)
    BY <1>7, <2>4, <2>5, <2>6, SeqEqual
  <2>8. Len(a) > Size
    BY <1>10, <1>12, <2>1
  <2>9. QED
    BY <2>7, <2>8 DEF Sliding!LastOf, u, v, a, s
<1>13. QED
  BY <1>1, <1>2, <1>11, <1>12

\* A window of no outcomes shows none, whatever the ring still holds.
LEMMA EmptyOutcomes ==
    ASSUME NEW w \in Windows, w.total = 0 PROVE Outcomes(w) = <<>>
<1>1. Outcomes(w) \in Seq(BOOLEAN) /\ Len(Outcomes(w)) = 0
  BY OutcomesTyped
<1>2. QED
  BY <1>1, EmptySeq

\* window.go with its ring, its head and its wrap-around keeps exactly the
\* outcomes of the last Size calls since the last reset, in their order.
THEOREM WindowSlides == Spec => KeepsLastOutcomes
<1>1. Init => Outcomes(win) = <<>>
  <2>1. Init => win \in Windows /\ win.total = 0
    BY InitInv DEF Inv, TypeOK, Init, newWindow
  <2>2. QED
    BY <2>1, EmptyOutcomes
<1>2. Inv /\ [Next]_vars =>
         [Sliding!Record \/ Sliding!Reset]_(Outcomes(win))
  <2> SUFFICES ASSUME Inv, [Next]_vars
               PROVE  \/ Sliding!Record \/ Sliding!Reset
                      \/ Outcomes(win)' = Outcomes(win)
    OBVIOUS
  <2>1. win \in Windows /\ Exact(win)
    BY DEF Inv, TypeOK, WindowExact
  <2>2. ASSUME NEW success \in BOOLEAN, win' = record(win, success) PROVE Sliding!Record
    <3>1. Outcomes(win)' = Sliding!LastOf(Append(Outcomes(win), success))
      BY <2>1, <2>2, RecordSlides DEF Outcomes
    <3>2. QED
      BY <3>1 DEF Sliding!Record
  <2>3. ASSUME win' = reset(win) PROVE Sliding!Reset
    <3>1. reset(win) \in Windows /\ reset(win).total = 0
      BY <2>1, ResetExact DEF reset
    <3>2. QED
      BY <2>3, <3>1, EmptyOutcomes DEF Sliding!Reset
  <2>4. ASSUME win' = win PROVE Outcomes(win)' = Outcomes(win)
    BY <2>4 DEF Outcomes
  <2>5. ASSUME NEW c \in Callers, CallReturns(c)
        PROVE  \/ \E success \in BOOLEAN : win' = record(win, success)
               \/ win' = reset(win) \/ win' = win
    BY <2>5 DEF CallReturns, afterCall, AfterClosed, AfterHalfOpen, AfterOpen, breakerVars
  <2>6. ASSUME NEW c \in Callers, beforeCall(c) \/ CallPanics(c) PROVE win' = win
    BY <2>6 DEF beforeCall, CallPanics, breakerVars
  <2>7. CASE ReadState \/ Tick \/ HealthChanges \/ UNCHANGED vars
    BY <2>4, <2>7 DEF ReadState, Tick, HealthChanges, breakerVars, vars
  <2>8. QED
    BY <2>2, <2>3, <2>4, <2>5, <2>6, <2>7 DEF Next
<1>3. QED
  BY <1>1, <1>2, InitInv, NextInv, PTL DEF Spec, KeepsLastOutcomes, Sliding!SlidingSpec
=============================================================================
