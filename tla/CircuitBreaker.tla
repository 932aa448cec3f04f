--------------------------- MODULE CircuitBreaker ---------------------------
(***************************************************************************)
(* system-design/circuit-breaker/breaker.go: the three-state breaker, its  *)
(* window and the goroutines that call Execute.  beforeCall and afterCall  *)
(* are one critical section of cb.mu each; the upstream call runs between  *)
(* them without the lock, so any number of calls can be in flight and end  *)
(* in a state other than the one that admitted them.                       *)
(***************************************************************************)
EXTENDS Window

CONSTANTS Callers,       \* the goroutines that call Execute
          ThresholdNum,  \* Config.FailureRateThreshold as a fraction,
          ThresholdDen,  \* not positive when the user left it unset
          MinimumCalls,  \* Config.MinimumCalls as the user set it
          OpenTimeout    \* Config.OpenTimeout in clock ticks

ASSUME BreakerAssumption ==
    /\ ThresholdNum \in Int
    /\ ThresholdDen \in Nat \ {0}
    /\ MinimumCalls \in Int
    /\ OpenTimeout \in Nat \ {0}

\* The rest of applyDefaults.
Num     == IF ThresholdNum <= 0 THEN 1 ELSE ThresholdNum
Den     == IF ThresholdNum <= 0 THEN 2 ELSE ThresholdDen
Minimum == IF MinimumCalls <= 0 THEN Size ELSE MinimumCalls

VARIABLES state,    \* cb.state
          win,      \* cb.win
          age,      \* time since openedAt while open, up to OpenTimeout
          probing,  \* cb.probing
          call,     \* per caller: not calling, or the state that let it in
          healthy,  \* the upstream answers without errors
          lost      \* history: a probe panicked since probing was set

breakerVars == <<state, win, age, probing>>
vars        == <<state, win, age, probing, call, healthy, lost>>

TypeOK ==
    /\ state \in {"closed", "open", "halfOpen"}
    /\ win \in Windows
    /\ age \in 0 .. OpenTimeout
    /\ probing \in BOOLEAN
    /\ call \in [Callers -> {"none", "normal", "probe"}]
    /\ healthy \in BOOLEAN
    /\ lost \in BOOLEAN

\* New.
Init ==
    /\ state = "closed"
    /\ win = newWindow
    /\ age = 0
    /\ probing = FALSE
    /\ call = [c \in Callers |-> "none"]
    /\ healthy \in BOOLEAN
    /\ lost = FALSE
-----------------------------------------------------------------------------
\* maybeAdvanceToHalfOpen: the state every reader of cb.state sees.
Advanced == IF state = "open" /\ age >= OpenTimeout THEN "halfOpen" ELSE state

shouldTrip(w) == w.total >= Minimum /\ RateReaches(w, Num, Den)

\* transition; only entering the open state restarts the clock.
transition(newState) == state' = newState /\ age' = 0

\* Mutant: a shed call restarts the open timeout.
beforeCall_RestartsClock(c) ==
    /\ call[c] = "none"
    /\ state' = Advanced
    /\ age' = 0
    /\ \/ /\ state' = "closed"
          /\ call' = [call EXCEPT ![c] = "normal"]
          /\ UNCHANGED probing
       \/ /\ state' = "halfOpen" /\ ~ probing
          /\ probing' = TRUE
          /\ call' = [call EXCEPT ![c] = "probe"]
       \/ /\ state' = "open" \/ (state' = "halfOpen" /\ probing)
          /\ UNCHANGED <<probing, call>>
    /\ UNCHANGED <<win, healthy, lost>>

\* beforeCall: let the call through, as a probe when half-open, or shed it.
beforeCall(c) ==
    /\ call[c] = "none"
    /\ state' = Advanced
    /\ age' = IF state' = state THEN age ELSE 0
    /\ \/ /\ state' = "closed"
          /\ call' = [call EXCEPT ![c] = "normal"]
          /\ UNCHANGED probing
       \/ /\ state' = "halfOpen" /\ ~ probing
          /\ probing' = TRUE
          /\ call' = [call EXCEPT ![c] = "probe"]
       \/ /\ state' = "open" \/ (state' = "halfOpen" /\ probing)
          /\ UNCHANGED <<probing, call>>
    /\ UNCHANGED <<win, healthy, lost>>

\* afterCall by case of the state it finds.  Open: the outcome is dropped.
AfterClosed(success) ==
    /\ state = "closed"
    /\ win' = record(win, success)
    /\ IF shouldTrip(win') THEN transition("open") ELSE UNCHANGED <<state, age>>
    /\ UNCHANGED <<probing, lost>>

\* Mutant: a successful probe closes the circuit on the old window.
AfterHalfOpen_NoReset(success) ==
    /\ state = "halfOpen"
    /\ probing' = FALSE /\ lost' = FALSE
    /\ UNCHANGED win
    /\ transition(IF success THEN "closed" ELSE "open")

\* Mutant: a failed probe leaves the flag set.
AfterHalfOpen_KeepsProbing(success) ==
    /\ state = "halfOpen"
    /\ probing' = (probing /\ ~ success) /\ lost' = FALSE
    /\ win' = IF success THEN reset(win) ELSE win
    /\ transition(IF success THEN "closed" ELSE "open")

AfterHalfOpen(success) ==
    /\ state = "halfOpen"
    /\ probing' = FALSE /\ lost' = FALSE
    /\ win' = IF success THEN reset(win) ELSE win
    /\ transition(IF success THEN "closed" ELSE "open")

AfterOpen == state = "open" /\ UNCHANGED <<breakerVars, lost>>

afterCall(c, success) ==
    /\ call[c] # "none"
    /\ call' = [call EXCEPT ![c] = "none"]
    /\ AfterClosed(success) \/ AfterHalfOpen(success) \/ AfterOpen
    /\ UNCHANGED healthy

\* The upstream call returns; a healthy upstream does not fail.
CallReturns(c) == \E success \in BOOLEAN : (healthy => success) /\ afterCall(c, success)

\* The upstream call panics: the caller unwinds through Execute, past afterCall.
CallPanics(c) ==
    /\ call[c] # "none"
    /\ call' = [call EXCEPT ![c] = "none"]
    /\ lost' = (lost \/ (probing /\ call[c] = "probe"))
    /\ UNCHANGED <<breakerVars, healthy>>

\* The method State.
ReadState ==
    /\ state' = Advanced
    /\ age' = IF state' = state THEN age ELSE 0
    /\ UNCHANGED <<win, probing, call, healthy, lost>>

Tick ==
    /\ state = "open"
    /\ age < OpenTimeout
    /\ age' = age + 1
    /\ UNCHANGED <<state, win, probing, call, healthy, lost>>

\* The upstream falls ill or recovers.
HealthChanges == healthy' = ~ healthy /\ UNCHANGED <<breakerVars, call, lost>>

Next ==
    \/ \E c \in Callers : beforeCall(c) \/ CallReturns(c) \/ CallPanics(c)
    \/ ReadState
    \/ Tick
    \/ HealthChanges

Spec == Init /\ [][Next]_vars

\* Traffic keeps coming, an upstream call that does not panic returns, the
\* clock advances.
Fairness ==
    /\ \A c \in Callers : WF_vars(beforeCall(c)) /\ WF_vars(CallReturns(c))
    /\ WF_vars(Tick)

FairSpec == Spec /\ Fairness
-----------------------------------------------------------------------------
\* The failure counter agrees with the outcomes in the ring through
\* wrap-around, eviction and reset (window.go, record and reset).
WindowExact == Exact(win)

\* The breaker never stays closed on a window that should trip it, in
\* particular not after a probe closed it again.
ClosedMeansBelowThreshold == state = "closed" => ~ shouldTrip(win)

\* The probing flag belongs to a probe that is still in flight in this
\* half-open period, so a set flag is always cleared, unless a probe panicked:
\* then it stays set with nobody left to clear it (breaker.go:164).
ProbingHasProbe ==
    probing => state = "halfOpen" /\ (lost \/ \E c \in Callers : call[c] = "probe")

\* window.go keeps exactly the last Size outcomes since the last reset.
Sliding == INSTANCE SlidingWindow WITH hist <- Outcomes(win), Size <- Size
KeepsLastOutcomes == Sliding!SlidingSpec

\* Once the upstream stays healthy the breaker closes and stays closed, if no
\* probe is lost to a panic, whatever other calls panic.
Recovers == <>[](healthy /\ ~ lost) => <>[](state = "closed")

\* README 4.3, "Only one probe is allowed at a time".
SingleProbe ==
    \A c, d \in Callers : call[c] = "probe" /\ call[d] = "probe" => c = d
=============================================================================
