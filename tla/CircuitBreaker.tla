--------------------------- MODULE CircuitBreaker ---------------------------
(***************************************************************************)
(* engine/resilience.go, CircuitBreaker: callers ask Allow, do their       *)
(* request without holding the lock, and report its outcome when it ends.  *)
(* Reports can therefore arrive long after the breaker changed state.      *)
(* The breaker's specification has names of its own: RemoteProofs reasons  *)
(* about it beside ModelCall, the other half of resilience.go.             *)
(***************************************************************************)
EXTENDS Naturals

CONSTANTS
    Clients,    \* goroutines that guard their requests with one breaker
    Threshold   \* CircuitBreaker.threshold

ASSUME BreakerAssumption == Threshold \in Nat \ {0}

VARIABLES
    state,      \* cbClosed, cbOpen, cbHalfOpen
    failures,   \* CircuitBreaker.failures
    timedOut,   \* time.Since(openedAt) >= openTimeout
    inFlight,   \* callers that were allowed and have not reported yet
    streak,     \* failures reported since the last success, up to Threshold (history)
    healthy,    \* whether the guarded service answers
    exposed     \* requests in flight that met the service while it did not

breakerVars == <<state, failures, timedOut, inFlight, streak, healthy, exposed>>

cbStates == {"Closed", "Open", "HalfOpen"}

BreakerInit ==
    /\ state = "Closed"
    /\ failures = 0
    /\ timedOut = FALSE
    /\ inFlight = {}
    /\ streak = 0
    /\ healthy \in BOOLEAN
    /\ exposed = {}
-----------------------------------------------------------------------------
\* Mutant: an open breaker never turns half-open.
AllowNever(c) ==
    /\ c \notin inFlight
    /\ state # "Open"
    /\ inFlight' = inFlight \cup {c}
    /\ exposed' = IF healthy THEN exposed ELSE exposed \cup {c}
    /\ UNCHANGED <<state, failures, timedOut, streak, healthy>>

\* Allow returns true.  When it returns false nothing changes.
Allow(c) ==
    /\ c \notin inFlight
    /\ state = "Open" => timedOut
    /\ state' = IF state = "Open" THEN "HalfOpen" ELSE state
    /\ inFlight' = inFlight \cup {c}
    /\ exposed' = IF healthy THEN exposed ELSE exposed \cup {c}
    /\ UNCHANGED <<failures, timedOut, streak, healthy>>

\* A request that succeeds closes the breaker in whatever state it is.
RecordSuccess(c) ==
    /\ c \in inFlight
    /\ inFlight' = inFlight \ {c}
    /\ exposed' = exposed \ {c}
    /\ failures' = 0
    /\ state' = "Closed"
    /\ streak' = 0
    /\ UNCHANGED <<timedOut, healthy>>

\* Mutant: the breaker opens late.
OpensLate == state = "HalfOpen" \/ failures > Threshold

\* The condition of RecordFailure, after failures++.
Opens == state = "HalfOpen" \/ failures + 1 >= Threshold

\* A request that met a failing service may fail, also after it has recovered.
RecordFailure(c) ==
    /\ c \in inFlight
    /\ c \in exposed
    /\ inFlight' = inFlight \ {c}
    /\ exposed' = exposed \ {c}
    /\ streak' = IF streak < Threshold THEN streak + 1 ELSE streak
    /\ \/ /\ Opens
          /\ state' = "Open"
          /\ timedOut' = FALSE
          /\ failures' = 0
       \/ /\ ~Opens
          /\ failures' = failures + 1
          /\ UNCHANGED <<state, timedOut>>
    /\ UNCHANGED healthy

\* openTimeout passes.
Elapse ==
    /\ state = "Open"
    /\ timedOut' = TRUE
    /\ UNCHANGED <<state, failures, inFlight, streak, healthy, exposed>>

\* The service fails or recovers.
Weather ==
    /\ healthy' = ~healthy
    /\ exposed' = IF healthy THEN inFlight ELSE exposed
    /\ UNCHANGED <<state, failures, timedOut, inFlight, streak>>

BreakerNext ==
    \/ \E c \in Clients : Allow(c) \/ RecordSuccess(c) \/ RecordFailure(c)
    \/ Elapse
    \/ Weather

BreakerSpec == BreakerInit /\ [][BreakerNext]_breakerVars

\* Time passes, callers keep asking and every request ends, one way or the
\* other: reporting is fair as a whole, not per outcome.
BreakerFairness ==
    /\ WF_breakerVars(Elapse)
    /\ \A c \in Clients :
          WF_breakerVars(Allow(c)) /\ WF_breakerVars(RecordSuccess(c) \/ RecordFailure(c))

BreakerFairSpec == BreakerSpec /\ BreakerFairness
-----------------------------------------------------------------------------
\* The counter never stands at the threshold: reaching it opens the breaker and
\* resets it in the same critical section (resilience.go:133-137).
BreakerTypeOK ==
    /\ state \in cbStates
    /\ failures \in 0 .. Threshold - 1
    /\ timedOut \in BOOLEAN
    /\ inFlight \subseteq Clients
    /\ streak \in 0..Threshold
    /\ healthy \in BOOLEAN
    /\ exposed \subseteq inFlight

\* A closed breaker has seen fewer than Threshold failures since the last
\* success, however late and in whatever order the outcomes were reported: the
\* reset of the counter on opening (line 136) hides no failure from it.  This
\* is what the code offers in place of the "sliding failure-rate window" of
\* its comment (lines 80-81): failures in a row, of any age.
ClosedMeansFewFailures == state = "Closed" => streak < Threshold

\* Once the service stays healthy the breaker closes and stays closed: reports
\* of old failures may restart the open period but not for ever.
Recovers == <>[]healthy => <>[](state = "Closed")
=============================================================================
