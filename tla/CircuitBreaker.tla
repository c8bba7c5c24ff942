--------------------------- MODULE CircuitBreaker ---------------------------
(***************************************************************************)
(* The circuit breaker in front of the Plex server                         *)
(* (src/pkg/client/circuit.go).  Every method runs under c.mu and is one   *)
(* step.  Time enters through time.Since(c.halfOpenAt) only, and only its  *)
(* comparison with the cooldown matters: sinceTrip is that difference in   *)
(* ticks, stopped at Cooldown.  lastFailureTime is written and never read. *)
(*                                                                         *)
(* BreakerSpec lets any caller call any method at any time; Proxy is the   *)
(* code that calls them.                                                   *)
(***************************************************************************)
EXTENDS Integers

CONSTANTS
  Threshold,  \* threshold, 5 in circuit.go:16, at least 1 (newCircuitBreaker)
  Cooldown,   \* cooldown in ticks, at least 0 (newCircuitBreaker)
  FailureCap  \* bound on the failure count, which nothing compares beyond
              \* the threshold

ASSUME BreakerAssumption ==
  /\ Threshold \in Nat \ {0}
  /\ Cooldown \in Nat
  /\ FailureCap \in Nat
  /\ FailureCap >= Threshold

VARIABLES
  state,               \* state
  consecutiveFailures, \* consecutiveFailures
  sinceTrip            \* time.Since(halfOpenAt), at most Cooldown

breakerVars == <<state, consecutiveFailures, sinceTrip>>

\* The breaker's fields stay within their types.
BreakerTypeOK ==
  /\ state \in {"closed", "open", "half-open"}
  /\ consecutiveFailures \in 0 .. FailureCap
  /\ sinceTrip \in 0 .. Cooldown

BreakerInit ==
  /\ state = "closed"
  /\ consecutiveFailures = 0
  /\ sinceTrip = Cooldown

-----------------------------------------------------------------------------
(* Allow *)

\* Allow() = TRUE in the closed state.
AllowClosed ==
  /\ state = "closed"
  /\ UNCHANGED breakerVars

\* Allow() = TRUE in the open state after the cooldown: the request is a probe.
AllowProbe ==
  /\ state = "open"
  /\ sinceTrip >= Cooldown
  /\ state' = "half-open"
  /\ UNCHANGED <<consecutiveFailures, sinceTrip>>

\* Allow() = FALSE: the circuit is open and cooling down, or has its probe.
Deny ==
  /\ \/ state = "open" /\ sinceTrip < Cooldown
     \/ state = "half-open"
  /\ UNCHANGED breakerVars

\* Fault: a success closes the circuit without forgetting the failures.
RecordSuccessKeepsCount ==
  /\ state' = "closed"
  /\ sinceTrip' = Cooldown
  /\ UNCHANGED consecutiveFailures

\* Fault: a success forgets the failures and leaves the circuit as it is.
RecordSuccessNeverCloses ==
  /\ consecutiveFailures' = 0
  /\ sinceTrip' = Cooldown
  /\ UNCHANGED state

RecordSuccess ==
  /\ state' = "closed"
  /\ consecutiveFailures' = 0
  /\ sinceTrip' = Cooldown

\* The count after one more failure.
MoreFailures ==
  IF consecutiveFailures < FailureCap THEN consecutiveFailures + 1 ELSE FailureCap

\* Fault: every failure restarts the cooldown.
RecordFailureExtends ==
  /\ consecutiveFailures' = MoreFailures
  /\ sinceTrip' = 0
  /\ state' = IF state = "half-open" \/ MoreFailures >= Threshold
              THEN "open" ELSE state

\* A failure trips a half-open circuit again and a closed one at the threshold;
\* an open one stays open with its cooldown running.
RecordFailure ==
  /\ consecutiveFailures' = MoreFailures
  /\ \/ /\ state = "half-open" \/ (state = "closed" /\ MoreFailures >= Threshold)
        /\ state' = "open"
        /\ sinceTrip' = 0
     \/ /\ state = "open" \/ (state = "closed" /\ MoreFailures < Threshold)
        /\ UNCHANGED <<state, sinceTrip>>

\* Time passes.
Tick ==
  /\ sinceTrip < Cooldown
  /\ sinceTrip' = sinceTrip + 1
  /\ UNCHANGED <<state, consecutiveFailures>>

-----------------------------------------------------------------------------
BreakerNext ==
  \/ AllowClosed \/ AllowProbe \/ Deny
  \/ RecordSuccess \/ RecordFailure
  \/ Tick

BreakerSpec == BreakerInit /\ [][BreakerNext]_breakerVars

\* The circuit lets traffic through exactly while fewer than Threshold failures
\* were recorded since the last success, whatever order the results of
\* concurrent requests arrive in: a late result of a request from before the
\* trip cannot leave a closed circuit at its threshold or an open one below it.
ClosedBelowThreshold ==
  state = "closed" <=> consecutiveFailures < Threshold

\* "Keep the circuit open without extending the cooldown window"
\* (circuit.go:89): failures of requests still in flight when the circuit
\* tripped do not put off its next probe.
CooldownNotExtended ==
  [][state = "open" /\ state' = "open" => sinceTrip' >= sinceTrip]_breakerVars
=============================================================================
