------------------------ MODULE CircuitBreaker_proofs ------------------------
(* Proofs about the circuit breaker, for any threshold and cooldown. *)
EXTENDS CircuitBreaker, TLAPS

BreakerInv == BreakerTypeOK /\ ClosedBelowThreshold

\* A new breaker is closed and below its threshold.
LEMMA BreakerInitInv == BreakerInit => BreakerInv
  BY BreakerAssumption
  DEF BreakerInit, BreakerInv, BreakerTypeOK, ClosedBelowThreshold

\* The failure count stays in range, and reaches the threshold by single steps.
LEMMA MoreFailuresType ==
  ASSUME BreakerTypeOK
  PROVE  /\ MoreFailures \in 0 .. FailureCap
         /\ consecutiveFailures >= Threshold => MoreFailures >= Threshold
  BY BreakerAssumption DEF BreakerTypeOK, MoreFailures

\* Every method keeps the types.
LEMMA BreakerTypeStep ==
  ASSUME BreakerTypeOK, [BreakerNext]_breakerVars
  PROVE  BreakerTypeOK'
  BY BreakerAssumption, MoreFailuresType
  DEF BreakerTypeOK, BreakerNext, AllowClosed, AllowProbe, Deny, RecordSuccess,
      RecordFailure, Tick, breakerVars

\* Every method keeps the invariant.
LEMMA BreakerStep ==
  ASSUME BreakerInv, [BreakerNext]_breakerVars
  PROVE  BreakerInv'
<1> USE BreakerAssumption DEF BreakerInv, BreakerTypeOK, ClosedBelowThreshold
<1>1. CASE UNCHANGED breakerVars
  BY <1>1 DEF breakerVars
<1>2. CASE AllowClosed \/ Deny
  BY <1>2 DEF AllowClosed, Deny, breakerVars
<1>3. CASE AllowProbe
  BY <1>3 DEF AllowProbe
<1>4. CASE RecordSuccess
  BY <1>4 DEF RecordSuccess
<1>5. CASE RecordFailure
  BY <1>5, MoreFailuresType DEF RecordFailure
<1>6. CASE Tick
  BY <1>6 DEF Tick
<1> QED
  BY <1>1, <1>2, <1>3, <1>4, <1>5, <1>6 DEF BreakerNext

\* The invariant holds of every sequence of calls.
LEMMA BreakerInvariant == BreakerSpec => []BreakerInv
<1>1. BreakerInv /\ [BreakerNext]_breakerVars => BreakerInv'
  BY BreakerStep
<1> QED BY <1>1, BreakerInitInv, PTL DEF BreakerSpec

\* The breaker's fields keep their types.
THEOREM BreakerTypeCorrect == BreakerSpec => []BreakerTypeOK
  BY BreakerInvariant, PTL DEF BreakerInv

\* For any threshold and any order of results, closed means below threshold.
THEOREM ClosedExactlyBelowThreshold == BreakerSpec => []ClosedBelowThreshold
  BY BreakerInvariant, PTL DEF BreakerInv

\* RecordFailure never restarts the cooldown of an open circuit.
THEOREM OpenCooldownNeverExtended == BreakerSpec => CooldownNotExtended
<1>1. BreakerInv /\ [BreakerNext]_breakerVars
        => [state = "open" /\ state' = "open"
              => sinceTrip' >= sinceTrip]_breakerVars
  <2> SUFFICES ASSUME BreakerInv, BreakerNext, state = "open", state' = "open"
               PROVE  sinceTrip' >= sinceTrip
    OBVIOUS
  <2> QED
    BY DEF BreakerInv, BreakerTypeOK, BreakerNext, AllowClosed, AllowProbe, Deny,
           RecordSuccess, RecordFailure, Tick, breakerVars
<1> QED BY <1>1, BreakerInvariant, PTL DEF BreakerSpec, CooldownNotExtended
=============================================================================
