--------------------------- MODULE Reconnect_proofs ---------------------------
(***************************************************************************)
(* Proofs about Run's back-off, for any width of the integers, any maximum *)
(* delay, jitter and number of connections: the maximum always holds, the  *)
(* wait is the documented one for as long as the product fits, and Run     *)
(* does what the controller relies on.                                     *)
(***************************************************************************)
EXTENDS Reconnect, FiniteSetTheorems, FunctionTheorems, TLAPS

\* 2^a * Second can be computed in integers of Width bits.
Fits(a) == a <= Width - 2 /\ 2 ^ a * Second <= MaxInt

\* A wait is one that backoffDelay returned for the published attempt.
DelayComputed ==
  pc = "waiting" => /\ status.reconnectAttempt >= 1
                    /\ delay \in Delays(status.reconnectAttempt - 1)

-----------------------------------------------------------------------------
(* Powers of two, as numbers of subsets: the provers know little else of ^ *)

\* The number of subsets of 1 .. n.
LEMMA SubsetsCounted ==
  ASSUME NEW n \in Nat
  PROVE  /\ IsFiniteSet(SUBSET (1 .. n))
         /\ Cardinality(SUBSET (1 .. n)) = 2 ^ n
<1>1. IsFiniteSet(1 .. n) /\ Cardinality(1 .. n) = n
  BY FS_Interval
<1> QED
  BY <1>1, FS_SUBSET

\* A power of two is positive.
LEMMA PowerPositive ==
  ASSUME NEW n \in Nat
  PROVE  2 ^ n \in Nat \ {0}
<1>1. {} \in SUBSET (1 .. n)
  OBVIOUS
<1> QED
  BY <1>1, SubsetsCounted, FS_EmptySet, FS_CardinalityType

\* One more bit doubles it.
LEMMA PowerDoubles ==
  ASSUME NEW n \in Nat
  PROVE  2 ^ (n + 1) = 2 ^ n + 2 ^ n
<1> DEFINE Less == SUBSET (1 .. n)
           More == {S \in SUBSET (1 .. n + 1) : n + 1 \in S}
           f == [S \in Less |-> S \cup {n + 1}]
<1>1. SUBSET (1 .. n + 1) = Less \cup More
  <2>1. \A S \in SUBSET (1 .. n + 1) : n + 1 \notin S => S \in Less
    BY SMT
  <2> QED
    BY <2>1
<1>2. Less \cap More = {}
  BY SMT
<1>3. f \in Bijection(Less, More)
  <2>1. f \in [Less -> More]
    BY SMT
  <2>2. ASSUME NEW S \in Less, NEW T \in Less, f[S] = f[T]
        PROVE  S = T
    <3>1. n + 1 \notin S /\ n + 1 \notin T
      OBVIOUS
    <3>2. S \cup {n + 1} = T \cup {n + 1}
      BY <2>2
    <3> QED
      BY <3>1, <3>2
  <2>3. ASSUME NEW S \in More
        PROVE  \E T \in Less : f[T] = S
    <3>1. S \ {n + 1} \in Less
      BY <2>3, SMT
    <3>2. f[S \ {n + 1}] = S
      BY <3>1
    <3> QED
      BY <3>1, <3>2
  <2> QED
    BY <2>1, <2>2, <2>3, Fun_IsBij
<1>4. IsFiniteSet(Less) /\ Cardinality(Less) = 2 ^ n
  BY SubsetsCounted
<1>5. IsFiniteSet(More) /\ Cardinality(More) = 2 ^ n
  BY <1>3, <1>4, FS_Bijection, Fun_ExistsBij
<1>6. Cardinality(Less \cup More) = 2 ^ n + 2 ^ n
  <2>1. Cardinality(Less \cup More)
          = Cardinality(Less) + Cardinality(More) - Cardinality(Less \cap More)
    BY <1>4, <1>5, FS_Union
  <2>2. Cardinality(Less \cap More) = 0
    BY <1>2, FS_EmptySet
  <2>3. 2 ^ n \in Nat
    BY PowerPositive
  <2> HIDE DEF Less, More
  <2> QED
    BY <1>4, <1>5, <2>1, <2>2, <2>3
<1>7. Cardinality(SUBSET (1 .. n + 1)) = 2 ^ (n + 1)
  BY SubsetsCounted
<1> QED
  BY <1>1, <1>6, <1>7

-----------------------------------------------------------------------------
(* backoffDelayWithRand *)

\* The least and the largest integer of Width bits.
LEMMA Widths ==
  /\ 2 ^ Width \in Nat \ {0}
  /\ MinInt \in Int /\ MinInt < 0
  /\ MaxInt \in Int /\ MaxInt >= 0
  /\ 2 ^ Width = MaxInt - MinInt + 1
<1>1. Width - 1 \in Nat /\ Width \in Nat
  BY ReconnectAssumption
<1>2. 2 ^ (Width - 1) \in Nat \ {0}
  BY <1>1, PowerPositive
<1>3. 2 ^ ((Width - 1) + 1) = 2 ^ (Width - 1) + 2 ^ (Width - 1)
  BY <1>1, PowerDoubles
<1>4. (Width - 1) + 1 = Width
  BY <1>1
<1>5. 2 ^ Width = 2 ^ (Width - 1) + 2 ^ (Width - 1)
  BY <1>3, <1>4
<1> QED
  BY <1>2, <1>5 DEF MinInt, MaxInt

\* Arithmetic in Width bits gives an integer of Width bits.
LEMMA WrapInRange ==
  ASSUME NEW x \in Int
  PROVE  Wrap(x) \in Int /\ MinInt <= Wrap(x) /\ Wrap(x) <= MaxInt
<1>1. x - MinInt \in Int
  BY Widths
<1>2. (x - MinInt) % 2 ^ Width \in 0 .. (2 ^ Width - 1)
  BY <1>1, Widths
<1> QED
  BY <1>2, Widths DEF Wrap

\* It is exact for what fits.
LEMMA WrapExact ==
  ASSUME NEW x \in Int, MinInt <= x, x <= MaxInt
  PROVE  Wrap(x) = x
<1>1. x - MinInt \in Int /\ 0 <= x - MinInt /\ x - MinInt < 2 ^ Width
  BY Widths
<1>2. (x - MinInt) % 2 ^ Width = x - MinInt
  BY <1>1, Widths
<1> QED
  BY <1>2, Widths DEF Wrap

\* The maximum applied is a delay.
LEMMA MaximumInt ==
  EffectiveMax \in Int /\ EffectiveMax > 0
BY ReconnectAssumption DEF EffectiveMax

\* Whatever the attempt: an integer, and never above the maximum and jitter.
LEMMA DelaysBounded ==
  ASSUME NEW a \in Nat, NEW d \in Delays(a)
  PROVE  d \in Int /\ d <= EffectiveMax + MaxJitter
<1>1. PICK p \in PowerOfTwo(a), jitter \in 0 .. MaxJitter :
        d = Capped(Wrap(p * Second)) + jitter
  BY DEF Delays
<1>2. p \in Int
  <2>1. 2 ^ a \in Int
    BY PowerPositive
  <2> QED
    BY <1>1, <2>1, Widths DEF PowerOfTwo
<1>3. p * Second \in Int
  BY <1>2, ReconnectAssumption
<1>4. Wrap(p * Second) \in Int
  BY <1>3, WrapInRange
<1>5. Capped(Wrap(p * Second)) \in Int
        /\ Capped(Wrap(p * Second)) <= EffectiveMax
  BY <1>4, MaximumInt DEF Capped
<1>6. jitter \in Int /\ jitter <= MaxJitter /\ MaxJitter \in Int
  BY ReconnectAssumption
<1> QED
  BY <1>1, <1>5, <1>6, MaximumInt

\* The documented delay, as long as the product fits.
LEMMA DelaysIdeal ==
  ASSUME NEW a \in Nat, Fits(a), NEW d \in Delays(a)
  PROVE  IdealDelay(a) <= d /\ d <= IdealDelay(a) + MaxJitter
<1>1. 2 ^ a \in Nat
  BY PowerPositive
<1>2. PowerOfTwo(a) = {2 ^ a}
  BY DEF Fits, PowerOfTwo
<1>3. PICK jitter \in 0 .. MaxJitter :
        d = Capped(Wrap(2 ^ a * Second)) + jitter
  BY <1>2 DEF Delays
<1>4. 2 ^ a * Second \in Nat
  BY <1>1, ReconnectAssumption
<1>5. Wrap(2 ^ a * Second) = 2 ^ a * Second
  BY <1>4, Widths, WrapExact DEF Fits
<1>6. IdealDelay(a) = Capped(2 ^ a * Second)
  BY DEF IdealDelay, Capped
<1>7. Capped(2 ^ a * Second) \in Int
  BY <1>4, MaximumInt DEF Capped
<1>8. jitter \in Int /\ 0 <= jitter /\ jitter <= MaxJitter /\ MaxJitter \in Int
  BY ReconnectAssumption
<1> QED
  BY <1>3, <1>5, <1>6, <1>7, <1>8

-----------------------------------------------------------------------------
(* Run *)

\* Run's variables and the published status have their types.
THEOREM RunTypeCorrect == Spec => []TypeOK
<1>1. Init => TypeOK
  BY ReconnectAssumption DEF Init, TypeOK, NoSnap
<1>2. TypeOK /\ [Next]_vars => TypeOK'
  <2> SUFFICES ASSUME TypeOK, [Next]_vars
               PROVE  TypeOK'
    OBVIOUS
  <2> USE ReconnectAssumption DEF TypeOK, NoSnap
  <2>1. CASE RunReturns
    BY <2>1 DEF RunReturns
  <2>2. CASE SessionRefused
    BY <2>2 DEF SessionRefused
  <2>3. CASE SessionRegistered
    BY <2>3 DEF SessionRegistered
  <2>4. CASE Backoff
    <3>1. delay' \in Int
      BY <2>4, DelaysBounded DEF Backoff
    <3>2. attempt' \in 0 .. AttemptCap
      BY <2>4 DEF Backoff, UpTo
    <3>3. status' \in [connected : BOOLEAN, active : 0 .. MaxActive,
                       reconnectAttempt : 0 .. AttemptCap + 1,
                       lastError : BOOLEAN]
      <4>1. attempt + 1 \in 0 .. AttemptCap + 1
        OBVIOUS
      <4> QED
        BY <2>4, <4>1, Zenon DEF Backoff
    <3> QED
      BY <2>4, <3>1, <3>2, <3>3 DEF Backoff
  <2>5. CASE WaitOver
    BY <2>5 DEF WaitOver
  <2>6. CASE SessionLost
    BY <2>6 DEF SessionLost
  <2>7. CASE SyncSnapshot
    BY <2>7 DEF SyncSnapshot
  <2>8. CASE SyncPublish
    <3>1. snap \in 0 .. MaxActive /\ (snap > 0) \in BOOLEAN
      BY <2>8 DEF SyncPublish
    <3>2. status' \in [connected : BOOLEAN, active : 0 .. MaxActive,
                       reconnectAttempt : 0 .. AttemptCap + 1,
                       lastError : BOOLEAN]
      BY <2>8, <3>1, Zenon DEF SyncPublish
    <3>3. snap' \in NoSnap .. MaxActive
      BY <2>8 DEF SyncPublish
    <3> QED
      BY <2>8, <3>2, <3>3 DEF SyncPublish
  <2>9. ASSUME NEW n \in 0 .. MaxActive, PoolChanges(n)
        PROVE  TypeOK'
    BY <2>9 DEF PoolChanges
  <2>10. CASE CancelRun
    BY <2>10 DEF CancelRun
  <2>11. CASE ServerChanges
    BY <2>11 DEF ServerChanges
  <2>12. CASE UNCHANGED vars
    BY <2>12 DEF vars
  <2> QED
    BY <2>1, <2>2, <2>3, <2>4, <2>5, <2>6, <2>7, <2>8, <2>9, <2>10, <2>11,
       <2>12 DEF Next, RunStep
<1> QED
  BY <1>1, <1>2, PTL DEF Spec

\* Nothing but a new back-off changes the wait and the attempt it is for; a
\* late syncPoolStatus changes the rest of the status.
LEMMA DelayStaysComputed == Spec => []DelayComputed
<1>1. Init => DelayComputed
  BY DEF Init, DelayComputed
<1>2. TypeOK /\ DelayComputed /\ [Next]_vars => DelayComputed'
  <2> SUFFICES ASSUME TypeOK, DelayComputed, [Next]_vars
               PROVE  DelayComputed'
    OBVIOUS
  <2>1. CASE Backoff
    <3>1. status'.reconnectAttempt = attempt + 1 /\ attempt \in Nat
      BY <2>1 DEF Backoff, TypeOK
    <3>2. status'.reconnectAttempt - 1 = attempt
      BY <3>1
    <3>3. delay' \in Delays(status'.reconnectAttempt - 1)
      BY <2>1, <3>2 DEF Backoff
    <3>4. Delays(status'.reconnectAttempt - 1)
            = Delays(status.reconnectAttempt - 1)'
      BY DEF Delays, PowerOfTwo, Capped, Wrap, EffectiveMax, MinInt, MaxInt
    <3> QED
      BY <3>1, <3>3, <3>4 DEF DelayComputed
  <2>2. CASE SyncPublish
    <3>1. /\ status'.reconnectAttempt = status.reconnectAttempt
          /\ pc' = pc /\ delay' = delay
      BY <2>2 DEF SyncPublish, TypeOK
    <3> QED
      BY <3>1 DEF DelayComputed
  <2>3. CASE \/ RunReturns \/ SessionRefused \/ SessionRegistered \/ WaitOver
             \/ SessionLost
    BY <2>3 DEF RunReturns, SessionRefused, SessionRegistered, WaitOver,
                SessionLost, DelayComputed
  <2>4. CASE \/ SyncSnapshot \/ CancelRun \/ ServerChanges \/ UNCHANGED vars
             \/ \E n \in 0 .. MaxActive : PoolChanges(n)
    <3>1. UNCHANGED <<pc, delay, status>>
      BY <2>4 DEF SyncSnapshot, CancelRun, ServerChanges, PoolChanges, vars
    <3> QED
      BY <3>1 DEF DelayComputed
  <2> QED
    BY <2>1, <2>2, <2>3, <2>4 DEF Next, RunStep
<1> QED
  BY <1>1, <1>2, RunTypeCorrect, PTL DEF Spec

\* Whatever overflows in backoffDelayWithRand, the wait is never longer than
\* the configured maximum and the jitter.
MaximumHeld == pc = "waiting" => delay <= EffectiveMax + MaxJitter

\* The wait is the documented one as long as the product fits in a Duration.
BackoffWhileItFits ==
  pc = "waiting" /\ Fits(status.reconnectAttempt - 1) => DelayFollowsBackoff

\* cfg.MaxReconnectDelay bounds every wait, after any number of failures and
\* in integers of any width.
THEOREM MaximumAlwaysHeld == Spec => []MaximumHeld
<1>1. TypeOK /\ DelayComputed => MaximumHeld
  <2> SUFFICES ASSUME TypeOK, DelayComputed, pc = "waiting"
               PROVE  delay <= EffectiveMax + MaxJitter
    BY DEF MaximumHeld
  <2>1. status.reconnectAttempt - 1 \in Nat
    BY DEF TypeOK, DelayComputed
  <2> QED
    BY <2>1, DelaysBounded DEF DelayComputed
<1> QED
  BY <1>1, RunTypeCorrect, DelayStaysComputed, PTL

\* Until 2^attempt seconds no longer fit in a Duration, after any number of
\* failures the wait is the documented one.
THEOREM IdealUntilOverflow == Spec => []BackoffWhileItFits
<1>1. TypeOK /\ DelayComputed => BackoffWhileItFits
  <2> SUFFICES ASSUME TypeOK, DelayComputed, pc = "waiting",
                      Fits(status.reconnectAttempt - 1)
               PROVE  DelayFollowsBackoff
    BY DEF BackoffWhileItFits
  <2>1. status.reconnectAttempt - 1 \in Nat
    BY DEF TypeOK, DelayComputed
  <2> QED
    BY <2>1, DelaysIdeal DEF DelayComputed, DelayFollowsBackoff
<1> QED
  BY <1>1, RunTypeCorrect, DelayStaysComputed, PTL

\* So a Run that fails no more often than fits waits as documented each time.
THEOREM WaitsAsDocumented ==
  ASSUME \A a \in 0 .. AttemptCap : Fits(a)
  PROVE  Spec => []DelayFollowsBackoff
<1>1. TypeOK /\ DelayComputed /\ BackoffWhileItFits => DelayFollowsBackoff
  <2> SUFFICES ASSUME TypeOK, DelayComputed, BackoffWhileItFits, pc = "waiting"
               PROVE  DelayFollowsBackoff
    BY DEF DelayFollowsBackoff
  <2>1. status.reconnectAttempt - 1 \in 0 .. AttemptCap
    BY ReconnectAssumption DEF TypeOK, DelayComputed
  <2> QED
    BY <2>1 DEF BackoffWhileItFits
<1> QED
  BY <1>1, RunTypeCorrect, DelayStaysComputed, IdealUntilOverflow, PTL

\* Run does only what the controller relies on: it returns once, not before
\* its context was cancelled, and no error of a session ends it.
THEOREM RunIsRunner == Spec => Contract!Init /\ [][Contract!Next]_(Contract!vars)
<1>1. Init => Contract!Init
  BY Zenon DEF Init, Contract!Init
<1>2. [Next]_vars => [Contract!Next]_(Contract!vars)
  <2> SUFFICES ASSUME [Next]_vars
               PROVE  [Contract!Next]_(Contract!vars)
    OBVIOUS
  <2>1. CASE RunReturns
    <3>1. /\ ctxDone /\ ctxDone' = ctxDone
          /\ pc # "returned" /\ pc' = "returned"
      BY <2>1 DEF RunReturns
    <3>2. Contract!Return
      BY <3>1, Zenon DEF Contract!Return
    <3> QED
      BY <3>2 DEF Contract!Next
  <2>2. CASE CancelRun
    BY <2>2, Zenon DEF CancelRun, Contract!Cancel, Contract!Next
  <2>3. CASE \/ SessionRefused \/ SessionRegistered \/ Backoff \/ WaitOver
             \/ SessionLost
    <3>1. pc # "returned" /\ pc' # "returned" /\ ctxDone' = ctxDone
      BY <2>3 DEF SessionRefused, SessionRegistered, Backoff, WaitOver,
                  SessionLost
    <3> QED
      BY <3>1, Zenon DEF Contract!vars
  <2>4. CASE \/ SyncSnapshot \/ SyncPublish \/ ServerChanges \/ UNCHANGED vars
             \/ \E n \in 0 .. MaxActive : PoolChanges(n)
    <3>1. UNCHANGED <<pc, ctxDone>>
      BY <2>4 DEF SyncSnapshot, SyncPublish, ServerChanges, PoolChanges, vars
    <3> QED
      BY <3>1, Zenon DEF Contract!vars
  <2> QED
    BY <2>1, <2>2, <2>3, <2>4 DEF Next, RunStep
<1> QED
  BY <1>1, <1>2, PTL DEF Spec
====
