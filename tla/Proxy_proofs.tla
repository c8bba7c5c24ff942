---------------------------- MODULE Proxy_proofs ----------------------------
(***************************************************************************)
(* Proofs about proxied requests, for any number of requests and lanes,    *)
(* any size of the semaphore and any breaker: types, the counts of the     *)
(* semaphore and of the lanes, what goes out after the end of a response,  *)
(* and what the requests do to the breaker they share.                     *)
(***************************************************************************)
EXTENDS Proxy, CircuitBreaker_proofs, FiniteSetTheorems, TLAPS

\* The requests that have a goroutine, and those lane l counts.
Busy == {r \in Req : pc[r] # "none"}
Counted(l) == {r \in Req : on[r] = l /\ pc[r] # "spawned"}

\* A request is on a lane exactly while it has a goroutine, and the goroutines
\* are finite in number whatever Req is: the semaphore sees to that.
OnLane ==
  /\ IsFiniteSet(Busy)
  /\ \A r \in Req : on[r] = NoLane <=> pc[r] = "none"

\* A response that was ended leaves the handler nothing to do but return.
EndedReturns == \A r \in Req : reply[r] = "all" => pc[r] = "return"

\* The inductive invariant.
ProxyInv == TypeOK /\ OnLane /\ SlotsConserved /\ EndedReturns

-----------------------------------------------------------------------------
(* The breaker *)

\* Whatever a request does to the breaker is a call of one of its methods.
LEMMA BreakerCalls ==
  ASSUME [Next]_vars
  PROVE  [BreakerNext]_breakerVars
<1>1. ASSUME NEW r \in Req, Handle(r)
      PROVE  [BreakerNext]_breakerVars
  BY <1>1
  DEF Handle, Begin, Admit, Refuse, UpstreamError, AnswerError, UpstreamAnswer,
      BodyError, BodyAbandoned, BodyEnd, Final, Return, RecordError, RecordStatus,
      BreakerNext, breakerVars
<1>2. ASSUME NEW r \in Req,
             BadRequest(r) \/ Chunk(r) \/ ChunkLost(r) \/ BodyError(r)
               \/ BodyEnd(r) \/ Expire(r)
      PROVE  [BreakerNext]_breakerVars
  BY <1>2
  DEF BadRequest, Chunk, ChunkLost, BodyError, BodyEnd, Expire, RecordError,
      RecordStatus, BreakerNext
<1>3. ASSUME NEW l \in Lane,
             \/ \E r \in Req : Accept(r, l)
             \/ Overloaded(l) \/ Lose(l) \/ Drain(l) \/ Join(l)
             \/ Cut(l, 0) \/ Cut(l, DrainPolls)
      PROVE  [BreakerNext]_breakerVars
  BY <1>3
  DEF Accept, Overloaded, Lose, Drain, DrainPoll, DrainClose, Join, Cut, vars
<1>4. CASE Health \/ TimePasses \/ UNCHANGED vars
  BY <1>4 DEF Health, TimePasses, BreakerNext, vars
<1> QED BY <1>1, <1>2, <1>3, <1>4 DEF Next

\* The requests of a client, in whatever order they run, use the breaker as its
\* most general caller may: Proxy implements BreakerSpec.
THEOREM ImplementsBreaker == Spec => BreakerSpec
<1>1. Init => BreakerInit
  BY DEF Init
<1>2. [Next]_vars => [BreakerNext]_breakerVars
  BY BreakerCalls
<1> QED BY <1>1, <1>2, PTL DEF Spec, BreakerSpec

\* However requests interleave, the circuit they share is closed exactly while
\* it is below its threshold.
THEOREM SharedCircuitBelowThreshold == Spec => []ClosedBelowThreshold
  BY ImplementsBreaker, ClosedExactlyBelowThreshold, PTL

\* However late the results of requests from before the trip arrive, they do
\* not put the next probe off.
THEOREM SharedCooldownNotExtended == Spec => CooldownNotExtended
  BY ImplementsBreaker, OpenCooldownNeverExtended, PTL

-----------------------------------------------------------------------------
(* The counts *)

\* What every step but the first and the last two of a request leaves alone:
\* who has a goroutine, who has begun, and the counters.
CountsKept ==
  /\ UNCHANGED <<sem, on, streams>>
  /\ \A r \in Req : \/ pc'[r] = pc[r]
                     \/ {pc[r], pc'[r]} \cap {"none", "spawned"} = {}

\* Only readLoop's request case, the start of the goroutine and its deferred
\* calls count.
LEMMA CountingSteps ==
  ASSUME TypeOK, [Next]_vars
  PROVE  \/ CountsKept
         \/ \E r \in Req, l \in Lane : Accept(r, l)
         \/ \E r \in Req : Begin(r) \/ Return(r)
<1> USE DEF TypeOK, CountsKept
<1>1. ASSUME NEW r \in Req, Handle(r), ~Begin(r), ~Return(r)
      PROVE  CountsKept
  BY <1>1
  DEF Handle, Admit, Refuse, UpstreamError, AnswerError, UpstreamAnswer,
      BodyError, BodyAbandoned, BodyEnd, Final, Goto, laneVars
<1>2. ASSUME NEW r \in Req,
             BadRequest(r) \/ Chunk(r) \/ ChunkLost(r) \/ BodyError(r)
               \/ BodyEnd(r) \/ Expire(r)
      PROVE  CountsKept
  BY <1>2
  DEF BadRequest, Chunk, ChunkLost, BodyError, BodyEnd, Expire, Goto, laneVars
<1>3. ASSUME NEW l \in Lane,
             \/ Overloaded(l) \/ Lose(l) \/ Drain(l) \/ Join(l)
             \/ Cut(l, 0) \/ Cut(l, DrainPolls)
      PROVE  CountsKept
  BY <1>3
  DEF Overloaded, Lose, Drain, DrainPoll, DrainClose, Join, Cut, vars, reqVars,
      laneVars
<1>4. CASE Health \/ TimePasses \/ UNCHANGED vars
  BY <1>4 DEF Health, TimePasses, vars, reqVars, laneVars
<1> QED BY <1>1, <1>2, <1>3, <1>4 DEF Next

\* A lane counts no more requests than have a goroutine.
LEMMA CountedBusy ==
  ASSUME TypeOK, OnLane, NEW l \in Lane
  PROVE  /\ Counted(l) \subseteq Busy
         /\ IsFiniteSet(Counted(l))
         /\ Cardinality(Counted(l)) \in Nat
         /\ Cardinality(Counted(l)) <= Cardinality(Busy)
<1>1. Counted(l) \subseteq Busy
  BY ProxyAssumption DEF TypeOK, OnLane, Counted, Busy
<1> QED BY <1>1, FS_Subset, FS_CardinalityType DEF OnLane

\* The semaphore and the stream counters keep counting what they should.
LEMMA CountStep ==
  ASSUME TypeOK, OnLane, SlotsConserved, [Next]_vars
  PROVE  OnLane' /\ SlotsConserved'
<1> USE ProxyAssumption DEF TypeOK
<1>1. IsFiniteSet(Busy) /\ sem = Cardinality(Busy)
  BY DEF OnLane, SlotsConserved, Busy
<1>2. \A l \in Lane : streams[l] = Cardinality(Counted(l))
  BY DEF SlotsConserved, Counted
<1>3. SUFFICES /\ IsFiniteSet(Busy') /\ sem' = Cardinality(Busy')
               /\ \A l \in Lane : streams'[l] = Cardinality(Counted(l)')
               /\ \A r \in Req : on'[r] = NoLane <=> pc'[r] = "none"
  BY <1>3 DEF OnLane, SlotsConserved, Busy, Counted
<1>4. CASE CountsKept
  <2>1. \A r \in Req : /\ pc'[r] = "none" <=> pc[r] = "none"
                       /\ pc'[r] = "spawned" <=> pc[r] = "spawned"
    BY <1>4 DEF CountsKept
  <2>2. Busy' = Busy /\ \A l \in Lane : Counted(l)' = Counted(l)
    BY <1>4, <2>1 DEF CountsKept, Busy, Counted
  <2> QED BY <1>1, <1>2, <1>4, <2>1, <2>2 DEF CountsKept, OnLane
<1>5. ASSUME NEW r \in Req, NEW k \in Lane, Accept(r, k)
      PROVE  <1>3!1
  <2>1. Busy' = Busy \cup {r} /\ r \notin Busy
    BY <1>5 DEF Accept, Goto, Busy
  <2>2. \A l \in Lane : Counted(l)' = Counted(l)
    BY <1>5 DEF Accept, Goto, Counted, OnLane
  <2>3. IsFiniteSet(Busy') /\ sem' = Cardinality(Busy')
    BY <1>1, <1>5, <2>1, FS_AddElement DEF Accept
  <2>4. \A q \in Req : on'[q] = NoLane <=> pc'[q] = "none"
    BY <1>5 DEF Accept, Goto, OnLane
  <2> QED BY <1>2, <1>5, <2>2, <2>3, <2>4 DEF Accept, laneVars
<1>6. ASSUME NEW r \in Req, Begin(r)
      PROVE  <1>3!1
  <2>1. PICK k \in Lane : on[r] = k
    BY <1>6 DEF Begin, OnLane
  <2>2. Busy' = Busy
    BY <1>6 DEF Begin, Goto, Busy
  <2>3. Counted(k)' = Counted(k) \cup {r} /\ r \notin Counted(k)
    BY <1>6, <2>1 DEF Begin, Goto, Counted
  <2>4. \A l \in Lane \ {k} : Counted(l)' = Counted(l)
    BY <1>6, <2>1 DEF Begin, Goto, Counted
  <2>5. IsFiniteSet(Counted(k))
    BY <2>1, CountedBusy
  <2>6. Cardinality(Counted(k)') = Cardinality(Counted(k)) + 1
    BY <2>3, <2>5, FS_AddElement
  <2>7. \A q \in Req : on'[q] = NoLane <=> pc'[q] = "none"
    BY <1>6, <2>1 DEF Begin, Goto, OnLane
  <2> QED
    BY <1>1, <1>2, <1>6, <2>1, <2>2, <2>4, <2>6, <2>7 DEF Begin
<1>7. ASSUME NEW r \in Req, Return(r)
      PROVE  <1>3!1
  <2>1. PICK k \in Lane : on[r] = k
    BY <1>7 DEF Return, OnLane
  <2>2. Busy' = Busy \ {r} /\ r \in Busy
    BY <1>7 DEF Return, Forget, Goto, Busy
  <2>3. Counted(k)' = Counted(k) \ {r} /\ r \in Counted(k)
    BY <1>7, <2>1 DEF Return, Forget, Goto, Counted
  <2>4. \A l \in Lane \ {k} : Counted(l)' = Counted(l)
    BY <1>7, <2>1 DEF Return, Forget, Goto, Counted
  <2>5. IsFiniteSet(Counted(k))
    BY <2>1, CountedBusy
  <2>6. Cardinality(Counted(k)') = Cardinality(Counted(k)) - 1
    BY <2>3, <2>5, FS_RemoveElement
  <2>7. sem' = Cardinality(Busy') /\ IsFiniteSet(Busy')
    BY <1>1, <1>7, <2>2, FS_RemoveElement DEF Return
  <2>8. \A q \in Req : on'[q] = NoLane <=> pc'[q] = "none"
    BY <1>7 DEF Return, Forget, Goto, OnLane
  <2> QED BY <1>2, <1>7, <2>1, <2>4, <2>6, <2>7, <2>8 DEF Return
<1> QED BY <1>4, <1>5, <1>6, <1>7, CountingSteps

-----------------------------------------------------------------------------
(* Types *)

\* A request that begins is not counted yet and one that returns is, so that
\* no counter of streams leaves its range.
LEMMA StreamsInRange ==
  ASSUME TypeOK, OnLane, SlotsConserved, NEW r \in Req
  PROVE  /\ Begin(r) => on[r] \in Lane /\ streams[on[r]] < MaxStreams
         /\ Return(r) => on[r] \in Lane /\ streams[on[r]] > 0 /\ sem > 0
<1> USE DEF TypeOK
<1>1. IsFiniteSet(Busy) /\ sem = Cardinality(Busy)
  BY DEF OnLane, SlotsConserved, Busy
<1>2. ASSUME pc[r] # "none"
      PROVE  on[r] \in Lane /\ r \in Busy
  BY <1>2 DEF OnLane, Busy
<1>3. \A l \in Lane : streams[l] = Cardinality(Counted(l))
  BY DEF SlotsConserved, Counted
<1>4. ASSUME Begin(r)
      PROVE  on[r] \in Lane /\ streams[on[r]] < MaxStreams
  <2>1. PICK k \in Lane : on[r] = k
    BY <1>2, <1>4 DEF Begin
  <2>2. r \in Busy /\ r \notin Counted(k)
    BY <1>2, <1>4 DEF Begin, Counted
  <2>3. Counted(k) \in SUBSET Busy
    BY CountedBusy
  <2>4. Cardinality(Counted(k)) # Cardinality(Busy)
    BY <1>1, <2>2, <2>3, FS_Subset
  <2>5. Cardinality(Counted(k)) < MaxStreams
    BY <1>1, <2>4, CountedBusy, ProxyAssumption
  <2> QED BY <1>3, <2>1, <2>5
<1>5. ASSUME Return(r)
      PROVE  on[r] \in Lane /\ streams[on[r]] > 0 /\ sem > 0
  <2>1. PICK k \in Lane : on[r] = k
    BY <1>2, <1>5 DEF Return
  <2>2. r \in Busy /\ r \in Counted(k)
    BY <1>2, <1>5, <2>1 DEF Return, Counted
  <2>3. Cardinality(Counted(k)) # 0
    BY <2>2, CountedBusy, FS_EmptySet
  <2>4. Cardinality(Counted(k)) \in Nat
    BY CountedBusy
  <2>5. Cardinality(Busy) # 0
    BY <1>1, <2>2, FS_EmptySet
  <2> QED BY <1>1, <1>3, <2>1, <2>3, <2>4, <2>5
<1> QED BY <1>4, <1>5

\* A step of a request within the handler keeps the types.
LEMMA HandlerTypes ==
  ASSUME TypeOK, NEW r \in Req,
         \/ BadRequest(r) \/ Admit(r) \/ Refuse(r) \/ UpstreamError(r)
         \/ AnswerError(r)
         \/ \E bad, stream \in BOOLEAN : UpstreamAnswer(r, bad, stream)
         \/ Chunk(r) \/ ChunkLost(r) \/ BodyError(r) \/ BodyAbandoned(r)
         \/ BodyEnd(r) \/ Final(r) \/ Expire(r),
         BreakerTypeOK'
  PROVE  TypeOK'
  BY DEF TypeOK, BadRequest, Admit, Refuse, UpstreamError, AnswerError,
         UpstreamAnswer, Chunk, ChunkLost, BodyError, BodyAbandoned, BodyEnd,
         Final, Expire, Goto, Sends, laneVars

\* Every step keeps the types.
LEMMA ProxyTypeStep ==
  ASSUME TypeOK, OnLane, SlotsConserved, [Next]_vars
  PROVE  TypeOK'
<1>1. BreakerTypeOK'
  <2>1. BreakerTypeOK /\ [BreakerNext]_breakerVars
    BY BreakerCalls DEF TypeOK
  <2> QED BY <2>1, BreakerTypeStep
<1> USE ProxyAssumption
<1>2. ASSUME NEW r \in Req, NEW l \in Lane, Accept(r, l)
      PROVE  TypeOK'
  BY <1>1, <1>2 DEF TypeOK, Accept, Goto, laneVars
<1>3. ASSUME NEW r \in Req, Begin(r)
      PROVE  TypeOK'
  <2>1. on[r] \in Lane /\ streams[on[r]] < MaxStreams
    BY <1>3, StreamsInRange
  <2>2. streams' \in [Lane -> 0 .. MaxStreams]
    BY <1>3, <2>1 DEF TypeOK, Begin
  <2>3. cause' \in [Req -> {"none", "timeout", "cancelled"}]
    BY <1>3 DEF TypeOK, Begin
  <2> QED BY <1>1, <1>3, <2>2, <2>3 DEF TypeOK, Begin, Goto
<1>4. ASSUME NEW r \in Req, Return(r)
      PROVE  TypeOK'
  <2>1. on[r] \in Lane /\ streams[on[r]] > 0 /\ sem > 0
    BY <1>4, StreamsInRange
  <2>2. streams' \in [Lane -> 0 .. MaxStreams] /\ sem' \in 0 .. MaxStreams
    BY <1>4, <2>1 DEF TypeOK, Return
  <2> QED BY <1>1, <1>4, <2>2 DEF TypeOK, Return, Forget, Goto
<1>5. ASSUME NEW r \in Req, Handle(r), ~Begin(r), ~Return(r)
      PROVE  TypeOK'
  BY <1>1, <1>5, HandlerTypes DEF Handle
<1>6. ASSUME NEW l \in Lane,
             \/ Overloaded(l) \/ Lose(l) \/ Drain(l) \/ Join(l)
             \/ Cut(l, 0) \/ Cut(l, DrainPolls)
      PROVE  TypeOK'
  BY <1>1, <1>6
  DEF TypeOK, Overloaded, Lose, Drain, DrainPoll, DrainClose, Join, Cut, vars,
      reqVars, laneVars
<1>7. CASE Health \/ TimePasses \/ UNCHANGED vars
  BY <1>1, <1>7 DEF TypeOK, Health, TimePasses, vars, reqVars, laneVars
<1> QED BY <1>1, <1>2, <1>3, <1>4, <1>5, <1>6, <1>7, HandlerTypes DEF Next

-----------------------------------------------------------------------------
(* The responses *)

\* The message that ends a response is the last thing the handler does.
LEMMA EndedStep ==
  ASSUME TypeOK, EndedReturns, [Next]_vars
  PROVE  /\ EndedReturns'
         /\ \A r \in Req :
              reply[r] = "all" /\ pc'[r] # "none" => reply'[r] = "all"
<1> DEFINE Goal ==
      /\ EndedReturns'
      /\ \A r \in Req : reply[r] = "all" /\ pc'[r] # "none" => reply'[r] = "all"
<1> USE DEF TypeOK, EndedReturns
<1>1. ASSUME NEW r \in Req,
             \/ BadRequest(r) \/ Refuse(r) \/ AnswerError(r) \/ Final(r)
             \/ Chunk(r)
      PROVE  Goal
  BY <1>1 DEF BadRequest, Refuse, AnswerError, Final, Chunk, Sends, Goto
<1>2. ASSUME NEW r \in Req,
             \/ Begin(r) \/ Admit(r) \/ UpstreamError(r)
             \/ \E bad, stream \in BOOLEAN : UpstreamAnswer(r, bad, stream)
             \/ ChunkLost(r) \/ BodyError(r) \/ BodyAbandoned(r) \/ BodyEnd(r)
             \/ Return(r) \/ \E l \in Lane : Accept(r, l)
      PROVE  Goal
  BY <1>2
  DEF Begin, Admit, UpstreamError, UpstreamAnswer, ChunkLost, BodyError,
      BodyAbandoned, BodyEnd, Return, Forget, Accept, Goto
<1>3. CASE UNCHANGED <<pc, reply>>
  BY <1>3
<1>4. ASSUME NEW l \in Lane,
             \/ Overloaded(l) \/ Lose(l) \/ Drain(l) \/ Join(l)
             \/ Cut(l, 0) \/ Cut(l, DrainPolls)
      PROVE  Goal
  BY <1>3, <1>4
  DEF Overloaded, Lose, Drain, DrainPoll, DrainClose, Join, Cut, vars, reqVars
<1>5. ASSUME \/ \E r \in Req : Expire(r)
             \/ Health \/ TimePasses \/ UNCHANGED vars
      PROVE  Goal
  BY <1>3, <1>5 DEF Expire, Health, TimePasses, vars, reqVars
<1> HIDE DEF Goal
<1>6. Goal
  BY <1>1, <1>2, <1>4, <1>5 DEF Next, Handle
<1> QED BY <1>6 DEF Goal

-----------------------------------------------------------------------------
(* The theorems *)

\* A client that has just started satisfies the invariant.
LEMMA ProxyInitInv == Init => ProxyInv
<1> SUFFICES ASSUME Init PROVE ProxyInv
  OBVIOUS
<1>1. TypeOK
  BY ProxyAssumption, BreakerInitInv DEF Init, TypeOK, BreakerInv
<1>2. Busy = {} /\ \A l \in Lane : Counted(l) = {}
  BY ProxyAssumption DEF Init, Busy, Counted
<1>3. OnLane /\ SlotsConserved
  <2>1. OnLane /\ sem = Cardinality(Busy)
    BY <1>2, FS_EmptySet DEF Init, OnLane
  <2>2. \A l \in Lane : streams[l] = Cardinality(Counted(l))
    BY <1>2, FS_EmptySet DEF Init
  <2> QED BY <2>1, <2>2 DEF SlotsConserved, Busy, Counted
<1>4. EndedReturns
  BY DEF Init, EndedReturns
<1> QED BY <1>1, <1>3, <1>4 DEF ProxyInv

\* The invariant holds of every behaviour.
LEMMA ProxyInvariant == Spec => []ProxyInv
<1>1. ProxyInv /\ [Next]_vars => ProxyInv'
  BY CountStep, ProxyTypeStep, EndedStep DEF ProxyInv
<1> QED BY <1>1, ProxyInitInv, PTL DEF Spec

\* Requests, lanes, semaphore and breaker keep their types and bounds.
THEOREM ProxyTypeCorrect == Spec => []TypeOK
  BY ProxyInvariant, PTL DEF ProxyInv

\* No path through the handler loses a slot of the semaphore or gives one back
\* twice, and the counter of a lane is right whenever remove or the drain
\* goroutine reads it.
THEOREM SlotsAlwaysConserved == Spec => []SlotsConserved
  BY ProxyInvariant, PTL DEF ProxyInv

\* Nothing of a response goes out after the message that ends it.
THEOREM ResponseEndsOnce == Spec => NothingAfterEnd
<1>1. ProxyInv /\ [Next]_vars
        => [\A r \in Req :
              reply[r] = "all" /\ pc'[r] # "none" => reply'[r] = "all"]_vars
  BY EndedStep DEF ProxyInv
<1> QED BY <1>1, ProxyInvariant, PTL DEF Spec, NothingAfterEnd

\* Every step keeps the requests of lanes that are cut off told to stop.
LEMMA AbortStep ==
  ASSUME TypeOK, DrainAborts, [Next]_vars
  PROVE  DrainAborts'
<1> USE DEF TypeOK, DrainAborts, SlotCancelled
<1>1. CASE UNCHANGED <<cause, on, link>> /\ \A r \in Req :
             pc'[r] \in {"start", "upstream", "body"} => pc[r] \in {"start", "upstream", "body"}
  BY <1>1
<1>2. ASSUME NEW r \in Req, Begin(r)
      PROVE  DrainAborts'
  BY <1>2 DEF Begin, Goto
<1>3. ASSUME NEW r \in Req, Return(r) \/ \E l \in Lane : Accept(r, l)
      PROVE  DrainAborts'
  BY <1>3 DEF Return, Forget, Accept, Goto, laneVars
<1>4. ASSUME NEW r \in Req,
             \/ Admit(r) \/ Refuse(r) \/ UpstreamError(r) \/ AnswerError(r)
             \/ \E bad, stream \in BOOLEAN : UpstreamAnswer(r, bad, stream)
             \/ BodyError(r) \/ BodyAbandoned(r) \/ BodyEnd(r) \/ Final(r)
             \/ BadRequest(r) \/ Chunk(r) \/ ChunkLost(r)
      PROVE  DrainAborts'
  BY <1>1, <1>4
  DEF Admit, Refuse, UpstreamError, AnswerError, UpstreamAnswer, BodyError,
      BodyAbandoned, BodyEnd, Final, BadRequest, Chunk, ChunkLost, Goto, laneVars
<1>5. ASSUME NEW l \in Lane, Cut(l, 0) \/ Cut(l, DrainPolls)
      PROVE  DrainAborts'
  BY <1>5 DEF Cut
<1>6. ASSUME NEW l \in Lane, Overloaded(l) \/ Lose(l) \/ Drain(l) \/ Join(l)
      PROVE  DrainAborts'
  BY <1>6
  DEF Overloaded, Lose, Drain, DrainPoll, DrainClose, Join, vars, reqVars, laneVars
<1>7. ASSUME NEW r \in Req, Expire(r)
      PROVE  DrainAborts'
  BY <1>7 DEF Expire, laneVars
<1>8. CASE Health \/ TimePasses \/ UNCHANGED vars
  BY <1>1, <1>8 DEF Health, TimePasses, vars, reqVars, laneVars
<1> QED BY <1>2, <1>3, <1>4, <1>5, <1>6, <1>7, <1>8 DEF Next, Handle

\* No stream of a lane whose slot context was cancelled is left to run on, however
\* the cut falls between its acceptance, its start and its answer.
THEOREM DrainAbortsStreams == Spec => []DrainAborts
<1>1. Init => DrainAborts
  BY DEF Init, DrainAborts
<1>2. ProxyInv /\ DrainAborts /\ [Next]_vars => DrainAborts'
  BY AbortStep DEF ProxyInv
<1> QED BY <1>1, <1>2, ProxyInvariant, PTL DEF Spec

-----------------------------------------------------------------------------
(* The probe of a half-open circuit *)

\* No context of a request has ended and no slot context was cancelled.
Undisturbed ==
  /\ \A r \in Req : cause[r] = "none"
  /\ \A l \in Lane : link[l] \in {"up", "lost"}

\* Without timeouts and cancellations nothing disturbs a request.
LEMMA UndisturbedStep ==
  ASSUME ~MayTimeOut, ~MayCancel, ProxyInv, Undisturbed, [Next]_vars
  PROVE  Undisturbed'
<1> USE DEF ProxyInv, TypeOK, Undisturbed
<1>1. CASE UNCHANGED <<cause, link>>
  BY <1>1
<1>2. ASSUME NEW r \in Req, Begin(r)
      PROVE  Undisturbed'
  <2>1. ~SlotCancelled(r)
    BY DEF SlotCancelled
  <2> QED BY <1>2, <2>1 DEF Begin
<1>3. ASSUME NEW r \in Req, Return(r)
      PROVE  Undisturbed'
  BY <1>3 DEF Return, Forget
<1>4. ASSUME NEW r \in Req, Handle(r), ~Begin(r), ~Return(r)
      PROVE  Undisturbed'
  BY <1>1, <1>4
  DEF Handle, Admit, Refuse, UpstreamError, AnswerError, UpstreamAnswer,
      BodyError, BodyAbandoned, BodyEnd, Final, laneVars
<1>5. ASSUME NEW r \in Req,
             \/ BadRequest(r) \/ Chunk(r) \/ ChunkLost(r) \/ BodyError(r)
             \/ BodyEnd(r) \/ Expire(r) \/ \E l \in Lane : Accept(r, l)
      PROVE  Undisturbed'
  BY <1>1, <1>5
  DEF BadRequest, Chunk, ChunkLost, BodyError, BodyEnd, Expire, Accept, laneVars
<1>6. ASSUME NEW l \in Lane,
             \/ Overloaded(l) \/ Lose(l) \/ Drain(l) \/ Join(l)
             \/ Cut(l, 0) \/ Cut(l, DrainPolls)
      PROVE  Undisturbed'
  BY <1>1, <1>6
  DEF Overloaded, Lose, Drain, DrainPoll, DrainClose, Join, Cut, vars, reqVars,
      laneVars
<1>7. CASE Health \/ TimePasses \/ UNCHANGED vars
  BY <1>1, <1>7 DEF Health, TimePasses, vars, reqVars, laneVars
<1> QED BY <1>2, <1>3, <1>4, <1>5, <1>6, <1>7 DEF Next

\* After any report the circuit is open or closed.
LEMMA ReportEndsHalfOpen ==
  ASSUME BreakerTypeOK, RecordFailure \/ RecordSuccess
  PROVE  state' # "half-open"
  BY DEF BreakerTypeOK, RecordFailure, RecordSuccess

\* An undisturbed request that the breaker let through stays unreported until
\* it reports, which ends the half-open state.
LEMMA ProbeStep ==
  ASSUME ProxyInv, Undisturbed, HalfOpenHasProbe, [Next]_vars
  PROVE  HalfOpenHasProbe'
<1> USE DEF ProxyInv, TypeOK, HalfOpenHasProbe, Unreported
<1>1. ASSUME state' = "half-open" => state = "half-open",
             \A r \in Req : r \in Unreported => r \in Unreported'
      PROVE  HalfOpenHasProbe'
  BY <1>1
<1>2. CASE RecordFailure \/ RecordSuccess
  BY <1>2, ReportEndsHalfOpen
<1>3. ASSUME NEW r \in Req, Admit(r)
      PROVE  HalfOpenHasProbe'
  BY <1>3 DEF Admit, Goto
<1>4. ASSUME NEW r \in Req,
             \/ UpstreamError(r) \/ BodyError(r) \/ ChunkLost(r) \/ Final(r)
      PROVE  HalfOpenHasProbe'
  BY <1>2, <1>4
  DEF UpstreamError, BodyError, ChunkLost, Final, RecordError, RecordStatus,
      Undisturbed
<1>5. ASSUME NEW r \in Req, BodyAbandoned(r)
      PROVE  HalfOpenHasProbe'
  BY <1>5 DEF BodyAbandoned, Undisturbed
<1>6. ASSUME NEW r \in Req,
             \/ Begin(r) \/ Refuse(r) \/ AnswerError(r) \/ Return(r)
             \/ \E bad, stream \in BOOLEAN : UpstreamAnswer(r, bad, stream)
             \/ BodyEnd(r) \/ BadRequest(r) \/ Chunk(r) \/ Expire(r)
             \/ \E l \in Lane : Accept(r, l)
      PROVE  HalfOpenHasProbe'
  BY <1>1, <1>6
  DEF Begin, Refuse, AnswerError, Return, Forget, UpstreamAnswer, BodyEnd,
      BadRequest, Chunk, Expire, Accept, Deny, Goto, breakerVars
<1>7. ASSUME NEW l \in Lane,
             \/ Overloaded(l) \/ Lose(l) \/ Drain(l) \/ Join(l)
             \/ Cut(l, 0) \/ Cut(l, DrainPolls)
      PROVE  HalfOpenHasProbe'
  BY <1>1, <1>7
  DEF Overloaded, Lose, Drain, DrainPoll, DrainClose, Join, Cut, vars, reqVars,
      breakerVars
<1>8. CASE Health \/ TimePasses \/ UNCHANGED vars
  BY <1>1, <1>8 DEF Health, TimePasses, Tick, vars, reqVars, breakerVars
<1> QED BY <1>3, <1>4, <1>5, <1>6, <1>7, <1>8 DEF Next, Handle

\* A half-open circuit has its probe under way, were it not for requests that
\* outlive the proxy timeout or lose their slot context: these two, and nothing
\* else in the handler, can leave the circuit half-open with nobody to close it.
THEOREM OnlyAbandonedProbesLost ==
  ASSUME ~MayTimeOut, ~MayCancel
  PROVE  Spec => []HalfOpenHasProbe
<1>1. Init => Undisturbed /\ HalfOpenHasProbe
  BY DEF Init, BreakerInit, Undisturbed, HalfOpenHasProbe
<1>2. ProxyInv /\ Undisturbed /\ HalfOpenHasProbe /\ [Next]_vars
        => Undisturbed' /\ HalfOpenHasProbe'
  BY UndisturbedStep, ProbeStep
<1> QED BY <1>1, <1>2, ProxyInvariant, PTL DEF Spec
=============================================================================
