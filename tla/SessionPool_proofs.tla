------------------------- MODULE SessionPool_proofs -------------------------
(***************************************************************************)
(* Proofs about a session, for any pool size, any number of goroutines and *)
(* connections and any sequence of resizes: its goroutines use the pool    *)
(* only as PoolSpec allows, so that what ConnectionPool_proofs shows holds *)
(* in every session; a lost control ends the session; slot 0 is always     *)
(* maintained; and, up to the second resize, who owns which slot, which    *)
(* connection and which data ping loop.                                    *)
(***************************************************************************)
EXTENDS SessionPool, ConnectionPool_proofs, TLAPS

\* Where a goroutine has a connection in its hands, and where it has none.
Holding == {"add", "startControl", "startData", "read", "resized", "remove",
            "retry", "lost", "promote"}
EmptyHanded == {"unused", "join", "count", "promoting"}

\* Where its connection has been added to the pool and not yet removed.
Using == {"startControl", "startData", "read", "resized", "remove"}

\* What the place a goroutine is at says of what it holds.
HandsOK ==
  \A w \in Ctx :
    /\ pc[w] \in Holding => held[w] \in Conn
    /\ pc[w] \in EmptyHanded => held[w] = None
    /\ pc[w] \in Using => slot[w] \in Slots
    /\ pc[w] \in {"promote", "promoting"} => promo[w] \in Conn
    /\ pc[w] = "top" /\ held[w] # None => slot[w] = 0

\* runSession hands its connection to the first goroutine it starts.
MainOK ==
  /\ startNext <= granted
  /\ mainPc = "start" => startNext < granted
  /\ mainPc # "start" => startNext > 0
  /\ controlConn = None <=> startNext > 0
  /\ sessionCancelled => mainPc = "over"

\* A connection that has not been added to the pool.
Fresh(c) == c \notin Pooled \cup draining

\* A connection has one holder, and is in no slot but its holder's.
HeldOK ==
  /\ \A v, w \in Ctx : held[v] = held[w] => v = w \/ held[v] = None
  /\ controlConn # None =>
       /\ \A w \in Ctx : held[w] # controlConn
       /\ Fresh(controlConn)
       /\ dataLoop[controlConn] = None
  /\ \A w \in Ctx : held[w] # None =>
       /\ pc[w] \in {"top", "add"} => Fresh(held[w])
       /\ pc[w] \in {"top", "add", "startControl", "startData"}
            => dataLoop[held[w]] = None
       /\ \A i \in Slots : conns[i] = held[w] => slot[w] = i

\* What the use of the pool rests on.
BaseInv == TypeOK /\ HandsOK /\ MainOK /\ HeldOK

-----------------------------------------------------------------------------
(* The session uses the pool as PoolSpec allows *)

\* A step of a goroutine calls a method of the pool, or none.
LEMMA SlotCalls ==
  ASSUME BaseInv, NEW w \in Ctx, SlotStep(w)
  PROVE  [PoolNext]_poolVars
<1> USE DEF BaseInv, TypeOK, HandsOK, Holding
<1>1. ASSUME NEW c \in Conn, CloseConn(c) \/ ReplacePingLoop(c)
      PROVE  PoolNext
  BY <1>1 DEF PoolNext
<1>2. CASE \/ TopReturn(w) \/ TopProceed(w) \/ JoinFailed(w) \/ JoinGiveUp(w)
           \/ ReadReturn(w) \/ ReadFail(w) \/ ResizeUnlock(w)
  BY <1>2 DEF TopReturn, TopProceed, JoinFailed, JoinGiveUp, ReadReturn, ReadFail,
              ResizeUnlock
<1>3. CASE \/ TopClose(w) \/ AddRejected(w) \/ Retry(w) \/ Lost(w)
           \/ PromoteClose(w)
  BY <1>1, <1>3 DEF TopClose, AddRejected, Retry, Lost, PromoteClose
<1>4. CASE StartControl(w) \/ PromoteStart(w) \/ ResizePromote(w)
  BY <1>1, <1>4 DEF StartControl, PromoteStart, ResizePromote
<1>5. CASE AddConn(w)
  <2>1. slot[w] \in Slots /\ held[w] \in Conn /\ NewConn(held[w])
    BY <1>5, PoolAssumption DEF AddConn, Add, Indices, HeldOK, Fresh, NewConn
  <2>2. Add(slot[w], held[w])
    BY <1>5 DEF AddConn
  <2> QED BY <2>1, <2>2 DEF PoolNext
<1>6. CASE StartData(w)
  <2>1. held[w] \in Conn /\ dataLoop[held[w]] = None
    BY <1>6, PoolAssumption DEF StartData, HeldOK
  <2>2. StartDataLoop(slot[w], held[w], w)
    BY <1>6 DEF StartData
  <2>3. slot[w] \in Slots /\ NewLoop(slot[w], held[w])
    BY <1>6, <2>1, PoolAssumption DEF StartData, NewLoop, Pooled, HeldOK, Using
  <2> QED BY <2>1, <2>2, <2>3 DEF PoolNext
<1>7. CASE RemoveConn(w)
  <2>1. PICK busy \in SUBSET Pooled :
          \/ RemoveNone(slot[w]) \/ RemoveData(slot[w]) \/ RemoveLast(slot[w])
          \/ \E j \in Slots : RemoveControlPromote(slot[w], busy, j)
          \/ RemoveControlNoIdle(slot[w], busy)
    BY <1>7 DEF RemoveConn
  <2>2. Remove(slot[w], busy) /\ slot[w] \in Slots
    BY <1>7, <2>1 DEF Remove, RemoveConn, Using
  <2>3. busy \in SUBSET Conn
    BY PooledTypes
  <2> QED BY <2>2, <2>3 DEF PoolNext
<1>8. ASSUME NEW f \in Ctx, ResizeStartSlot(w, f)
      PROVE  [PoolNext]_poolVars
  <2>1. nextSlot \in Slots
    BY <1>8, PoolAssumption DEF ResizeStartSlot, PoolTypeOK, Slots
  <2> QED BY <1>8, <2>1 DEF ResizeStartSlot, StartSlot, PoolNext
<1> QED BY <1>2, <1>3, <1>4, <1>5, <1>6, <1>7, <1>8 DEF SlotStep

\* So does every other step of the session.
LEMMA SessionCalls ==
  ASSUME BaseInv, [Next]_vars
  PROVE  [PoolNext]_poolVars
<1> USE DEF BaseInv, TypeOK
<1>1. ASSUME NEW w \in Ctx, ReadFail(w)
      PROVE  [PoolNext]_poolVars
  BY <1>1 DEF ReadFail
<1>2. ASSUME NEW w \in Ctx, NEW c \in Conn, JoinOK(w, c)
      PROVE  [PoolNext]_poolVars
  BY <1>2 DEF JoinOK, PoolNext
<1>3. ASSUME NEW w \in Ctx, NEW n \in 1 .. MaxPoolConnections, ResizePool(w, n)
      PROVE  [PoolNext]_poolVars
  <2>1. Resize(n)
    BY <1>3 DEF ResizePool, Resize
  <2> QED BY <2>1 DEF PoolNext
<1>4. ASSUME NEW f \in Ctx, MainStartSlot(f)
      PROVE  [PoolNext]_poolVars
  <2>1. SetSlotCancel(startNext, f)
    BY <1>4 DEF MainStartSlot, StartSlot
  <2>2. CASE startNext \in Slots
    BY <2>1, <2>2 DEF PoolNext
  <2>3. CASE startNext \notin Slots
    BY <2>1, <2>3 DEF SetSlotCancel, PoolTypeOK, poolVars
  <2> QED BY <2>2, <2>3
<1>5. CASE MainSelect \/ MainClose \/ MainCancel
  BY <1>5 DEF MainSelect, MainClose, MainCancel, PoolNext
<1>6. CASE Deferred \/ CancelRun \/ \E c \in Conn : Drop(c)
  BY <1>6 DEF Deferred, CancelRun, Drop, PoolNext
<1>7. CASE UNCHANGED vars
  BY <1>7 DEF vars
<1> QED
  BY <1>1, <1>2, <1>3, <1>4, <1>5, <1>6, <1>7, SlotCalls DEF Next, MainStep

-----------------------------------------------------------------------------
(* The session keeps its types *)

\* Steps of a goroutine that change nothing of the session but its own place.
Moves(w) ==
  \/ TopReturn(w) \/ TopClose(w) \/ TopProceed(w)
  \/ JoinFailed(w) \/ JoinGiveUp(w)
  \/ AddConn(w) \/ AddRejected(w)
  \/ StartControl(w) \/ StartData(w)
  \/ ReadReturn(w) \/ ReadFail(w)
  \/ Lost(w)

\* What such a step does.
LEMMA MovesFrame ==
  ASSUME TypeOK, NEW w \in Ctx, Moves(w)
  PROVE  /\ \E label \in PcValues \ {"unused", "resized", "promote", "promoting"} :
              Goto(w, label)
         /\ UNCHANGED <<slot, held, promo, mainVars, muVars, ctxDone>>
         /\ errCh' = errCh \/ errCh' = TRUE
         /\ pc[w] # "unused"
<1>1. CASE \/ TopReturn(w) \/ TopClose(w) \/ TopProceed(w) \/ JoinFailed(w)
           \/ JoinGiveUp(w) \/ ReadReturn(w) \/ ReadFail(w)
  BY <1>1 DEF PcValues, TopReturn, TopClose, TopProceed, JoinFailed, JoinGiveUp,
              ReadReturn, ReadFail
<1>2. CASE \/ AddConn(w) \/ AddRejected(w) \/ StartControl(w) \/ StartData(w)
           \/ Lost(w)
  BY <1>2 DEF PcValues, AddConn, AddRejected, StartControl, StartData, Lost
<1> QED BY <1>1, <1>2 DEF Moves

\* The actions of Next, by what they change of the session.
LEMMA NextCases ==
  ASSUME [Next]_vars
  PROVE  \/ \E w \in Ctx : Moves(w)
         \/ \E w \in Ctx : \/ RemoveConn(w) \/ Retry(w) \/ PromoteClose(w)
                            \/ PromoteStart(w) \/ ResizePromote(w)
                            \/ ResizeUnlock(w)
         \/ \E w, f \in Ctx : ResizeStartSlot(w, f)
         \/ \E w \in Ctx, c \in Conn : JoinOK(w, c)
         \/ \E w \in Ctx, n \in 1 .. MaxPoolConnections : ResizePool(w, n)
         \/ \E f \in Ctx : MainStartSlot(f)
         \/ MainSelect \/ MainClose \/ MainCancel
         \/ Deferred \/ \E c \in Conn : Drop(c)
         \/ CancelRun
         \/ UNCHANGED vars
  BY DEF Next, SlotStep, MainStep, Moves

\* The types of the session's own variables.
LEMMA SessionTypeStep ==
  ASSUME BaseInv, [Next]_vars
  PROVE  TypeOK'
<1>1. PoolTypeOK'
  BY SessionCalls, TypeStep DEF BaseInv, TypeOK
<1> USE <1>1, PoolAssumption, SessionAssumption DEF BaseInv, TypeOK
<1>2. ASSUME NEW w \in Ctx, Moves(w)
      PROVE  TypeOK'
  <2>1. PICK label \in PcValues : Goto(w, label)
    BY <1>2, MovesFrame
  <2>2. pc' \in [Ctx -> PcValues]
    BY <2>1 DEF Goto
  <2>3. UNCHANGED <<slot, held, promo, mainVars, muVars, ctxDone>>
    BY <1>2, MovesFrame
  <2>4. errCh' \in BOOLEAN
    BY <1>2, MovesFrame
  <2> QED BY <2>2, <2>3, <2>4 DEF mainVars, muVars
<1>3. ASSUME NEW w \in Ctx,
             \/ RemoveConn(w) \/ Retry(w) \/ PromoteClose(w) \/ PromoteStart(w)
             \/ ResizePromote(w) \/ ResizeUnlock(w)
      PROVE  TypeOK'
  <2>1. CASE RemoveConn(w)
    <3>1. pc' \in [Ctx -> PcValues]
      BY <2>1 DEF RemoveConn, Goto, PcValues
    <3>2. promo' \in [Ctx -> Conn \cup {None}]
      BY <2>1 DEF RemoveConn, PoolTypeOK
    <3> QED BY <2>1, <3>1, <3>2 DEF RemoveConn, mainVars, muVars
  <2>2. CASE Retry(w) \/ PromoteClose(w) \/ PromoteStart(w)
    BY <2>2 DEF Retry, PromoteClose, PromoteStart, Goto, PcValues, mainVars, muVars
  <2>3. CASE ResizePromote(w) \/ ResizeUnlock(w)
    BY <2>3 DEF ResizePromote, ResizeUnlock, Goto, PcValues, mainVars, muVars
  <2> QED BY <1>3, <2>1, <2>2, <2>3
<1>4. ASSUME NEW w \in Ctx, NEW f \in Ctx, ResizeStartSlot(w, f)
      PROVE  TypeOK'
  BY <1>4 DEF ResizeStartSlot, StartSlot, Goto, PcValues, mainVars, PoolTypeOK
<1>5. ASSUME NEW w \in Ctx, NEW c \in Conn, JoinOK(w, c)
      PROVE  TypeOK'
  BY <1>5 DEF JoinOK, Goto, PcValues, mainVars, muVars
<1>6. ASSUME NEW w \in Ctx, NEW n \in 1 .. MaxPoolConnections, ResizePool(w, n)
      PROVE  TypeOK'
  <2>1. promo' \in [Ctx -> Conn \cup {None}]
    BY <1>6 DEF ResizePool, PoolTypeOK
  <2>2. nextSlot' \in 0 .. MaxPoolConnections
    BY <1>6 DEF ResizePool, FirstNewSlot, PoolTypeOK
  <2>3. resizes' \in 0 .. MaxResizes
    BY <1>6 DEF ResizePool
  <2>4. pc' \in [Ctx -> PcValues]
    BY <1>6 DEF ResizePool, Goto, PcValues
  <2> QED BY <1>6, <2>1, <2>2, <2>3, <2>4 DEF ResizePool, mainVars
<1>7. ASSUME NEW f \in Ctx, MainStartSlot(f)
      PROVE  TypeOK'
  <2>1. /\ startNext' \in 0 .. MaxGranted
        /\ startNext \in 0 .. MaxGranted + MaxPoolConnections
    BY <1>7 DEF MainStartSlot, MainOK
  <2>2. /\ pc' \in [Ctx -> PcValues]
        /\ slot' \in [Ctx -> 0 .. MaxGranted + MaxPoolConnections]
        /\ held' \in [Ctx -> Conn \cup {None}]
    BY <1>7, <2>1 DEF MainStartSlot, StartSlot, Goto, PcValues
  <2> QED BY <1>7, <2>1, <2>2 DEF MainStartSlot, StartSlot, muVars
<1>8. CASE MainSelect \/ MainClose \/ MainCancel
  BY <1>8 DEF MainSelect, MainClose, MainCancel, slotVars, muVars
<1>9. CASE Deferred \/ CancelRun \/ UNCHANGED vars \/ \E c \in Conn : Drop(c)
  BY <1>9 DEF Deferred, CancelRun, Drop, vars, slotVars, mainVars, muVars
<1> QED
  BY <1>2, <1>3, <1>4, <1>5, <1>6, <1>7, <1>8, <1>9, NextCases

\* runSession's own variables.
LEMMA MainStepOK ==
  ASSUME BaseInv, [Next]_vars
  PROVE  MainOK'
<1> USE PoolAssumption DEF BaseInv, TypeOK, MainOK
<1>1. CASE UNCHANGED mainVars
  BY <1>1 DEF mainVars
<1>2. ASSUME NEW f \in Ctx, MainStartSlot(f)
      PROVE  MainOK'
  BY <1>2 DEF MainStartSlot
<1>3. CASE MainSelect \/ MainClose \/ MainCancel
  BY <1>3 DEF MainSelect, MainClose, MainCancel
<1>4. ASSUME NEW w \in Ctx, Moves(w)
      PROVE  MainOK'
  BY <1>1, <1>4, MovesFrame
<1>5. ASSUME NEW w \in Ctx,
             \/ RemoveConn(w) \/ Retry(w) \/ PromoteClose(w) \/ PromoteStart(w)
             \/ ResizePromote(w) \/ ResizeUnlock(w)
             \/ \E f \in Ctx : ResizeStartSlot(w, f)
             \/ \E c \in Conn : JoinOK(w, c)
             \/ \E n \in 1 .. MaxPoolConnections : ResizePool(w, n)
      PROVE  MainOK'
  BY <1>1, <1>5
  DEF RemoveConn, Retry, PromoteClose, PromoteStart, ResizePromote, ResizeUnlock,
      ResizeStartSlot, JoinOK, ResizePool
<1>6. CASE Deferred \/ CancelRun \/ UNCHANGED vars \/ \E c \in Conn : Drop(c)
  BY <1>1, <1>6 DEF Deferred, CancelRun, Drop, vars
<1> QED BY <1>2, <1>3, <1>4, <1>5, <1>6, NextCases

\* What a goroutine holds fits the place it is at.
LEMMA HandsStep ==
  ASSUME BaseInv, [Next]_vars
  PROVE  HandsOK'
<1> USE PoolAssumption
        DEF BaseInv, TypeOK, HandsOK, Holding, EmptyHanded, Using
<1>1. CASE UNCHANGED <<pc, slot, held, promo>>
  BY <1>1
<1>2. ASSUME NEW w \in Ctx, Moves(w)
      PROVE  HandsOK'
  <2>1. CASE \/ TopReturn(w) \/ TopClose(w) \/ TopProceed(w) \/ JoinFailed(w)
             \/ JoinGiveUp(w)
    BY <2>1 DEF TopReturn, TopClose, TopProceed, JoinFailed, JoinGiveUp, Goto
  <2>2. CASE AddConn(w)
    BY <2>2 DEF AddConn, Add, Indices, Goto
  <2>3. CASE \/ AddRejected(w) \/ StartControl(w) \/ StartData(w)
             \/ ReadReturn(w) \/ ReadFail(w) \/ Lost(w)
    BY <2>3 DEF AddRejected, StartControl, StartData, ReadReturn, ReadFail, Lost,
                Goto
  <2> QED BY <1>2, <2>1, <2>2, <2>3 DEF Moves
<1>3. ASSUME NEW w \in Ctx, RemoveConn(w)
      PROVE  HandsOK'
  <2>1. CASE UNCHANGED promo /\ (Goto(w, "lost") \/ Goto(w, "retry"))
    BY <1>3, <2>1 DEF RemoveConn, Goto
  <2>2. ASSUME NEW busy, NEW j \in Slots,
               RemoveControlPromote(slot[w], busy, j),
               Goto(w, "promote"), promo' = [promo EXCEPT ![w] = conns[j]]
        PROVE  HandsOK'
    <3>1. conns[j] \in Conn
      BY <2>2 DEF RemoveControlPromote, IsLowest, Idle, Others, Active, Indices,
                  PoolTypeOK
    <3> QED BY <1>3, <2>2, <3>1 DEF RemoveConn, Goto
  <2> QED BY <1>3, <2>1, <2>2 DEF RemoveConn
<1>4. ASSUME NEW w \in Ctx,
             \/ Retry(w) \/ PromoteClose(w) \/ PromoteStart(w)
             \/ ResizePromote(w) \/ ResizeUnlock(w)
      PROVE  HandsOK'
  BY <1>4
  DEF Retry, PromoteClose, PromoteStart, ResizePromote, ResizeUnlock, Goto
<1>5. ASSUME NEW w \in Ctx, NEW f \in Ctx, ResizeStartSlot(w, f)
      PROVE  HandsOK'
  BY <1>5 DEF ResizeStartSlot, StartSlot, Goto
<1>6. ASSUME NEW w \in Ctx, NEW c \in Conn, JoinOK(w, c)
      PROVE  HandsOK'
  BY <1>6 DEF JoinOK, Goto
<1>7. ASSUME NEW w \in Ctx, NEW n \in 1 .. MaxPoolConnections, ResizePool(w, n)
      PROVE  HandsOK'
  BY <1>7 DEF ResizePool, Goto
<1>8. ASSUME NEW f \in Ctx, MainStartSlot(f)
      PROVE  HandsOK'
  BY <1>8 DEF MainStartSlot, StartSlot, Goto, MainOK
<1>9. CASE \/ MainSelect \/ MainClose \/ MainCancel \/ Deferred \/ CancelRun
           \/ UNCHANGED vars \/ \E c \in Conn : Drop(c)
  BY <1>1, <1>9
  DEF MainSelect, MainClose, MainCancel, Deferred, CancelRun, Drop, vars, slotVars
<1> QED
  BY <1>2, <1>3, <1>4, <1>5, <1>6, <1>7, <1>8, <1>9, NextCases

-----------------------------------------------------------------------------
(* Who holds a connection *)

\* The pool takes connections in by add only, and a data loop comes into being
\* by startConnPingLoop only.
OnlyTakes ==
  /\ \A i \in Slots : conns'[i] \in {conns[i], None}
  /\ draining' \subseteq draining \cup Pooled
  /\ \A c \in Conn : dataLoop[c] = None => dataLoop'[c] = None

\* The other methods of the pool only take out and end.
LEMMA OthersOnlyTake ==
  ASSUME PoolTypeOK
  PROVE  /\ \A c \in Conn :
              \/ Connect(c) \/ CloseConn(c) \/ CloseDrained(c) \/ ReplacePingLoop(c)
              => OnlyTakes
         /\ \A i, w : SetSlotCancel(i, w) => OnlyTakes
         /\ \A i, busy : Remove(i, busy) => OnlyTakes
         /\ \A n \in 1 .. MaxPoolConnections : Resize(n) => OnlyTakes
         /\ \A w : CancelCtx(w) => OnlyTakes
         /\ Close => OnlyTakes
         /\ UNCHANGED poolVars => OnlyTakes
<1> USE DEF PoolTypeOK, OnlyTakes
<1>1. ASSUME NEW c \in Conn,
             Connect(c) \/ CloseConn(c) \/ CloseDrained(c) \/ ReplacePingLoop(c)
      PROVE  OnlyTakes
  BY <1>1 DEF Connect, CloseConn, CloseDrained, ReplacePingLoop
<1>2. ASSUME NEW i, NEW w, SetSlotCancel(i, w)
      PROVE  OnlyTakes
  BY <1>2 DEF SetSlotCancel
<1>3. ASSUME NEW i, NEW busy, Remove(i, busy)
      PROVE  OnlyTakes
  BY <1>3
  DEF Remove, RemoveNone, RemoveData, RemoveLast, RemoveControlPromote,
      RemoveControlNoIdle, EmptySlot, Active, Indices, WithoutLoops, poolVars
<1>4. ASSUME NEW n \in 1 .. MaxPoolConnections, Resize(n)
      PROVE  OnlyTakes
  <2>1. CutOff(n) \subseteq Pooled
    BY DEF CutOff, Pooled, Active, Indices
  <2>2. CASE Grow(n)
    BY <2>2 DEF Grow
  <2>3. ASSUME CutSlots(n)
        PROVE  /\ \A i \in Slots : conns'[i] \in {conns[i], None}
               /\ draining' \subseteq draining \cup Pooled
    BY <2>1, <2>3 DEF CutSlots
  <2>4. ASSUME NEW S, dataLoop' = WithoutLoops(S)
        PROVE  \A c \in Conn : dataLoop[c] = None => dataLoop'[c] = None
    BY <2>4 DEF WithoutLoops
  <2> QED
    BY <1>4, <2>2, <2>3, <2>4
    DEF Resize, ShrinkKeepControl, ShrinkPromote, ShrinkNoSurvivor
<1>5. ASSUME NEW w, CancelCtx(w)
      PROVE  OnlyTakes
  BY <1>5 DEF CancelCtx
<1>6. ASSUME Close
      PROVE  OnlyTakes
  BY <1>6 DEF Close, WithoutLoops
<1>7. ASSUME UNCHANGED poolVars
      PROVE  OnlyTakes
  BY <1>7 DEF poolVars
<1> QED BY <1>1, <1>2, <1>3, <1>4, <1>5, <1>6, <1>7

\* A connection that is fresh and unwatched stays so.
LEMMA TakesKeepFresh ==
  ASSUME PoolTypeOK, OnlyTakes, NEW c \in Conn
  PROVE  /\ Fresh(c) => Fresh(c)'
         /\ dataLoop[c] = None => dataLoop'[c] = None
         /\ \A i \in Slots : conns'[i] = c => conns[i] = c
  BY PoolAssumption DEF OnlyTakes, Fresh, Pooled

\* A step that only takes, in which every goroutine keeps what it holds or lets
\* it go and nobody's connection becomes fresh again.
LEMMA HeldKept ==
  ASSUME BaseInv, OnlyTakes, UNCHANGED slot,
         UNCHANGED controlConn,
         \A w \in Ctx : held'[w] \in {held[w], None},
         \A w \in Ctx : held'[w] # None =>
           /\ pc'[w] \in {"top", "add"} => pc[w] \in {"top", "add"}
           /\ pc'[w] \in {"startControl", "startData"}
                => pc[w] \in {"top", "add", "startControl", "startData"}
  PROVE  HeldOK'
<1> USE PoolAssumption DEF BaseInv, TypeOK, HeldOK
<1>1. \A v, w \in Ctx : held'[v] = held'[w] => v = w \/ held'[v] = None
  OBVIOUS
<1>2. controlConn' # None =>
        /\ \A w \in Ctx : held'[w] # controlConn'
        /\ Fresh(controlConn)'
        /\ dataLoop'[controlConn'] = None
  BY TakesKeepFresh
<1>3. ASSUME NEW w \in Ctx, held'[w] # None
      PROVE  /\ pc'[w] \in {"top", "add"} => Fresh(held[w])'
             /\ pc'[w] \in {"top", "add", "startControl", "startData"}
                  => dataLoop'[held'[w]] = None
             /\ \A i \in Slots : conns'[i] = held'[w] => slot'[w] = i
  <2>1. PICK c \in Conn : held[w] = c /\ held'[w] = c
    BY <1>3
  <2>2. Fresh(c) => Fresh(c)'
    BY TakesKeepFresh
  <2> QED BY <1>3, <2>1, <2>2, TakesKeepFresh DEF Fresh
<1> QED BY <1>1, <1>2, <1>3

\* A connection has one holder and one slot, from its dial to its end.
LEMMA HeldStep ==
  ASSUME BaseInv, [Next]_vars
  PROVE  HeldOK'
<1> USE PoolAssumption DEF BaseInv, TypeOK
<1>1. ASSUME NEW w \in Ctx,
             \/ TopReturn(w) \/ TopClose(w) \/ TopProceed(w) \/ JoinFailed(w)
             \/ JoinGiveUp(w) \/ AddRejected(w) \/ StartControl(w)
             \/ ReadReturn(w) \/ ReadFail(w) \/ Lost(w)
      PROVE  HeldOK'
  <2>1. OnlyTakes
    BY <1>1, OthersOnlyTake
    DEF TopReturn, TopClose, TopProceed, JoinFailed, JoinGiveUp, AddRejected,
        StartControl, ReadReturn, ReadFail, Lost, HandsOK, Holding
  <2>2. /\ UNCHANGED <<slot, held, controlConn>>
        /\ \A v \in Ctx : held'[v] # None =>
             /\ pc'[v] \in {"top", "add"} => pc[v] \in {"top", "add"}
             /\ pc'[v] \in {"startControl", "startData"}
                  => pc[v] \in {"top", "add", "startControl", "startData"}
    BY <1>1
    DEF TopReturn, TopClose, TopProceed, JoinFailed, JoinGiveUp, AddRejected,
        StartControl, ReadReturn, ReadFail, Lost, Goto, mainVars, HandsOK,
        EmptyHanded
  <2> QED BY <2>1, <2>2, HeldKept
<1>2. ASSUME NEW w \in Ctx, AddConn(w)
      PROVE  HeldOK'
  <2>1. /\ Add(slot[w], held[w]) /\ held[w] \in Conn /\ slot[w] \in Slots
        /\ Fresh(held[w]) /\ dataLoop[held[w]] = None
    BY <1>2 DEF AddConn, Add, Indices, HandsOK, Holding, HeldOK
  <2>2. UNCHANGED <<slot, held, controlConn, dataLoop, draining>>
    BY <1>2 DEF AddConn, Add, mainVars
  <2>3. /\ pc'[w] \notin {"top", "add"}
        /\ \A v \in Ctx \ {w} : pc'[v] = pc[v]
    BY <1>2 DEF AddConn, Goto
  <2>4. \A i \in Slots : conns'[i] = IF i = slot[w] THEN held[w] ELSE conns[i]
    BY <2>1 DEF Add, PoolTypeOK
  <2>5. \A c \in Conn : Fresh(c) /\ c # held[w] => Fresh(c)'
    BY <2>2, <2>4 DEF Fresh, Pooled
  <2>6. controlConn' # None =>
          /\ \A v \in Ctx : held'[v] # controlConn'
          /\ Fresh(controlConn)'
          /\ dataLoop'[controlConn'] = None
    BY <2>2, <2>5 DEF HeldOK, Fresh
  <2>7. ASSUME NEW v \in Ctx, held'[v] # None
        PROVE  /\ pc'[v] \in {"top", "add"} => Fresh(held[v])'
               /\ pc'[v] \in {"top", "add", "startControl", "startData"}
                    => dataLoop'[held'[v]] = None
               /\ \A i \in Slots : conns'[i] = held'[v] => slot'[v] = i
    <3>1. CASE v = w
      BY <2>1, <2>2, <2>3, <2>4, <3>1 DEF Fresh, Pooled
    <3>2. CASE v # w
      <4>1. held[v] # held[w] /\ held[v] \in Conn
        BY <2>2, <2>7, <3>2 DEF HeldOK
      <4> QED BY <2>2, <2>3, <2>4, <2>5, <2>7, <3>2, <4>1 DEF HeldOK, Fresh
    <3> QED BY <3>1, <3>2
  <2> QED BY <2>2, <2>6, <2>7 DEF HeldOK
<1>3. ASSUME NEW w \in Ctx, StartData(w)
      PROVE  HeldOK'
  <2>1. /\ UNCHANGED <<slot, held, controlConn, conns, draining>>
        /\ held[w] \in Conn
        /\ dataLoop' = [dataLoop EXCEPT ![held[w]] = w]
        /\ pc'[w] = "read"
        /\ \A v \in Ctx \ {w} : pc'[v] = pc[v]
    BY <1>3
    DEF StartData, StartDataLoop, Goto, mainVars, HandsOK, Holding
  <2> QED BY <2>1 DEF HeldOK, Fresh, PoolTypeOK, Pooled
<1>4. ASSUME NEW w \in Ctx,
             \/ RemoveConn(w) \/ Retry(w) \/ PromoteClose(w) \/ PromoteStart(w)
             \/ ResizePromote(w) \/ ResizeUnlock(w)
      PROVE  HeldOK'
  <2>1. OnlyTakes
    <3>1. CASE RemoveConn(w)
      BY <3>1, OthersOnlyTake DEF RemoveConn, Remove
    <3>2. CASE \/ Retry(w) \/ PromoteClose(w) \/ PromoteStart(w)
               \/ ResizePromote(w) \/ ResizeUnlock(w)
      BY <3>2, OthersOnlyTake
      DEF Retry, PromoteClose, PromoteStart, ResizePromote, ResizeUnlock, HandsOK,
          Holding
    <3> QED BY <1>4, <3>1, <3>2
  <2>2. /\ UNCHANGED <<slot, controlConn>>
        /\ \A v \in Ctx : held'[v] \in {held[v], None}
        /\ \A v \in Ctx : held'[v] # None =>
             /\ pc'[v] \in {"top", "add"} => pc[v] \in {"top", "add"}
             /\ pc'[v] \in {"startControl", "startData"}
                  => pc[v] \in {"top", "add", "startControl", "startData"}
    <3>1. CASE RemoveConn(w)
      BY <3>1 DEF RemoveConn, Goto, mainVars
    <3>2. CASE \/ Retry(w) \/ PromoteClose(w) \/ PromoteStart(w)
               \/ ResizePromote(w) \/ ResizeUnlock(w)
      BY <3>2
      DEF Retry, PromoteClose, PromoteStart, ResizePromote, ResizeUnlock, Goto,
          mainVars, HandsOK, EmptyHanded
    <3> QED BY <1>4, <3>1, <3>2
  <2> QED BY <2>1, <2>2, HeldKept
<1>5. ASSUME NEW w \in Ctx, NEW n \in 1 .. MaxPoolConnections, ResizePool(w, n)
      PROVE  HeldOK'
  <2>1. OnlyTakes
    BY <1>5, OthersOnlyTake DEF ResizePool, Resize
  <2>2. /\ UNCHANGED <<slot, held, controlConn>>
        /\ \A v \in Ctx : pc'[v] = pc[v] \/ pc'[v] = "resized"
    BY <1>5 DEF ResizePool, Goto, mainVars
  <2> QED BY <2>1, <2>2, HeldKept
<1>6. CASE \/ MainSelect \/ MainClose \/ MainCancel \/ Deferred \/ CancelRun
           \/ UNCHANGED vars \/ \E c \in Conn : Drop(c)
  <2>1. OnlyTakes
    BY <1>6, OthersOnlyTake
    DEF MainSelect, MainClose, MainCancel, Deferred, CancelRun, Drop, vars
  <2>2. UNCHANGED <<pc, slot, held, controlConn>>
    BY <1>6
    DEF MainSelect, MainClose, MainCancel, Deferred, CancelRun, Drop, vars,
        slotVars, mainVars
  <2> QED BY <2>1, <2>2, HeldKept
<1>7. ASSUME NEW w \in Ctx, NEW c \in Conn, JoinOK(w, c)
      PROVE  HeldOK'
  <2>1. /\ UNCHANGED <<slot, controlConn, conns, draining>>
        /\ held' = [held EXCEPT ![w] = c]
        /\ dataLoop' = [dataLoop EXCEPT ![c] = None]
        /\ NotHeld(c) /\ Fresh(c)
        /\ pc' = [pc EXCEPT ![w] = "add"]
    BY <1>7 DEF JoinOK, Connect, Unreferenced, Goto, mainVars, Fresh
  <2>2. Pooled' = Pooled
    BY <2>1 DEF Pooled
  <2>3. \A i \in Slots : conns[i] # c
    BY <2>1 DEF Fresh, Pooled
  <2>4. \A v \in Ctx : v # w => held'[v] = held[v] /\ held[v] # c /\ pc'[v] = pc[v]
    BY <2>1 DEF NotHeld
  <2>5. held'[w] = c /\ pc'[w] = "add" /\ controlConn # c
    BY <2>1 DEF NotHeld
  <2> QED BY <2>1, <2>2, <2>3, <2>4, <2>5 DEF HeldOK, Fresh, PoolTypeOK
<1>8. ASSUME NEW w \in Ctx, NEW f \in Ctx, ResizeStartSlot(w, f)
      PROVE  HeldOK'
  <2>1. /\ UNCHANGED <<controlConn, conns, draining, dataLoop>>
        /\ held'[f] = None
        /\ \A v \in Ctx \ {f} :
             held'[v] = held[v] /\ pc'[v] = pc[v] /\ slot'[v] = slot[v]
    BY <1>8 DEF ResizeStartSlot, StartSlot, SetSlotCancel, Goto, mainVars
  <2> QED BY <2>1 DEF HeldOK, Fresh, Pooled
<1>9. ASSUME NEW f \in Ctx, MainStartSlot(f)
      PROVE  HeldOK'
  <2>1. /\ UNCHANGED <<conns, draining, dataLoop>>
        /\ controlConn' = None
        /\ held'[f] = controlConn
        /\ \A v \in Ctx \ {f} :
             held'[v] = held[v] /\ pc'[v] = pc[v] /\ slot'[v] = slot[v]
    BY <1>9 DEF MainStartSlot, StartSlot, SetSlotCancel, Goto
  <2>2. controlConn # None => \A i \in Slots : conns[i] # controlConn
    BY DEF HeldOK, Fresh, Pooled
  <2> QED BY <2>1, <2>2 DEF HeldOK, Fresh, Pooled
<1> QED
  BY <1>1, <1>2, <1>3, <1>4, <1>5, <1>6, <1>7, <1>8, <1>9, NextCases DEF Moves

\* A session that has been granted its connections satisfies all this.
LEMMA BaseInit == Init => BaseInv
<1> SUFFICES ASSUME Init PROVE BaseInv
  OBVIOUS
<1> USE PoolAssumption, SessionAssumption
<1>1. PoolTypeOK
  BY DEF Init, PoolInit, PoolTypeOK, ClampMax, Slots
<1>2. TypeOK
  <2>1. 0 \in 0 .. MaxGranted + MaxPoolConnections
    OBVIOUS
  <2>2. /\ pc \in [Ctx -> PcValues]
        /\ slot \in [Ctx -> 0 .. MaxGranted + MaxPoolConnections]
    BY <2>1 DEF Init, PcValues
  <2>3. /\ held \in [Ctx -> Conn \cup {None}]
        /\ promo \in [Ctx -> Conn \cup {None}]
    BY DEF Init
  <2>4. /\ nextSlot \in 0 .. MaxPoolConnections
        /\ startNext \in 0 .. MaxGranted
        /\ resizes \in 0 .. MaxResizes
    BY DEF Init
  <2>5. errCh \in BOOLEAN /\ sessionCancelled \in BOOLEAN /\ ctxDone \in BOOLEAN
    BY Zenon DEF Init
  <2> QED BY <1>1, <2>2, <2>3, <2>4, <2>5 DEF Init, TypeOK
<1>3. HandsOK /\ MainOK
  BY DEF Init, HandsOK, MainOK, Holding, EmptyHanded, Using
<1>4. HeldOK
  BY DEF Init, PoolInit, HeldOK, Fresh, Pooled
<1> QED BY <1>2, <1>3, <1>4 DEF BaseInv

\* What the use of the pool rests on holds throughout a session.
LEMMA BaseInvariant == Spec => []BaseInv
<1>1. BaseInv /\ [Next]_vars => BaseInv'
  BY SessionTypeStep, HandsStep, MainStepOK, HeldStep DEF BaseInv
<1> QED BY <1>1, BaseInit, PTL DEF Spec

\* The goroutines of a session, runSession and the server's resizes use the pool
\* in no other way than its most general user: SessionPool implements PoolSpec.
THEOREM SessionImplementsPool == Spec => PoolSpec
<1>1. Init => PoolUserInit
  <2> SUFFICES ASSUME Init PROVE PoolUserInit
    OBVIOUS
  <2>1. ClampMax(granted) \in 1 .. MaxPoolConnections
    BY PoolAssumption, SessionAssumption DEF Init, ClampMax
  <2> QED BY <2>1 DEF Init, PoolUserInit
<1>2. BaseInv /\ [Next]_vars => [PoolNext]_poolVars
  BY SessionCalls
<1> QED BY <1>1, <1>2, BaseInvariant, PTL DEF Spec, PoolSpec

\* The session keeps its types.
THEOREM SessionTypeCorrect == Spec => []TypeOK
  BY BaseInvariant, PTL DEF BaseInv

\* What PoolSpec guarantees, every session has: a pool that has connections has
\* a control connection or gave it up, and so on.
THEOREM SessionKeepsPool ==
  Spec => /\ [](ControlPresent /\ OneControlLoop /\ CutSlotsEmpty)
          /\ ControlMovesOnlyWhenLost
  BY SessionImplementsPool, ControlAlwaysPresent, AtMostOneControlLoop,
     CutSlotsAreEmpty, LiveControlNeverDemoted, PTL

-----------------------------------------------------------------------------
(* The end of a session, and slot 0 *)

\* slotCancels[k] ends a goroutine of slot k; Resize ends none of slot 0.
CancelsOK ==
  /\ \A k \in Slots : slotCancels[k] # None =>
       slot[slotCancels[k]] = k /\ pc[slotCancels[k]] # "unused"
  /\ ~Ending => \A w \in doomed \cup cancelled : slot[w] >= 1 /\ pc[w] # "unused"

\* Slot 0 has its goroutine from its start to the end of the session.
ZeroKept ==
  startNext > 0 /\ ~Ending =>
    \E w \in Ctx : slot[w] = 0 /\ pc[w] \notin {"unused", "done"}

\* What decides when a session ends.
EndInv == BaseInv /\ NoControlEndsSession /\ CancelsOK /\ ZeroKept

\* A session that is about to end stays so: the error leaves errCh only by
\* runSession's select, which goes on to close the pool.
LEMMA EndingStays ==
  ASSUME BaseInv, [Next]_vars, Ending
  PROVE  Ending'
<1> USE DEF Ending, BaseInv, TypeOK
<1>1. ASSUME NEW w \in Ctx, Moves(w)
      PROVE  Ending'
  BY <1>1, MovesFrame DEF mainVars
<1>2. ASSUME NEW w \in Ctx,
             \/ RemoveConn(w) \/ Retry(w) \/ PromoteClose(w) \/ PromoteStart(w)
             \/ ResizePromote(w) \/ ResizeUnlock(w)
             \/ \E f \in Ctx : ResizeStartSlot(w, f)
             \/ \E c \in Conn : JoinOK(w, c)
             \/ \E n \in 1 .. MaxPoolConnections : ResizePool(w, n)
      PROVE  Ending'
  BY <1>2
  DEF RemoveConn, Retry, PromoteClose, PromoteStart, ResizePromote, ResizeUnlock,
      ResizeStartSlot, JoinOK, ResizePool, mainVars
<1>3. ASSUME NEW f \in Ctx, MainStartSlot(f)
      PROVE  Ending'
  BY <1>3 DEF MainStartSlot
<1>4. CASE MainSelect \/ MainClose \/ MainCancel
  BY <1>4 DEF MainSelect, MainClose, MainCancel
<1>5. CASE Deferred \/ CancelRun \/ UNCHANGED vars \/ \E c \in Conn : Drop(c)
  BY <1>5 DEF Deferred, CancelRun, Drop, vars, mainVars
<1> QED BY <1>1, <1>2, <1>3, <1>4, <1>5, NextCases

\* What a step does to a goroutine: it keeps its slot once it has started, and
\* it stops only when its context is cancelled, after an error was sent to
\* errCh, or when the pool no longer has its slot.
LEMMA GoroutineStep ==
  ASSUME BaseInv, [Next]_vars, NEW v \in Ctx
  PROVE  /\ pc[v] # "unused" => pc'[v] # "unused" /\ slot'[v] = slot[v]
         /\ pc[v] = "lost" => pc'[v] = "lost" \/ errCh'
         /\ pc[v] # "done" /\ pc'[v] = "done"
              => CtxErr(v) \/ errCh' \/ slot[v] \notin Indices
<1> USE DEF BaseInv, TypeOK
<1>1. CASE UNCHANGED <<pc, slot>>
  BY <1>1
<1>2. ASSUME NEW w \in Ctx, Moves(w)
      PROVE  /\ pc[v] # "unused" => pc'[v] # "unused" /\ slot'[v] = slot[v]
             /\ pc[v] = "lost" => pc'[v] = "lost" \/ errCh'
             /\ pc[v] # "done" /\ pc'[v] = "done"
                  => CtxErr(v) \/ errCh' \/ slot[v] \notin Indices
  <2>1. CASE \/ TopReturn(w) \/ TopClose(w) \/ TopProceed(w) \/ JoinFailed(w)
             \/ JoinGiveUp(w) \/ AddConn(w)
    BY <2>1 DEF TopReturn, TopClose, TopProceed, JoinFailed, JoinGiveUp, AddConn,
                Goto
  <2>2. CASE \/ AddRejected(w) \/ StartControl(w) \/ StartData(w)
             \/ ReadReturn(w) \/ ReadFail(w) \/ Lost(w)
    BY <2>2 DEF AddRejected, StartControl, StartData, ReadReturn, ReadFail, Lost,
                Goto
  <2> QED BY <1>2, <2>1, <2>2 DEF Moves
<1>3. ASSUME NEW w \in Ctx,
             \/ RemoveConn(w) \/ Retry(w) \/ PromoteClose(w) \/ PromoteStart(w)
             \/ ResizePromote(w) \/ ResizeUnlock(w)
             \/ \E c \in Conn : JoinOK(w, c)
             \/ \E n \in 1 .. MaxPoolConnections : ResizePool(w, n)
      PROVE  /\ slot' = slot
             /\ pc[v] # "unused" => pc'[v] # "unused"
             /\ pc[v] = "lost" => pc'[v] = "lost"
             /\ pc'[v] = "done" => pc[v] = "done"
  BY <1>3
  DEF RemoveConn, Retry, PromoteClose, PromoteStart, ResizePromote, ResizeUnlock,
      JoinOK, ResizePool, Goto
<1>4. ASSUME NEW f \in Ctx,
             MainStartSlot(f) \/ \E w \in Ctx : ResizeStartSlot(w, f)
      PROVE  /\ pc[f] = "unused"
             /\ v # f => pc'[v] = pc[v] /\ slot'[v] = slot[v]
             /\ v = f => pc'[v] = "top"
  BY <1>4 DEF MainStartSlot, ResizeStartSlot, StartSlot, Goto
<1>5. CASE \/ MainSelect \/ MainClose \/ MainCancel \/ Deferred \/ CancelRun
           \/ UNCHANGED vars \/ \E c \in Conn : Drop(c)
  BY <1>1, <1>5
  DEF MainSelect, MainClose, MainCancel, Deferred, CancelRun, Drop, vars, slotVars
<1> QED BY <1>1, <1>2, <1>3, <1>4, <1>5, NextCases

\* The control is given up by remove, in a goroutine that then reports it.
LEMMA GivenUpReported ==
  ASSUME BaseInv, [Next]_vars, controlIndex # -1, controlIndex' = -1
  PROVE  \E w \in Ctx : pc'[w] = "lost"
<1> USE PoolAssumption DEF BaseInv, TypeOK, PoolTypeOK
<1>1. CASE UNCHANGED poolVars
  BY <1>1 DEF poolVars
<1>2. ASSUME NEW w \in Ctx, Moves(w)
      PROVE  FALSE
  <2>1. CASE \/ TopReturn(w) \/ TopProceed(w) \/ JoinFailed(w) \/ JoinGiveUp(w)
             \/ ReadReturn(w) \/ ReadFail(w)
    BY <2>1 DEF TopReturn, TopProceed, JoinFailed, JoinGiveUp, ReadReturn, ReadFail,
                poolVars
  <2>2. CASE TopClose(w) \/ AddRejected(w) \/ Lost(w)
    BY <2>2 DEF TopClose, AddRejected, Lost, CloseConn
  <2>3. CASE AddConn(w)
    BY <2>3 DEF AddConn, Add, Indices, Slots
  <2>4. CASE StartControl(w) \/ StartData(w)
    BY <2>4 DEF StartControl, StartData, ReplacePingLoop, StartDataLoop
  <2> QED BY <1>2, <2>1, <2>2, <2>3, <2>4 DEF Moves
<1>3. ASSUME NEW w \in Ctx, RemoveConn(w)
      PROVE  pc'[w] = "lost"
  <2>1. ASSUME NEW j \in Slots, NEW busy, RemoveControlPromote(slot[w], busy, j)
        PROVE  FALSE
    BY <2>1 DEF RemoveControlPromote, Slots
  <2>2. ASSUME RemoveNone(slot[w]) \/ RemoveData(slot[w])
        PROVE  FALSE
    BY <2>2 DEF RemoveNone, RemoveData, poolVars
  <2>3. Goto(w, "lost")
    BY <1>3, <2>1, <2>2 DEF RemoveConn
  <2> QED BY <2>3 DEF Goto
<1>4. ASSUME NEW w \in Ctx,
             \/ Retry(w) \/ PromoteClose(w) \/ PromoteStart(w)
             \/ ResizePromote(w) \/ ResizeUnlock(w)
             \/ \E f \in Ctx : ResizeStartSlot(w, f)
             \/ \E c \in Conn : JoinOK(w, c)
      PROVE  FALSE
  BY <1>4
  DEF Retry, PromoteClose, PromoteStart, ResizePromote, ResizeUnlock,
      ResizeStartSlot, StartSlot, JoinOK, CloseConn, ReplacePingLoop,
      SetSlotCancel, Connect, poolVars
<1>5. ASSUME NEW w \in Ctx, NEW n \in 1 .. MaxPoolConnections, ResizePool(w, n)
      PROVE  FALSE
  <2>1. Resize(n)
    BY <1>5 DEF ResizePool, Resize
  <2>2. ASSUME NEW j \in Slots, ShrinkPromote(n, j)
        PROVE  FALSE
    BY <2>2 DEF ShrinkPromote, Slots
  <2> QED BY <2>1, <2>2 DEF Resize, Grow, ShrinkKeepControl, ShrinkNoSurvivor
<1>6. ASSUME NEW f \in Ctx, MainStartSlot(f)
      PROVE  FALSE
  BY <1>6 DEF MainStartSlot, StartSlot, SetSlotCancel
<1>7. CASE \/ MainSelect \/ MainClose \/ MainCancel \/ Deferred \/ CancelRun
           \/ UNCHANGED vars \/ \E c \in Conn : Drop(c)
  BY <1>1, <1>7
  DEF MainSelect, MainClose, MainCancel, Deferred, CancelRun, Drop, vars, Close,
      CancelCtx, CloseDrained, CloseConn
<1> QED BY <1>2, <1>3, <1>4, <1>5, <1>6, <1>7, NextCases

\* A goroutine of slot k gets its cancel function stored when it starts, and a
\* resize takes it out with its slot.
LEMMA SlotCancelsStep ==
  ASSUME BaseInv, CancelsOK, [Next]_vars, NEW k \in Slots, slotCancels'[k] # None
  PROVE  slot'[slotCancels'[k]] = k /\ pc'[slotCancels'[k]] # "unused"
<1> USE PoolAssumption DEF BaseInv, TypeOK, PoolTypeOK
<1>1. CASE slotCancels'[k] = slotCancels[k]
  BY <1>1, GoroutineStep DEF CancelsOK
<1>2. ASSUME NEW f \in Ctx, NEW i, NEW c, StartSlot(f, i, c)
      PROVE  slot'[slotCancels'[k]] = k /\ pc'[slotCancels'[k]] # "unused"
  <2>1. CASE k = i /\ k \in Indices
    BY <1>2, <2>1 DEF StartSlot, SetSlotCancel, Goto
  <2>2. CASE ~(k = i /\ k \in Indices)
    BY <1>1, <1>2, <2>2 DEF StartSlot, SetSlotCancel
  <2> QED BY <2>1, <2>2
<1>3. ASSUME NEW w \in Ctx, Moves(w)
      PROVE  slotCancels' = slotCancels
  <2>1. CASE \/ TopReturn(w) \/ TopProceed(w) \/ JoinFailed(w) \/ JoinGiveUp(w)
             \/ ReadReturn(w) \/ ReadFail(w)
    BY <2>1 DEF TopReturn, TopProceed, JoinFailed, JoinGiveUp, ReadReturn, ReadFail,
                poolVars
  <2>2. CASE \/ TopClose(w) \/ AddRejected(w) \/ Lost(w) \/ AddConn(w)
             \/ StartControl(w) \/ StartData(w)
    BY <2>2 DEF TopClose, AddRejected, Lost, CloseConn, AddConn, Add, StartControl,
                StartData, ReplacePingLoop, StartDataLoop
  <2> QED BY <1>3, <2>1, <2>2 DEF Moves
<1>4. ASSUME NEW w \in Ctx,
             \/ RemoveConn(w) \/ Retry(w) \/ PromoteClose(w) \/ PromoteStart(w)
             \/ ResizePromote(w) \/ ResizeUnlock(w)
             \/ \E c \in Conn : JoinOK(w, c)
      PROVE  slotCancels' = slotCancels
  BY <1>4
  DEF RemoveConn, RemoveNone, RemoveData, RemoveLast, RemoveControlPromote,
      RemoveControlNoIdle, EmptySlot, Retry, PromoteClose, PromoteStart,
      ResizePromote, ResizeUnlock, JoinOK, CloseConn, ReplacePingLoop, Connect,
      poolVars
<1>5. ASSUME NEW w \in Ctx, NEW n \in 1 .. MaxPoolConnections, ResizePool(w, n)
      PROVE  slotCancels'[k] \in {slotCancels[k], None}
  <2>1. Grow(n) \/ CutSlots(n)
    BY <1>5 DEF ResizePool, ShrinkKeepControl, ShrinkNoSurvivor, ShrinkPromote
  <2> QED BY <2>1 DEF Grow, CutSlots
<1>6. CASE \/ MainSelect \/ MainClose \/ MainCancel \/ Deferred \/ CancelRun
           \/ UNCHANGED vars \/ \E c \in Conn : Drop(c)
  BY <1>1, <1>6
  DEF MainSelect, MainClose, MainCancel, Deferred, CancelRun, Drop, vars, Close,
      CancelCtx, CloseDrained, CloseConn, poolVars
<1> QED
  BY <1>1, <1>2, <1>3, <1>4, <1>5, <1>6, NextCases
  DEF ResizeStartSlot, MainStartSlot

\* Unless the session is ending, a step stops no goroutines but those of the
\* slots that a resize cuts off.
LEMMA StoppedStep ==
  ASSUME BaseInv, [Next]_vars, ~Ending'
  PROVE  \/ doomed' \cup cancelled' \subseteq doomed \cup cancelled
         \/ /\ \E w \in Ctx, n \in 1 .. MaxPoolConnections : ResizePool(w, n)
            /\ maxConns' >= 1
            /\ doomed' \cup cancelled' \subseteq
                 doomed \cup cancelled
                   \cup ({slotCancels[k] : k \in {k \in Slots : k >= maxConns'}}
                           \ {None})
<1> USE PoolAssumption DEF BaseInv, TypeOK, PoolTypeOK
<1>1. CASE UNCHANGED <<doomed, cancelled>>
  BY <1>1
<1>2. ASSUME NEW w \in Ctx, Moves(w)
      PROVE  UNCHANGED <<doomed, cancelled>>
  <2>1. CASE \/ TopReturn(w) \/ TopProceed(w) \/ JoinFailed(w) \/ JoinGiveUp(w)
             \/ ReadReturn(w) \/ ReadFail(w)
    BY <2>1 DEF TopReturn, TopProceed, JoinFailed, JoinGiveUp, ReadReturn, ReadFail,
                poolVars
  <2>2. CASE \/ TopClose(w) \/ AddRejected(w) \/ Lost(w) \/ AddConn(w)
             \/ StartControl(w) \/ StartData(w)
    BY <2>2 DEF TopClose, AddRejected, Lost, CloseConn, AddConn, Add, StartControl,
                StartData, ReplacePingLoop, StartDataLoop
  <2> QED BY <1>2, <2>1, <2>2 DEF Moves
<1>3. ASSUME NEW w \in Ctx,
             \/ RemoveConn(w) \/ Retry(w) \/ PromoteClose(w) \/ PromoteStart(w)
             \/ ResizePromote(w) \/ ResizeUnlock(w)
             \/ \E c \in Conn : JoinOK(w, c)
             \/ \E f \in Ctx : ResizeStartSlot(w, f)
      PROVE  UNCHANGED <<doomed, cancelled>>
  BY <1>3
  DEF RemoveConn, RemoveNone, RemoveData, RemoveLast, RemoveControlPromote,
      RemoveControlNoIdle, EmptySlot, Retry, PromoteClose, PromoteStart,
      ResizePromote, ResizeUnlock, JoinOK, CloseConn, ReplacePingLoop, Connect,
      ResizeStartSlot, StartSlot, SetSlotCancel, poolVars
<1>4. ASSUME NEW w \in Ctx, NEW n \in 1 .. MaxPoolConnections, ResizePool(w, n)
      PROVE  /\ cancelled' = cancelled
             /\ maxConns' >= 1
             /\ doomed' \subseteq doomed
                  \cup ({slotCancels[k] : k \in {k \in Slots : k >= maxConns'}}
                          \ {None})
  <2>1. CASE Grow(n)
    BY <2>1 DEF Grow
  <2>2. CASE CutSlots(n)
    BY <2>2 DEF CutSlots, Indices, Slots
  <2> QED
    BY <1>4, <2>1, <2>2
    DEF ResizePool, ShrinkKeepControl, ShrinkNoSurvivor, ShrinkPromote
<1>5. ASSUME NEW w \in Ctx, CancelCtx(w)
      PROVE  doomed' \cup cancelled' \subseteq doomed \cup cancelled
  BY <1>5 DEF CancelCtx
<1>6. CASE MainClose
  BY <1>6 DEF MainClose, Ending
<1>7. ASSUME NEW f \in Ctx, MainStartSlot(f)
      PROVE  UNCHANGED <<doomed, cancelled>>
  BY <1>7 DEF MainStartSlot, StartSlot, SetSlotCancel
<1>8. CASE \/ MainSelect \/ MainCancel \/ CancelRun
           \/ UNCHANGED vars \/ \E c \in Conn : Drop(c) \/ CloseDrained(c)
  BY <1>8
  DEF MainSelect, MainCancel, CancelRun, Drop, vars, CloseDrained, CloseConn,
      poolVars
<1> QED
  BY <1>1, <1>2, <1>3, <1>4, <1>5, <1>6, <1>7, <1>8, NextCases DEF Deferred

\* Only runSession's loop advances its index.
LEMMA StartNextMoves ==
  ASSUME BaseInv, [Next]_vars
  PROVE  \/ UNCHANGED <<startNext, granted, controlConn>>
         \/ \E f \in Ctx : MainStartSlot(f)
<1>1. ASSUME NEW w \in Ctx, Moves(w)
      PROVE  UNCHANGED <<startNext, granted, controlConn>>
  BY <1>1, MovesFrame DEF mainVars, BaseInv
<1>2. ASSUME NEW w \in Ctx,
             \/ RemoveConn(w) \/ Retry(w) \/ PromoteClose(w) \/ PromoteStart(w)
             \/ ResizePromote(w) \/ ResizeUnlock(w)
             \/ \E f \in Ctx : ResizeStartSlot(w, f)
             \/ \E c \in Conn : JoinOK(w, c)
             \/ \E n \in 1 .. MaxPoolConnections : ResizePool(w, n)
      PROVE  UNCHANGED <<startNext, granted, controlConn>>
  BY <1>2
  DEF RemoveConn, Retry, PromoteClose, PromoteStart, ResizePromote, ResizeUnlock,
      ResizeStartSlot, JoinOK, ResizePool, mainVars
<1>3. CASE \/ MainSelect \/ MainClose \/ MainCancel \/ Deferred \/ CancelRun
           \/ UNCHANGED vars \/ \E c \in Conn : Drop(c)
  BY <1>3
  DEF MainSelect, MainClose, MainCancel, Deferred, CancelRun, Drop, vars, mainVars
<1> QED BY <1>1, <1>2, <1>3, NextCases

\* What decides when a session ends is kept by every step.
LEMMA EndStep ==
  ASSUME EndInv, [Next]_vars
  PROVE  NoControlEndsSession' /\ CancelsOK' /\ ZeroKept'
<1> USE PoolAssumption DEF EndInv
<1>1. NoControlEndsSession'
  <2>1. CASE Ending'
    BY <2>1 DEF NoControlEndsSession
  <2>2. ASSUME NEW w \in Ctx, pc[w] = "lost"
        PROVE  NoControlEndsSession'
    BY <2>2, GoroutineStep DEF NoControlEndsSession, Ending
  <2> QED
    BY <2>1, <2>2, EndingStays, GivenUpReported DEF NoControlEndsSession
<1>2. CancelsOK'
  <2>1. ASSUME ~Ending', NEW w \in (doomed \cup cancelled)'
        PROVE  slot'[w] >= 1 /\ pc'[w] # "unused"
    <3>1. ~Ending
      BY <2>1, EndingStays
    <3>2. CASE w \in doomed \cup cancelled
      BY <3>1, <3>2, GoroutineStep DEF CancelsOK, BaseInv, TypeOK, PoolTypeOK
    <3>3. CASE \E k \in Slots : k >= 1 /\ w = slotCancels[k] /\ w # None
      BY <3>3, GoroutineStep DEF CancelsOK, BaseInv, TypeOK, PoolTypeOK, Slots
    <3>4. (doomed \cup cancelled)' = doomed' \cup cancelled'
      OBVIOUS
    <3>5. CASE doomed' \cup cancelled' \subseteq doomed \cup cancelled
      BY <2>1, <3>2, <3>4, <3>5
    <3>6. ASSUME maxConns' >= 1,
                 doomed' \cup cancelled' \subseteq
                   doomed \cup cancelled
                     \cup ({slotCancels[k] : k \in {k \in Slots : k >= maxConns'}}
                             \ {None})
          PROVE  slot'[w] >= 1 /\ pc'[w] # "unused"
      <4>1. \/ w \in doomed \cup cancelled
            \/ \E k \in Slots : k >= maxConns' /\ w = slotCancels[k] /\ w # None
        BY <2>1, <3>4, <3>6
      <4>2. maxConns' \in Int
        BY SessionTypeStep DEF TypeOK, PoolTypeOK
      <4> QED BY <3>2, <3>3, <3>6, <4>1, <4>2 DEF Slots
    <3> QED BY <2>1, <3>5, <3>6, StoppedStep
  <2> QED BY <2>1, SlotCancelsStep DEF CancelsOK
<1>3. ZeroKept'
  <2> SUFFICES ASSUME startNext' > 0, ~Ending'
               PROVE  \E w \in Ctx : slot'[w] = 0 /\ pc'[w] \notin {"unused", "done"}
    BY DEF ZeroKept
  <2>1. ~Ending
    BY EndingStays
  <2>2. CASE startNext > 0
    <3>1. PICK w \in Ctx : slot[w] = 0 /\ pc[w] \notin {"unused", "done"}
      BY <2>1, <2>2 DEF ZeroKept
    <3>2. slot[w] \in Indices
      BY <3>1 DEF BaseInv, TypeOK, PoolTypeOK, Indices, Slots
    <3>3. ~CtxErr(w)
      BY <2>1, <3>1 DEF CtxErr, Ending, BaseInv, MainOK, CancelsOK
    <3> QED BY <3>1, <3>2, <3>3, GoroutineStep DEF Ending
  <2>3. CASE startNext = 0
    <3>1. PICK f \in Ctx : MainStartSlot(f)
      BY <2>3, StartNextMoves
    <3> QED
      BY <2>3, <3>1 DEF MainStartSlot, StartSlot, Goto, BaseInv, TypeOK
  <2> QED BY <2>2, <2>3 DEF BaseInv, TypeOK
<1> QED BY <1>1, <1>2, <1>3

\* What decides when a session ends holds throughout it.
LEMMA EndInvariant == Spec => []EndInv
<1>1. Init => EndInv
  BY BaseInit, PoolAssumption
  DEF Init, PoolInit, EndInv, NoControlEndsSession, CancelsOK, ZeroKept
<1>2. EndInv /\ [Next]_vars => EndInv'
  BY EndStep, SessionTypeStep, HandsStep, MainStepOK, HeldStep DEF EndInv, BaseInv
<1> QED BY <1>1, <1>2, PTL DEF Spec

\* The control of the pool is given up only by a goroutine that reports it on
\* errCh: a session does not go on with a pool that has no control.
THEOREM LostControlEndsSession == Spec => []NoControlEndsSession
  BY EndInvariant, PTL DEF EndInv

\* Slot 0 is maintained as long as the session is up.
THEOREM SlotZeroAlwaysMaintained == Spec => []SlotZeroMaintained
<1>1. EndInv => SlotZeroMaintained
  BY DEF EndInv, ZeroKept, BaseInv, MainOK, SlotZeroMaintained
<1> QED BY <1>1, EndInvariant, PTL

-----------------------------------------------------------------------------
(* Who owns a slot, up to the second resize *)

\* Which slots have been started.  A resize starts the slots from the old size
\* on; when it grows the pool, that size is what the register ack granted.
StartedOK ==
  resizes <= 1 =>
    /\ resizes = 0 =>
         maxConns = ClampMax(granted) /\ \A w \in Ctx : pc[w] # "resized"
    /\ resizes = 1 => nextSlot >= maxConns \/ nextSlot >= granted
    /\ \A w \in Ctx : pc[w] # "unused" =>
         \/ slot[w] < startNext
         \/ resizes = 1 /\ granted <= slot[w] /\ slot[w] < nextSlot

\* A step that starts no goroutine and does not resize the pool.
Quiet ==
  /\ UNCHANGED <<slot, startNext, granted, maxConns, nextSlot, resizes>>
  /\ \A v \in Ctx : /\ pc[v] = "unused" <=> pc'[v] = "unused"
                    /\ pc'[v] = "resized" => pc[v] = "resized"

\* All steps but three are quiet.
LEMMA QuietSteps ==
  ASSUME BaseInv, [Next]_vars
  PROVE  \/ Quiet
         \/ \E f \in Ctx : MainStartSlot(f)
         \/ \E w, f \in Ctx : ResizeStartSlot(w, f)
         \/ \E w \in Ctx, n \in 1 .. MaxPoolConnections : ResizePool(w, n)
<1> USE DEF BaseInv, TypeOK, Quiet
<1>1. ASSUME NEW w \in Ctx, Moves(w)
      PROVE  Quiet
  <2>1. maxConns' = maxConns
    <3>1. CASE \/ TopReturn(w) \/ TopProceed(w) \/ JoinFailed(w) \/ JoinGiveUp(w)
               \/ ReadReturn(w) \/ ReadFail(w)
      BY <3>1 DEF TopReturn, TopProceed, JoinFailed, JoinGiveUp, ReadReturn,
                  ReadFail, poolVars
    <3>2. CASE \/ TopClose(w) \/ AddRejected(w) \/ Lost(w) \/ AddConn(w)
               \/ StartControl(w) \/ StartData(w)
      BY <3>2 DEF TopClose, AddRejected, Lost, CloseConn, AddConn, Add,
                  StartControl, StartData, ReplacePingLoop, StartDataLoop
    <3> QED BY <1>1, <3>1, <3>2 DEF Moves
  <2>2. UNCHANGED <<slot, startNext, granted, nextSlot, resizes>>
    BY <1>1, MovesFrame DEF mainVars, muVars
  <2>3. PICK label \in PcValues \ {"unused", "resized"} : Goto(w, label)
    BY <1>1, MovesFrame
  <2>4. pc[w] # "unused"
    BY <1>1, MovesFrame
  <2> QED BY <2>1, <2>2, <2>3, <2>4 DEF Goto
<1>2. ASSUME NEW w \in Ctx, RemoveConn(w)
      PROVE  Quiet
  <2>1. maxConns' = maxConns
    BY <1>2
    DEF RemoveConn, RemoveNone, RemoveData, RemoveLast, RemoveControlPromote,
        RemoveControlNoIdle, EmptySlot, poolVars
  <2> QED BY <1>2, <2>1 DEF RemoveConn, Goto, mainVars, muVars
<1>3. ASSUME NEW w \in Ctx,
             \/ Retry(w) \/ PromoteClose(w) \/ PromoteStart(w)
             \/ ResizePromote(w) \/ ResizeUnlock(w)
             \/ \E c \in Conn : JoinOK(w, c)
      PROVE  Quiet
  BY <1>3
  DEF Retry, PromoteClose, PromoteStart, ResizePromote, ResizeUnlock, JoinOK,
      CloseConn, ReplacePingLoop, Connect, Goto, mainVars, muVars, poolVars
<1>4. CASE \/ MainSelect \/ MainClose \/ MainCancel \/ Deferred \/ CancelRun
           \/ UNCHANGED vars \/ \E c \in Conn : Drop(c)
  BY <1>4
  DEF MainSelect, MainClose, MainCancel, Deferred, CancelRun, Drop, vars, Close,
      CancelCtx, CloseDrained, CloseConn, poolVars, slotVars, mainVars, muVars
<1> QED BY <1>1, <1>2, <1>3, <1>4, NextCases

\* What a step that starts a goroutine does to the slots.
LEMMA StartSlotFrame ==
  ASSUME BaseInv, NEW f \in Ctx, NEW i, NEW c, StartSlot(f, i, c)
  PROVE  /\ pc[f] = "unused" /\ pc'[f] = "top"
         /\ slot' = [slot EXCEPT ![f] = i]
         /\ slot'[f] = i
         /\ \A v \in Ctx \ {f} : pc'[v] = pc[v] /\ slot'[v] = slot[v]
         /\ maxConns' = maxConns
  BY DEF BaseInv, TypeOK, StartSlot, SetSlotCancel, Goto

\* A slot is started once in a session of at most one resize; the proofs about
\* the owners of the slots rest on it.
OneMaintainer ==
  resizes <= 1 => \A v, w \in Ctx :
    pc[v] # "unused" /\ pc[w] # "unused" /\ slot[v] = slot[w] => v = w

\* Up to the second resize no slot is started twice.
LEMMA StartedStep ==
  ASSUME BaseInv, StartedOK, OneMaintainer, [Next]_vars
  PROVE  StartedOK' /\ OneMaintainer'
<1> USE PoolAssumption, SessionAssumption
<1>1. CASE Quiet
  BY <1>1 DEF Quiet, StartedOK, OneMaintainer, ClampMax, BaseInv, TypeOK
<1>2. ASSUME NEW f \in Ctx, MainStartSlot(f)
      PROVE  StartedOK' /\ OneMaintainer'
  <2>1. StartSlot(f, startNext, controlConn)
    BY <1>2 DEF MainStartSlot
  <2>2. /\ UNCHANGED <<granted, nextSlot, resizes>>
        /\ startNext' = startNext + 1
        /\ startNext < granted
    BY <1>2 DEF MainStartSlot, muVars, BaseInv, MainOK
  <2>3. StartedOK'
    BY <2>1, <2>2, StartSlotFrame DEF StartedOK, ClampMax, BaseInv, TypeOK
  <2>4. ASSUME resizes <= 1, NEW v \in Ctx \ {f}, pc[v] # "unused"
        PROVE  slot[v] # startNext
    BY <2>2, <2>4 DEF StartedOK, BaseInv, TypeOK
  <2>5. OneMaintainer'
    BY <2>1, <2>2, <2>4, StartSlotFrame DEF OneMaintainer, BaseInv, TypeOK
  <2> QED BY <2>3, <2>5
<1>3. ASSUME NEW w \in Ctx, NEW f \in Ctx, ResizeStartSlot(w, f)
      PROVE  StartedOK' /\ OneMaintainer'
  <2>1. StartSlot(f, nextSlot, None)
    BY <1>3 DEF ResizeStartSlot
  <2>2. /\ UNCHANGED <<granted, startNext, resizes>>
        /\ nextSlot' = nextSlot + 1
        /\ startNext <= granted
        /\ nextSlot < maxConns
        /\ pc[w] = "resized"
    BY <1>3 DEF ResizeStartSlot, mainVars, BaseInv, MainOK
  <2>3. resizes <= 1 => resizes = 1 /\ nextSlot >= granted
    BY <2>2 DEF StartedOK, BaseInv, TypeOK, PoolTypeOK
  <2>4. StartedOK'
    BY <2>1, <2>2, <2>3, StartSlotFrame DEF StartedOK, BaseInv, TypeOK
  <2>5. ASSUME resizes <= 1, NEW v \in Ctx \ {f}, pc[v] # "unused"
        PROVE  slot[v] # nextSlot
    BY <2>2, <2>3, <2>5 DEF StartedOK, BaseInv, TypeOK
  <2>6. OneMaintainer'
    BY <2>1, <2>2, <2>5, StartSlotFrame DEF OneMaintainer, BaseInv, TypeOK
  <2> QED BY <2>4, <2>6
<1>4. ASSUME NEW w \in Ctx, NEW n \in 1 .. MaxPoolConnections, ResizePool(w, n)
      PROVE  StartedOK' /\ OneMaintainer'
  <2>1. /\ UNCHANGED <<slot, granted, startNext>>
        /\ nextSlot' = maxConns
        /\ resizes' = resizes + 1
        /\ pc[w] = "read" /\ pc' = [pc EXCEPT ![w] = "resized"]
    BY <1>4 DEF ResizePool, FirstNewSlot, mainVars, Goto
  <2>2. maxConns' = n
    BY <1>4
    DEF ResizePool, Grow, ShrinkKeepControl, ShrinkNoSurvivor, ShrinkPromote,
        CutSlots
  <2>3. resizes' <= 1 => resizes = 0 /\ maxConns = ClampMax(granted)
    BY <2>1 DEF StartedOK, BaseInv, TypeOK
  <2>4. resizes' <= 1 => nextSlot' >= n \/ nextSlot' >= granted
    BY <2>1, <2>3 DEF ClampMax, BaseInv, TypeOK, PoolTypeOK
  <2>5. StartedOK'
    BY <2>1, <2>2, <2>3, <2>4 DEF StartedOK, BaseInv, TypeOK
  <2>6. OneMaintainer'
    BY <2>1 DEF OneMaintainer, BaseInv, TypeOK
  <2> QED BY <2>5, <2>6
<1> QED BY <1>1, <1>2, <1>3, <1>4, QuietSteps

\* A resize only ends goroutines of the slots it cut off.
CutOK ==
  resizes <= 1 /\ ~Ending =>
    /\ resizes = 0 => doomed \cup cancelled = {}
    /\ \A w \in doomed \cup cancelled : slot[w] >= maxConns

\* What a goroutine has added stays in its slot, until it or a resize takes it.
UsingOK ==
  resizes <= 1 => \A w \in Ctx : pc[w] \in Using =>
    \/ conns[slot[w]] = held[w]
    \/ /\ resizes = 1
       /\ slot[w] >= maxConns
       /\ held[w] \in draining \/ held[w] \notin open

\* What the ownership of slots and connections rests on.
OwnInv ==
  EndInv /\ PoolInv /\ StartedOK /\ OneMaintainer /\ CutOK /\ UsingOK

\* The number of resizes only grows; the first one finds none before it.
LEMMA ResizesStep ==
  ASSUME BaseInv, [Next]_vars
  PROVE  /\ resizes <= resizes'
         /\ maxConns' # maxConns => resizes < resizes'
         /\ \A w \in Ctx, n \in 1 .. MaxPoolConnections :
              ResizePool(w, n) => resizes' = resizes + 1
<1> USE DEF BaseInv, TypeOK, PoolTypeOK
<1>1. CASE Quiet
  BY <1>1 DEF Quiet, ResizePool
<1>2. ASSUME NEW f \in Ctx, MainStartSlot(f)
      PROVE  UNCHANGED <<maxConns, resizes>>
  BY <1>2 DEF MainStartSlot, StartSlot, SetSlotCancel, muVars
<1>3. ASSUME NEW w \in Ctx, NEW f \in Ctx, ResizeStartSlot(w, f)
      PROVE  UNCHANGED <<maxConns, resizes>>
  BY <1>3 DEF ResizeStartSlot, StartSlot, SetSlotCancel
<1>4. ASSUME NEW w \in Ctx, NEW n \in 1 .. MaxPoolConnections, ResizePool(w, n)
      PROVE  resizes' = resizes + 1
  BY <1>4 DEF ResizePool
<1> QED BY <1>1, <1>2, <1>3, <1>4, QuietSteps

\* The goroutines that a first resize ends are those of the slots it cuts off.
LEMMA CutStep ==
  ASSUME OwnInv, [Next]_vars
  PROVE  CutOK'
<1> USE DEF OwnInv, EndInv
<1> SUFFICES ASSUME resizes' <= 1, ~Ending'
             PROVE  /\ resizes' = 0 => doomed' \cup cancelled' = {}
                    /\ \A w \in doomed' \cup cancelled' : slot'[w] >= maxConns'
  BY DEF CutOK
<1>1. resizes \in Nat /\ resizes' \in Nat /\ resizes <= resizes' /\ ~Ending
  BY ResizesStep, EndingStays, SessionTypeStep, SessionAssumption
  DEF BaseInv, TypeOK
<1>2. ASSUME NEW w \in doomed \cup cancelled
      PROVE  w \in Ctx /\ pc[w] # "unused" /\ slot'[w] = slot[w]
  BY <1>1, <1>2, GoroutineStep DEF CancelsOK, BaseInv, TypeOK, PoolTypeOK
<1>3. CASE doomed' \cup cancelled' \subseteq doomed \cup cancelled
  <2>1. CASE maxConns' = maxConns
    BY <1>1, <1>2, <1>3, <2>1 DEF CutOK
  <2>2. CASE maxConns' # maxConns
    <3>1. resizes = 0
      BY <1>1, <2>2, ResizesStep
    <3> QED BY <1>1, <1>3, <3>1 DEF CutOK
  <2> QED BY <2>1, <2>2
<1>4. CASE /\ \E w \in Ctx, n \in 1 .. MaxPoolConnections : ResizePool(w, n)
           /\ doomed' \cup cancelled' \subseteq
                doomed \cup cancelled
                  \cup ({slotCancels[k] : k \in {k \in Slots : k >= maxConns'}}
                          \ {None})
  <2>1. resizes' = 1 /\ doomed \cup cancelled = {}
    BY <1>1, <1>4, ResizesStep DEF CutOK
  <2>2. ASSUME NEW k \in Slots, k >= maxConns', slotCancels[k] # None
        PROVE  slot'[slotCancels[k]] >= maxConns'
    BY <2>2, GoroutineStep DEF CancelsOK, BaseInv, TypeOK, PoolTypeOK
  <2> QED BY <1>4, <2>1, <2>2
<1> QED BY <1>3, <1>4, StoppedStep

\* A step that neither adds, removes nor dials a connection and does not resize.
Passive ==
  /\ UNCHANGED <<conns, maxConns, controlIndex>>
  /\ open' \subseteq open
  /\ draining \cap open' \subseteq draining'
  /\ \A v \in Ctx :
       /\ pc'[v] \in Using =>
            pc[v] \in Using /\ held'[v] = held[v] /\ slot'[v] = slot[v]
       /\ pc[v] \in Using => pc'[v] \in Using \/ CtxErr(v)
       /\ pc'[v] = "startControl" => pc[v] = "startControl"
       /\ pc'[v] \in {"read", "resized", "remove"} =>
            pc[v] \in {"startControl", "read", "resized", "remove"} \/ StartData(v)
  /\ \/ UNCHANGED <<connPing, dataLoop>>
     \/ \E v \in Ctx : StartData(v)
     \/ MainClose

\* All steps but four are passive.
LEMMA PassiveSteps ==
  ASSUME BaseInv, [Next]_vars
  PROVE  \/ Passive
         \/ \E w \in Ctx : AddConn(w) \/ RemoveConn(w)
         \/ \E w \in Ctx, c \in Conn : JoinOK(w, c)
         \/ \E w \in Ctx, n \in 1 .. MaxPoolConnections : ResizePool(w, n)
<1> USE DEF BaseInv, TypeOK, Passive, Using
<1>1. ASSUME NEW w \in Ctx, Moves(w), ~AddConn(w)
      PROVE  Passive
  <2>1. CASE \/ TopReturn(w) \/ TopProceed(w) \/ JoinFailed(w) \/ JoinGiveUp(w)
             \/ ReadReturn(w) \/ ReadFail(w)
    BY <2>1 DEF TopReturn, TopProceed, JoinFailed, JoinGiveUp, ReadReturn,
                ReadFail, poolVars, Goto
  <2>2. CASE TopClose(w) \/ AddRejected(w) \/ Lost(w)
    BY <2>2 DEF TopClose, AddRejected, Lost, CloseConn, Goto
  <2>3. CASE StartControl(w)
    BY <2>3 DEF StartControl, ReplacePingLoop, Goto
  <2>4. CASE StartData(w)
    <3>1. /\ UNCHANGED <<conns, maxConns, controlIndex, open, draining, slot, held>>
          /\ pc[w] = "startData" /\ pc' = [pc EXCEPT ![w] = "read"]
      BY <2>4 DEF StartData, StartDataLoop, Goto
    <3> QED BY <2>4, <3>1
  <2> QED BY <1>1, <2>1, <2>2, <2>3, <2>4 DEF Moves
<1>2. ASSUME NEW w \in Ctx,
             \/ Retry(w) \/ PromoteClose(w) \/ PromoteStart(w)
             \/ ResizePromote(w) \/ ResizeUnlock(w)
      PROVE  Passive
  BY <1>2
  DEF Retry, PromoteClose, PromoteStart, ResizePromote, ResizeUnlock, CloseConn,
      ReplacePingLoop, Goto, poolVars
<1>3. ASSUME NEW f \in Ctx,
             MainStartSlot(f) \/ \E w \in Ctx : ResizeStartSlot(w, f)
      PROVE  Passive
  BY <1>3 DEF MainStartSlot, ResizeStartSlot, StartSlot, SetSlotCancel, Goto
<1>4. CASE MainSelect \/ MainCancel \/ CancelRun \/ UNCHANGED vars
  BY <1>4 DEF MainSelect, MainCancel, CancelRun, vars, poolVars, slotVars
<1>5. CASE MainClose
  <2>1. /\ UNCHANGED <<conns, maxConns, controlIndex, open, slotVars>>
        /\ draining \subseteq draining'
    BY <1>5 DEF MainClose, Close
  <2> QED BY <1>5, <2>1 DEF slotVars
<1>6. CASE Deferred \/ \E c \in Conn : Drop(c)
  BY <1>6 DEF Deferred, Drop, CancelCtx, CloseDrained, CloseConn, slotVars
<1> QED BY <1>1, <1>2, <1>3, <1>4, <1>5, <1>6, NextCases

\* Adding and removing go by the goroutine's own slot.
LEMMA AddFrame ==
  ASSUME BaseInv, NEW w \in Ctx, AddConn(w)
  PROVE  /\ slot[w] \in Indices /\ held[w] \in Conn
         /\ pc[w] = "add" /\ pc'[w] \in {"startControl", "startData"}
         /\ \A v \in Ctx \ {w} : pc'[v] = pc[v]
         /\ conns' = [conns EXCEPT ![slot[w]] = held[w]]
         /\ UNCHANGED <<slot, held, maxConns, draining, open, dataLoop, resizes>>
  BY DEF BaseInv, TypeOK, HandsOK, Holding, AddConn, Add, Goto, muVars

\* remove empties the slot, or finds it empty, and the goroutine lets go of it.
LEMMA RemoveFrame ==
  ASSUME BaseInv, NEW w \in Ctx, RemoveConn(w)
  PROVE  /\ slot[w] \in Slots /\ held[w] \in Conn
         /\ pc[w] = "remove" /\ pc'[w] \in {"retry", "lost", "promote"}
         /\ \A v \in Ctx \ {w} : pc'[v] = pc[v]
         /\ \/ slot[w] \notin Active /\ UNCHANGED poolVars
            \/ slot[w] \in Active /\ conns' = [conns EXCEPT ![slot[w]] = None]
         /\ UNCHANGED <<slot, held, maxConns, draining, open, resizes>>
<1> USE DEF BaseInv, TypeOK, HandsOK, Holding, Using
<1>1. PICK busy : Remove(slot[w], busy)
  BY DEF RemoveConn, Remove
<1>2. /\ \/ slot[w] \notin Active /\ UNCHANGED poolVars
         \/ slot[w] \in Active /\ conns' = [conns EXCEPT ![slot[w]] = None]
      /\ UNCHANGED <<maxConns, draining, open>>
  BY <1>1
  DEF Remove, RemoveNone, RemoveData, RemoveLast, RemoveControlPromote,
      RemoveControlNoIdle, EmptySlot, poolVars
<1>3. pc[w] = "remove" /\ UNCHANGED <<slot, held, resizes>>
  BY DEF RemoveConn, muVars
<1>4. Goto(w, "retry") \/ Goto(w, "lost") \/ Goto(w, "promote")
  BY DEF RemoveConn
<1> QED BY <1>2, <1>3, <1>4 DEF Goto

\* A resize grows the pool, or clears and drains the slots it cuts off.
LEMMA ResizeFrame ==
  ASSUME BaseInv, NEW w \in Ctx, NEW n \in 1 .. MaxPoolConnections,
         ResizePool(w, n)
  PROVE  /\ pc[w] = "read" /\ pc'[w] = "resized"
         /\ \A v \in Ctx \ {w} : pc'[v] = pc[v]
         /\ UNCHANGED <<slot, held, controlConn, open>>
         /\ resizes' = resizes + 1
         /\ maxConns' = n
         /\ \/ n > maxConns /\ UNCHANGED <<conns, draining>>
            \/ /\ n < maxConns
               /\ \A k \in Slots : conns'[k] = IF k >= n THEN None ELSE conns[k]
               /\ draining' = draining \cup CutOff(n)
<1> USE DEF BaseInv, TypeOK
<1>1. Grow(n) \/ CutSlots(n)
  BY DEF ResizePool, ShrinkKeepControl, ShrinkNoSurvivor, ShrinkPromote
<1>2. /\ pc[w] = "read" /\ Goto(w, "resized")
      /\ UNCHANGED <<slot, held, controlConn>>
      /\ resizes' = resizes + 1
  BY DEF ResizePool, mainVars
<1> QED BY <1>1, <1>2 DEF Grow, CutSlots, Goto, PoolTypeOK

\* What a goroutine has added stays in its slot.
LEMMA UsingStep ==
  ASSUME OwnInv, [Next]_vars
  PROVE  UsingOK'
<1> USE PoolAssumption DEF OwnInv, EndInv
<1>1. resizes \in Nat /\ resizes' \in Nat /\ resizes <= resizes'
  BY ResizesStep, SessionTypeStep, SessionAssumption DEF BaseInv, TypeOK
<1>2. ASSUME NEW v \in Ctx, pc[v] \in Using
      PROVE  slot[v] \in Slots /\ held[v] \in Conn /\ pc[v] # "unused"
  BY <1>2 DEF BaseInv, HandsOK, Using, Holding
<1>3. CASE Passive
  <2> SUFFICES ASSUME resizes' <= 1, NEW v \in Ctx, pc'[v] \in Using
               PROVE  \/ conns'[slot'[v]] = held'[v]
                      \/ /\ resizes' = 1
                         /\ slot'[v] >= maxConns'
                         /\ held'[v] \in draining' \/ held'[v] \notin open'
    BY DEF UsingOK
  <2>1. pc[v] \in Using /\ UNCHANGED <<held[v], slot[v], conns, maxConns>>
    BY <1>3 DEF Passive
  <2>2. CASE conns[slot[v]] = held[v]
    BY <2>1, <2>2
  <2>3. CASE /\ resizes = 1 /\ slot[v] >= maxConns
             /\ held[v] \in draining \/ held[v] \notin open
    BY <1>1, <1>3, <2>1, <2>3 DEF Passive
  <2> QED BY <1>1, <2>1, <2>2, <2>3 DEF UsingOK
<1>4. ASSUME NEW w \in Ctx, AddConn(w)
      PROVE  UsingOK'
  <2>1. conns'[slot[w]] = held[w]
    BY <1>4, AddFrame DEF BaseInv, TypeOK, PoolTypeOK, Indices
  <2>2. ASSUME resizes <= 1, NEW v \in Ctx \ {w}, pc[v] \in Using
        PROVE  slot[v] # slot[w] /\ conns'[slot[v]] = conns[slot[v]]
    BY <1>2, <1>4, <2>2, AddFrame DEF OneMaintainer, BaseInv, TypeOK, PoolTypeOK
  <2> QED BY <1>4, <2>1, <2>2, AddFrame DEF UsingOK
<1>5. ASSUME NEW w \in Ctx, RemoveConn(w)
      PROVE  UsingOK'
  <2>1. pc'[w] \notin Using
    BY <1>5, RemoveFrame DEF Using
  <2>2. ASSUME resizes <= 1, NEW v \in Ctx \ {w}, pc[v] \in Using
        PROVE  conns'[slot[v]] = conns[slot[v]]
    BY <1>2, <1>5, <2>2, RemoveFrame
    DEF OneMaintainer, BaseInv, TypeOK, PoolTypeOK, poolVars
  <2> QED BY <1>5, <2>1, <2>2, RemoveFrame DEF UsingOK
<1>6. ASSUME NEW w \in Ctx, NEW c \in Conn, JoinOK(w, c)
      PROVE  UsingOK'
  <2>1. /\ UNCHANGED <<conns, maxConns, draining, slot, resizes>>
        /\ open' = open \cup {c}
        /\ pc' = [pc EXCEPT ![w] = "add"]
        /\ held' = [held EXCEPT ![w] = c]
        /\ \A v \in Ctx : held[v] # c
    BY <1>6 DEF JoinOK, Connect, NotHeld, Goto, muVars
  <2> QED BY <2>1 DEF UsingOK, Using, BaseInv, TypeOK
<1>7. ASSUME NEW w \in Ctx, NEW n \in 1 .. MaxPoolConnections, ResizePool(w, n)
      PROVE  UsingOK'
  <2> SUFFICES ASSUME resizes' <= 1, NEW v \in Ctx, pc'[v] \in Using
               PROVE  \/ conns'[slot'[v]] = held'[v]
                      \/ /\ resizes' = 1
                         /\ slot'[v] >= maxConns'
                         /\ held'[v] \in draining' \/ held'[v] \notin open'
    BY DEF UsingOK
  <2>1. resizes = 0 /\ resizes' = 1
    BY <1>1, <1>7, ResizeFrame
  <2>2. pc[v] \in Using
    BY <1>7, ResizeFrame DEF Using
  <2>3. conns[slot[v]] = held[v]
    BY <2>1, <2>2 DEF UsingOK
  <2>4. UNCHANGED <<slot, held>> /\ maxConns' = n
    BY <1>7, ResizeFrame
  <2>5. CASE n > maxConns
    BY <1>7, <2>3, <2>4, <2>5, ResizeFrame DEF BaseInv, TypeOK, PoolTypeOK
  <2>6. CASE n < maxConns
    <3>1. slot[v] \in Slots /\ held[v] # None
      BY <1>2, <2>2
    <3>2. slot[v] \in Active
      BY <2>3, <3>1
      DEF PoolInv, CutSlotsEmpty, Active, Indices, BaseInv, TypeOK, PoolTypeOK, Slots
    <3>3. CASE slot[v] >= n
      <4>1. held[v] \in CutOff(n)
        BY <2>3, <3>2, <3>3 DEF CutOff
      <4>2. draining' = draining \cup CutOff(n)
        BY <1>7, <2>6, ResizeFrame DEF BaseInv, TypeOK, PoolTypeOK
      <4> QED BY <2>1, <2>4, <3>3, <4>1, <4>2
    <3>4. CASE slot[v] < n
      BY <1>7, <2>3, <2>4, <2>6, <3>1, <3>4, ResizeFrame
      DEF BaseInv, TypeOK, PoolTypeOK, Slots
    <3> QED BY <3>1, <3>3, <3>4 DEF Slots
  <2> QED
    BY <1>7, <2>5, <2>6, ResizeFrame DEF BaseInv, TypeOK, PoolTypeOK
<1> QED BY <1>3, <1>4, <1>5, <1>6, <1>7, PassiveSteps

\* An owner lets go of its slot only by removing its connection, or when a
\* resize has taken its slot away.
LEMMA OwnedStep ==
  ASSUME OwnInv, SlotOwned, [Next]_vars
  PROVE  SlotOwned'
<1> USE PoolAssumption DEF OwnInv, EndInv
<1> SUFFICES ASSUME ~Ending', resizes' <= 1, NEW i \in Active'
             PROVE  \E w \in Ctx : /\ slot'[w] = i /\ held'[w] = conns'[i]
                                   /\ pc'[w] \in Using
  BY DEF SlotOwned, Using
<1>1. resizes <= 1 /\ ~Ending
  BY ResizesStep, EndingStays, SessionTypeStep, SessionAssumption
  DEF BaseInv, TypeOK
<1>2. i \in Slots /\ conns'[i] # None /\ i < maxConns'
  BY DEF Active, Indices
<1>3. ASSUME i \in Active
      PROVE  \E w \in Ctx : slot[w] = i /\ held[w] = conns[i] /\ pc[w] \in Using
  BY <1>1, <1>3 DEF SlotOwned, Using
<1>4. CASE Passive
  <2>1. i \in Active /\ conns' = conns /\ maxConns' = maxConns
    BY <1>2, <1>4 DEF Passive, Active, Indices
  <2>2. PICK w \in Ctx : slot[w] = i /\ held[w] = conns[i] /\ pc[w] \in Using
    BY <1>3, <2>1
  <2>3. ~CtxErr(w)
    BY <1>1, <1>2, <2>1, <2>2
    DEF CtxErr, Ending, BaseInv, MainOK, CutOK, TypeOK, PoolTypeOK, Slots
  <2>4. pc'[w] \in Using /\ held'[w] = held[w] /\ slot'[w] = slot[w]
    BY <1>4, <2>2, <2>3 DEF Passive
  <2> QED BY <2>1, <2>2, <2>4
<1>5. ASSUME NEW w \in Ctx, AddConn(w)
      PROVE  \E v \in Ctx : /\ slot'[v] = i /\ held'[v] = conns'[i]
                            /\ pc'[v] \in Using
  <2>1. CASE i = slot[w]
    <3>1. conns'[i] = held[w] /\ held' = held /\ slot' = slot
      BY <1>2, <1>5, <2>1, AddFrame DEF BaseInv, TypeOK, PoolTypeOK
    <3>2. pc'[w] \in Using
      BY <1>5, AddFrame DEF Using
    <3> QED BY <2>1, <3>1, <3>2
  <2>2. CASE i # slot[w]
    <3>1. i \in Active /\ conns'[i] = conns[i]
      BY <1>2, <1>5, <2>2, AddFrame
      DEF Active, Indices, BaseInv, TypeOK, PoolTypeOK
    <3>2. PICK v \in Ctx : slot[v] = i /\ held[v] = conns[i] /\ pc[v] \in Using
      BY <1>3, <3>1
    <3> QED BY <1>5, <2>2, <3>1, <3>2, AddFrame
  <2> QED BY <2>1, <2>2
<1>6. ASSUME NEW w \in Ctx, RemoveConn(w)
      PROVE  \E v \in Ctx : /\ slot'[v] = i /\ held'[v] = conns'[i]
                            /\ pc'[v] \in Using
  <2>1. i \in Active /\ conns'[i] = conns[i] /\ i # slot[w]
    BY <1>2, <1>6, RemoveFrame
    DEF Active, Indices, BaseInv, TypeOK, PoolTypeOK, poolVars
  <2>2. PICK v \in Ctx : slot[v] = i /\ held[v] = conns[i] /\ pc[v] \in Using
    BY <1>3, <2>1
  <2> QED BY <1>6, <2>1, <2>2, RemoveFrame
<1>7. ASSUME NEW w \in Ctx, NEW c \in Conn, JoinOK(w, c)
      PROVE  \E v \in Ctx : /\ slot'[v] = i /\ held'[v] = conns'[i]
                            /\ pc'[v] \in Using
  <2>1. /\ UNCHANGED <<conns, maxConns, slot>>
        /\ pc[w] = "join" /\ pc' = [pc EXCEPT ![w] = "add"]
        /\ held' = [held EXCEPT ![w] = c]
    BY <1>7 DEF JoinOK, Connect, Goto
  <2>2. PICK v \in Ctx : slot[v] = i /\ held[v] = conns[i] /\ pc[v] \in Using
    BY <1>2, <1>3, <2>1 DEF Active, Indices
  <2>3. v # w
    BY <2>1, <2>2 DEF Using
  <2> QED BY <2>1, <2>2, <2>3 DEF BaseInv, TypeOK
<1>8. ASSUME NEW w \in Ctx, NEW n \in 1 .. MaxPoolConnections, ResizePool(w, n)
      PROVE  \E v \in Ctx : /\ slot'[v] = i /\ held'[v] = conns'[i]
                            /\ pc'[v] \in Using
  <2>1. conns'[i] = conns[i]
    BY <1>2, <1>8, ResizeFrame
  <2>2. i \in Active
    BY <1>2, <2>1
    DEF PoolInv, CutSlotsEmpty, Active, Indices, BaseInv, TypeOK, PoolTypeOK, Slots
  <2>3. PICK v \in Ctx : slot[v] = i /\ held[v] = conns[i] /\ pc[v] \in Using
    BY <1>3, <2>2
  <2>4. pc'[v] \in Using
    BY <1>8, <2>3, ResizeFrame DEF Using
  <2> QED BY <1>8, <2>1, <2>3, <2>4, ResizeFrame
<1> QED BY <1>4, <1>5, <1>6, <1>7, <1>8, PassiveSteps

\* A goroutine that holds an open connection keeps it, unless the session ends
\* or its context was cancelled at the top of its loop or while it was reading.
LEMMA HolderStep ==
  ASSUME BaseInv, [Next]_vars, NEW v \in Ctx, held[v] # None,
         pc[v] \notin {"unused", "done"}, held[v] \in open', ~Ending'
  PROVE  \/ held'[v] = held[v] /\ pc'[v] \notin {"unused", "done"}
         \/ CtxErr(v) /\ pc[v] \in {"top", "read"}
<1> USE DEF BaseInv, TypeOK
<1>1. CASE UNCHANGED <<pc, held>>
  BY <1>1
<1>2. ASSUME NEW w \in Ctx, Moves(w)
      PROVE  \/ held'[v] = held[v] /\ pc'[v] \notin {"unused", "done"}
             \/ CtxErr(v) /\ pc[v] \in {"top", "read"}
  <2>1. CASE TopReturn(w) \/ TopProceed(w) \/ ReadReturn(w) \/ ReadFail(w)
    BY <2>1 DEF TopReturn, TopProceed, ReadReturn, ReadFail, Goto
  <2>2. CASE JoinFailed(w) \/ JoinGiveUp(w)
    BY <2>2 DEF JoinFailed, JoinGiveUp, Goto, HandsOK, EmptyHanded
  <2>3. CASE TopClose(w) \/ AddRejected(w) \/ Lost(w)
    BY <2>3 DEF TopClose, AddRejected, Lost, CloseConn, Goto, Ending
  <2>4. CASE AddConn(w) \/ StartControl(w) \/ StartData(w)
    BY <2>4 DEF AddConn, StartControl, StartData, Goto
  <2> QED BY <1>2, <2>1, <2>2, <2>3, <2>4 DEF Moves
<1>3. ASSUME NEW w \in Ctx,
             \/ RemoveConn(w) \/ PromoteStart(w) \/ ResizePromote(w)
             \/ ResizeUnlock(w)
             \/ \E n \in 1 .. MaxPoolConnections : ResizePool(w, n)
      PROVE  held'[v] = held[v] /\ pc'[v] \notin {"unused", "done"}
  BY <1>3
  DEF RemoveConn, PromoteStart, ResizePromote, ResizeUnlock, ResizePool, Goto
<1>4. ASSUME NEW w \in Ctx, Retry(w) \/ PromoteClose(w)
      PROVE  held'[v] = held[v] /\ pc'[v] \notin {"unused", "done"}
  BY <1>4 DEF Retry, PromoteClose, CloseConn, Goto
<1>5. ASSUME NEW w \in Ctx, NEW c \in Conn, JoinOK(w, c)
      PROVE  held'[v] = held[v] /\ pc'[v] \notin {"unused", "done"}
  BY <1>5 DEF JoinOK, Goto, HandsOK, EmptyHanded
<1>6. ASSUME NEW f \in Ctx,
             MainStartSlot(f) \/ \E w \in Ctx : ResizeStartSlot(w, f)
      PROVE  held'[v] = held[v] /\ pc'[v] \notin {"unused", "done"}
  BY <1>6 DEF MainStartSlot, ResizeStartSlot, StartSlot, Goto
<1>7. CASE \/ MainSelect \/ MainClose \/ MainCancel \/ Deferred \/ CancelRun
           \/ UNCHANGED vars \/ \E c \in Conn : Drop(c)
  BY <1>1, <1>7
  DEF MainSelect, MainClose, MainCancel, Deferred, CancelRun, Drop, vars, slotVars
<1> QED BY <1>1, <1>2, <1>3, <1>4, <1>5, <1>6, <1>7, NextCases

\* No step of a session that is up forgets an open connection.
LEMMA AccountedStep ==
  ASSUME OwnInv, ConnAccounted, [Next]_vars
  PROVE  ConnAccounted'
<1> USE PoolAssumption DEF OwnInv, EndInv
<1> SUFFICES ASSUME ~Ending', resizes' <= 1, NEW c \in open'
             PROVE  \/ c = controlConn'
                    \/ c \in draining'
                    \/ \E w \in Ctx : held'[w] = c /\ pc'[w] \notin {"unused", "done"}
  BY DEF ConnAccounted
<1>1. resizes <= 1 /\ ~Ending
  BY ResizesStep, EndingStays, SessionTypeStep, SessionAssumption
  DEF BaseInv, TypeOK
<1>2. c \in Conn
  BY SessionTypeStep DEF TypeOK, PoolTypeOK
<1>3. ASSUME NEW w \in Ctx, NEW d \in Conn, JoinOK(w, d), c \notin open
      PROVE  held'[w] = c /\ pc'[w] = "add"
  BY <1>3 DEF JoinOK, Connect, Goto, BaseInv, TypeOK
<1>4. (\A w \in Ctx, d \in Conn : ~JoinOK(w, d)) =>
        open' \subseteq open /\ draining \cap open' \subseteq draining'
  <2>1. CASE Passive
    BY <2>1 DEF Passive
  <2>2. ASSUME NEW w \in Ctx, AddConn(w) \/ RemoveConn(w)
        PROVE  UNCHANGED <<open, draining>>
    BY <2>2, AddFrame, RemoveFrame
  <2>3. ASSUME NEW w \in Ctx, NEW n \in 1 .. MaxPoolConnections, ResizePool(w, n)
        PROVE  open' = open /\ draining \subseteq draining'
    BY <2>3, ResizeFrame
  <2> QED BY <2>1, <2>2, <2>3, PassiveSteps
<1>5. ASSUME NEW w \in Ctx, NEW d \in Conn, JoinOK(w, d)
      PROVE  draining' = draining
  BY <1>5 DEF JoinOK, Connect
<1>6. CASE c \notin open
  BY <1>3, <1>4, <1>6
<1>7. CASE c \in draining
  BY <1>4, <1>5, <1>7
<1>8. CASE c = controlConn
  <2>1. CASE controlConn' = controlConn
    BY <1>8, <2>1
  <2>2. ASSUME NEW f \in Ctx, MainStartSlot(f)
        PROVE  held'[f] = c /\ pc'[f] = "top"
    BY <1>8, <2>2 DEF MainStartSlot, StartSlot, Goto, BaseInv, TypeOK
  <2> QED BY <2>1, <2>2, StartNextMoves
<1>9. ASSUME NEW w \in Ctx, held[w] = c, pc[w] \notin {"unused", "done"},
             c \in open, c \notin draining
      PROVE  held'[w] = c /\ pc'[w] \notin {"unused", "done"}
  <2>1. CASE held'[w] = held[w] /\ pc'[w] \notin {"unused", "done"}
    BY <1>9, <2>1
  <2>2. CASE CtxErr(w) /\ pc[w] \in {"top", "read"}
    <3>1. w \in cancelled
      BY <1>1, <2>2 DEF CtxErr, Ending, BaseInv, MainOK
    <3>2. slot[w] >= maxConns /\ maxConns \in Nat \ {0} /\ slot[w] \in Nat
      BY <1>1, <3>1, SessionAssumption
      DEF CutOK, BaseInv, TypeOK, PoolTypeOK
    <3>3. CASE pc[w] = "top"
      BY <1>2, <1>9, <3>2, <3>3 DEF BaseInv, HandsOK
    <3>4. CASE pc[w] = "read"
      <4>1. slot[w] \in Slots /\ pc[w] \in Using
        BY <3>4 DEF BaseInv, HandsOK, Using
      <4>2. conns[slot[w]] = None
        BY <3>2, <4>1 DEF PoolInv, CutSlotsEmpty
      <4> QED BY <1>1, <1>2, <1>9, <4>1, <4>2 DEF UsingOK
    <3> QED BY <2>2, <3>3, <3>4
  <2> QED BY <1>2, <1>9, <2>1, <2>2, HolderStep
<1> QED BY <1>1, <1>6, <1>7, <1>8, <1>9 DEF ConnAccounted

-----------------------------------------------------------------------------
(* The data ping loops, up to the second resize *)

\* A handle ends the loop of its own connection, and a connection that is not
\* the control one has the data loop of its goroutine.
LoopsOK ==
  resizes <= 1 =>
    /\ \A d \in Conn : connPing[d] \in {d, None}
    /\ ~Ending => \A w \in Ctx :
         /\ pc[w] = "startControl" => slot[w] = controlIndex \/ slot[w] >= maxConns
         /\ pc[w] \in {"read", "resized", "remove"} =>
              \/ slot[w] = controlIndex
              \/ slot[w] >= maxConns
              \/ dataLoop[held[w]] = w

\* As long as each handle ends the loop of its own connection, calling the
\* handles of some connections ends the loops of these and no others.
LEMMA OwnLoopsEnd ==
  ASSUME PoolTypeOK, \A d \in Conn : connPing[d] \in {d, None},
         NEW S \in SUBSET Conn, NEW c \in Conn, c \notin S
  PROVE  WithoutLoops(S)[c] = dataLoop[c]
  BY PoolAssumption DEF WithoutLoops, PoolTypeOK

\* A goroutine that uses its slot has its connection there, or lost the slot.
LEMMA UserActive ==
  ASSUME OwnInv, resizes <= 1, NEW v \in Ctx, pc[v] \in Using
  PROVE  /\ slot[v] \in Slots /\ held[v] \in Conn
         /\ slot[v] < maxConns => slot[v] \in Active /\ conns[slot[v]] = held[v]
         /\ resizes = 0 => slot[v] < maxConns
<1> USE PoolAssumption DEF OwnInv, EndInv
<1>1. slot[v] \in Slots /\ held[v] \in Conn
  BY DEF BaseInv, HandsOK, Using, Holding
<1>2. slot[v] < maxConns => slot[v] \in Active /\ conns[slot[v]] = held[v]
  BY <1>1 DEF UsingOK, Active, Indices, BaseInv, TypeOK, PoolTypeOK, Slots
<1>3. resizes = 0 => slot[v] < maxConns
  BY <1>1
  DEF UsingOK, PoolInv, CutSlotsEmpty, BaseInv, TypeOK, PoolTypeOK, Slots
<1> QED BY <1>1, <1>2, <1>3

\* The first conjunct: startConnPingLoop stores the handle in its own
\* connection, as long as the slot has one goroutine.
LEMMA HandlesStep ==
  ASSUME OwnInv, LoopsOK, [Next]_vars, resizes' <= 1, NEW d \in Conn
  PROVE  connPing'[d] \in {d, None}
<1> USE PoolAssumption DEF OwnInv, EndInv
<1>1. resizes <= 1
  BY ResizesStep, SessionTypeStep, SessionAssumption DEF BaseInv, TypeOK
<1>2. connPing[d] \in {d, None} /\ PoolTypeOK
  BY <1>1 DEF LoopsOK, BaseInv, TypeOK
<1>3. CASE UNCHANGED connPing
  BY <1>2, <1>3
<1>4. ASSUME NEW w \in Ctx, StartData(w)
      PROVE  connPing'[d] \in {d, None}
  <2>1. pc[w] \in Using
    BY <1>4 DEF StartData, Using
  <2>2. slot[w] \in Active => conns[slot[w]] = held[w]
    BY <1>1, <2>1, UserActive DEF Active, Indices
  <2> QED BY <1>2, <1>4, <2>2 DEF StartData, StartDataLoop
<1>5. ASSUME NEW S, connPing' = ClearPing(S)
      PROVE  connPing'[d] \in {d, None}
  BY <1>2, <1>5 DEF ClearPing
<1>6. ASSUME NEW w \in Ctx, AddConn(w)
      PROVE  connPing'[d] \in {d, None}
  BY <1>2, <1>6 DEF AddConn, Add, PoolTypeOK
<1>7. ASSUME NEW w \in Ctx, RemoveConn(w)
      PROVE  connPing'[d] \in {d, None}
  BY <1>3, <1>5, <1>7
  DEF RemoveConn, RemoveNone, RemoveData, RemoveLast, RemoveControlPromote,
      RemoveControlNoIdle, poolVars
<1>8. ASSUME NEW w \in Ctx, NEW c \in Conn, JoinOK(w, c)
      PROVE  connPing'[d] \in {d, None}
  BY <1>2, <1>8 DEF JoinOK, Connect, PoolTypeOK
<1>9. ASSUME NEW w \in Ctx, NEW n \in 1 .. MaxPoolConnections, ResizePool(w, n)
      PROVE  connPing'[d] \in {d, None}
  BY <1>3, <1>5, <1>9
  DEF ResizePool, Grow, ShrinkKeepControl, ShrinkNoSurvivor, ShrinkPromote
<1>10. CASE MainClose
  BY <1>5, <1>10 DEF MainClose, Close
<1> QED
  BY <1>3, <1>4, <1>6, <1>7, <1>8, <1>9, <1>10, PassiveSteps DEF Passive

\* remove: the control moves only from the slot that is emptied, and no loop
\* ends but that of the removed and that of the promoted connection.
LEMMA RemoveLoops ==
  ASSUME OwnInv, LoopsOK, resizes <= 1, ~Ending, NEW w \in Ctx, RemoveConn(w),
         NEW v \in Ctx \ {w}, pc[v] \in {"startControl", "read", "resized", "remove"}
  PROVE  /\ slot[v] = controlIndex
              => slot[v] = controlIndex' \/ slot[v] >= maxConns
         /\ dataLoop[held[v]] = v =>
              \/ slot[v] = controlIndex'
              \/ slot[v] >= maxConns
              \/ dataLoop'[held[v]] = v
<1> USE PoolAssumption DEF OwnInv, EndInv
<1> DEFINE i == slot[w]
<1>1. pc[v] \in Using /\ pc[w] = "remove" /\ pc[w] \in Using
  BY DEF Using, RemoveConn
<1>2. slot[v] # i /\ slot[v] \in Slots /\ held[v] \in Conn
  BY <1>1, UserActive DEF OneMaintainer, Using
<1>3. \A k \in Active : conns[k] = held[v] => k = slot[v]
  BY <1>2 DEF BaseInv, HeldOK, Active, Indices
<1>4. \A k \in Active : conns[k] \in Conn
  BY DEF BaseInv, TypeOK, PoolTypeOK, Active, Indices
<1>5. ASSUME NEW S \in SUBSET Conn, held[v] \notin S
      PROVE  WithoutLoops(S)[held[v]] = dataLoop[held[v]]
  BY <1>2, <1>5, OwnLoopsEnd DEF LoopsOK, BaseInv, TypeOK
<1>6. CASE RemoveNone(i)
  BY <1>6 DEF RemoveNone, poolVars
<1>7. CASE RemoveData(i)
  <2>1. i \in Active /\ UNCHANGED controlIndex /\ dataLoop' = WithoutLoops({conns[i]})
    BY <1>7 DEF RemoveData, EmptySlot
  <2> HIDE DEF i
  <2>2. held[v] \notin {conns[i]}
    BY <1>2, <1>3, <2>1
  <2> QED BY <1>4, <1>5, <2>1, <2>2
<1>8. CASE RemoveLast(i)
  <2>1. Active \ {i} = {}
    BY <1>8 DEF RemoveLast, Others
  <2>2. slot[v] \notin Active
    BY <1>2, <2>1
  <2> QED
    BY <1>1, <1>2, <2>2, UserActive DEF BaseInv, TypeOK, PoolTypeOK, Slots
<1>9. ASSUME NEW busy, RemoveControlNoIdle(i, busy)
      PROVE  /\ slot[v] # controlIndex
             /\ dataLoop'[held[v]] = dataLoop[held[v]]
  <2>1. i \in Active /\ i = controlIndex /\ dataLoop' = WithoutLoops({conns[i]})
    BY <1>9 DEF RemoveControlNoIdle, EmptySlot
  <2> HIDE DEF i
  <2>2. held[v] \notin {conns[i]}
    BY <1>2, <1>3, <2>1
  <2> QED BY <1>2, <1>4, <1>5, <2>1, <2>2
<1>10. ASSUME NEW busy, NEW j \in Slots, RemoveControlPromote(i, busy, j)
       PROVE  /\ slot[v] # controlIndex
              /\ slot[v] = controlIndex' \/ dataLoop'[held[v]] = dataLoop[held[v]]
  <2>1. /\ i \in Active /\ i = controlIndex
        /\ j \in Active /\ controlIndex' = j
        /\ dataLoop' = WithoutLoops({conns[i], conns[j]})
    BY <1>10 DEF RemoveControlPromote, EmptySlot, IsLowest, Idle, Others
  <2> HIDE DEF i
  <2>2. held[v] \notin {conns[i], conns[j]} \/ slot[v] = j
    BY <1>2, <1>3, <2>1
  <2> QED BY <1>2, <1>4, <1>5, <2>1, <2>2
<1> QED
  BY <1>6, <1>7, <1>8, <1>9, <1>10 DEF RemoveConn

\* Resize: the loops of the slots that stay run on, unless one is promoted.
LEMMA ResizeLoops ==
  ASSUME OwnInv, LoopsOK, resizes = 0, ~Ending, NEW w \in Ctx,
         NEW n \in 1 .. MaxPoolConnections, ResizePool(w, n),
         NEW v \in Ctx, pc[v] \in {"startControl", "read", "resized", "remove"}
  PROVE  /\ slot[v] = controlIndex => slot[v] = controlIndex' \/ slot[v] >= n
         /\ dataLoop[held[v]] = v =>
              slot[v] = controlIndex' \/ slot[v] >= n \/ dataLoop'[held[v]] = v
<1> USE PoolAssumption DEF OwnInv, EndInv
<1>1. pc[v] \in Using
  BY DEF Using
<1>2. slot[v] \in Slots /\ held[v] \in Conn
  BY <1>1, UserActive
<1>3. \A k \in Active : conns[k] = held[v] => k = slot[v]
  BY <1>2 DEF BaseInv, HeldOK, Active, Indices
<1>4. \A k \in Active : conns[k] \in Conn
  BY DEF BaseInv, TypeOK, PoolTypeOK, Active, Indices
<1>5. ASSUME NEW S \in SUBSET Conn, held[v] \notin S
      PROVE  WithoutLoops(S)[held[v]] = dataLoop[held[v]]
  BY <1>2, <1>5, OwnLoopsEnd DEF LoopsOK, BaseInv, TypeOK
<1>6. CutOff(n) \subseteq Conn /\ (slot[v] < n => held[v] \notin CutOff(n))
  <2>1. slot[v] < n => held[v] \notin CutOff(n)
    BY <1>2, <1>3 DEF CutOff, Slots
  <2> QED BY <1>4, <2>1 DEF CutOff
<1>7. slot[v] \in Int /\ n \in Int
  BY <1>2 DEF Slots
<1>8. CASE Grow(n)
  BY <1>8 DEF Grow
<1>9. CASE ShrinkKeepControl(n)
  <2>1. UNCHANGED controlIndex /\ dataLoop' = WithoutLoops(CutOff(n))
    BY <1>9 DEF ShrinkKeepControl
  <2> QED BY <1>5, <1>6, <1>7, <2>1
<1>10. CASE ShrinkNoSurvivor(n)
  <2>1. controlIndex >= n /\ dataLoop' = WithoutLoops(CutOff(n))
    BY <1>10 DEF ShrinkNoSurvivor
  <2> QED BY <1>5, <1>6, <1>7, <2>1
<1>11. ASSUME NEW j \in Slots, ShrinkPromote(n, j)
       PROVE  /\ slot[v] = controlIndex => slot[v] >= n
              /\ \/ slot[v] = controlIndex'
                 \/ slot[v] >= n
                 \/ dataLoop'[held[v]] = dataLoop[held[v]]
  <2>1. /\ controlIndex >= n /\ controlIndex' = j /\ j \in Active
        /\ dataLoop' = WithoutLoops(CutOff(n) \cup {conns[j]})
    BY <1>11 DEF ShrinkPromote, IsLowest
  <2>2. held[v] = conns[j] => slot[v] = j
    BY <1>3, <2>1
  <2>3. CutOff(n) \cup {conns[j]} \in SUBSET Conn
    BY <1>4, <1>6, <2>1
  <2> QED BY <1>5, <1>6, <1>7, <2>1, <2>2, <2>3
<1> QED
  BY <1>8, <1>9, <1>10, <1>11 DEF ResizePool

\* Every lane but the control one keeps its data loop.
LEMMA LoopsStep ==
  ASSUME OwnInv, LoopsOK, [Next]_vars
  PROVE  LoopsOK'
<1> USE PoolAssumption DEF OwnInv, EndInv
<1> DEFINE Loop(v) ==
      /\ pc[v] = "startControl" => slot[v] = controlIndex \/ slot[v] >= maxConns
      /\ pc[v] \in {"read", "resized", "remove"} =>
           \/ slot[v] = controlIndex
           \/ slot[v] >= maxConns
           \/ dataLoop[held[v]] = v
<1> SUFFICES ASSUME resizes' <= 1, ~Ending', NEW v \in Ctx
             PROVE  Loop(v)'
  BY HandlesStep DEF LoopsOK
<1>1. resizes \in Nat /\ resizes' \in Nat /\ resizes <= 1 /\ ~Ending
  BY ResizesStep, EndingStays, SessionTypeStep, SessionAssumption
  DEF BaseInv, TypeOK
<1>2. Loop(v)
  BY <1>1 DEF LoopsOK
<1>3. CASE Passive
  <2>1. UNCHANGED <<controlIndex, maxConns>>
    BY <1>3 DEF Passive
  <2>2. ASSUME pc'[v] \in Using
        PROVE  pc[v] \in Using /\ UNCHANGED <<held[v], slot[v]>> /\ held[v] \in Conn
    BY <1>1, <1>3, <2>2, UserActive DEF Passive
  <2>3. ASSUME NEW w \in Ctx, StartData(w)
        PROVE  Loop(v)'
    <3>1. /\ pc[w] = "startData" /\ pc' = [pc EXCEPT ![w] = "read"]
          /\ dataLoop' = [dataLoop EXCEPT ![held[w]] = w]
          /\ UNCHANGED <<held, slot>>
      BY <2>3 DEF StartData, StartDataLoop, Goto
    <3>2. held[w] \in Conn
      BY <3>1 DEF BaseInv, HandsOK, Holding
    <3>3. CASE v = w
      BY <3>1, <3>2, <3>3 DEF BaseInv, TypeOK, PoolTypeOK
    <3>4. CASE v # w
      <4>1. held[v] # held[w]
        BY <3>2, <3>4 DEF BaseInv, HeldOK
      <4>2. dataLoop'[held[v]] = dataLoop[held[v]] /\ pc'[v] = pc[v]
        BY <3>1, <3>4, <4>1 DEF BaseInv, TypeOK, PoolTypeOK
      <4> QED BY <1>2, <2>1, <3>1, <4>2
    <3> QED BY <3>3, <3>4
  <2>4. CASE UNCHANGED dataLoop /\ ~StartData(v)
    <3>1. CASE pc'[v] = "startControl"
      BY <1>2, <1>3, <2>1, <2>2, <3>1 DEF Passive, Using
    <3>2. CASE pc'[v] \in {"read", "resized", "remove"}
      <4>1. pc[v] \in {"startControl", "read", "resized", "remove"}
        BY <1>3, <2>4, <3>2 DEF Passive
      <4> QED BY <1>2, <2>1, <2>2, <2>4, <3>2, <4>1 DEF Using
    <3> QED BY <3>1, <3>2
  <2>5. ~MainClose
    BY DEF MainClose, Ending
  <2> QED BY <1>3, <2>3, <2>4, <2>5 DEF Passive
<1>4. ASSUME NEW w \in Ctx, AddConn(w)
      PROVE  Loop(v)'
  <2>1. /\ controlIndex' = IF ControlMissing /\ Active = {} THEN slot[w]
                           ELSE controlIndex
        /\ pc'[w] \in {"startControl", "startData"}
        /\ pc'[w] = "startControl" => slot[w] = controlIndex'
    BY <1>4 DEF AddConn, Add, Goto, BaseInv, TypeOK
  <2>2. CASE v = w
    BY <1>4, <2>1, <2>2, AddFrame
  <2>3. CASE v # w
    <3>1. pc'[v] = pc[v] /\ UNCHANGED <<slot, held, maxConns, dataLoop>>
      BY <1>4, <2>3, AddFrame
    <3>2. CASE pc[v] \in Using /\ slot[v] < maxConns
      <4>1. Active # {}
        BY <1>1, <3>2, UserActive
      <4> QED BY <1>2, <2>1, <3>1, <4>1
    <3>3. CASE pc[v] \in Using /\ slot[v] >= maxConns
      BY <3>1, <3>3
    <3>4. CASE pc[v] \notin Using
      BY <3>1, <3>4 DEF Using
    <3> QED
      BY <1>1, <3>2, <3>3, <3>4, UserActive DEF Slots, BaseInv, TypeOK, PoolTypeOK
  <2> QED BY <2>2, <2>3
<1>5. ASSUME NEW w \in Ctx, RemoveConn(w)
      PROVE  Loop(v)'
  <2>1. CASE v = w
    BY <1>5, <2>1, RemoveFrame
  <2>2. CASE v # w
    <3>1. pc'[v] = pc[v] /\ UNCHANGED <<slot, held, maxConns>>
      BY <1>5, <2>2, RemoveFrame
    <3>2. CASE pc[v] \in {"startControl", "read", "resized", "remove"}
      BY <1>1, <1>2, <1>5, <2>2, <3>1, <3>2, RemoveLoops
    <3> QED BY <3>1, <3>2
  <2> QED BY <2>1, <2>2
<1>6. ASSUME NEW w \in Ctx, NEW c \in Conn, JoinOK(w, c)
      PROVE  Loop(v)'
  <2>1. /\ UNCHANGED <<controlIndex, maxConns, slot>>
        /\ dataLoop' = [dataLoop EXCEPT ![c] = None]
        /\ pc' = [pc EXCEPT ![w] = "add"]
        /\ held' = [held EXCEPT ![w] = c]
        /\ \A u \in Ctx : held[u] # c
    BY <1>6 DEF JoinOK, Connect, NotHeld, Goto
  <2>2. CASE v = w
    BY <2>1, <2>2 DEF BaseInv, TypeOK
  <2>3. CASE v # w
    BY <1>2, <2>1, <2>3 DEF BaseInv, TypeOK, PoolTypeOK
  <2> QED BY <2>2, <2>3
<1>7. ASSUME NEW w \in Ctx, NEW n \in 1 .. MaxPoolConnections, ResizePool(w, n)
      PROVE  Loop(v)'
  <2>1. /\ UNCHANGED <<slot, held>> /\ maxConns' = n /\ resizes = 0
        /\ pc'[v] = pc[v] \/ (pc[v] = "read" /\ pc'[v] = "resized")
    BY <1>1, <1>7, ResizeFrame
  <2>2. CASE pc[v] \in {"startControl", "read", "resized", "remove"}
    <3>1. slot[v] < maxConns /\ slot[v] \in Slots
      BY <1>1, <2>1, <2>2, UserActive DEF Using
    <3>2. \/ slot[v] = controlIndex
          \/ pc[v] # "startControl" /\ dataLoop[held[v]] = v
      BY <1>2, <2>2, <3>1 DEF Slots, BaseInv, TypeOK, PoolTypeOK
    <3>3. /\ slot[v] = controlIndex => slot[v] = controlIndex' \/ slot[v] >= n
          /\ dataLoop[held[v]] = v =>
               slot[v] = controlIndex' \/ slot[v] >= n \/ dataLoop'[held[v]] = v
      BY <1>1, <1>7, <2>1, <2>2, ResizeLoops
    <3> QED BY <2>1, <3>2, <3>3
  <2>3. CASE pc[v] \notin {"startControl", "read", "resized", "remove"}
    BY <2>1, <2>3
  <2> QED BY <2>2, <2>3
<1> QED BY <1>3, <1>4, <1>5, <1>6, <1>7, PassiveSteps

-----------------------------------------------------------------------------
(* The theorems *)

\* The whole of it: the inductive invariant of a session.
SessionInv == OwnInv /\ SlotOwned /\ ConnAccounted /\ LoopsOK

\* A session that has been granted its connections satisfies it.
LEMMA SessionInit == Init => SessionInv
<1> SUFFICES ASSUME Init PROVE SessionInv
  OBVIOUS
<1> USE PoolAssumption, SessionAssumption
<1>1. EndInv
  BY BaseInit
  DEF Init, PoolInit, EndInv, NoControlEndsSession, CancelsOK, ZeroKept
<1>2. PoolInv
  <2>1. ClampMax(granted) \in 1 .. MaxPoolConnections
    BY DEF Init, ClampMax
  <2>2. PoolUserInit
    BY <2>1 DEF Init, PoolUserInit
  <2> QED BY <2>2, InitInv
<1>3. StartedOK /\ OneMaintainer
  BY DEF Init, PoolInit, StartedOK, OneMaintainer
<1>4. CutOK /\ UsingOK
  BY DEF Init, PoolInit, CutOK, UsingOK, Using
<1>5. SlotOwned /\ ConnAccounted
  BY DEF Init, PoolInit, SlotOwned, ConnAccounted, Active, Indices
<1>6. LoopsOK
  BY DEF Init, PoolInit, LoopsOK
<1> QED BY <1>1, <1>2, <1>3, <1>4, <1>5, <1>6 DEF SessionInv, OwnInv

\* Every step of the session keeps it.
LEMMA SessionStep ==
  ASSUME SessionInv, [Next]_vars
  PROVE  SessionInv'
<1>1. EndInv'
  BY EndStep, SessionTypeStep, HandsStep, MainStepOK, HeldStep
  DEF SessionInv, OwnInv, EndInv, BaseInv
<1>2. PoolInv'
  BY SessionCalls, InvStep DEF SessionInv, OwnInv, EndInv
<1>3. StartedOK' /\ OneMaintainer' /\ CutOK' /\ UsingOK'
  BY StartedStep, CutStep, UsingStep DEF SessionInv, OwnInv, EndInv
<1>4. SlotOwned' /\ ConnAccounted' /\ LoopsOK'
  BY OwnedStep, AccountedStep, LoopsStep DEF SessionInv
<1> QED BY <1>1, <1>2, <1>3, <1>4 DEF SessionInv, OwnInv

\* The invariant of a session holds throughout it.
LEMMA SessionInvariant == Spec => []SessionInv
<1>1. SessionInv /\ [Next]_vars => SessionInv'
  BY SessionStep
<1> QED BY <1>1, SessionInit, PTL DEF Spec

\* Up to the second resize, remove and setConnPingCancel, which go by index,
\* reach the connection of the goroutine that calls them.
THEOREM SlotsAlwaysOwned == Spec => []SlotOwned
  BY SessionInvariant, PTL DEF SessionInv

\* Up to the second resize, no open connection of a live session is forgotten.
THEOREM NoConnForgotten == Spec => []ConnAccounted
  BY SessionInvariant, PTL DEF SessionInv

\* Up to the second resize, every settled data lane is watched by its ping loop,
\* under a context that is not cancelled.
THEOREM DataLanesWatched == Spec => []DataWatched
<1>1. ASSUME SessionInv
      PROVE  DataWatched
  <2> SUFFICES ASSUME Settled, ~Ending, resizes <= 1,
                      NEW i \in Active \ {controlIndex}, conns[i] \in open
               PROVE  DataLoopRuns(conns[i])
    BY DEF DataWatched
  <2> USE <1>1 DEF SessionInv, OwnInv, EndInv
  <2>1. PICK w \in Ctx : slot[w] = i /\ held[w] = conns[i] /\ pc[w] \in Using
    BY DEF SlotOwned, Using
  <2>2. pc[w] = "read"
    BY <2>1 DEF Settled, Using
  <2>3. slot[w] < maxConns /\ slot[w] \in Nat
    BY <2>1, SessionAssumption, PoolAssumption
    DEF Active, Indices, BaseInv, TypeOK
  <2>4. dataLoop[held[w]] = w
    BY <2>1, <2>2, <2>3 DEF LoopsOK, BaseInv, TypeOK, PoolTypeOK
  <2>5. ~CtxErr(w)
    BY <2>3 DEF CtxErr, Ending, CutOK, BaseInv, MainOK, TypeOK, PoolTypeOK
  <2> QED BY <2>1, <2>4, <2>5, PoolAssumption DEF DataLoopRuns
<1> QED BY <1>1, SessionInvariant, PTL

-----------------------------------------------------------------------------
(* One live goroutine to a slot, whatever the number of resizes *)

\* A goroutine that has work left and has not been told to stop.
Live(w) == pc[w] \notin {"unused", "done"} /\ ~CtxErr(w)

\* Two live goroutines of one slot would overwrite and remove each other's
\* connections for the rest of the session.  Shrinks and growths, in any number,
\* do not start a second one while the first is live.  (That is so in sessions
\* whose start-up loop cannot overlap a resize, as it starts slot 0 only; with
\* more slots the loop and a growth can both start the same one.)
OneLiveMaintainer ==
  granted = 1 => \A v, w \in Ctx :
    Live(v) /\ Live(w) /\ slot[v] = slot[w] => v = w

\* A live goroutine is the one its slot's cancel function ends, or it is about
\* to be cancelled by the resize that cut its slot off.
LiveOwned ==
  \A w \in Ctx : Live(w) =>
    \/ slot[w] \in Indices /\ slotCancels[slot[w]] = w
    \/ slot[w] >= maxConns /\ w \in doomed /\ smu # None

\* A growth finds nobody alive in the slots it has still to start.
NewSlotsFree ==
  smu # None /\ nextSlot < maxConns => \A w \in Ctx : Live(w) => slot[w] < nextSlot

\* resize runs under session.mu.
ResizingOK == \A w \in Ctx : pc[w] = "resized" => smu = w

\* Nobody runs before runSession has started slot 0.
NoneEarly == startNext = 0 => \A w \in Ctx : pc[w] = "unused"

LiveInv ==
  /\ BaseInv /\ ResizingOK /\ NoneEarly
  /\ granted = 1 => LiveOwned /\ NewSlotsFree /\ OneLiveMaintainer

\* A step that starts no goroutine and leaves the size of the pool alone.
Calm ==
  /\ UNCHANGED <<slot, maxConns, slotCancels>>
  /\ doomed \ cancelled' \subseteq doomed'
  /\ cancelled \subseteq cancelled'
  /\ smu' = smu \/ \E w \in Ctx : ResizeUnlock(w)
  /\ sessionCancelled => sessionCancelled'
  /\ ctxDone => ctxDone'
  /\ \A v \in Ctx : pc[v] = "done" => pc'[v] = "done"

\* All steps but three are calm.
LEMMA CalmSteps ==
  ASSUME BaseInv, [Next]_vars
  PROVE  \/ Calm
         \/ \E f \in Ctx : MainStartSlot(f)
         \/ \E w, f \in Ctx : ResizeStartSlot(w, f)
         \/ \E w \in Ctx, n \in 1 .. MaxPoolConnections : ResizePool(w, n)
<1> USE DEF BaseInv, TypeOK, Calm
<1>1. ASSUME NEW w \in Ctx, Moves(w)
      PROVE  Calm
  <2>1. UNCHANGED <<maxConns, slotCancels, doomed, cancelled>>
    <3>1. CASE \/ TopReturn(w) \/ TopProceed(w) \/ JoinFailed(w) \/ JoinGiveUp(w)
               \/ ReadReturn(w) \/ ReadFail(w)
      BY <3>1 DEF TopReturn, TopProceed, JoinFailed, JoinGiveUp, ReadReturn,
                  ReadFail, poolVars
    <3>2. CASE \/ TopClose(w) \/ AddRejected(w) \/ Lost(w) \/ AddConn(w)
               \/ StartControl(w) \/ StartData(w)
      BY <3>2 DEF TopClose, AddRejected, Lost, CloseConn, AddConn, Add,
                  StartControl, StartData, ReplacePingLoop, StartDataLoop
    <3> QED BY <1>1, <3>1, <3>2 DEF Moves
  <2>2. UNCHANGED <<slot, smu, sessionCancelled, ctxDone>>
    BY <1>1, MovesFrame DEF mainVars, muVars
  <2>3. PICK label \in PcValues : Goto(w, label)
    BY <1>1, MovesFrame
  <2>4. pc[w] # "done"
    BY <1>1
    DEF Moves, TopReturn, TopClose, TopProceed, JoinFailed, JoinGiveUp, AddConn,
        AddRejected, StartControl, StartData, ReadReturn, ReadFail, Lost
  <2> QED BY <2>1, <2>2, <2>3, <2>4 DEF Goto
<1>2. ASSUME NEW w \in Ctx, RemoveConn(w)
      PROVE  Calm
  <2>1. UNCHANGED <<maxConns, slotCancels, doomed, cancelled>>
    BY <1>2
    DEF RemoveConn, RemoveNone, RemoveData, RemoveLast, RemoveControlPromote,
        RemoveControlNoIdle, EmptySlot, poolVars
  <2> QED BY <1>2, <2>1 DEF RemoveConn, Goto, mainVars, muVars
<1>3. ASSUME NEW w \in Ctx,
             \/ Retry(w) \/ PromoteClose(w) \/ PromoteStart(w)
             \/ ResizePromote(w) \/ ResizeUnlock(w)
             \/ \E c \in Conn : JoinOK(w, c)
      PROVE  Calm
  BY <1>3
  DEF Retry, PromoteClose, PromoteStart, ResizePromote, ResizeUnlock, JoinOK,
      CloseConn, ReplacePingLoop, Connect, Goto, mainVars, muVars, poolVars
<1>4. CASE \/ MainSelect \/ MainClose \/ MainCancel \/ CancelRun
           \/ UNCHANGED vars \/ \E c \in Conn : Drop(c)
  BY <1>4
  DEF MainSelect, MainClose, MainCancel, CancelRun, Drop, vars, Close,
      CloseConn, poolVars, slotVars, mainVars, muVars
<1>5. CASE Deferred
  BY <1>5
  DEF Deferred, CancelCtx, CloseDrained, poolVars, slotVars, mainVars, muVars
<1> QED BY <1>1, <1>2, <1>3, <1>4, <1>5, NextCases

\* granted and, but for the start of slot 0, startNext stay; resize holds the
\* mutex as long as it runs.
LEMMA ResizingStep ==
  ASSUME BaseInv, ResizingOK, NoneEarly, [Next]_vars
  PROVE  ResizingOK' /\ NoneEarly' /\ granted' = granted
<1> USE DEF BaseInv, TypeOK
<1>1. CASE Quiet
  <2>1. CASE smu' = smu
    BY <1>1, <2>1 DEF Quiet, ResizingOK, NoneEarly
  <2>2. CASE \E w \in Ctx : ResizeUnlock(w)
    BY <1>1, <2>2 DEF Quiet, ResizingOK, NoneEarly, ResizeUnlock, Goto
  <2>3. CASE \E w \in Ctx, n \in 1 .. MaxPoolConnections : ResizePool(w, n)
    BY <1>1, <2>3 DEF Quiet, ResizePool
  <2>4. CASE \/ \E f \in Ctx : MainStartSlot(f)
             \/ \E w, f \in Ctx : ResizeStartSlot(w, f)
    BY <2>1, <2>4 DEF MainStartSlot, ResizeStartSlot, muVars
  <2> QED BY <2>1, <2>2, <2>3, <2>4, CalmSteps DEF Calm
<1>2. ASSUME NEW f \in Ctx, MainStartSlot(f)
      PROVE  ResizingOK' /\ NoneEarly' /\ granted' = granted
  BY <1>2 DEF MainStartSlot, StartSlot, Goto, muVars, ResizingOK, NoneEarly
<1>3. ASSUME NEW w \in Ctx, NEW f \in Ctx, ResizeStartSlot(w, f)
      PROVE  ResizingOK' /\ NoneEarly' /\ granted' = granted
  BY <1>3 DEF ResizeStartSlot, StartSlot, Goto, mainVars, ResizingOK, NoneEarly
<1>4. ASSUME NEW w \in Ctx, NEW n \in 1 .. MaxPoolConnections, ResizePool(w, n)
      PROVE  ResizingOK' /\ NoneEarly' /\ granted' = granted
  BY <1>4, PoolAssumption
  DEF ResizePool, Goto, mainVars, ResizingOK, NoneEarly
<1> QED BY <1>1, <1>2, <1>3, <1>4, QuietSteps

\* A shrink collects the cancel functions of the slots it cuts off, and no
\* growth starts a slot before they have all been run.
LEMMA LiveStep ==
  ASSUME LiveInv, granted = 1, [Next]_vars
  PROVE  LiveOwned' /\ NewSlotsFree' /\ OneLiveMaintainer'
<1> USE PoolAssumption DEF LiveInv, BaseInv, TypeOK, PoolTypeOK
<1>1. granted' = 1
  BY ResizingStep
<1>2. ASSUME Calm, Quiet
      PROVE  LiveOwned' /\ NewSlotsFree' /\ OneLiveMaintainer'
  <2>1. ASSUME NEW w \in Ctx, Live(w)'
        PROVE  Live(w) /\ slot'[w] = slot[w] /\ w \notin cancelled'
    BY <1>2, <2>1 DEF Calm, Quiet, Live, CtxErr
  <2>2. smu' = smu \/ (smu' = None /\ doomed = {})
    BY <1>2 DEF Calm, ResizeUnlock
  <2>3. LiveOwned'
    BY <1>2, <2>1, <2>2 DEF Calm, LiveOwned, Indices
  <2>4. NewSlotsFree'
    BY <1>2, <2>1, <2>2 DEF Quiet, NewSlotsFree
  <2>5. OneLiveMaintainer'
    BY <1>1, <2>1 DEF OneLiveMaintainer
  <2> QED BY <2>3, <2>4, <2>5
<1>3. ASSUME NEW f \in Ctx, MainStartSlot(f)
      PROVE  LiveOwned' /\ NewSlotsFree' /\ OneLiveMaintainer'
  <2>1. startNext = 0 /\ smu' = None
    BY <1>3 DEF MainStartSlot, MainOK, muVars
  <2>2. StartSlot(f, 0, controlConn)
    BY <1>3, <2>1 DEF MainStartSlot
  <2>3. \A v \in Ctx : v # f => pc'[v] = "unused"
    BY <2>1, <2>2, StartSlotFrame DEF NoneEarly
  <2>4. slot'[f] = 0 /\ maxConns' = maxConns
    BY <2>2, StartSlotFrame
  <2>5. slotCancels'[0] = f
    BY <2>2 DEF StartSlot, SetSlotCancel, Indices, Slots
  <2>6. LiveOwned'
    BY <2>3, <2>4, <2>5 DEF LiveOwned, Live, Indices, Slots
  <2>7. NewSlotsFree'
    BY <2>1 DEF NewSlotsFree
  <2>8. OneLiveMaintainer'
    BY <2>3 DEF OneLiveMaintainer, Live
  <2> QED BY <2>6, <2>7, <2>8
<1>4. ASSUME NEW w \in Ctx, NEW f \in Ctx, ResizeStartSlot(w, f)
      PROVE  LiveOwned' /\ NewSlotsFree' /\ OneLiveMaintainer'
  <2>1. /\ StartSlot(f, nextSlot, None)
        /\ nextSlot < maxConns /\ nextSlot' = nextSlot + 1
        /\ smu' = smu /\ pc[w] = "resized"
        /\ ctxDone' = ctxDone /\ sessionCancelled' = sessionCancelled
    BY <1>4 DEF ResizeStartSlot, mainVars
  <2>2. smu # None
    BY <2>1 DEF ResizingOK
  <2>3. /\ \A k \in Slots : k # nextSlot => slotCancels'[k] = slotCancels[k]
        /\ slotCancels'[nextSlot] = f
        /\ UNCHANGED <<maxConns, doomed, cancelled>>
    BY <2>1 DEF StartSlot, SetSlotCancel, Indices, Slots
  <2>4. ASSUME NEW v \in Ctx, v # f, Live(v)'
        PROVE  Live(v) /\ slot'[v] = slot[v] /\ slot[v] < nextSlot
    <3>1. Live(v) /\ slot'[v] = slot[v]
      BY <2>1, <2>3, <2>4, StartSlotFrame DEF Live, CtxErr
    <3> QED BY <2>1, <2>2, <3>1 DEF NewSlotsFree
  <2>5. slot'[f] = nextSlot
    BY <2>1, StartSlotFrame
  <2>6. LiveOwned'
    <3>1. ASSUME NEW v \in Ctx, v # f, Live(v)'
          PROVE  slot'[v] \in Indices' /\ slotCancels'[slot'[v]] = v
      BY <2>1, <2>3, <2>4, <3>1 DEF LiveOwned, Indices
    <3>2. slot'[f] \in Indices' /\ slotCancels'[slot'[f]] = f
      BY <2>1, <2>3, <2>5 DEF Indices, Slots
    <3> QED BY <3>1, <3>2 DEF LiveOwned
  <2>7. NewSlotsFree'
    BY <2>1, <2>4, <2>5 DEF NewSlotsFree
  <2>8. OneLiveMaintainer'
    BY <1>1, <2>4, <2>5 DEF OneLiveMaintainer
  <2> QED BY <2>6, <2>7, <2>8
<1>5. ASSUME NEW w \in Ctx, NEW n \in 1 .. MaxPoolConnections, ResizePool(w, n)
      PROVE  LiveOwned' /\ NewSlotsFree' /\ OneLiveMaintainer'
  <2>1. /\ smu = None /\ smu' = w
        /\ nextSlot' = maxConns /\ slot' = slot
        /\ pc[w] = "read" /\ pc' = [pc EXCEPT ![w] = "resized"]
        /\ ctxDone' = ctxDone /\ sessionCancelled' = sessionCancelled
    BY <1>5 DEF ResizePool, FirstNewSlot, Goto, mainVars
  <2>2. /\ maxConns' = n /\ cancelled' = cancelled
        /\ \/ n > maxConns /\ UNCHANGED <<slotCancels, doomed>>
           \/ n < maxConns /\ CutSlots(n)
    <3>1. Grow(n) \/ CutSlots(n)
      BY <1>5 DEF ResizePool, ShrinkKeepControl, ShrinkNoSurvivor, ShrinkPromote
    <3>2. CASE Grow(n)
      BY <3>2 DEF Grow
    <3>3. CASE CutSlots(n)
      BY <3>3 DEF CutSlots
    <3> QED BY <3>1, <3>2, <3>3
  <2>3. ASSUME NEW v \in Ctx, Live(v)'
        PROVE  /\ Live(v)
               /\ slot[v] \in Slots /\ slot[v] < maxConns
               /\ slotCancels[slot[v]] = v
    <3>1. Live(v)
      BY <2>1, <2>2, <2>3 DEF Live, CtxErr
    <3> QED BY <2>1, <3>1 DEF LiveOwned, Indices
  <2>4. ASSUME NEW v \in Ctx, Live(v)'
        PROVE  \/ slot'[v] \in Indices' /\ slotCancels'[slot'[v]] = v
               \/ slot'[v] >= maxConns' /\ v \in doomed' /\ smu' # None
    <3>1. CASE n > maxConns /\ UNCHANGED <<slotCancels, doomed>>
      BY <2>1, <2>2, <2>3, <2>4, <3>1 DEF Indices, Slots
    <3>2. CASE slot[v] < n /\ CutSlots(n)
      BY <2>1, <2>2, <2>3, <2>4, <3>2 DEF CutSlots, Indices, Slots
    <3>3. CASE slot[v] >= n /\ CutSlots(n)
      BY <2>1, <2>2, <2>3, <2>4, <3>3 DEF CutSlots, Indices, Slots
    <3> QED BY <2>2, <2>3, <2>4, <3>1, <3>2, <3>3 DEF Slots
  <2>5. LiveOwned'
    BY <2>4 DEF LiveOwned
  <2>6. NewSlotsFree'
    BY <2>1, <2>3 DEF NewSlotsFree
  <2>7. OneLiveMaintainer'
    BY <1>1, <2>1, <2>3 DEF OneLiveMaintainer
  <2> QED BY <2>5, <2>6, <2>7
<1> QED BY <1>2, <1>3, <1>4, <1>5, CalmSteps, QuietSteps

\* With one slot granted, no slot ever has two goroutines that are alive, after
\* any number of shrinks and growths.
THEOREM SlotsHaveOneLiveGoroutine == Spec => []OneLiveMaintainer
<1>1. Init => LiveInv
  <2>1. Init => ResizingOK /\ NoneEarly /\ (granted = 1 => LiveOwned
                  /\ NewSlotsFree /\ OneLiveMaintainer)
    BY DEF Init, ResizingOK, NoneEarly, LiveOwned, NewSlotsFree,
           OneLiveMaintainer, Live
  <2> QED BY <2>1, BaseInit DEF LiveInv
<1>2. BaseInv' /\ LiveInv /\ [Next]_vars => LiveInv'
  BY LiveStep, ResizingStep DEF LiveInv
<1>3. LiveInv => OneLiveMaintainer
  BY DEF LiveInv, OneLiveMaintainer
<1> QED BY <1>1, <1>2, <1>3, BaseInvariant, PTL DEF Spec
====
