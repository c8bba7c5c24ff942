------------------------ MODULE ConnectionPool_proofs ------------------------
(***************************************************************************)
(* Proofs about the connection pool, for any pool size, any connections    *)
(* and any caller: the control connection is present, at most one control  *)
(* ping loop runs, cut-off slots are empty, and a live control connection  *)
(* is never demoted.                                                       *)
(***************************************************************************)
EXTENDS ConnectionPool, TLAPS

\* The inductive invariant.  ControlPresent needs CutSlotsEmpty: a growth of
\* the pool must not bring an occupied slot back.
PoolInv == PoolTypeOK /\ CutSlotsEmpty /\ ControlPresent /\ OneControlLoop

-----------------------------------------------------------------------------
(* Typing of the helpers *)

\* Cancelling data loops and clearing their handles keeps the types.
LEMMA HelperTypes ==
  ASSUME PoolTypeOK, NEW S
  PROVE  /\ WithoutLoops(S) \in [Conn -> Ctx \cup {None}]
         /\ ClearPing(S) \in [Conn -> Conn \cup {None}]
  BY DEF PoolTypeOK, WithoutLoops, ClearPing

\* The connections a shrink cuts off, and the pooled ones, are connections.
LEMMA PooledTypes ==
  ASSUME PoolTypeOK, NEW n
  PROVE  CutOff(n) \subseteq Conn /\ Pooled \subseteq Conn
  BY DEF PoolTypeOK, CutOff, Pooled, Active, Indices

\* Every operation of the pool keeps its variables within their types.
LEMMA TypeStep ==
  ASSUME PoolTypeOK, [PoolNext]_poolVars
  PROVE  PoolTypeOK'
<1> USE PoolAssumption
<1>1. CASE UNCHANGED poolVars
  BY <1>1 DEF PoolTypeOK, poolVars
<1>2. ASSUME NEW c \in Conn, Connect(c) \/ CloseConn(c) \/ CloseDrained(c)
      PROVE  PoolTypeOK'
  BY <1>2 DEF PoolTypeOK, Connect, CloseConn, CloseDrained
<1>3. ASSUME NEW c \in Conn, ReplacePingLoop(c)
      PROVE  PoolTypeOK'
  BY <1>3 DEF PoolTypeOK, ReplacePingLoop
<1>4. ASSUME NEW i \in Slots, NEW c \in Conn, Add(i, c)
      PROVE  PoolTypeOK'
  BY <1>4 DEF PoolTypeOK, Add, Slots
<1>5. ASSUME NEW i \in Slots, NEW c \in Conn, NEW w \in Ctx,
             StartDataLoop(i, c, w)
      PROVE  PoolTypeOK'
  BY <1>5 DEF PoolTypeOK, StartDataLoop
<1>6. ASSUME NEW i \in Slots, NEW w \in Ctx, SetSlotCancel(i, w)
      PROVE  PoolTypeOK'
  BY <1>6 DEF PoolTypeOK, SetSlotCancel
<1>7. ASSUME NEW i \in Slots, NEW busy \in SUBSET Conn, Remove(i, busy)
      PROVE  PoolTypeOK'
  <2>1. CASE RemoveNone(i)
    BY <2>1 DEF PoolTypeOK, RemoveNone, poolVars
  <2>2. CASE RemoveData(i)
    BY <2>2, HelperTypes DEF PoolTypeOK, RemoveData, EmptySlot
  <2>3. CASE RemoveLast(i)
    BY <2>3, HelperTypes DEF PoolTypeOK, RemoveLast, EmptySlot, CancelControlLoop
  <2>4. ASSUME NEW j \in Slots, RemoveControlPromote(i, busy, j)
        PROVE  PoolTypeOK'
    BY <2>4, HelperTypes
    DEF PoolTypeOK, RemoveControlPromote, EmptySlot, CancelControlLoop, Slots
  <2>5. CASE RemoveControlNoIdle(i, busy)
    BY <2>5, HelperTypes
    DEF PoolTypeOK, RemoveControlNoIdle, EmptySlot, CancelControlLoop
  <2> QED BY <1>7, <2>1, <2>2, <2>3, <2>4, <2>5 DEF Remove
<1>8. ASSUME NEW n \in 1 .. MaxPoolConnections, Resize(n)
      PROVE  PoolTypeOK'
  <2>1. CASE Grow(n)
    BY <2>1 DEF PoolTypeOK, Grow
  <2>2. ASSUME CutSlots(n)
        PROVE  /\ maxConns' \in 1 .. MaxPoolConnections
               /\ conns' \in [Slots -> Conn \cup {None}]
               /\ slotCancels' \in [Slots -> Ctx \cup {None}]
               /\ doomed' \in SUBSET Ctx
               /\ draining' \in SUBSET Conn
               /\ cancelled' \in SUBSET Ctx
               /\ open' \in SUBSET Conn
    BY <2>2, PooledTypes DEF PoolTypeOK, CutSlots, Indices
  <2>3. CASE ShrinkKeepControl(n)
    BY <2>2, <2>3, HelperTypes DEF PoolTypeOK, ShrinkKeepControl
  <2>4. ASSUME NEW j \in Slots, ShrinkPromote(n, j)
        PROVE  PoolTypeOK'
    BY <2>2, <2>4, HelperTypes
    DEF PoolTypeOK, ShrinkPromote, CancelControlLoop, Slots
  <2>5. CASE ShrinkNoSurvivor(n)
    BY <2>2, <2>5, HelperTypes DEF PoolTypeOK, ShrinkNoSurvivor, CancelControlLoop
  <2> QED BY <1>8, <2>1, <2>3, <2>4, <2>5 DEF Resize
<1>9. ASSUME NEW w \in Ctx, CancelCtx(w)
      PROVE  PoolTypeOK'
  BY <1>9 DEF PoolTypeOK, CancelCtx
<1>10. CASE Close
  BY <1>10, HelperTypes, PooledTypes DEF PoolTypeOK, Close, CancelControlLoop
<1> QED
  BY <1>1, <1>2, <1>3, <1>4, <1>5, <1>6, <1>7, <1>8, <1>9, <1>10 DEF PoolNext

-----------------------------------------------------------------------------
(* The invariant is inductive *)

\* A new pool satisfies the invariant, whatever size was granted.
LEMMA InitInv == PoolUserInit => PoolInv
  BY PoolAssumption
  DEF PoolUserInit, PoolInit, PoolInv, PoolTypeOK, CutSlotsEmpty, ControlPresent,
      OneControlLoop, Active, Indices, Slots

\* Slots beyond maxConns stay empty: add and setSlotCancel refuse them, a
\* shrink clears what it cuts off and a growth takes in empty slots.
LEMMA CutSlotsStep ==
  ASSUME PoolInv, [PoolNext]_poolVars
  PROVE  CutSlotsEmpty'
<1> USE PoolAssumption DEF PoolInv, PoolTypeOK, CutSlotsEmpty
<1>1. CASE UNCHANGED <<conns, slotCancels, maxConns>>
  BY <1>1
<1>2. ASSUME NEW i \in Slots, NEW c \in Conn, Add(i, c)
      PROVE  CutSlotsEmpty'
  BY <1>2 DEF Add, Indices, Slots
<1>3. ASSUME NEW i \in Slots, NEW w \in Ctx, SetSlotCancel(i, w)
      PROVE  CutSlotsEmpty'
  BY <1>3 DEF SetSlotCancel, Indices, Slots
<1>4. ASSUME NEW i \in Slots, EmptySlot(i)
      PROVE  CutSlotsEmpty'
  BY <1>4 DEF EmptySlot
<1>5. ASSUME NEW n \in 1 .. MaxPoolConnections, Grow(n)
      PROVE  CutSlotsEmpty'
  BY <1>5 DEF Grow, Slots
<1>6. ASSUME NEW n \in 1 .. MaxPoolConnections, CutSlots(n)
      PROVE  CutSlotsEmpty'
  BY <1>6 DEF CutSlots
<1>7. ASSUME NEW i \in Slots, NEW busy \in SUBSET Conn, Remove(i, busy)
      PROVE  CutSlotsEmpty'
  BY <1>1, <1>4, <1>7
  DEF Remove, RemoveNone, RemoveData, RemoveLast, RemoveControlPromote,
      RemoveControlNoIdle, poolVars
<1>8. ASSUME NEW n \in 1 .. MaxPoolConnections, Resize(n)
      PROVE  CutSlotsEmpty'
  BY <1>5, <1>6, <1>8
  DEF Resize, ShrinkKeepControl, ShrinkPromote, ShrinkNoSurvivor
<1>9. CASE UNCHANGED poolVars
  BY <1>1, <1>9 DEF poolVars
<1> QED
  BY <1>1, <1>2, <1>3, <1>7, <1>8, <1>9
  DEF PoolNext, Connect, CloseConn, CloseDrained, ReplacePingLoop,
      StartDataLoop, CancelCtx, Close

\* The control index stays on an occupied slot, or is given up.
LEMMA ControlPresentStep ==
  ASSUME PoolInv, [PoolNext]_poolVars
  PROVE  ControlPresent'
<1> USE PoolAssumption DEF PoolInv, PoolTypeOK, CutSlotsEmpty, ControlPresent,
                           Active, Indices
<1>1. CASE UNCHANGED <<conns, maxConns, controlIndex>>
  BY <1>1
<1>2. ASSUME NEW i \in Slots, NEW c \in Conn, Add(i, c)
      PROVE  ControlPresent'
  <2>1. CASE Active = {}
    BY <1>2, <2>1 DEF Add, ControlMissing, Slots
  <2>2. CASE Active # {}
    BY <1>2, <2>2 DEF Add
  <2> QED BY <2>1, <2>2
<1>3. ASSUME NEW i \in Slots, RemoveData(i)
      PROVE  ControlPresent'
  BY <1>3 DEF RemoveData, EmptySlot
<1>4. ASSUME NEW i \in Slots, RemoveLast(i)
      PROVE  ControlPresent'
  BY <1>4 DEF RemoveLast, EmptySlot, Others
<1>5. ASSUME NEW i \in Slots, NEW busy \in SUBSET Conn, NEW j \in Slots,
             RemoveControlPromote(i, busy, j)
      PROVE  ControlPresent'
  BY <1>5 DEF RemoveControlPromote, EmptySlot, IsLowest, Idle, Others
<1>6. ASSUME NEW i \in Slots, NEW busy \in SUBSET Conn,
             RemoveControlNoIdle(i, busy)
      PROVE  ControlPresent'
  BY <1>6 DEF RemoveControlNoIdle
<1>7. ASSUME NEW i \in Slots, NEW busy \in SUBSET Conn, Remove(i, busy)
      PROVE  ControlPresent'
  BY <1>1, <1>3, <1>4, <1>5, <1>6, <1>7 DEF Remove, RemoveNone, poolVars
<1>8. ASSUME NEW n \in 1 .. MaxPoolConnections, Resize(n)
      PROVE  ControlPresent'
  <2>1. CASE Grow(n)
    <3>1. Active' = Active
      BY <2>1 DEF Grow, Slots
    <3> QED BY <2>1, <3>1 DEF Grow
  <2>2. CASE ShrinkKeepControl(n)
    <3>1. Active' = {k \in Active : k < n}
      BY <2>2 DEF ShrinkKeepControl, CutSlots, Slots
    <3>2. controlIndex' = controlIndex /\ controlIndex < n
      BY <2>2 DEF ShrinkKeepControl
    <3> HIDE DEF Active
    <3> QED BY <3>1, <3>2
  <2>3. ASSUME NEW j \in Slots, ShrinkPromote(n, j)
        PROVE  ControlPresent'
    BY <2>3 DEF ShrinkPromote, CutSlots, IsLowest, Slots
  <2>4. CASE ShrinkNoSurvivor(n)
    BY <2>4 DEF ShrinkNoSurvivor, CutSlots, Slots
  <2> QED BY <1>8, <2>1, <2>2, <2>3, <2>4 DEF Resize
<1>9. CASE UNCHANGED poolVars
  BY <1>1, <1>9 DEF poolVars
<1> QED
  BY <1>1, <1>2, <1>7, <1>8, <1>9
  DEF PoolNext, Connect, CloseConn, CloseDrained, ReplacePingLoop,
      StartDataLoop, SetSlotCancel, CancelCtx, Close

\* Whoever overwrites p.pingCancel cancels the loop it stood for.
LEMMA OneControlLoopStep ==
  ASSUME PoolInv, [PoolNext]_poolVars
  PROVE  OneControlLoop'
<1> USE DEF PoolInv, OneControlLoop
<1>1. CASE UNCHANGED <<pingCancel, ctlLoops>>
  BY <1>1
<1>2. ASSUME CancelControlLoop
      PROVE  OneControlLoop'
  BY <1>2 DEF CancelControlLoop
<1>3. ASSUME NEW c \in Conn, ReplacePingLoop(c)
      PROVE  OneControlLoop'
  BY <1>3 DEF ReplacePingLoop
<1>4. ASSUME NEW c \in Conn, Connect(c)
      PROVE  OneControlLoop'
  BY <1>4 DEF Connect
<1>5. ASSUME NEW i \in Slots, NEW busy \in SUBSET Conn, Remove(i, busy)
      PROVE  OneControlLoop'
  BY <1>1, <1>2, <1>5
  DEF Remove, RemoveNone, RemoveData, RemoveLast, RemoveControlPromote,
      RemoveControlNoIdle, poolVars
<1>6. ASSUME NEW n \in 1 .. MaxPoolConnections, Resize(n)
      PROVE  OneControlLoop'
  BY <1>1, <1>2, <1>6
  DEF Resize, Grow, ShrinkKeepControl, ShrinkPromote, ShrinkNoSurvivor
<1>7. CASE UNCHANGED poolVars
  BY <1>1, <1>7 DEF poolVars
<1> QED
  BY <1>1, <1>2, <1>3, <1>4, <1>5, <1>6, <1>7
  DEF PoolNext, CloseConn, CloseDrained, Add, StartDataLoop, SetSlotCancel,
      CancelCtx, Close

\* Every step of the most general user of the pool keeps the invariant.
LEMMA InvStep ==
  ASSUME PoolInv, [PoolNext]_poolVars
  PROVE  PoolInv'
  BY TypeStep, CutSlotsStep, ControlPresentStep, OneControlLoopStep DEF PoolInv

\* The invariant holds of every behaviour of the pool.
LEMMA PoolInvariant == PoolSpec => []PoolInv
<1>1. PoolInv /\ [PoolNext]_poolVars => PoolInv'
  BY InvStep
<1> QED BY <1>1, InitInv, PTL DEF PoolSpec

-----------------------------------------------------------------------------
(* The theorems *)

\* The variables of pool.go keep their types, whatever its callers do.
THEOREM PoolTypeCorrect == PoolSpec => []PoolTypeOK
  BY PoolInvariant, PTL DEF PoolInv

\* For any pool size and any sequence of add, remove and Resize calls, a pool
\* with a connection in it has a control connection or has given it up.
THEOREM ControlAlwaysPresent == PoolSpec => []ControlPresent
  BY PoolInvariant, PTL DEF PoolInv

\* p.pingCancel is the handle of the only control ping loop.
THEOREM AtMostOneControlLoop == PoolSpec => []OneControlLoop
  BY PoolInvariant, PTL DEF PoolInv

\* Resize leaves no connection and no cancel function in a cut-off slot.
THEOREM CutSlotsAreEmpty == PoolSpec => []CutSlotsEmpty
  BY PoolInvariant, PTL DEF PoolInv

\* A step that moves the control index away from an occupied slot empties it.
LEMMA ControlMoveStep ==
  ASSUME PoolInv, [PoolNext]_poolVars,
         controlIndex' # controlIndex, controlIndex \in Active
  PROVE  conns'[controlIndex] = None
<1> USE PoolAssumption DEF PoolInv, PoolTypeOK, Active, Indices
<1>1. ASSUME NEW i \in Slots, NEW c \in Conn, Add(i, c)
      PROVE  FALSE
  BY <1>1 DEF Add, ControlMissing
<1>2. ASSUME NEW i \in Slots, NEW busy \in SUBSET Conn, Remove(i, busy)
      PROVE  conns'[controlIndex] = None
  BY <1>2
  DEF Remove, RemoveNone, RemoveData, RemoveLast, RemoveControlPromote,
      RemoveControlNoIdle, EmptySlot, Others, poolVars
<1>3. ASSUME NEW n \in 1 .. MaxPoolConnections, Resize(n)
      PROVE  conns'[controlIndex] = None
  BY <1>3
  DEF Resize, Grow, ShrinkKeepControl, ShrinkPromote, ShrinkNoSurvivor,
      CutSlots, Slots
<1> QED
  BY <1>1, <1>2, <1>3
  DEF PoolNext, Connect, CloseConn, CloseDrained, ReplacePingLoop,
      StartDataLoop, SetSlotCancel, CancelCtx, Close, poolVars

\* No call demotes a live control connection: neither an add that finds the
\* control slot occupied, nor the removal of another slot, nor a resize that
\* keeps the control slot.
THEOREM LiveControlNeverDemoted == PoolSpec => ControlMovesOnlyWhenLost
<1>1. PoolInv /\ [PoolNext]_poolVars
        => [controlIndex' # controlIndex /\ controlIndex \in Active
              => conns'[controlIndex] = None]_poolVars
  BY ControlMoveStep
<1> QED BY <1>1, PoolInvariant, PTL DEF PoolSpec, ControlMovesOnlyWhenLost
=============================================================================
