--------------------------- MODULE ConnectionPool ---------------------------
(***************************************************************************)
(* The connection pool of one tunnel session (src/pkg/client/pool.go).     *)
(*                                                                         *)
(* A session keeps up to maxConns WebSocket connections to the server, one *)
(* per slot.  The connection in slot controlIndex is the control           *)
(* connection: a ping loop of its own (p.pingCancel) watches it, while the *)
(* other connections each have a data ping loop (connRef.pingCancel).      *)
(* When the control connection is lost an idle connection is promoted;     *)
(* when the server resizes the pool, connections beyond the new size are   *)
(* taken out, drained and closed.                                          *)
(*                                                                         *)
(* Each action is one method of the pool: the part under p.mu is one step. *)
(* Cancelling a ping loop is folded into that step (a loop only ever       *)
(* closes its own connection).  The cancel functions of slot contexts, and *)
(* the connections to close, that Resize and close collect under the lock  *)
(* and use after it, wait in doomed and draining until CancelCtx and       *)
(* CloseDrained.                                                           *)
(*                                                                         *)
(* PoolSpec is the most general user of the pool: any caller may call any  *)
(* method at any time.  SessionPool is the code that calls it.             *)
(***************************************************************************)
EXTENDS Integers, FiniteSets

CONSTANTS
  MaxPoolConnections, \* maxPoolConnections, 32 in client.go:25
  Conn,               \* connections; a poolConn is named by its connection
  Ctx,                \* slot contexts, one per maintainPoolSlot goroutine
  None                \* nil

ASSUME PoolAssumption ==
  /\ MaxPoolConnections \in Nat \ {0}
  /\ None \notin Conn
  /\ None \notin Ctx

VARIABLES
  conns,        \* p.conns: the connection in each slot
  slotCancels,  \* p.slotCancels: the slot context each entry cancels
  maxConns,     \* p.maxConns = len(p.conns) = len(p.slotCancels)
  controlIndex, \* p.controlIndex, -1 when the control was lost for good
  pingCancel,   \* p.pingCancel: the connection whose control loop it ends
  connPing,     \* connRef.pingCancel: the connection whose data loop it ends
  ctlLoops,     \* connections with a control ping loop that is not cancelled
  dataLoop,     \* the slot context a connection's data loop runs under
  doomed,       \* slot contexts whose cancel is collected but not yet called
  cancelled,    \* slot contexts whose cancel has been called
  draining,     \* connections collected to be closed
  open          \* connections not yet closed by either side

poolVars == <<conns, slotCancels, maxConns, controlIndex, pingCancel, connPing,
              ctlLoops, dataLoop, doomed, cancelled, draining, open>>

Slots == 0 .. MaxPoolConnections - 1

\* The fields of the pool have their types, whatever its callers do: maxConns is
\* within Resize's bounds and controlIndex names a slot or is -1.
PoolTypeOK ==
  /\ conns \in [Slots -> Conn \cup {None}]
  /\ slotCancels \in [Slots -> Ctx \cup {None}]
  /\ maxConns \in 1 .. MaxPoolConnections
  /\ controlIndex \in -1 .. MaxPoolConnections - 1
  /\ pingCancel \in Conn \cup {None}
  /\ connPing \in [Conn -> Conn \cup {None}]
  /\ ctlLoops \in SUBSET Conn
  /\ dataLoop \in [Conn -> Ctx \cup {None}]
  /\ doomed \in SUBSET Ctx
  /\ cancelled \in SUBSET Ctx
  /\ draining \in SUBSET Conn
  /\ open \in SUBSET Conn

-----------------------------------------------------------------------------
(* Helpers *)

\* The slots below maxConns: the indices of p.conns.
Indices == {i \in Slots : i < maxConns}

\* The occupied slots; activeCountLocked is its cardinality.
Active == {i \in Indices : conns[i] # None}

Pooled == {conns[i] : i \in Slots} \ {None}

\* No connection in the control slot (add's controlMissing).
ControlMissing == controlIndex \notin Active

IsLowest(j, S) == j \in S /\ \A k \in S : j <= k

\* Slots still occupied once slot i is emptied.
Others(i) == Active \ {i}

\* Resize's bounds on the size the server asks for.
ClampMax(n) == IF n < 1 THEN 1
               ELSE IF n > MaxPoolConnections THEN MaxPoolConnections ELSE n

\* Calling connRef.pingCancel of every connection of S.
WithoutLoops(S) ==
  [c \in Conn |-> IF \E d \in S : connPing[d] = c THEN None ELSE dataLoop[c]]

ClearPing(S) == [c \in Conn |-> IF c \in S THEN None ELSE connPing[c]]

-----------------------------------------------------------------------------
PoolInit(n) ==
  /\ conns = [i \in Slots |-> None]
  /\ slotCancels = [i \in Slots |-> None]
  /\ maxConns = n
  /\ controlIndex = 0
  /\ pingCancel = None
  /\ connPing = [c \in Conn |-> None]
  /\ ctlLoops = {}
  /\ dataLoop = [c \in Conn |-> None]
  /\ doomed = {}
  /\ cancelled = {}
  /\ draining = {}

\* Nothing in the client refers to connection c any more: its name can be
\* given to a new connection.
Unreferenced(c) ==
  /\ c \notin open
  /\ c \notin Pooled
  /\ c \notin draining
  /\ c # pingCancel
  /\ \A d \in Conn \ {c} : connPing[d] # c

\* A dial that succeeds.  The ping loops of the name's earlier bearer have
\* ended: its connection is closed, so its next ping fails.
Connect(c) ==
  /\ Unreferenced(c)
  /\ open' = open \cup {c}
  /\ ctlLoops' = ctlLoops \ {c}
  /\ dataLoop' = [dataLoop EXCEPT ![c] = None]
  /\ connPing' = [connPing EXCEPT ![c] = None]
  /\ UNCHANGED <<conns, slotCancels, maxConns, controlIndex, pingCancel,
                 doomed, cancelled, draining>>

\* The connection is closed: by the client, the server or the network.
\* Closing it again changes nothing.
CloseConn(c) ==
  /\ open' = open \ {c}
  /\ UNCHANGED <<conns, slotCancels, maxConns, controlIndex, pingCancel,
                 connPing, ctlLoops, dataLoop, doomed, cancelled, draining>>

\* Fault: the first connection of an empty pool is not made the control one.
AddNeverElects(i, c) ==
  /\ i \in Indices
  /\ conns' = [conns EXCEPT ![i] = c]
  /\ connPing' = [connPing EXCEPT ![c] = None]
  /\ UNCHANGED <<slotCancels, maxConns, controlIndex, pingCancel, ctlLoops,
                 dataLoop, doomed, cancelled, draining, open>>

\* Fault: every new connection is made the control one.
AddTakesControl(i, c) ==
  /\ i \in Indices
  /\ conns' = [conns EXCEPT ![i] = c]
  /\ connPing' = [connPing EXCEPT ![c] = None]
  /\ controlIndex' = i
  /\ UNCHANGED <<slotCancels, maxConns, pingCancel, ctlLoops, dataLoop,
                 doomed, cancelled, draining, open>>

\* add(index, conn) for an index within the pool.  Its second result, whether
\* the slot is the control slot, is i = controlIndex'.
Add(i, c) ==
  /\ i \in Indices
  /\ conns' = [conns EXCEPT ![i] = c]
  /\ connPing' = [connPing EXCEPT ![c] = None]
  /\ controlIndex' =
       IF ControlMissing /\ Active = {} THEN i ELSE controlIndex
  /\ UNCHANGED <<slotCancels, maxConns, pingCancel, ctlLoops, dataLoop,
                 doomed, cancelled, draining, open>>

\* startPoolPingLoop's call of replacePingLoop: the new loop watches c.
ReplacePingLoop(c) ==
  /\ pingCancel' = c
  /\ ctlLoops' = (ctlLoops \ {pingCancel}) \cup {c}
  /\ UNCHANGED <<conns, slotCancels, maxConns, controlIndex, connPing,
                 dataLoop, doomed, cancelled, draining, open>>

\* startConnPingLoop: setConnPingCancel(i, cancel) stores the cancel function
\* of c's data loop in whatever connection slot i holds, or drops it when the
\* slot is empty or gone; the loop starts under slot context w either way.
StartDataLoop(i, c, w) ==
  /\ dataLoop' = [dataLoop EXCEPT ![c] = w]
  /\ connPing' = [d \in Conn |-> IF i \in Active /\ d = conns[i]
                                 THEN c ELSE connPing[d]]
  /\ UNCHANGED <<conns, slotCancels, maxConns, controlIndex, pingCancel,
                 ctlLoops, doomed, cancelled, draining, open>>

\* setSlotCancel: an index the pool does not have is ignored.
SetSlotCancel(i, w) ==
  /\ slotCancels' = [k \in Slots |-> IF k = i /\ k \in Indices
                                     THEN w ELSE slotCancels[k]]
  /\ UNCHANGED <<conns, maxConns, controlIndex, pingCancel, connPing,
                 ctlLoops, dataLoop, doomed, cancelled, draining, open>>

-----------------------------------------------------------------------------
(* remove(index).  The five actions are its outcomes; busy is the set of   *)
(* connections whose stream counter it reads as non-zero.                  *)

\* Taking the connection of slot i out, and ending its own data loop.
EmptySlot(i) ==
  /\ i \in Active
  /\ conns' = [conns EXCEPT ![i] = None]
  /\ UNCHANGED <<slotCancels, maxConns, doomed, cancelled, draining, open>>

\* Fault: the control loop of a removed control connection keeps running.
KeepControlLoop ==
  /\ pingCancel' = None
  /\ UNCHANGED ctlLoops

\* p.pingCancel is called when the control connection is the one removed.
CancelControlLoop ==
  /\ pingCancel' = None
  /\ ctlLoops' = ctlLoops \ {pingCancel}

RemoveNone(i) ==
  /\ i \notin Active
  /\ UNCHANGED poolVars

RemoveData(i) ==
  /\ EmptySlot(i)
  /\ i # controlIndex
  /\ Others(i) # {}
  /\ connPing' = ClearPing({conns[i]})
  /\ dataLoop' = WithoutLoops({conns[i]})
  /\ UNCHANGED <<controlIndex, pingCancel, ctlLoops>>

RemoveLast(i) ==
  /\ EmptySlot(i)
  /\ Others(i) = {}
  /\ controlIndex' = 0
  /\ connPing' = ClearPing({conns[i]})
  /\ dataLoop' = WithoutLoops({conns[i]})
  /\ IF i = controlIndex THEN CancelControlLoop
                         ELSE UNCHANGED <<pingCancel, ctlLoops>>

\* The other connections that can take over: no stream is using them.
Idle(i, busy) == {k \in Others(i) : conns[k] \notin busy}

RemoveControlPromote(i, busy, j) ==
  /\ EmptySlot(i)
  /\ i = controlIndex
  /\ IsLowest(j, Idle(i, busy))
  /\ controlIndex' = j
  /\ connPing' = ClearPing({conns[i], conns[j]})
  /\ dataLoop' = WithoutLoops({conns[i], conns[j]})
  /\ CancelControlLoop

\* Fault: a sentinel beyond the slots marks the lost control.
RemoveControlNoIdleSentinel(i, busy) ==
  /\ EmptySlot(i)
  /\ i = controlIndex
  /\ Others(i) # {}
  /\ Idle(i, busy) = {}
  /\ controlIndex' = MaxPoolConnections
  /\ connPing' = ClearPing({conns[i]})
  /\ dataLoop' = WithoutLoops({conns[i]})
  /\ CancelControlLoop

RemoveControlNoIdle(i, busy) ==
  /\ EmptySlot(i)
  /\ i = controlIndex
  /\ Others(i) # {}
  /\ Idle(i, busy) = {}
  /\ controlIndex' = -1
  /\ connPing' = ClearPing({conns[i]})
  /\ dataLoop' = WithoutLoops({conns[i]})
  /\ CancelControlLoop

Remove(i, busy) ==
  \/ RemoveNone(i)
  \/ RemoveData(i)
  \/ RemoveLast(i)
  \/ \E j \in Slots : RemoveControlPromote(i, busy, j)
  \/ RemoveControlNoIdle(i, busy)

-----------------------------------------------------------------------------
(* Resize(newMax), n being the size after its bounds are applied.          *)

Grow(n) ==
  /\ n > maxConns
  /\ n \in 1 .. MaxPoolConnections
  /\ maxConns' = n
  /\ UNCHANGED <<conns, slotCancels, controlIndex, pingCancel, connPing,
                 ctlLoops, dataLoop, doomed, cancelled, draining, open>>

\* The connections in the slots that a shrink to n cuts off.
CutOff(n) == {conns[k] : k \in {k \in Active : k >= n}}

\* Fault: the cancel functions of the cut-off slots stay behind.
CutSlotsKeepCancels(n) ==
  /\ n \in 1 .. maxConns - 1
  /\ maxConns' = n
  /\ conns' = [k \in Slots |-> IF k >= n THEN None ELSE conns[k]]
  /\ doomed' = doomed \cup ({slotCancels[k] : k \in {k \in Indices : k >= n}}
                              \ {None})
  /\ draining' = draining \cup CutOff(n)
  /\ UNCHANGED <<slotCancels, cancelled, open>>

\* Fault: the last slot that stays loses its goroutine too.
CutSlotsOneTooMany(n) ==
  /\ n \in 1 .. maxConns - 1
  /\ maxConns' = n
  /\ conns' = [k \in Slots |-> IF k >= n THEN None ELSE conns[k]]
  /\ slotCancels' = [k \in Slots |-> IF k >= n THEN None ELSE slotCancels[k]]
  /\ doomed' = doomed \cup ({slotCancels[k] : k \in {k \in Indices : k >= n - 1}}
                              \ {None})
  /\ draining' = draining \cup CutOff(n)
  /\ UNCHANGED <<cancelled, open>>

\* What every shrink does to the slots from n on.
CutSlots(n) ==
  /\ n \in 1 .. maxConns - 1
  /\ maxConns' = n
  /\ conns' = [k \in Slots |-> IF k >= n THEN None ELSE conns[k]]
  /\ slotCancels' = [k \in Slots |-> IF k >= n THEN None ELSE slotCancels[k]]
  /\ doomed' = doomed \cup ({slotCancels[k] : k \in {k \in Indices : k >= n}}
                              \ {None})
  /\ draining' = draining \cup CutOff(n)
  /\ UNCHANGED <<cancelled, open>>

ShrinkKeepControl(n) ==
  /\ CutSlots(n)
  /\ controlIndex < n
  /\ connPing' = ClearPing(CutOff(n))
  /\ dataLoop' = WithoutLoops(CutOff(n))
  /\ UNCHANGED <<controlIndex, pingCancel, ctlLoops>>

ShrinkPromote(n, j) ==
  /\ CutSlots(n)
  /\ controlIndex >= n
  /\ IsLowest(j, {k \in Active : k < n})
  /\ controlIndex' = j
  /\ connPing' = ClearPing(CutOff(n) \cup {conns[j]})
  /\ dataLoop' = WithoutLoops(CutOff(n) \cup {conns[j]})
  /\ CancelControlLoop

ShrinkNoSurvivor(n) ==
  /\ CutSlots(n)
  /\ controlIndex >= n
  /\ {k \in Active : k < n} = {}
  /\ controlIndex' = 0
  /\ connPing' = ClearPing(CutOff(n))
  /\ dataLoop' = WithoutLoops(CutOff(n))
  /\ CancelControlLoop

\* The caller runs the cancel functions it collected, in any order.
CancelCtx(w) ==
  /\ w \in doomed
  /\ doomed' = doomed \ {w}
  /\ cancelled' = cancelled \cup {w}
  /\ UNCHANGED <<conns, slotCancels, maxConns, controlIndex, pingCancel,
                 connPing, ctlLoops, dataLoop, draining, open>>

\* The drain goroutine (or close) closes a collected connection: its streams
\* ended, or five seconds passed.
CloseDrained(c) ==
  /\ c \in draining
  /\ draining' = draining \ {c}
  /\ open' = open \ {c}
  /\ UNCHANGED <<conns, slotCancels, maxConns, controlIndex, pingCancel,
                 connPing, ctlLoops, dataLoop, doomed, cancelled>>

\* close(): conns and slotCancels keep their entries.
Close ==
  /\ connPing' = ClearPing(Pooled)
  /\ dataLoop' = WithoutLoops(Pooled)
  /\ CancelControlLoop
  /\ doomed' = doomed \cup ({slotCancels[k] : k \in Slots} \ {None})
  /\ draining' = draining \cup Pooled
  /\ UNCHANGED <<conns, slotCancels, maxConns, controlIndex, cancelled, open>>

-----------------------------------------------------------------------------
(* The most general user of the pool *)

PoolUserInit ==
  /\ \E n \in 1 .. MaxPoolConnections : PoolInit(n)
  /\ open \in SUBSET Conn

Resize(n) ==
  \/ Grow(n)
  \/ ShrinkKeepControl(n)
  \/ \E j \in Slots : ShrinkPromote(n, j)
  \/ ShrinkNoSurvivor(n)

\* A connection is added once, before it is handed to anyone to close; it may
\* have died since it was dialled.
NewConn(c) == c \notin Pooled \cup draining

\* A connection gets one data loop, for the slot it was added to: the slot it
\* is in, unless it was taken out in the meantime.
NewLoop(i, c) == dataLoop[c] = None /\ (c \in Pooled => conns[i] = c)

PoolNext ==
  \/ \E c \in Conn : Connect(c) \/ CloseConn(c) \/ CloseDrained(c)
  \/ \E c \in Conn : ReplacePingLoop(c)
  \/ \E i \in Slots, c \in Conn : NewConn(c) /\ Add(i, c)
  \/ \E i \in Slots, c \in Conn, w \in Ctx :
       NewLoop(i, c) /\ StartDataLoop(i, c, w)
  \/ \E i \in Slots, w \in Ctx : SetSlotCancel(i, w)
  \/ \E n \in 1 .. MaxPoolConnections : Resize(n)
  \/ \E w \in Ctx : CancelCtx(w)
  \/ Close
  \/ \E i \in Slots, busy \in SUBSET Conn : Remove(i, busy)

\* What any code may do to a pool through its methods.  The goroutines of a
\* session do no more than that (SessionPool), so what is proved of PoolSpec
\* holds in every session.
PoolSpec == PoolUserInit /\ [][PoolNext]_poolVars

-----------------------------------------------------------------------------
(* Properties *)

\* A pool with a connection in it has a control connection, or has given the
\* control up (controlIndex = -1, which maintainPoolSlot turns into the end of
\* the session): add, remove and Resize between them never leave the control
\* index on an empty or a cut-off slot while other slots are occupied.
ControlPresent ==
  Active # {} => controlIndex = -1 \/ controlIndex \in Active

\* Resize leaves nothing behind in the slots it cut off, so a later growth of
\* the pool exposes no old connection and no old cancel function.
CutSlotsEmpty ==
  \A i \in Slots : i >= maxConns => conns[i] = None /\ slotCancels[i] = None

\* At most one control ping loop runs, and p.pingCancel is the handle to it:
\* replacePingLoop, remove, Resize and close never lose the handle of a
\* running control loop.
OneControlLoop == ctlLoops \subseteq {pingCancel}

\* A live control connection is never demoted: the control index leaves a slot
\* only when that slot's connection left it.
ControlMovesOnlyWhenLost ==
  [][controlIndex' # controlIndex /\ controlIndex \in Active
       => conns'[controlIndex] = None]_poolVars
=============================================================================
