----------------------------- MODULE SessionPool -----------------------------
(***************************************************************************)
(* One tunnel session: the goroutines that use the connection pool         *)
(* (src/pkg/client/client.go).                                             *)
(*                                                                         *)
(* runSession creates the pool, starts one maintainPoolSlot goroutine per  *)
(* granted slot and waits for ctx or errCh; then it closes the pool and    *)
(* cancels the session context.  Each goroutine joins the session with a   *)
(* connection, adds it to the pool, starts its ping loop, reads from it,   *)
(* and on a failure removes it, promotes another one if it was the control *)
(* connection, and joins again.  A MaxConnectionsUpdate read by any of     *)
(* them resizes the pool under session.mu, which stops or starts further   *)
(* goroutines.                                                             *)
(*                                                                         *)
(* A goroutine is named by its slot context, an element of Ctx.  Steps are *)
(* the sections between which another goroutine can run: a method of the   *)
(* pool, a context check together with the local code after it, a send on  *)
(* errCh.  Requests, pings and pongs do not touch the pool and are not     *)
(* here; what the stream counters read is chosen freely (busy).            *)
(***************************************************************************)
EXTENDS ConnectionPool

CONSTANTS
  MaxGranted,  \* bound on the MaxConnections of the register ack
  MaxResizes,  \* bound on the MaxConnectionsUpdate messages handled
  MayCancel    \* whether Run's context may be cancelled

ASSUME SessionAssumption ==
  /\ MaxGranted \in Nat \ {0}
  /\ MaxResizes \in Nat
  /\ MayCancel \in BOOLEAN

VARIABLES
  pc,               \* where each goroutine is
  slot,             \* its index
  held,             \* its conn / connRef
  promo,            \* the promoted connection it still has to start a loop for
  smu,              \* holder of session.mu: a goroutine inside resize, or None
  nextSlot,         \* the loop index of the resize under way
  granted,          \* registerAck.MaxConnections
  mainPc,           \* where runSession is
  startNext,        \* runSession's loop index
  controlConn,      \* runSession's controlConn, until slot 0 has it
  errCh,            \* an error waits in the channel, whose buffer is one
  sessionCancelled, \* the session context was cancelled
  ctxDone,          \* Run's context was cancelled
  resizes           \* resizes so far

slotVars == <<pc, slot, held, promo>>
mainVars == <<granted, mainPc, startNext, controlConn, sessionCancelled>>
muVars == <<smu, nextSlot, resizes>>
vars == <<poolVars, slotVars, mainVars, muVars, errCh, ctxDone>>

PcValues == {"unused", "top", "join", "count", "add", "startControl",
             "startData", "read", "resized", "remove", "retry", "lost",
             "promote", "promoting", "done"}

\* The pool, the goroutines and runSession stay within their types.
TypeOK ==
  /\ PoolTypeOK
  /\ pc \in [Ctx -> PcValues]
  /\ slot \in [Ctx -> 0 .. MaxGranted + MaxPoolConnections]
  /\ held \in [Ctx -> Conn \cup {None}]
  /\ promo \in [Ctx -> Conn \cup {None}]
  /\ smu \in Ctx \cup {None}
  /\ nextSlot \in 0 .. MaxPoolConnections
  /\ granted \in 1 .. MaxGranted
  /\ mainPc \in {"start", "select", "closing", "cancelling", "over"}
  /\ startNext \in 0 .. MaxGranted
  /\ controlConn \in Conn \cup {None}
  /\ errCh \in BOOLEAN
  /\ sessionCancelled \in BOOLEAN
  /\ ctxDone \in BOOLEAN
  /\ resizes \in 0 .. MaxResizes

-----------------------------------------------------------------------------
\* ctx.Err() # nil for goroutine w: its slot context descends from the session
\* context, which descends from Run's.
CtxErr(w) == ctxDone \/ sessionCancelled \/ w \in cancelled

Goto(w, label) == pc' = [pc EXCEPT ![w] = label]

Unused == {w \in Ctx : pc[w] = "unused"}

\* No goroutine and not runSession holds connection c either.
NotHeld(c) == c # controlConn /\ \A w \in Ctx : held[w] # c /\ promo[w] # c

\* session.startSlotLocked: a slot context, its cancel in the pool, a goroutine.
StartSlot(w, i, c) ==
  /\ pc[w] = "unused"
  /\ SetSlotCancel(i, w)
  /\ Goto(w, "top")
  /\ slot' = [slot EXCEPT ![w] = i]
  /\ held' = [held EXCEPT ![w] = c]
  /\ UNCHANGED promo

-----------------------------------------------------------------------------
(* maintainPoolSlot *)

\* The wait of the join stagger or the back-off, and the check at the top of
\* the loop, see the context cancelled.  An initial connection is not closed.
TopReturn(w) ==
  /\ pc[w] = "top"
  /\ CtxErr(w)
  /\ Goto(w, "done")
  /\ UNCHANGED <<poolVars, slot, held, promo, mainVars, muVars, errCh, ctxDone>>

\* With an initial connection the check is made a second time, before add, and
\* that one does close the connection.
TopClose(w) ==
  /\ pc[w] = "top"
  /\ CtxErr(w)
  /\ held[w] # None
  /\ CloseConn(held[w])
  /\ Goto(w, "done")
  /\ UNCHANGED <<slot, held, promo, mainVars, muVars, errCh, ctxDone>>

TopProceed(w) ==
  /\ pc[w] = "top"
  /\ ~CtxErr(w)
  /\ Goto(w, IF held[w] = None THEN "join" ELSE "add")
  /\ UNCHANGED <<poolVars, slot, held, promo, mainVars, muVars, errCh, ctxDone>>

\* joinSessionConnection succeeds (dial, register, ack and its checks) and the
\* context is still alive.
JoinOK(w, c) ==
  /\ pc[w] = "join"
  /\ ~CtxErr(w)
  /\ NotHeld(c)
  /\ Connect(c)
  /\ Goto(w, "add")
  /\ held' = [held EXCEPT ![w] = c]
  /\ UNCHANGED <<slot, promo, mainVars, muVars, errCh, ctxDone>>

\* The join fails, or its connection is closed again because the context was
\* cancelled during it.
JoinFailed(w) ==
  /\ pc[w] = "join"
  /\ Goto(w, IF CtxErr(w) THEN "done" ELSE "count")
  /\ UNCHANGED <<poolVars, slot, held, promo, mainVars, muVars, errCh, ctxDone>>

\* Fault: a failed join always retries, whatever is left in the pool.
JoinAlwaysRetries(w) ==
  /\ pc[w] = "count"
  /\ Goto(w, "top")
  /\ UNCHANGED <<poolVars, slot, held, promo, mainVars, muVars, errCh, ctxDone>>

\* A failed join ends the session when the pool is empty, else backs off.
JoinGiveUp(w) ==
  /\ pc[w] = "count"
  /\ IF Active = {} THEN Goto(w, "done") /\ errCh' = TRUE
                    ELSE Goto(w, "top") /\ UNCHANGED errCh
  /\ UNCHANGED <<poolVars, slot, held, promo, mainVars, muVars, ctxDone>>

\* pool.add; its result decides which ping loop is started.
AddConn(w) ==
  /\ pc[w] = "add"
  /\ Add(slot[w], held[w])
  /\ Goto(w, IF slot[w] = controlIndex' THEN "startControl" ELSE "startData")
  /\ UNCHANGED <<slot, held, promo, mainVars, muVars, errCh, ctxDone>>

\* Fault: the connection of a rejected add is not closed.
AddRejectedLeaks(w) ==
  /\ pc[w] = "add"
  /\ slot[w] \notin Indices
  /\ Goto(w, "done")
  /\ UNCHANGED <<poolVars, slot, held, promo, mainVars, muVars, errCh, ctxDone>>

\* pool.add returned nil: the slot was cut off, or never existed.
AddRejected(w) ==
  /\ pc[w] = "add"
  /\ slot[w] \notin Indices
  /\ CloseConn(held[w])
  /\ Goto(w, "done")
  /\ UNCHANGED <<slot, held, promo, mainVars, muVars, errCh, ctxDone>>

StartControl(w) ==
  /\ pc[w] = "startControl"
  /\ ReplacePingLoop(held[w])
  /\ Goto(w, "read")
  /\ UNCHANGED <<slot, held, promo, mainVars, muVars, errCh, ctxDone>>

\* Fault: the data ping loop is not started.
StartDataNoLoop(w) ==
  /\ pc[w] = "startData"
  /\ Goto(w, "read")
  /\ UNCHANGED <<poolVars, slot, held, promo, mainVars, muVars, errCh, ctxDone>>

StartData(w) ==
  /\ pc[w] = "startData"
  /\ StartDataLoop(slot[w], held[w], w)
  /\ Goto(w, "read")
  /\ UNCHANGED <<slot, held, promo, mainVars, muVars, errCh, ctxDone>>

\* readLoop returns with the context cancelled: the read deadline passed, or
\* the connection was closed.  Neither remove nor Close is called.
ReadReturn(w) ==
  /\ pc[w] = "read"
  /\ CtxErr(w)
  /\ Goto(w, "done")
  /\ UNCHANGED <<poolVars, slot, held, promo, mainVars, muVars, errCh, ctxDone>>

\* Fault: a failed connection is replaced without being removed first.
ReadFailNoRemove(w) ==
  /\ pc[w] = "read"
  /\ ~CtxErr(w)
  /\ Goto(w, "retry")
  /\ UNCHANGED <<poolVars, slot, held, promo, mainVars, muVars, errCh, ctxDone>>

\* readLoop returns an error with the context alive: the connection is closed,
\* or (open still) a pong could not be sent or a re-ack was not acceptable.
ReadFail(w) ==
  /\ pc[w] = "read"
  /\ ~CtxErr(w)
  /\ Goto(w, "remove")
  /\ UNCHANGED <<poolVars, slot, held, promo, mainVars, muVars, errCh, ctxDone>>

\* pool.remove(index); its results decide what follows.
RemoveConn(w) ==
  /\ pc[w] = "remove"
  /\ \E busy \in SUBSET Pooled :
       \/ /\ RemoveNone(slot[w])
          /\ Goto(w, IF Active = {} THEN "lost" ELSE "retry")
          /\ UNCHANGED promo
       \/ /\ RemoveData(slot[w])
          /\ Goto(w, "retry")
          /\ UNCHANGED promo
       \/ /\ RemoveLast(slot[w]) \/ RemoveControlNoIdle(slot[w], busy)
          /\ Goto(w, "lost")
          /\ UNCHANGED promo
       \/ \E j \in Slots :
            /\ RemoveControlPromote(slot[w], busy, j)
            /\ Goto(w, "promote")
            /\ promo' = [promo EXCEPT ![w] = conns[j]]
  /\ UNCHANGED <<slot, held, mainVars, muVars, errCh, ctxDone>>

\* The connection is closed and the goroutine backs off for its next join.
Retry(w) ==
  /\ pc[w] = "retry"
  /\ CloseConn(held[w])
  /\ Goto(w, "top")
  /\ held' = [held EXCEPT ![w] = None]
  /\ UNCHANGED <<slot, promo, mainVars, muVars, errCh, ctxDone>>

\* Fault: a goroutine that lost the control for good only stops itself.
LostSilently(w) ==
  /\ pc[w] = "lost"
  /\ CloseConn(held[w])
  /\ Goto(w, "done")
  /\ UNCHANGED <<slot, held, promo, mainVars, muVars, errCh, ctxDone>>

\* Nothing left, or no idle connection to promote: the session ends.
Lost(w) ==
  /\ pc[w] = "lost"
  /\ CloseConn(held[w])
  /\ errCh' = TRUE
  /\ Goto(w, "done")
  /\ UNCHANGED <<slot, held, promo, mainVars, muVars, ctxDone>>

PromoteClose(w) ==
  /\ pc[w] = "promote"
  /\ CloseConn(held[w])
  /\ Goto(w, "promoting")
  /\ held' = [held EXCEPT ![w] = None]
  /\ UNCHANGED <<slot, promo, mainVars, muVars, errCh, ctxDone>>

PromoteStart(w) ==
  /\ pc[w] = "promoting"
  /\ ReplacePingLoop(promo[w])
  /\ Goto(w, "top")
  /\ promo' = [promo EXCEPT ![w] = None]
  /\ UNCHANGED <<slot, held, mainVars, muVars, errCh, ctxDone>>

-----------------------------------------------------------------------------
(* session.resize, called by readLoop for a MaxConnectionsUpdate *)

\* Room for the goroutines a growth to n, and runSession, will start.
EnoughCtx(n) ==
  Cardinality(Unused) >= (n - maxConns) + (granted - startNext)

\* Where resize's loop over the slots to start begins: Resize's oldMax.
FirstNewSlot == maxConns

ResizePool(w, n) ==
  /\ pc[w] = "read"
  /\ held[w] \in open
  /\ smu = None
  /\ resizes < MaxResizes
  /\ \/ /\ EnoughCtx(n)
        /\ Grow(n)
        /\ UNCHANGED promo
     \/ /\ ShrinkKeepControl(n) \/ ShrinkNoSurvivor(n)
        /\ UNCHANGED promo
     \/ \E j \in Slots :
          /\ ShrinkPromote(n, j)
          /\ promo' = [promo EXCEPT ![w] = conns[j]]
  /\ Goto(w, "resized")
  /\ smu' = w
  /\ nextSlot' = FirstNewSlot
  /\ resizes' = resizes + 1
  /\ UNCHANGED <<slot, held, mainVars, errCh, ctxDone>>

\* Once Resize has run the cancel functions it collected.
ResizePromote(w) ==
  /\ pc[w] = "resized"
  /\ doomed = {}
  /\ promo[w] # None
  /\ ReplacePingLoop(promo[w])
  /\ promo' = [promo EXCEPT ![w] = None]
  /\ UNCHANGED <<pc, slot, held, mainVars, muVars, errCh, ctxDone>>

ResizeStartSlot(w, f) ==
  /\ pc[w] = "resized"
  /\ nextSlot < maxConns
  /\ StartSlot(f, nextSlot, None)
  /\ nextSlot' = nextSlot + 1
  /\ UNCHANGED <<smu, resizes, mainVars, errCh, ctxDone>>

\* Fault: session.mu is not released on the way out of resize.
ResizeKeepsMutex(w) ==
  /\ pc[w] = "resized"
  /\ doomed = {}
  /\ promo[w] = None
  /\ nextSlot >= maxConns
  /\ Goto(w, "read")
  /\ UNCHANGED <<poolVars, slot, held, promo, smu, nextSlot, resizes, mainVars,
                 errCh, ctxDone>>

ResizeUnlock(w) ==
  /\ pc[w] = "resized"
  /\ doomed = {}
  /\ promo[w] = None
  /\ nextSlot >= maxConns
  /\ smu' = None
  /\ Goto(w, "read")
  /\ UNCHANGED <<poolVars, slot, held, promo, nextSlot, resizes, mainVars,
                 errCh, ctxDone>>

-----------------------------------------------------------------------------
(* runSession, after the register ack *)

Init ==
  /\ granted \in 1 .. MaxGranted
  /\ PoolInit(ClampMax(granted))
  /\ controlConn \in Conn
  /\ open = {controlConn}
  /\ pc = [w \in Ctx |-> "unused"]
  /\ slot = [w \in Ctx |-> 0]
  /\ held = [w \in Ctx |-> None]
  /\ promo = [w \in Ctx |-> None]
  /\ smu = None
  /\ nextSlot = 0
  /\ mainPc = "start"
  /\ startNext = 0
  /\ errCh = FALSE
  /\ sessionCancelled = FALSE
  /\ ctxDone = FALSE
  /\ resizes = 0

\* The loop that starts slots 0 .. granted - 1, granted not capped.
MainStartSlot(f) ==
  /\ mainPc = "start"
  /\ smu = None
  /\ StartSlot(f, startNext, controlConn)
  /\ controlConn' = None
  /\ startNext' = startNext + 1
  /\ mainPc' = IF startNext' = granted THEN "select" ELSE "start"
  /\ UNCHANGED <<granted, sessionCancelled, muVars, errCh, ctxDone>>

MainSelect ==
  /\ mainPc = "select"
  /\ \/ ctxDone /\ UNCHANGED errCh
     \/ errCh /\ errCh' = FALSE
  /\ mainPc' = "closing"
  /\ UNCHANGED <<poolVars, slotVars, muVars, granted, startNext, controlConn,
                 sessionCancelled, ctxDone>>

\* Fault: the pool is dropped instead of closed.
MainDropsPool ==
  /\ mainPc = "closing"
  /\ conns' = [i \in Slots |-> None]
  /\ mainPc' = "cancelling"
  /\ UNCHANGED <<slotCancels, maxConns, controlIndex, pingCancel, connPing,
                 ctlLoops, dataLoop, doomed, cancelled, draining, open>>
  /\ UNCHANGED <<slotVars, muVars, granted, startNext, controlConn,
                 sessionCancelled, errCh, ctxDone>>

\* The deferred pool.close(), then the deferred cancel().
MainClose ==
  /\ mainPc = "closing"
  /\ Close
  /\ mainPc' = "cancelling"
  /\ UNCHANGED <<slotVars, muVars, granted, startNext, controlConn,
                 sessionCancelled, errCh, ctxDone>>

MainCancel ==
  /\ mainPc = "cancelling"
  /\ doomed = {}
  /\ sessionCancelled' = TRUE
  /\ mainPc' = "over"
  /\ UNCHANGED <<poolVars, slotVars, muVars, granted, startNext, controlConn,
                 errCh, ctxDone>>

-----------------------------------------------------------------------------
(* The environment *)

\* The server or the network closes a connection, or a ping loop gives it up.
Drop(c) ==
  /\ c \in open
  /\ CloseConn(c)
  /\ UNCHANGED <<slotVars, mainVars, muVars, errCh, ctxDone>>

CancelRun ==
  /\ MayCancel
  /\ ~ctxDone
  /\ ctxDone' = TRUE
  /\ UNCHANGED <<poolVars, slotVars, mainVars, muVars, errCh>>

\* Calls made after the pool's lock is released.
Deferred ==
  /\ \/ \E w \in Ctx : CancelCtx(w)
     \/ \E c \in Conn : CloseDrained(c)
  /\ UNCHANGED <<slotVars, mainVars, muVars, errCh, ctxDone>>

SlotStep(w) ==
  \/ TopReturn(w) \/ TopClose(w) \/ TopProceed(w)
  \/ JoinFailed(w) \/ JoinGiveUp(w)
  \/ AddConn(w) \/ AddRejected(w)
  \/ StartControl(w) \/ StartData(w)
  \/ ReadReturn(w) \/ (held[w] \notin open /\ ReadFail(w))
  \/ RemoveConn(w) \/ Retry(w) \/ Lost(w) \/ PromoteClose(w) \/ PromoteStart(w)
  \/ ResizePromote(w) \/ ResizeUnlock(w)
  \/ \E f \in Ctx : ResizeStartSlot(w, f)

MainStep == MainSelect \/ MainClose \/ MainCancel \/ \E f \in Ctx : MainStartSlot(f)

Next ==
  \/ \E w \in Ctx : SlotStep(w)
  \/ \E w \in Ctx : ReadFail(w)
  \/ \E w \in Ctx, c \in Conn : JoinOK(w, c)
  \/ \E w \in Ctx, n \in 1 .. MaxPoolConnections : ResizePool(w, n)
  \/ MainStep
  \/ Deferred
  \/ \E c \in Conn : Drop(c)
  \/ CancelRun

Spec == Init /\ [][Next]_vars

-----------------------------------------------------------------------------
(* Properties *)

Ending == errCh \/ mainPc \notin {"start", "select"} \/ ctxDone

\* The control of the pool is given up (controlIndex = -1) only by a goroutine
\* that then reports it: while the session is not ending, some goroutine is on
\* its way to errCh.  A pool that is left without a control connection is thus
\* never used for longer than that goroutine needs.
NoControlEndsSession ==
  controlIndex = -1 => Ending \/ \E w \in Ctx : pc[w] = "lost"

\* Resize never stops the goroutine of slot 0, and nothing else does while the
\* session is up: as long as runSession waits and no error is on its way, slot
\* 0 is maintained, so a session that lost its connections cannot be left with
\* nobody to repair it or to report it.
SlotZeroMaintained ==
  mainPc = "select" /\ ~Ending
    => \E w \in Ctx : slot[w] = 0 /\ pc[w] \notin {"unused", "done"}

\* Nobody is between installing or promoting a connection and starting the
\* ping loop for it.
Settled ==
  \A w \in Ctx : pc[w] \notin {"add", "startControl", "startData", "remove",
                               "promote", "promoting", "resized", "lost"}

\* "Lane health is owned by the pong watchdog in pingLoop" (client.go:271):
\* once all goroutines have started their loops, an open control connection of
\* a live session is watched by the control ping loop.
ControlWatched ==
  Settled /\ ~Ending /\ controlIndex \in Active
    /\ conns[controlIndex] \in open
    => conns[controlIndex] \in ctlLoops

\* Each connection in the pool is the one its slot's goroutine is using: remove
\* and setConnPingCancel, which go by index, reach the caller's connection.
\* (After a second resize a slot may have two goroutines: one that was stopped by
\* the first, and that still has its last calls to make, and its successor.)
SlotOwned ==
  ~Ending /\ resizes <= 1 => \A i \in Active :
    \E w \in Ctx : slot[w] = i /\ held[w] = conns[i]
                   /\ pc[w] \in {"startControl", "startData", "read", "resized",
                                 "remove"}

\* A data ping loop that is still running on connection c.
DataLoopRuns(c) == dataLoop[c] # None /\ ~CtxErr(dataLoop[c])

\* The same for the other lanes: an open data connection in the pool has its
\* data ping loop, whatever promotions happened around it.  (After a second
\* resize the loop may have started under a cancelled slot context: a goroutine
\* that was joining adds to the slot that has come back.)
DataWatched ==
  Settled /\ ~Ending /\ resizes <= 1
    => \A i \in Active \ {controlIndex} :
         conns[i] \in open => DataLoopRuns(conns[i])

\* While the session is up no connection is forgotten: an open connection is in
\* the hands of a running goroutine, of runSession or of the drain goroutine, as
\* long as no slot has two goroutines, which takes a second resize.
ConnAccounted ==
  ~Ending /\ resizes <= 1 => \A c \in open :
    \/ c = controlConn
    \/ c \in draining
    \/ \E w \in Ctx : held[w] = c /\ pc[w] \notin {"unused", "done"}

-----------------------------------------------------------------------------
(* Liveness.  The Go scheduler runs every goroutine that can run; a dial, a *)
(* register and a read end in one way or the other (they have deadlines);   *)
(* nothing makes a join succeed, a message arrive or a connection fail.     *)

Fairness ==
  /\ \A w \in Ctx : WF_vars(SlotStep(w))
  /\ WF_vars(MainStep)
  /\ WF_vars(Deferred)

FairSpec == Spec /\ Fairness

Finished == mainPc = "over" /\ \A w \in Ctx : pc[w] \in {"unused", "done"}

\* Cancelling Run's context ends the session and every goroutine of it: none
\* is left behind in a wait for session.mu, for errCh or for a connection.
ShutdownCompletes == ctxDone ~> Finished

\* The session does not stay up without a control connection, nor without any:
\* a control lost for good ends it, and an empty pool is refilled or given up,
\* whoever of the goroutines notices it.
BrokenPoolResolved ==
  /\ controlIndex = -1 ~> mainPc = "over"
  /\ mainPc = "select" /\ Active = {} ~> Active # {} \/ mainPc # "select"
=============================================================================
