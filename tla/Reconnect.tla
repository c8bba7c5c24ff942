------------------------------ MODULE Reconnect ------------------------------
(***************************************************************************)
(* Client.Run (src/pkg/client/client.go): one session after the other,     *)
(* with a back-off (src/pkg/client/reconnect.go) after each that failed,   *)
(* and the ConnectionStatus it publishes for the web UI.                   *)
(*                                                                         *)
(* What happens inside a session is SessionPool; here a session registers  *)
(* or does not, its pool has some number of connections, and goroutines of *)
(* it copy that number to the status in two steps (syncPoolStatus), the    *)
(* second of which may come after the session has ended.                   *)
(*                                                                         *)
(* The delay is computed in signed integers of Width bits, as the code     *)
(* does in time.Duration, so that a small Width shows what 64 bits do.     *)
(***************************************************************************)
EXTENDS Integers

CONSTANTS
  Width,             \* bits of time.Duration, 64 in Go
  Second,            \* time.Second in ticks
  MaxReconnectDelay, \* cfg.MaxReconnectDelay in ticks; not positive: 60 s
  MaxJitter,         \* maxReconnectJitter in ticks
  AttemptCap,        \* bound: attempt counts no further
  MaxActive          \* bound on the connections of a session

ASSUME ReconnectAssumption ==
  /\ Width \in Nat \ {0, 1}
  /\ Second \in Nat \ {0}
  /\ MaxReconnectDelay \in Int
  /\ MaxJitter \in Nat
  /\ AttemptCap \in Nat
  /\ MaxActive \in Nat \ {0}

VARIABLES
  pc,        \* where Run is
  attempt,   \* attempt
  delay,     \* the delay of the wait under way
  status,    \* c.state
  active,    \* connections in the pool of the session, 0 between sessions
  snap,      \* a snapshot syncPoolStatus still has to publish, or NoSnap
  reachable, \* the server accepts registrations (environment)
  ctxDone    \* ctx was cancelled

vars == <<pc, attempt, delay, status, active, snap, reachable, ctxDone>>

NoSnap == -1

\* Run's variables and the published status stay within their types.
TypeOK ==
  /\ pc \in {"loop", "session", "failed", "waiting", "returned"}
  /\ attempt \in 0 .. AttemptCap
  /\ delay \in Int
  /\ status \in [connected : BOOLEAN, active : 0 .. MaxActive,
                 reconnectAttempt : 0 .. AttemptCap + 1, lastError : BOOLEAN]
  /\ active \in 0 .. MaxActive
  /\ snap \in NoSnap .. MaxActive
  /\ reachable \in BOOLEAN
  /\ ctxDone \in BOOLEAN

-----------------------------------------------------------------------------
(* backoffDelayWithRand *)

MaxInt == 2 ^ (Width - 1) - 1
MinInt == -(2 ^ (Width - 1))

\* An integer result as Width bits hold it.
Wrap(x) == ((x - MinInt) % 2 ^ Width) + MinInt

\* time.Duration(math.Pow(2, a)): exact while it fits; Go leaves a conversion
\* that does not fit to the machine (least integer on amd64, largest on arm64).
PowerOfTwo(a) == IF a <= Width - 2 THEN {2 ^ a} ELSE {MinInt, MaxInt}

EffectiveMax == IF MaxReconnectDelay <= 0 THEN 60 * Second ELSE MaxReconnectDelay

Capped(d) == IF d > EffectiveMax THEN EffectiveMax ELSE d

\* Fault: the configured maximum is not applied.
DelaysUncapped(a) ==
  {Wrap(p * Second) + jitter : p \in PowerOfTwo(a), jitter \in 0 .. MaxJitter}

Delays(a) ==
  {Capped(Wrap(p * Second)) + jitter :
     p \in PowerOfTwo(a), jitter \in 0 .. MaxJitter}

-----------------------------------------------------------------------------
(* Run *)

Init ==
  /\ pc = "loop"
  /\ attempt = 0
  /\ delay = 0
  /\ status = [connected |-> FALSE, active |-> 0, reconnectAttempt |-> 0,
               lastError |-> FALSE]
  /\ active = 0
  /\ snap = NoSnap
  /\ reachable \in BOOLEAN
  /\ ctxDone \in BOOLEAN

\* Fault: a session does not watch ctx.
RunReturnsBetweenSessions ==
  /\ pc \in {"loop", "failed", "waiting"}
  /\ ctxDone
  /\ pc' = "returned"
  /\ UNCHANGED <<attempt, delay, status, active, snap, reachable, ctxDone>>

\* ctx is found cancelled: at the top of the loop, after a session (whatever
\* its error), or in the select of the wait.
RunReturns ==
  /\ pc \in {"loop", "session", "failed", "waiting"}
  /\ ctxDone
  /\ pc' = "returned"
  /\ active' = 0
  /\ UNCHANGED <<attempt, delay, status, snap, reachable, ctxDone>>

\* runSession fails before the session is up: a ws:// URL, the dial, the
\* register or its ack.
SessionRefused ==
  /\ pc = "loop"
  /\ ~ctxDone
  /\ ~reachable
  /\ pc' = "failed"
  /\ UNCHANGED <<attempt, delay, status, active, snap, reachable, ctxDone>>

\* The ack is accepted.
SessionRegistered ==
  /\ pc = "loop"
  /\ ~ctxDone
  /\ reachable
  /\ pc' = "session"
  /\ active' = 0
  /\ status' = [connected |-> TRUE, active |-> 0, reconnectAttempt |-> 0,
                lastError |-> FALSE]
  /\ UNCHANGED <<attempt, delay, snap, reachable, ctxDone>>

\* Connections join and leave the pool.
PoolChanges(n) ==
  /\ pc = "session"
  /\ n # active
  /\ active' = n
  /\ UNCHANGED <<pc, attempt, delay, status, snap, reachable, ctxDone>>

\* syncPoolStatus takes its snapshot ...
SyncSnapshot ==
  /\ pc = "session"
  /\ snap = NoSnap
  /\ snap' = active
  /\ UNCHANGED <<pc, attempt, delay, status, active, reachable, ctxDone>>

\* Fault: it publishes whether or not it has one.
SyncPublishUnset ==
  /\ status' = [status EXCEPT !.connected = snap > 0, !.active = snap]
  /\ snap' = NoSnap
  /\ UNCHANGED <<pc, attempt, delay, active, reachable, ctxDone>>

\* ... and publishes it.
SyncPublish ==
  /\ snap # NoSnap
  /\ status' = [status EXCEPT !.connected = snap > 0, !.active = snap]
  /\ snap' = NoSnap
  /\ UNCHANGED <<pc, attempt, delay, active, reachable, ctxDone>>

\* An error arrives on errCh.
SessionLost ==
  /\ pc = "session"
  /\ pc' = "failed"
  /\ active' = 0
  /\ UNCHANGED <<attempt, delay, status, snap, reachable, ctxDone>>

UpTo(n, cap) == IF n < cap THEN n + 1 ELSE cap

\* Fault: an error ends Run.
BackoffGivesUp ==
  /\ pc = "failed"
  /\ ~ctxDone
  /\ pc' = "returned"
  /\ UNCHANGED <<attempt, delay, status, active, snap, reachable, ctxDone>>

\* The error is published and the wait begins.
Backoff ==
  /\ pc = "failed"
  /\ ~ctxDone
  /\ delay' \in Delays(attempt)
  /\ status' = [status EXCEPT !.connected = FALSE, !.lastError = TRUE,
                              !.reconnectAttempt = attempt + 1]
  /\ attempt' = UpTo(attempt, AttemptCap)
  /\ pc' = "waiting"
  /\ UNCHANGED <<active, snap, reachable, ctxDone>>

WaitOver ==
  /\ pc = "waiting"
  /\ pc' = "loop"
  /\ UNCHANGED <<attempt, delay, status, active, snap, reachable, ctxDone>>

-----------------------------------------------------------------------------
CancelRun ==
  /\ ~ctxDone
  /\ ctxDone' = TRUE
  /\ UNCHANGED <<pc, attempt, delay, status, active, snap, reachable>>

ServerChanges ==
  /\ reachable' = ~reachable
  /\ UNCHANGED <<pc, attempt, delay, status, active, snap, ctxDone>>

RunStep == RunReturns \/ SessionRefused \/ SessionRegistered \/ Backoff \/ WaitOver

Next ==
  \/ RunStep
  \/ SessionLost
  \/ SyncSnapshot
  \/ SyncPublish
  \/ \E n \in 0 .. MaxActive : PoolChanges(n)
  \/ CancelRun
  \/ ServerChanges

\* Run is a goroutine that can always run, and time.After fires.
Spec == Init /\ [][Next]_vars /\ WF_vars(RunStep) /\ WF_vars(SyncPublish)

-----------------------------------------------------------------------------
(* Properties *)

\* What the back-off is meant to be, in unbounded integers: 2^a seconds up to
\* the configured maximum, plus the jitter.
IdealDelay(a) ==
  IF 2 ^ a * Second > EffectiveMax THEN EffectiveMax ELSE 2 ^ a * Second

\* "Maximum backoff delay between reconnection attempts" (README.md:76),
\* "expected capped delay with jitter" (reconnect_test.go:21): the wait after
\* the (a+1)-th failed session is the ideal delay plus at most the jitter.
DelayFollowsBackoff ==
  pc = "waiting" =>
    LET a == status.reconnectAttempt - 1
    IN  delay >= IdealDelay(a) /\ delay <= IdealDelay(a) + MaxJitter

\* Run keeps its promise to the controller: errors of sessions never end it,
\* cancelling its context does, from wherever it is.
Contract == INSTANCE Runner
  WITH running <- pc # "returned", cancelled <- ctxDone

ImplementsRunner == Contract!Spec

\* A server that accepts registrations for good is registered with again,
\* however long the outage was, unless Run is cancelled.
Reconnects == <>[]reachable => []<>(pc = "session" \/ ctxDone)
=============================================================================
