------------------------------ MODULE Keepalive ------------------------------
(***************************************************************************)
(* pingLoop (src/pkg/client/client.go): the watchdog of a connection, in   *)
(* time.  Every connection of a session has a loop that pings it; the      *)
(* control connection's loop shares a counter of missed pongs with its     *)
(* predecessors and with readLoop.                                         *)
(*                                                                         *)
(* Which loop is started and cancelled when, with everything that can come *)
(* in between, is SessionPool; here a lost connection is removed and its   *)
(* successor promoted in one step, and the question is when a loop gives   *)
(* up.  Times are ages.  The process may stall, as a suspended machine     *)
(* does: time passes, a ticker keeps one tick, and pongs wait unread.      *)
(***************************************************************************)
EXTENDS Integers

CONSTANTS
  Conn,             \* the two connections of the session
  PingInterval,     \* cfg.PingInterval in ticks
  PongTimeout,      \* cfg.PongTimeout in ticks
  FailureThreshold, \* controlKeepaliveFailureThreshold, 3 in client.go:28
  MaxStalls         \* bound on the stalls of the process

ASSUME KeepaliveAssumption ==
  /\ PingInterval \in Nat \ {0}
  /\ PongTimeout \in Nat
  /\ FailureThreshold \in Nat \ {0}
  /\ MaxStalls \in Nat

VARIABLES
  conn,     \* connections: up, given up by a loop, failed, or down
  control,  \* the control connection
  pongAge,  \* time since lastPong
  failures, \* consecutiveControlPingFailures
  loop,     \* the ping loops, by connection and kind
  ping,     \* time since the oldest ping without a pong, at most PongTimeout
  silent,   \* the server does not answer on the connection (environment)
  stalled,  \* the process does not run (environment)
  stalls,   \* stalls so far
  miscount  \* a cancelled loop counted a miss for its successor (auxiliary)

vars == <<conn, control, pongAge, failures, loop, ping, silent, stalled, stalls,
          miscount>>
linkVars == <<ping, silent, stalled, stalls>>

Kind == {"control", "data"}
Loops == Conn \X Kind
None == -1

\* A pong is expected no later than one full ping interval plus timeout.
DisconnectAfter == PingInterval + PongTimeout

\* No comparison tells greater ages apart.
Oldest == DisconnectAfter + FailureThreshold * PingInterval + 1

Off == [on |-> "off", due |-> FALSE, next |-> PingInterval, seen |-> TRUE]

\* Fault: the first tick of a loop is not an interval away.
StartedAtOnce == [Off EXCEPT !.on = "on", !.next = 0]

Started == [Off EXCEPT !.on = "on"]

\* Connections, counter, loops and ages stay within their types.
TypeOK ==
  /\ conn \in [Conn -> {"up", "givenUp", "failed", "down"}]
  /\ control \in Conn
  /\ pongAge \in [Conn -> 0 .. Oldest]
  /\ failures \in Nat
  /\ loop \in [Loops -> [on : {"off", "on", "cancelled"}, due : BOOLEAN,
                         next : 1 .. PingInterval, seen : BOOLEAN]]
  /\ ping \in [Conn -> None .. PongTimeout]
  /\ silent \in [Conn -> BOOLEAN]
  /\ stalled \in BOOLEAN
  /\ stalls \in 0 .. MaxStalls
  /\ miscount \in BOOLEAN

\* runSession: both connections have been added.
Init ==
  /\ conn = [c \in Conn |-> "up"]
  /\ control \in Conn
  /\ pongAge = [c \in Conn |-> 0]
  /\ failures = 0
  /\ loop = [l \in Loops |-> IF (l[1] = control) <=> (l[2] = "control")
                             THEN Started ELSE Off]
  /\ ping = [c \in Conn |-> None]
  /\ silent = [c \in Conn |-> FALSE]
  /\ stalled = FALSE
  /\ stalls = 0
  /\ miscount = FALSE

-----------------------------------------------------------------------------
(* pingLoop *)

\* The select takes the cancellation, which it need not if a tick is there.
LoopEnds(l) ==
  /\ ~stalled
  /\ loop[l].on = "cancelled"
  /\ loop' = [loop EXCEPT ![l] = Off]
  /\ UNCHANGED <<conn, control, pongAge, failures, linkVars, miscount>>

\* The select takes a tick.
Wakes(l) == ~stalled /\ loop[l].on # "off" /\ loop[l].due

\* Fault: every tick clears the counter, with or without a new pong.
ObservedAlways(l) == IF l[2] = "control" THEN 0 ELSE failures

\* The counter after a look at lastPong: a new one clears it.
Observed(l) == IF l[2] = "control" /\ ~loop[l].seen THEN 0 ELSE failures

Late(c) == pongAge[c] > DisconnectAfter

\* The loop goes on with a ping, or ends if that cannot be sent.
SendPing(l) ==
  /\ \/ /\ conn[l[1]] = "up"
        /\ ping' = [ping EXCEPT ![l[1]] = IF @ = None THEN 0 ELSE @]
        /\ loop' = [loop EXCEPT ![l].due = FALSE, ![l].seen = TRUE]
     \/ /\ conn[l[1]] # "up"
        /\ loop' = [loop EXCEPT ![l] = Off]
        /\ UNCHANGED ping
  /\ UNCHANGED <<conn, control, pongAge, silent, stalled, stalls>>

LoopPings(l) ==
  /\ Wakes(l)
  /\ ~Late(l[1])
  /\ failures' = Observed(l)
  /\ SendPing(l)
  /\ UNCHANGED miscount

LoopMisses(l) ==
  /\ Wakes(l)
  /\ Late(l[1])
  /\ l[2] = "control"
  /\ Observed(l) + 1 < FailureThreshold
  /\ failures' = Observed(l) + 1
  /\ miscount' = (miscount \/ loop[l].on = "cancelled")
  /\ SendPing(l)

\* The loop returns an error, and closes the connection unless cancelled.
GiveUp(l) ==
  /\ loop' = [loop EXCEPT ![l] = Off]
  /\ conn' = IF loop[l].on = "on" /\ conn[l[1]] = "up"
             THEN [conn EXCEPT ![l[1]] = "givenUp"] ELSE conn
  /\ UNCHANGED <<control, pongAge, linkVars, miscount>>

\* Fault: the counter is compared after one miss too few.
LoopGivesUpEarly(l) ==
  /\ Wakes(l)
  /\ Late(l[1])
  /\ l[2] = "control" => Observed(l) + 2 >= FailureThreshold
  /\ failures' = IF l[2] = "control" THEN Observed(l) + 1 ELSE failures
  /\ GiveUp(l)

LoopGivesUp(l) ==
  /\ Wakes(l)
  /\ Late(l[1])
  /\ l[2] = "control" => Observed(l) + 1 >= FailureThreshold
  /\ failures' = IF l[2] = "control" THEN Observed(l) + 1 ELSE failures
  /\ GiveUp(l)

-----------------------------------------------------------------------------
(* readLoop and the session *)

\* readLoop, MsgPong
PongArrives(c) ==
  /\ ~stalled
  /\ conn[c] = "up"
  /\ ping[c] # None
  /\ ~silent[c]
  /\ pongAge' = [pongAge EXCEPT ![c] = 0]
  /\ loop' = [l \in Loops |-> IF l[1] = c THEN [loop[l] EXCEPT !.seen = FALSE]
                              ELSE loop[l]]
  /\ failures' = IF c = control THEN 0 ELSE failures
  /\ ping' = [ping EXCEPT ![c] = None]
  /\ UNCHANGED <<conn, control, silent, stalled, stalls, miscount>>

Cancel(lp) == IF lp.on = "on" THEN [lp EXCEPT !.on = "cancelled"] ELSE lp

Disconnect(c) ==
  /\ conn' = [conn EXCEPT ![c] = "down"]
  /\ ping' = [ping EXCEPT ![c] = None]
  /\ silent' = [silent EXCEPT ![c] = FALSE]
  /\ UNCHANGED <<stalled, stalls, miscount>>

\* The goroutine of c's slot removes it, with no successor needed ...
RemoveData(c) ==
  /\ ~stalled
  /\ conn[c] \in {"givenUp", "failed"}
  /\ c # control
  /\ loop' = [l \in Loops |-> IF l[1] = c THEN Cancel(loop[l]) ELSE loop[l]]
  /\ Disconnect(c)
  /\ UNCHANGED <<control, pongAge, failures>>

\* ... or promotes d and calls startPoolPingLoop for it.
Promote(c, d) ==
  /\ ~stalled
  /\ conn[c] \in {"givenUp", "failed"}
  /\ c = control
  /\ conn[d] = "up"
  /\ loop[<<d, "control">>].on = "off"
  /\ Disconnect(c)
  /\ control' = d
  /\ pongAge' = [pongAge EXCEPT ![d] = 0]
  /\ failures' = 0
  /\ loop' = [l \in Loops |->
       CASE l = <<d, "control">> -> Started
         [] l = <<d, "data">>    -> Cancel([loop[l] EXCEPT !.seen = FALSE])
         [] l[1] = c             -> Cancel(loop[l])
         [] OTHER                -> loop[l]]

\* A connection that is down, with nobody left to look at its lastPong.
Gone(c) ==
  conn[c] = "down" /\ \A l \in Loops : l[1] = c => loop[l].on = "off"

\* Another connection joins in its place, and startConnPingLoop is called.
Join(c) ==
  /\ ~stalled
  /\ Gone(c)
  /\ conn' = [conn EXCEPT ![c] = "up"]
  /\ pongAge' = [pongAge EXCEPT ![c] = 0]
  /\ loop' = [loop EXCEPT ![<<c, "data">>] = Started]
  /\ UNCHANGED <<control, failures, linkVars, miscount>>

-----------------------------------------------------------------------------
(* The environment *)

Fail(c) ==
  /\ conn[c] = "up"
  /\ conn' = [conn EXCEPT ![c] = "failed"]
  /\ UNCHANGED <<control, pongAge, failures, loop, linkVars, miscount>>

Silence(c) ==
  /\ conn[c] = "up"
  /\ ~silent[c]
  /\ silent' = [silent EXCEPT ![c] = TRUE]
  /\ UNCHANGED <<conn, control, pongAge, failures, loop, ping, stalled, stalls,
                 miscount>>

Stall ==
  /\ ~stalled
  /\ stalls < MaxStalls
  /\ stalled' = TRUE
  /\ stalls' = stalls + 1
  /\ UNCHANGED <<conn, control, pongAge, failures, loop, ping, silent, miscount>>

Resume ==
  /\ stalled
  /\ stalled' = FALSE
  /\ UNCHANGED <<conn, control, pongAge, failures, loop, ping, silent, stalls,
                 miscount>>

\* A process that runs has nothing left to do at this time: no tick to take, no
\* removal, and no pong to read that is due from a server that answers.
Settled ==
  /\ \A l \in Loops : loop[l].on # "cancelled" /\ ~loop[l].due
  /\ \A c \in Conn : /\ conn[c] \in {"up", "down"}
                     /\ conn[c] = "up" /\ ~silent[c] => ping[c] < PongTimeout

Older(age, cap) == IF age \in {None, cap} THEN age ELSE age + 1

Tick ==
  /\ stalled \/ Settled
  /\ pongAge' = [c \in Conn |->
       IF Gone(c) THEN 0 ELSE Older(pongAge[c], Oldest)]
  /\ ping' = [c \in Conn |-> Older(ping[c], PongTimeout)]
  /\ loop' = [l \in Loops |->
       IF loop[l].on = "off" THEN loop[l]
       ELSE [loop[l] EXCEPT !.due = @ \/ loop[l].next = 1,
                            !.next = IF @ = 1 THEN PingInterval ELSE @ - 1]]
  /\ UNCHANGED <<conn, control, failures, silent, stalled, stalls, miscount>>

-----------------------------------------------------------------------------
Next ==
  \/ \E l \in Loops : \/ LoopEnds(l)
                      \/ LoopPings(l) \/ LoopMisses(l) \/ LoopGivesUp(l)
  \/ \E c \in Conn : \/ PongArrives(c) \/ RemoveData(c) \/ Join(c)
                     \/ Fail(c) \/ Silence(c)
  \/ \E c, d \in Conn : Promote(c, d)
  \/ Stall \/ Resume
  \/ Tick

Spec == Init /\ [][Next]_vars

-----------------------------------------------------------------------------
(* Properties *)

\* A server that answers every ping within PongTimeout is not given up: not on
\* a data connection while the process runs, and on the control connection not
\* for a stall of the process either, unless the loop of an earlier control
\* connection, already cancelled, added its own miss to the shared counter.
NoFalseAlarm ==
  \A c \in Conn : conn[c] = "givenUp" =>
    \/ silent[c]
    \/ stalls > IF c = control THEN 1 ELSE 0
    \/ miscount

\* "Lane health is owned by the pong watchdog in pingLoop" (client.go:271): a
\* connection on which no pong arrives any more is given up, at the first tick
\* after DisconnectAfter, the control one at the third.  That is not what the
\* documentation says: PLEXTUNNEL_PONG_TIMEOUT is "How long to wait for a pong
\* reply before considering the connection dead" (README.md:75), 10 seconds, but
\* lastPong is looked at once in an interval, before the ping, against an
\* interval more than the timeout, and up to three times on the control
\* connection.  The bound here, PingInterval + PongTimeout and one or three
\* intervals more since the last pong, is the one the code keeps.
SilenceDetected ==
  \A c \in Conn : conn[c] = "up" /\ stalls = 0 =>
    pongAge[c] <= DisconnectAfter
                  + (IF c = control THEN FailureThreshold ELSE 1) * PingInterval
=============================================================================
