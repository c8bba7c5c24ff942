--------------------------- MODULE Keepalive_proofs ---------------------------
(***************************************************************************)
(* Proofs about the pong watchdogs, for any number of connections and any  *)
(* intervals: a loop that is not cancelled watches every connection that   *)
(* is up, silence is detected in time, and where a pong is due within one  *)
(* ping interval a server that answers is not given up.                    *)
(***************************************************************************)
EXTENDS Keepalive, TLAPS

\* The two loops a connection can have, and the one that watches it.
ControlLoop(c) == loop[<<c, "control">>]
DataLoop(c) == loop[<<c, "data">>]
Watch(c) == IF c = control THEN ControlLoop(c) ELSE DataLoop(c)

LoopRecords == [on : {"off", "on", "cancelled"}, due : BOOLEAN,
                next : 1 .. PingInterval, seen : BOOLEAN]

\* The control connection has the only control loop that is not cancelled, and
\* every connection that is up has the loop its role asks for.
WatchesOK ==
  /\ conn[control] # "down"
  /\ \A c \in Conn :
       /\ ControlLoop(c).on = "on" => c = control
       /\ DataLoop(c).on = "on" => c # control
       /\ conn[c] = "up" => Watch(c).on = "on"

\* A stall is counted when it begins.
StallCounted == stalled => stalls > 0

\* Where no process stalled: a server that answers is on time.  The pong of the
\* last ping came within PingInterval of now, or the ping it is due for did.
OnTime(c) ==
  IF ping[c] = None
  THEN pongAge[c] + (IF Watch(c).due THEN 0 ELSE Watch(c).next) <= PingInterval
  ELSE pongAge[c] <= PingInterval + ping[c]

Answered ==
  stalls = 0 => \A c \in Conn : conn[c] = "up" /\ ~silent[c] => OnTime(c)

\* A stall costs the control loop two misses at the most: one for the tick that
\* was kept, one more before the pong of the ping sent then is due.
MissesFew ==
  LET w == ControlLoop(control)
      waits == ping[control]
  IN  conn[control] = "up" /\ ~silent[control] /\ ~miscount /\ stalls <= 1 =>
        /\ failures <= 2
        /\ stalls = 0 \/ stalled => failures = 0
        /\ failures > 0 => /\ waits # None
                           /\ \A x \in Conn : ControlLoop(x).on = "cancelled" =>
                                failures = 1 /\ ~w.due
        /\ failures = 1 /\ w.due => waits >= 1 /\ w.next = PingInterval
        /\ failures = 2 => waits >= 1 /\ ~w.due /\ waits + w.next > PingInterval

\* The misses that count when the control loop looks next, but the last.
Misses ==
  IF ~ControlLoop(control).seen THEN 0
  ELSE IF failures < FailureThreshold THEN failures ELSE FailureThreshold - 1

\* The age of lastPong at which the loop of c gives up at its next tick.
Patience(c) ==
  DisconnectAfter + (IF c = control THEN Misses + 1 ELSE 1) * PingInterval

\* Where no process stalled: the loop gets to look before that age is exceeded.
LooksInTime ==
  stalls = 0 =>
    /\ \A c \in Conn : conn[c] = "up" =>
         IF Watch(c).due
         THEN Watch(c).next = PingInterval /\ pongAge[c] <= Patience(c)
         ELSE pongAge[c] + Watch(c).next <= Patience(c)
    /\ \A x \in Conn : ControlLoop(x).on = "cancelled" => pongAge[control] = 0

-----------------------------------------------------------------------------
(* Loops *)

\* Loop l when c is removed and d promoted.
Promoted(l, c, d) ==
  CASE l = <<d, "control">> -> Started
    [] l = <<d, "data">>    -> Cancel([loop[l] EXCEPT !.seen = FALSE])
    [] l[1] = c             -> Cancel(loop[l])
    [] OTHER                -> loop[l]

\* A loop that was never started, and one that was.
LEMMA StartedTyped ==
  /\ Off \in LoopRecords /\ Started \in LoopRecords
  /\ Off.on = "off" /\ Started.on = "on"
  /\ ~Started.due /\ Started.next = PingInterval /\ Started.seen
<1>1. /\ Off \in LoopRecords /\ Off.on = "off" /\ ~Off.due
      /\ Off.next = PingInterval /\ Off.seen
  BY KeepaliveAssumption DEF Off, LoopRecords
<1>2. ASSUME NEW r \in LoopRecords
      PROVE  LET s == [r EXCEPT !.on = "on"]
             IN  /\ s \in LoopRecords /\ s.on = "on" /\ s.due = r.due
                 /\ s.next = r.next /\ s.seen = r.seen
  BY DEF LoopRecords
<1> QED
  BY <1>1, <1>2 DEF Started

\* What cancelling does to a loop.
LEMMA CancelTyped ==
  ASSUME NEW r \in LoopRecords
  PROVE  /\ Cancel(r) \in LoopRecords
         /\ Cancel(r).on = IF r.on = "on" THEN "cancelled" ELSE r.on
         /\ Cancel(r).due = r.due /\ Cancel(r).next = r.next
         /\ Cancel(r).seen = r.seen
BY DEF Cancel, LoopRecords

\* The loops by connection.
LEMMA LoopsTyped ==
  ASSUME loop \in [Loops -> LoopRecords], NEW c \in Conn
  PROVE  /\ <<c, "control">> \in Loops /\ <<c, "data">> \in Loops
         /\ ControlLoop(c) \in LoopRecords /\ DataLoop(c) \in LoopRecords
BY DEF Loops, Kind, ControlLoop, DataLoop

\* Types are kept.
LEMMA TypeStep ==
  ASSUME TypeOK, [Next]_vars
  PROVE  TypeOK'
<1> DEFINE Goal == /\ conn' \in [Conn -> {"up", "givenUp", "failed", "down"}]
                   /\ control' \in Conn
                   /\ pongAge' \in [Conn -> 0 .. Oldest]
                   /\ failures' \in Nat
                   /\ loop' \in [Loops -> LoopRecords]
                   /\ ping' \in [Conn -> None .. PongTimeout]
                   /\ silent' \in [Conn -> BOOLEAN]
                   /\ stalled' \in BOOLEAN
                   /\ stalls' \in 0 .. MaxStalls
                   /\ miscount' \in BOOLEAN
<1>g. Goal => TypeOK'
  BY DEF TypeOK, LoopRecords
<1>t. /\ conn \in [Conn -> {"up", "givenUp", "failed", "down"}]
      /\ control \in Conn
      /\ pongAge \in [Conn -> 0 .. Oldest]
      /\ failures \in Nat
      /\ loop \in [Loops -> LoopRecords]
      /\ ping \in [Conn -> None .. PongTimeout]
      /\ silent \in [Conn -> BOOLEAN]
      /\ stalled \in BOOLEAN
      /\ stalls \in 0 .. MaxStalls
      /\ miscount \in BOOLEAN
  BY DEF TypeOK, LoopRecords
<1>n. /\ Oldest \in Nat /\ 0 \in 0 .. Oldest
      /\ 0 \in None .. PongTimeout /\ None \in None .. PongTimeout
  BY KeepaliveAssumption DEF Oldest, DisconnectAfter, None
<1>1. ASSUME NEW l \in Loops, LoopEnds(l)
      PROVE  Goal
  BY <1>1, <1>t, StartedTyped DEF LoopEnds, linkVars
<1>2. ASSUME NEW l \in Loops, SendPing(l), failures' \in Nat, miscount' \in BOOLEAN
      PROVE  Goal
  <2>1. loop' \in [Loops -> LoopRecords]
    <3>1. ASSUME NEW r \in LoopRecords
          PROVE  [r EXCEPT !.due = FALSE, !.seen = TRUE] \in LoopRecords
      BY DEF LoopRecords
    <3>2. loop[l] \in LoopRecords
      BY <1>t
    <3>3. \/ loop' = [loop EXCEPT ![l] = [loop[l] EXCEPT !.due = FALSE, !.seen = TRUE]]
          \/ loop' = [loop EXCEPT ![l] = Off]
      BY <1>2, <1>t DEF SendPing
    <3> QED
      BY <1>t, <3>1, <3>2, <3>3, StartedTyped
  <2>2. ping' \in [Conn -> None .. PongTimeout]
    BY <1>2, <1>n, <1>t DEF SendPing
  <2> QED
    BY <1>2, <1>t, <2>1, <2>2 DEF SendPing
<1>3. ASSUME NEW l \in Loops, LoopPings(l) \/ LoopMisses(l)
      PROVE  Goal
  <2>1. failures' \in Nat
    BY <1>3, <1>t DEF LoopPings, LoopMisses, Observed
  <2>2. miscount' \in BOOLEAN
    BY <1>3, <1>t, Zenon DEF LoopPings, LoopMisses
  <2> QED
    BY <1>2, <1>3, <2>1, <2>2 DEF LoopPings, LoopMisses
<1>4. ASSUME NEW l \in Loops, LoopGivesUp(l)
      PROVE  Goal
  <2>1. failures' \in Nat
    BY <1>4, <1>t DEF LoopGivesUp, Observed
  <2>2. l[1] \in Conn
    BY DEF Loops
  <2> QED
    BY <1>4, <1>t, <2>1, <2>2, StartedTyped DEF LoopGivesUp, GiveUp, linkVars
<1>5. ASSUME NEW c \in Conn, PongArrives(c)
      PROVE  Goal
  <2>1. loop' \in [Loops -> LoopRecords]
    <3>1. ASSUME NEW r \in LoopRecords
          PROVE  [r EXCEPT !.seen = FALSE] \in LoopRecords
      BY DEF LoopRecords
    <3> QED
      BY <1>5, <1>t, <3>1 DEF PongArrives
  <2> QED
    BY <1>5, <1>n, <1>t, <2>1 DEF PongArrives
<1>6. ASSUME NEW c \in Conn, RemoveData(c)
      PROVE  Goal
  <2>1. loop' \in [Loops -> LoopRecords]
    BY <1>6, <1>t, CancelTyped DEF RemoveData
  <2> QED
    BY <1>6, <1>n, <1>t, <2>1 DEF RemoveData, Disconnect
<1>7. ASSUME NEW c \in Conn, NEW d \in Conn, Promote(c, d)
      PROVE  Goal
  <2>1. loop' \in [Loops -> LoopRecords]
    <3>1. ASSUME NEW l \in Loops
          PROVE  loop'[l] \in LoopRecords
      <4>1. loop[l] \in LoopRecords /\ [loop[l] EXCEPT !.seen = FALSE] \in LoopRecords
        BY <1>t DEF LoopRecords
      <4>2. Promoted(l, c, d) \in LoopRecords
        BY <4>1, StartedTyped, CancelTyped DEF Promoted
      <4> QED
        BY <1>7, <4>2 DEF Promote, Promoted
    <3> QED
      BY <1>7, <3>1 DEF Promote
  <2> QED
    BY <1>7, <1>n, <1>t, <2>1 DEF Promote, Disconnect
<1>8. ASSUME NEW c \in Conn, Join(c)
      PROVE  Goal
  <2>1. loop' \in [Loops -> LoopRecords]
    BY <1>8, <1>t, StartedTyped DEF Join
  <2> QED
    BY <1>8, <1>n, <1>t, <2>1 DEF Join, linkVars
<1>9. ASSUME NEW c \in Conn, Fail(c) \/ Silence(c)
      PROVE  Goal
  BY <1>9, <1>t DEF Fail, Silence, linkVars
<1>10. ASSUME Stall \/ Resume \/ UNCHANGED vars
       PROVE  Goal
  <2>1. stalls' \in 0 .. MaxStalls /\ stalled' \in BOOLEAN
    <3>1. CASE Stall
      BY <1>t, <3>1, KeepaliveAssumption DEF Stall
    <3>2. CASE Resume
      BY <1>t, <3>2 DEF Resume
    <3>3. CASE UNCHANGED vars
      BY <1>t, <3>3 DEF vars
    <3> QED
      BY <1>10, <3>1, <3>2, <3>3
  <2> QED
    BY <1>10, <1>t, <2>1 DEF Stall, Resume, vars, linkVars
<1>11. ASSUME Tick
       PROVE  Goal
  <2>1. loop' \in [Loops -> LoopRecords]
    <3>1. ASSUME NEW r \in LoopRecords
          PROVE  [r EXCEPT !.due = @ \/ r.next = 1,
                           !.next = IF @ = 1 THEN PingInterval ELSE @ - 1]
                   \in LoopRecords
      <4>1. (IF r.next = 1 THEN PingInterval ELSE r.next - 1) \in 1 .. PingInterval
        BY KeepaliveAssumption DEF LoopRecords
      <4>2. (r.due \/ r.next = 1) \in BOOLEAN
        OBVIOUS
      <4> QED
        BY <4>1, <4>2 DEF LoopRecords
    <3> QED
      BY <1>11, <1>t, <3>1 DEF Tick
  <2>2. pongAge' \in [Conn -> 0 .. Oldest]
    <3>1. ASSUME NEW a \in 0 .. Oldest
          PROVE  Older(a, Oldest) \in 0 .. Oldest
      BY <1>n DEF Older, None
    <3> QED
      BY <1>11, <1>n, <1>t, <3>1 DEF Tick
  <2>3. ping' \in [Conn -> None .. PongTimeout]
    <3>1. ASSUME NEW a \in None .. PongTimeout
          PROVE  Older(a, PongTimeout) \in None .. PongTimeout
      BY KeepaliveAssumption DEF Older, None
    <3> QED
      BY <1>11, <1>t, <3>1 DEF Tick
  <2> QED
    BY <1>11, <1>t, <2>1, <2>2, <2>3 DEF Tick
<1> HIDE DEF Goal
<1> QED
  BY <1>1, <1>3, <1>4, <1>5, <1>6, <1>7, <1>8, <1>9, <1>10, <1>11, <1>g DEF Next

-----------------------------------------------------------------------------
(* What the steps do to the loops *)

\* Loop l runs: it ends or goes on, and its connection is closed at the most.
Runs(l) == LoopEnds(l) \/ LoopPings(l) \/ LoopMisses(l) \/ LoopGivesUp(l)

\* A loop that runs touches its own record and its own connection only: it ends,
\* or sends its ping, or gives its connection up.
LEMMA RunsStep ==
  ASSUME TypeOK, NEW l \in Loops, Runs(l)
  PROVE  /\ ~stalled /\ l[1] \in Conn /\ loop[l].on # "off"
         /\ \A m \in Loops : m # l => loop'[m] = loop[m]
         /\ UNCHANGED <<control, pongAge, silent, stalled, stalls>>
         /\ \A x \in Conn : x # l[1] => ping'[x] = ping[x] /\ conn'[x] = conn[x]
         /\ \/ conn'[l[1]] = conn[l[1]]
            \/ conn[l[1]] = "up" /\ conn'[l[1]] = "givenUp"
         /\ \/ loop'[l] = Off /\ (loop[l].on = "on" => conn'[l[1]] # "up")
            \/ /\ loop[l].due /\ conn[l[1]] = "up"
               /\ loop'[l] = [loop[l] EXCEPT !.due = FALSE, !.seen = TRUE]
               /\ ping'[l[1]] = IF ping[l[1]] = None THEN 0 ELSE ping[l[1]]
         /\ \/ ping'[l[1]] = ping[l[1]]
            \/ ping[l[1]] = None /\ ping'[l[1]] = 0
<1>t. /\ conn \in [Conn -> {"up", "givenUp", "failed", "down"}]
      /\ loop \in [Loops -> LoopRecords]
      /\ ping \in [Conn -> None .. PongTimeout]
      /\ l[1] \in Conn /\ loop[l] \in LoopRecords
  BY DEF TypeOK, LoopRecords, Loops
<1>1. CASE LoopEnds(l)
  BY <1>1, <1>t DEF LoopEnds, linkVars
<1>2. CASE Wakes(l) /\ SendPing(l)
  <2>1. CASE conn[l[1]] = "up"
    <3>1. loop' = [loop EXCEPT ![l] = [loop[l] EXCEPT !.due = FALSE, !.seen = TRUE]]
      BY <1>2, <1>t, <2>1 DEF SendPing
    <3>2. loop'[l] = [loop[l] EXCEPT !.due = FALSE, !.seen = TRUE]
      BY <1>t, <3>1
    <3> QED
      BY <1>2, <1>t, <2>1, <3>1, <3>2 DEF SendPing, Wakes
  <2>2. CASE conn[l[1]] # "up"
    BY <1>2, <1>t, <2>2 DEF SendPing, Wakes
  <2> QED
    BY <2>1, <2>2
<1>3. CASE LoopGivesUp(l)
  BY <1>3, <1>t DEF LoopGivesUp, GiveUp, Wakes, linkVars
<1> QED
  BY <1>1, <1>2, <1>3 DEF Runs, LoopPings, LoopMisses

\* A pong is noted: lastPong is not what the loop saw last.
Noted(r) == [r EXCEPT !.seen = FALSE]

\* What noting a pong does to a loop.
LEMMA NotedTyped ==
  ASSUME NEW r \in LoopRecords
  PROVE  LET s == Noted(r)
         IN  /\ s \in LoopRecords /\ s.on = r.on /\ s.due = r.due
             /\ s.next = r.next /\ ~s.seen
BY DEF LoopRecords, Noted

\* A pong is noted for both loops of its connection.
LEMMA PongStep ==
  ASSUME TypeOK, NEW c \in Conn, PongArrives(c), NEW x \in Conn
  PROVE  /\ x # c => UNCHANGED <<ControlLoop(x), DataLoop(x), pongAge[x], ping[x]>>
         /\ x = c => /\ ControlLoop(x)' = Noted(ControlLoop(x))
                     /\ DataLoop(x)' = Noted(DataLoop(x))
                     /\ pongAge'[x] = 0 /\ ping'[x] = None
         /\ UNCHANGED <<conn, control, silent, stalled, stalls, miscount>>
<1>1. <<x, "control">> \in Loops /\ <<x, "data">> \in Loops
  BY DEF Loops, Kind
<1> QED
  BY <1>1 DEF PongArrives, TypeOK, ControlLoop, DataLoop, Noted

\* A lost data connection is removed and its loops are cancelled.
LEMMA RemoveStep ==
  ASSUME TypeOK, NEW c \in Conn, RemoveData(c), NEW x \in Conn
  PROVE  /\ x # c => UNCHANGED <<ControlLoop(x), DataLoop(x), ping[x], conn[x],
                                 silent[x]>>
         /\ x = c => /\ ControlLoop(x)' = Cancel(ControlLoop(x))
                     /\ DataLoop(x)' = Cancel(DataLoop(x))
                     /\ conn'[x] = "down" /\ x # control
         /\ ~stalled
         /\ UNCHANGED <<control, pongAge, failures, stalled, stalls, miscount>>
<1>1. <<x, "control">> \in Loops /\ <<x, "data">> \in Loops
  BY DEF Loops, Kind
<1> QED
  BY <1>1 DEF RemoveData, Disconnect, TypeOK, ControlLoop, DataLoop

\* The control connection is removed and d promoted.
LEMMA PromoteStep ==
  ASSUME TypeOK, NEW c \in Conn, NEW d \in Conn, Promote(c, d), NEW x \in Conn
  PROVE  /\ x \notin {c, d} =>
              UNCHANGED <<ControlLoop(x), DataLoop(x), pongAge[x], ping[x], conn[x],
                          silent[x]>>
         /\ x = d => /\ ControlLoop(x)' = Started
                     /\ DataLoop(x)' = Cancel(Noted(DataLoop(x)))
                     /\ pongAge'[x] = 0
                     /\ UNCHANGED <<conn[x], silent[x], ping[x]>>
         /\ x = c => /\ ControlLoop(x)' = Cancel(ControlLoop(x))
                     /\ DataLoop(x)' = Cancel(DataLoop(x))
                     /\ conn'[x] = "down"
         /\ ~stalled /\ c = control /\ c # d /\ control' = d /\ conn[d] = "up"
         /\ ControlLoop(d).on = "off"
         /\ failures' = 0
         /\ UNCHANGED <<stalled, stalls, miscount>>
<1>1. <<x, "control">> \in Loops /\ <<x, "data">> \in Loops
  BY DEF Loops, Kind
<1>2. loop' = [l \in Loops |-> Promoted(l, c, d)]
  BY DEF Promote, Promoted
<1>3. c # d /\ conn \in [Conn -> {"up", "givenUp", "failed", "down"}]
  BY DEF Promote, TypeOK
<1>4. /\ x \notin {c, d} => UNCHANGED <<ControlLoop(x), DataLoop(x)>>
      /\ x = d => /\ ControlLoop(x)' = Started
                  /\ DataLoop(x)' = Cancel(Noted(DataLoop(x)))
      /\ x = c => /\ ControlLoop(x)' = Cancel(ControlLoop(x))
                  /\ DataLoop(x)' = Cancel(DataLoop(x))
  BY <1>1, <1>2, <1>3 DEF Promoted, ControlLoop, DataLoop, Noted
<1> QED
  BY <1>3, <1>4 DEF Promote, Disconnect, TypeOK, ControlLoop

\* A connection joins, with a data loop.
LEMMA JoinStep ==
  ASSUME TypeOK, NEW c \in Conn, Join(c), NEW x \in Conn
  PROVE  /\ x # c => UNCHANGED <<ControlLoop(x), DataLoop(x), pongAge[x], conn[x]>>
         /\ x = c => /\ ControlLoop(x)' = ControlLoop(x)
                     /\ DataLoop(x)' = Started
                     /\ conn[x] = "down" /\ conn'[x] = "up" /\ pongAge'[x] = 0
         /\ ControlLoop(c).on = "off" /\ DataLoop(c).on = "off"
         /\ ~stalled
         /\ UNCHANGED <<control, failures, ping, silent, stalled, stalls, miscount>>
<1>1. <<x, "control">> \in Loops /\ <<x, "data">> \in Loops
      /\ <<c, "control">> \in Loops /\ <<c, "data">> \in Loops
  BY DEF Loops, Kind
<1> QED
  BY <1>1 DEF Join, Gone, linkVars, TypeOK, ControlLoop, DataLoop

\* A tick: loops that are not off get older.
Ticked(r) == IF r.on = "off" THEN r
             ELSE [r EXCEPT !.due = @ \/ r.next = 1,
                            !.next = IF @ = 1 THEN PingInterval ELSE @ - 1]

\* A tick ages everything at once; and while no process is stalled it waits for
\* every loop to have looked and for every server that answers.
LEMMA TickStep ==
  ASSUME TypeOK, Tick, NEW x \in Conn
  PROVE  /\ ControlLoop(x)' = Ticked(ControlLoop(x))
         /\ DataLoop(x)' = Ticked(DataLoop(x))
         /\ ping'[x] = Older(ping[x], PongTimeout)
         /\ pongAge'[x] \in {0, Older(pongAge[x], Oldest)}
         /\ conn[x] # "down" => pongAge'[x] = Older(pongAge[x], Oldest)
         /\ UNCHANGED <<conn, control, failures, silent, stalled, stalls, miscount>>
         /\ ~stalled =>
              /\ ControlLoop(x).on # "cancelled" /\ ~ControlLoop(x).due
              /\ DataLoop(x).on # "cancelled" /\ ~DataLoop(x).due
              /\ conn[x] = "up" /\ ~silent[x] => ping[x] < PongTimeout
<1>1. <<x, "control">> \in Loops /\ <<x, "data">> \in Loops
  BY DEF Loops, Kind
<1> QED
  BY <1>1 DEF Tick, Ticked, Settled, Gone, TypeOK, ControlLoop, DataLoop

\* A tick keeps a loop where it is and rearms its ticker.
LEMMA TickedTyped ==
  ASSUME NEW r \in LoopRecords
  PROVE  /\ Ticked(r) \in LoopRecords
         /\ Ticked(r).on = r.on /\ Ticked(r).seen = r.seen
         /\ r.on # "off" =>
              /\ Ticked(r).due <=> r.due \/ r.next = 1
              /\ Ticked(r).next = IF r.next = 1 THEN PingInterval ELSE r.next - 1
<1>1. (IF r.next = 1 THEN PingInterval ELSE r.next - 1) \in 1 .. PingInterval
  BY KeepaliveAssumption DEF LoopRecords
<1>2. (r.due \/ r.next = 1) \in BOOLEAN
  OBVIOUS
<1> QED
  BY <1>1, <1>2 DEF LoopRecords, Ticked

\* What a loop that ran is afterwards.
LEMMA RanTyped ==
  ASSUME NEW r \in LoopRecords
  PROVE  LET s == [r EXCEPT !.due = FALSE, !.seen = TRUE]
         IN  s.on = r.on /\ ~s.due /\ s.next = r.next /\ s.seen
BY DEF LoopRecords

\* A loop r of connection x has become s: it has ended, or it goes on.
Ran(r, s, x) ==
  \/ s.on = "off" /\ (r.on = "on" => conn'[x] # "up")
  \/ /\ r.due /\ conn[x] = "up"
     /\ s.on = r.on /\ ~s.due /\ s.next = r.next /\ s.seen
     /\ ping'[x] # None

\* The loops of x when loop l runs.
LEMMA RunsView ==
  ASSUME TypeOK, NEW l \in Loops, Runs(l), NEW x \in Conn
  PROVE  /\ l # <<x, "control">> => ControlLoop(x)' = ControlLoop(x)
         /\ l # <<x, "data">> => DataLoop(x)' = DataLoop(x)
         /\ l = <<x, "control">> => Ran(ControlLoop(x), ControlLoop(x)', x)
         /\ l = <<x, "data">> => Ran(DataLoop(x), DataLoop(x)', x)
         /\ l[1] # x => l # <<x, "control">> /\ l # <<x, "data">>
<1>1. <<x, "control">> \in Loops /\ <<x, "data">> \in Loops
  BY DEF Loops, Kind
<1>2. Ran(loop[l], loop'[l], l[1])
  <2>1. loop[l] \in LoopRecords
    BY DEF TypeOK, LoopRecords
  <2>2. \/ loop'[l] = Off /\ (loop[l].on = "on" => conn'[l[1]] # "up")
        \/ /\ loop[l].due /\ conn[l[1]] = "up"
           /\ loop'[l] = [loop[l] EXCEPT !.due = FALSE, !.seen = TRUE]
           /\ ping'[l[1]] = IF ping[l[1]] = None THEN 0 ELSE ping[l[1]]
    BY RunsStep
  <2>3. CASE loop'[l] = Off /\ (loop[l].on = "on" => conn'[l[1]] # "up")
    BY <2>3, StartedTyped DEF Ran
  <2>4. CASE /\ loop[l].due /\ conn[l[1]] = "up"
             /\ loop'[l] = [loop[l] EXCEPT !.due = FALSE, !.seen = TRUE]
             /\ ping'[l[1]] = IF ping[l[1]] = None THEN 0 ELSE ping[l[1]]
    <3>1. ping'[l[1]] # None
      BY <2>4 DEF None
    <3>2. loop'[l].on = loop[l].on /\ ~loop'[l].due
            /\ loop'[l].next = loop[l].next /\ loop'[l].seen
      BY <2>1, <2>4, RanTyped
    <3> QED
      BY <2>4, <3>1, <3>2 DEF Ran
  <2> QED
    BY <2>2, <2>3, <2>4
<1>3. /\ l # <<x, "control">> => ControlLoop(x)' = ControlLoop(x)
      /\ l # <<x, "data">> => DataLoop(x)' = DataLoop(x)
  <2>1. \A m \in Loops : m # l => loop'[m] = loop[m]
    BY RunsStep
  <2> QED
    BY <1>1, <2>1 DEF ControlLoop, DataLoop
<1>4. /\ l = <<x, "control">> => Ran(ControlLoop(x), ControlLoop(x)', x)
      /\ l = <<x, "data">> => Ran(DataLoop(x), DataLoop(x)', x)
  BY <1>2 DEF ControlLoop, DataLoop
<1> QED
  BY <1>3, <1>4

\* The rest of a step.
LEMMA NextCases ==
  ASSUME [Next]_vars
  PROVE  \/ \E l \in Loops : Runs(l)
         \/ \E c \in Conn : PongArrives(c) \/ RemoveData(c) \/ Join(c)
         \/ \E c \in Conn : Fail(c) \/ Silence(c)
         \/ \E c, d \in Conn : Promote(c, d)
         \/ Stall \/ Resume \/ Tick \/ UNCHANGED vars
BY DEF Next, Runs

\* Every connection that is up keeps a watch.
LEMMA WatchesStep ==
  ASSUME TypeOK, WatchesOK, [Next]_vars
  PROVE  WatchesOK'
<1> DEFINE Good(x) == /\ ControlLoop(x).on = "on" => x = control
                      /\ DataLoop(x).on = "on" => x # control
                      /\ conn[x] = "up" =>
                           IF x = control THEN ControlLoop(x).on = "on"
                           ELSE DataLoop(x).on = "on"
<1>t. /\ control \in Conn /\ conn[control] # "down"
      /\ conn \in [Conn -> {"up", "givenUp", "failed", "down"}]
      /\ \A x \in Conn : Good(x)
      /\ \A x \in Conn : ControlLoop(x) \in LoopRecords /\ DataLoop(x) \in LoopRecords
  BY LoopsTyped DEF TypeOK, WatchesOK, Watch, LoopRecords
<1>g. conn'[control'] # "down" /\ (\A x \in Conn : Good(x)') => WatchesOK'
  BY DEF WatchesOK, Watch
<1>1. ASSUME NEW l \in Loops, Runs(l), NEW x \in Conn
      PROVE  Good(x)' /\ conn'[control'] # "down"
  <2>1. /\ UNCHANGED control
        /\ conn'[x] = "up" => conn[x] = "up"
        /\ conn'[control] # "down"
    BY <1>1, <1>t, RunsStep
  <2>2. CASE l = <<x, "control">>
    <3>1. l[1] = x /\ DataLoop(x)' = DataLoop(x)
      BY <1>1, <2>2, RunsView
    <3>2. Ran(ControlLoop(x), ControlLoop(x)', x)
      BY <1>1, RunsView, <2>2
    <3> QED
      BY <1>t, <2>1, <3>1, <3>2 DEF Ran
  <2>3. CASE l = <<x, "data">>
    <3>1. l[1] = x /\ ControlLoop(x)' = ControlLoop(x)
      BY <1>1, <2>3, RunsView
    <3>2. Ran(DataLoop(x), DataLoop(x)', x)
      BY <1>1, RunsView, <2>3
    <3> QED
      BY <1>t, <2>1, <3>1, <3>2 DEF Ran
  <2>4. CASE l # <<x, "control">> /\ l # <<x, "data">>
    BY <1>1, <1>t, <2>1, <2>4, RunsView
  <2> QED
    BY <2>2, <2>3, <2>4
<1>2. ASSUME NEW c \in Conn, PongArrives(c), NEW x \in Conn
      PROVE  Good(x)' /\ conn'[control'] # "down"
  BY <1>2, <1>t, PongStep, NotedTyped
<1>3. ASSUME NEW c \in Conn, RemoveData(c), NEW x \in Conn
      PROVE  Good(x)' /\ conn'[control'] # "down"
  <2>1. conn'[control'] # "down"
    BY <1>3, <1>t, RemoveStep
  <2> QED
    BY <1>3, <1>t, <2>1, RemoveStep, CancelTyped
<1>4. ASSUME NEW c \in Conn, Join(c), NEW x \in Conn
      PROVE  Good(x)' /\ conn'[control'] # "down"
  <2>1. conn'[control'] # "down"
    BY <1>4, <1>t, JoinStep
  <2> QED
    BY <1>4, <1>t, <2>1, JoinStep, StartedTyped
<1>5. ASSUME NEW c \in Conn, Fail(c) \/ Silence(c), NEW x \in Conn
      PROVE  Good(x)' /\ conn'[control'] # "down"
  BY <1>5, <1>t DEF Fail, Silence, linkVars, ControlLoop, DataLoop
<1>6. ASSUME NEW c \in Conn, NEW d \in Conn, Promote(c, d), NEW x \in Conn
      PROVE  Good(x)' /\ conn'[control'] # "down"
  <2>1. conn'[control'] # "down"
    BY <1>6, <1>t, PromoteStep
  <2> QED
    BY <1>6, <1>t, <2>1, PromoteStep, StartedTyped, CancelTyped, NotedTyped
<1>7. ASSUME Tick, NEW x \in Conn
      PROVE  Good(x)' /\ conn'[control'] # "down"
  BY <1>7, <1>t, TickStep, TickedTyped
<1>8. ASSUME Stall \/ Resume \/ UNCHANGED vars, NEW x \in Conn
      PROVE  Good(x)' /\ conn'[control'] # "down"
  BY <1>8, <1>t DEF Stall, Resume, vars, ControlLoop, DataLoop
<1> HIDE DEF Good
<1> QED
  BY <1>1, <1>2, <1>3, <1>4, <1>5, <1>6, <1>7, <1>8, <1>g, <1>t, NextCases

-----------------------------------------------------------------------------
(* A server that answers, while no process stalls *)

\* The constants, and the types of what a connection has.
LEMMA Intervals ==
  /\ PingInterval \in Nat /\ PingInterval >= 1 /\ PongTimeout \in Nat
  /\ DisconnectAfter \in Nat /\ DisconnectAfter = PingInterval + PongTimeout
  /\ FailureThreshold \in Nat /\ FailureThreshold >= 1
  /\ Oldest \in Nat /\ Oldest > DisconnectAfter
BY KeepaliveAssumption DEF DisconnectAfter, Oldest

\* The types of what concerns one connection.
LEMMA LinkTyped ==
  ASSUME TypeOK, NEW x \in Conn
  PROVE  /\ pongAge[x] \in 0 .. Oldest /\ ping[x] \in None .. PongTimeout
         /\ conn[x] \in {"up", "givenUp", "failed", "down"}
         /\ control \in Conn /\ stalls \in Nat /\ failures \in Nat
         /\ ControlLoop(x) \in LoopRecords /\ DataLoop(x) \in LoopRecords
         /\ Watch(x) \in LoopRecords
<1>1. ControlLoop(x) \in LoopRecords /\ DataLoop(x) \in LoopRecords
  BY LoopsTyped DEF TypeOK, LoopRecords
<1> QED
  BY <1>1, KeepaliveAssumption DEF TypeOK, Watch

\* A server that answers is on time as long as no process stalls.
LEMMA AnsweredStep ==
  ASSUME TypeOK, WatchesOK, StallCounted, Answered, [Next]_vars
  PROVE  Answered'
<1> SUFFICES ASSUME stalls' = 0, NEW x \in Conn, conn'[x] = "up", ~silent'[x]
             PROVE  OnTime(x)'
  BY DEF Answered
<1>t. /\ pongAge[x] \in 0 .. Oldest /\ ping[x] \in None .. PongTimeout
      /\ control \in Conn /\ stalls \in Nat
      /\ ControlLoop(x) \in LoopRecords /\ DataLoop(x) \in LoopRecords
      /\ Watch(x) \in LoopRecords
  BY LinkTyped
<1>0. stalls = 0 => ~stalled
  BY DEF StallCounted
<1>o. stalls = 0 /\ conn[x] = "up" /\ ~silent[x] => OnTime(x)
  BY DEF Answered
<1>1. ASSUME NEW l \in Loops, Runs(l)
      PROVE  OnTime(x)'
  <2>1. /\ stalls = 0 /\ ~silent[x] /\ conn[x] = "up" /\ control' = control
        /\ pongAge'[x] = pongAge[x]
        /\ ping'[x] = ping[x] \/ (ping[x] = None /\ ping'[x] = 0)
    BY <1>1, RunsStep
  <2>2. OnTime(x) /\ Watch(x).on = "on"
    BY <1>o, <2>1 DEF WatchesOK
  <2>3. Watch(x)' = Watch(x) \/ Ran(Watch(x), Watch(x)', x)
    BY <1>1, <2>1, RunsView DEF Watch
  <2>4. CASE Watch(x)' = Watch(x)
    BY <1>t, <2>1, <2>2, <2>4, Intervals DEF OnTime, None, LoopRecords
  <2>5. CASE Ran(Watch(x), Watch(x)', x)
    <3>1. ping'[x] # None
      BY <2>2, <2>5 DEF Ran
    <3> QED
      BY <1>t, <2>1, <2>2, <3>1, Intervals DEF OnTime, None, LoopRecords
  <2> QED
    BY <2>3, <2>4, <2>5
<1>2. ASSUME NEW c \in Conn, PongArrives(c)
      PROVE  OnTime(x)'
  <2>1. control' = control /\ stalls = 0 /\ conn[x] = "up" /\ ~silent[x]
    BY <1>2, PongStep
  <2>2. CASE x = c
    <3>1. Watch(x)' = Noted(Watch(x)) /\ pongAge'[x] = 0 /\ ping'[x] = None
      BY <1>2, <2>1, <2>2, PongStep DEF Watch
    <3> QED
      BY <1>t, <3>1, Intervals, NotedTyped DEF OnTime, None, LoopRecords
  <2>3. CASE x # c
    <3>1. Watch(x)' = Watch(x) /\ pongAge'[x] = pongAge[x] /\ ping'[x] = ping[x]
      BY <1>2, <2>1, <2>3, PongStep DEF Watch
    <3> QED
      BY <1>o, <2>1, <3>1 DEF OnTime
  <2> QED
    BY <2>2, <2>3
<1>3. ASSUME NEW c \in Conn, RemoveData(c)
      PROVE  OnTime(x)'
  <2>1. control' = control /\ stalls = 0 /\ conn'[c] = "down"
    BY <1>3, RemoveStep
  <2>2. x # c
    BY <2>1
  <2>3. /\ Watch(x)' = Watch(x) /\ pongAge'[x] = pongAge[x] /\ ping'[x] = ping[x]
        /\ conn[x] = "up" /\ ~silent[x]
    BY <1>3, <2>1, <2>2, RemoveStep DEF Watch
  <2> QED
    BY <1>o, <2>1, <2>3 DEF OnTime
<1>4. ASSUME NEW c \in Conn, Join(c)
      PROVE  OnTime(x)'
  <2>1. control' = control /\ stalls = 0 /\ ping' = ping /\ silent' = silent
    BY <1>4, JoinStep
  <2>2. CASE x = c
    <3>1. Watch(x)' = Started /\ pongAge'[x] = 0
      <4>1. x # control
        BY <1>4, <2>2, JoinStep DEF WatchesOK
      <4> QED
        BY <1>4, <2>1, <2>2, <4>1, JoinStep DEF Watch
    <3> QED
      BY <1>t, <2>1, <3>1, Intervals, StartedTyped DEF OnTime, None
  <2>3. CASE x # c
    <3>1. /\ Watch(x)' = Watch(x) /\ pongAge'[x] = pongAge[x] /\ ping'[x] = ping[x]
          /\ conn[x] = "up" /\ ~silent[x]
      BY <1>4, <2>1, <2>3, JoinStep DEF Watch
    <3> QED
      BY <1>o, <2>1, <3>1 DEF OnTime
  <2> QED
    BY <2>2, <2>3
<1>5. ASSUME NEW c \in Conn, NEW d \in Conn, Promote(c, d)
      PROVE  OnTime(x)'
  <2>1. stalls = 0 /\ control = c /\ control' = d /\ c # d /\ conn'[c] = "down"
    BY <1>5, PromoteStep
  <2>2. CASE x = d
    <3>1. Watch(x)' = Started /\ pongAge'[x] = 0 /\ ping'[x] = ping[x]
      BY <1>5, <2>1, <2>2, PromoteStep DEF Watch
    <3> QED
      BY <1>t, <3>1, Intervals, StartedTyped DEF OnTime, None
  <2>3. CASE x # d
    <3>1. x \notin {c, d}
      BY <2>1, <2>3
    <3>2. /\ Watch(x)' = Watch(x) /\ pongAge'[x] = pongAge[x] /\ ping'[x] = ping[x]
          /\ conn[x] = "up" /\ ~silent[x]
      BY <1>5, <2>1, <3>1, PromoteStep DEF Watch
    <3> QED
      BY <1>o, <2>1, <3>2 DEF OnTime
  <2> QED
    BY <2>2, <2>3
<1>6. ASSUME Tick
      PROVE  OnTime(x)'
  <2>1. /\ stalls = 0 /\ conn[x] = "up" /\ ~silent[x] /\ control' = control
        /\ Watch(x)' = Ticked(Watch(x)) /\ ~Watch(x).due
        /\ ping'[x] = Older(ping[x], PongTimeout) /\ ping[x] < PongTimeout
        /\ pongAge'[x] = Older(pongAge[x], Oldest)
    BY <1>6, <1>0, TickStep DEF Watch
  <2>2. OnTime(x) /\ Watch(x).on = "on"
    BY <1>o, <2>1 DEF WatchesOK
  <2>3. /\ Watch(x)'.due <=> Watch(x).next = 1
        /\ Watch(x)'.next = IF Watch(x).next = 1 THEN PingInterval
                            ELSE Watch(x).next - 1
    BY <1>t, <2>1, <2>2, TickedTyped
  <2>4. pongAge'[x] \in Nat /\ pongAge'[x] <= pongAge[x] + 1
    BY <1>t, <2>1, Intervals DEF Older, None
  <2>5. /\ ping[x] = None => ping'[x] = None
        /\ ping[x] # None => ping'[x] = ping[x] + 1
    BY <1>t, <2>1, Intervals DEF Older, None
  <2> QED
    BY <1>t, <2>1, <2>2, <2>3, <2>4, <2>5, Intervals DEF OnTime, None, LoopRecords
<1>7. ASSUME NEW c \in Conn, Fail(c) \/ Silence(c)
      PROVE  OnTime(x)'
  <2>1. /\ UNCHANGED <<control, pongAge, ping, loop, stalls>>
        /\ conn[x] = "up" /\ ~silent[x]
    BY <1>7 DEF Fail, Silence, linkVars, TypeOK
  <2> QED
    BY <1>o, <2>1 DEF OnTime, Watch, ControlLoop, DataLoop
<1>8. ASSUME Stall \/ Resume \/ UNCHANGED vars
      PROVE  OnTime(x)'
  <2>1. UNCHANGED <<control, pongAge, ping, loop, stalls, conn, silent>>
    BY <1>0, <1>8, <1>t DEF Stall, Resume, vars
  <2> QED
    BY <1>o, <2>1 DEF OnTime, Watch, ControlLoop, DataLoop
<1> QED
  BY <1>1, <1>2, <1>3, <1>4, <1>5, <1>6, <1>7, <1>8, NextCases

-----------------------------------------------------------------------------
(* A server that is silent, while no process stalls *)

\* Multiples of the interval.
LEMMA Multiples ==
  ASSUME NEW m \in Nat
  PROVE  /\ m * PingInterval \in Nat
         /\ (m + 1) * PingInterval = m * PingInterval + PingInterval
         /\ \A n \in Nat : m <= n => m * PingInterval <= n * PingInterval
<1>1. PingInterval \in Nat
  BY Intervals
<1>2. m * PingInterval \in Nat
  BY <1>1
<1>3. (m + 1) * PingInterval = m * PingInterval + PingInterval
  BY <1>1
<1>4. ASSUME NEW n \in Nat, m <= n
      PROVE  m * PingInterval <= n * PingInterval
  <2>1. PICK k \in Nat : n = m + k
    <3>1. n - m \in Nat /\ n = m + (n - m)
      BY <1>4
    <3> QED
      BY <3>1
  <2>2. n * PingInterval = m * PingInterval + k * PingInterval
    BY <1>1, <2>1
  <2>3. k * PingInterval \in Nat
    BY <1>1
  <2> QED
    BY <1>2, <2>2, <2>3
<1> QED
  BY <1>2, <1>3, <1>4

\* A loop has at least one interval's patience, the control loop at most the
\* threshold's.
LEMMA PatienceBounds ==
  ASSUME TypeOK, NEW c \in Conn
  PROVE  /\ Misses \in Nat /\ Misses < FailureThreshold
         /\ Patience(c) \in Nat /\ Patience(c) >= DisconnectAfter + PingInterval
         /\ c # control => Patience(c) = DisconnectAfter + PingInterval
         /\ c = control => Patience(c) <= DisconnectAfter
                                          + FailureThreshold * PingInterval
<1>1. Misses \in Nat /\ Misses < FailureThreshold
  BY Intervals DEF Misses, TypeOK
<1>2. /\ (Misses + 1) * PingInterval = Misses * PingInterval + PingInterval
      /\ Misses * PingInterval \in Nat
      /\ (Misses + 1) * PingInterval <= FailureThreshold * PingInterval
  <2>1. Misses + 1 \in Nat /\ Misses + 1 <= FailureThreshold
    BY <1>1, Intervals
  <2> QED
    BY <1>1, <2>1, Multiples, Intervals
<1>3. FailureThreshold * PingInterval \in Nat
  BY Intervals
<1> HIDE DEF Misses
<1> QED
  BY <1>1, <1>2, <1>3, Intervals DEF Patience

\* The same after a step.
LEMMA PatienceLeast ==
  ASSUME failures' \in Nat, NEW c
  PROVE  Patience(c)' \in Nat /\ Patience(c)' >= DisconnectAfter + PingInterval
<1>1. Misses' \in Nat
  BY Intervals DEF Misses
<1>2. /\ (Misses' + 1) * PingInterval = Misses' * PingInterval + PingInterval
      /\ Misses' * PingInterval \in Nat
  BY <1>1, Multiples
<1> HIDE DEF Misses
<1>3. Patience(c)' = DisconnectAfter
        + (IF c = control' THEN Misses' + 1 ELSE 1) * PingInterval
  BY DEF Patience, DisconnectAfter
<1> QED
  BY <1>2, <1>3, Intervals

\* Patience depends on the counter alone.
LEMMA PatienceKept ==
  ASSUME control' = control, Misses' = Misses, NEW c
  PROVE  Patience(c)' = Patience(c)
BY DEF Patience, DisconnectAfter

\* The pongs missed so far depend on the control connection, its loop and its
\* count.
LEMMA MissesKept ==
  ASSUME control' = control, failures' = failures,
         ControlLoop(control)'.seen = ControlLoop(control).seen
  PROVE  Misses' = Misses
BY DEF Misses

\* The loop of x looks before lastPong is too old.
InTime(x) ==
  IF Watch(x).due THEN Watch(x).next = PingInterval /\ pongAge[x] <= Patience(x)
  ELSE pongAge[x] + Watch(x).next <= Patience(x)

\* A control loop looks, and misses a pong: it has one interval more.
LEMMA MissStep ==
  ASSUME TypeOK, LoopMisses(<<control, "control">>), control' = control,
         ControlLoop(control)'.seen
  PROVE  Patience(control)' = Patience(control) + PingInterval
<1> DEFINE seen == IF ~ControlLoop(control).seen THEN 0 ELSE failures
<1>1. seen \in Nat /\ seen + 1 < FailureThreshold /\ failures' = seen + 1
  BY Intervals DEF LoopMisses, Observed, ControlLoop, TypeOK
<1>2. Misses = seen /\ Misses' = seen + 1
  BY <1>1, Intervals DEF Misses, TypeOK
<1>3. (seen + 1 + 1) * PingInterval = (seen + 1) * PingInterval + PingInterval
        /\ (seen + 1) * PingInterval \in Nat
  <2>1. seen + 1 \in Nat
    BY <1>1
  <2> HIDE DEF seen
  <2> QED
    BY <2>1, Multiples
<1> HIDE DEF seen
<1>4. Patience(control) = DisconnectAfter + (seen + 1) * PingInterval
        /\ Patience(control)' = DisconnectAfter + (seen + 1 + 1) * PingInterval
  BY <1>2 DEF Patience, DisconnectAfter
<1> QED
  BY <1>3, <1>4, Intervals

\* The loop that watches x, when it has run and its connection is still up.
LEMMA WatchRan ==
  ASSUME TypeOK, WatchesOK, NEW l \in Loops, Runs(l), NEW x \in Conn,
         l = <<x, IF x = control THEN "control" ELSE "data">>,
         conn'[x] = "up", InTime(x)
  PROVE  InTime(x)'
<1>t. /\ pongAge[x] \in 0 .. Oldest /\ control \in Conn
      /\ Watch(x) \in LoopRecords /\ l[1] = x
      /\ Patience(x) \in Nat
  BY LinkTyped, PatienceBounds
<1>1. control' = control /\ conn[x] = "up" /\ pongAge'[x] = pongAge[x]
  BY <1>t, RunsStep
<1>2. Watch(x).on = "on" /\ loop[l].on = "on"
  BY <1>1 DEF WatchesOK, Watch, ControlLoop, DataLoop
<1>3. /\ Watch(x).due /\ ~Watch(x)'.due
      /\ Watch(x)'.next = Watch(x).next /\ Watch(x)'.seen
  <2>1. Ran(Watch(x), Watch(x)', x)
    BY <1>1, RunsView DEF Watch
  <2> QED
    BY <1>2, <2>1 DEF Ran
<1>4. Watch(x).next = PingInterval /\ pongAge[x] <= Patience(x)
  BY <1>3 DEF InTime
<1>5. CASE LoopPings(l)
  <2>1. pongAge[x] <= DisconnectAfter
    BY <1>5, <1>t, Intervals DEF LoopPings, Late
  <2>2. failures' \in Nat
    BY <1>5, TypeStep DEF Next, TypeOK
  <2>3. Patience(x)' >= DisconnectAfter + PingInterval /\ Patience(x)' \in Nat
    BY <2>2, PatienceLeast
  <2> QED
    BY <1>1, <1>3, <1>4, <1>t, <2>1, <2>3, Intervals DEF InTime
<1>6. CASE LoopMisses(l)
  <2>1. x = control
    BY <1>6 DEF LoopMisses
  <2>2. ControlLoop(control)'.seen
    BY <1>1, <1>3, <2>1 DEF Watch
  <2>3. Patience(x)' = Patience(x) + PingInterval
    BY <1>1, <1>6, <2>1, <2>2, MissStep
  <2> QED
    BY <1>1, <1>3, <1>4, <1>t, <2>3, Intervals DEF InTime
<1>7. CASE LoopEnds(l) \/ LoopGivesUp(l)
  BY <1>1, <1>2, <1>7, <1>t DEF LoopEnds, LoopGivesUp, GiveUp, TypeOK
<1> QED
  BY <1>5, <1>6, <1>7 DEF Runs

\* A cancelled control loop was cancelled before, or the promotion of another
\* connection did it; either way lastPong of the control connection is fresh.
LEMMA CancelledStep ==
  ASSUME TypeOK, WatchesOK, StallCounted, LooksInTime, [Next]_vars, stalls' = 0,
         NEW x \in Conn, ControlLoop(x)'.on = "cancelled"
  PROVE  pongAge'[control'] = 0
<1>t. /\ control \in Conn /\ stalls \in Nat
      /\ ControlLoop(x) \in LoopRecords /\ pongAge[control] \in 0 .. Oldest
  BY LinkTyped
<1>0. stalls = 0 /\ ControlLoop(x).on = "cancelled" => pongAge[control] = 0
  BY DEF LooksInTime
<1>s. stalls = 0 => ~stalled
  BY DEF StallCounted
<1>1. ASSUME NEW l \in Loops, Runs(l)
      PROVE  pongAge'[control'] = 0
  <2>1. UNCHANGED <<control, pongAge, stalls>>
    BY <1>1, RunsStep
  <2>2. ControlLoop(x).on = "cancelled"
    BY <1>1, RunsView DEF Ran
  <2> QED
    BY <1>0, <2>1, <2>2
<1>2. ASSUME NEW c \in Conn, PongArrives(c)
      PROVE  pongAge'[control'] = 0
  <2>1. UNCHANGED <<control, stalls>> /\ pongAge'[control] \in {0, pongAge[control]}
    BY <1>2, <1>t, PongStep
  <2>2. ControlLoop(x).on = "cancelled"
    BY <1>2, <1>t, PongStep, NotedTyped
  <2> QED
    BY <1>0, <2>1, <2>2
<1>3. ASSUME NEW c \in Conn, RemoveData(c)
      PROVE  pongAge'[control'] = 0
  <2>1. UNCHANGED <<control, stalls, pongAge>>
    BY <1>3, RemoveStep
  <2>2. ControlLoop(x).on = "cancelled"
    BY <1>3, <1>t, RemoveStep, CancelTyped DEF WatchesOK
  <2> QED
    BY <1>0, <2>1, <2>2
<1>4. ASSUME NEW c \in Conn, Join(c)
      PROVE  pongAge'[control'] = 0
  <2>1. UNCHANGED <<control, stalls>> /\ pongAge'[control] \in {0, pongAge[control]}
    BY <1>4, <1>t, JoinStep
  <2>2. ControlLoop(x).on = "cancelled"
    BY <1>4, <1>t, JoinStep
  <2> QED
    BY <1>0, <2>1, <2>2
<1>5. ASSUME NEW c \in Conn, NEW d \in Conn, Promote(c, d)
      PROVE  pongAge'[control'] = 0
  BY <1>5, PromoteStep
<1>6. ASSUME Tick
      PROVE  pongAge'[control'] = 0
  BY <1>6, <1>s, <1>t, TickStep, TickedTyped
<1>7. ASSUME \/ Stall \/ Resume \/ UNCHANGED vars
             \/ \E c \in Conn : Fail(c) \/ Silence(c)
      PROVE  pongAge'[control'] = 0
  <2>1. UNCHANGED <<control, stalls, pongAge, loop>>
    BY <1>7, <1>t DEF Stall, Resume, vars, Fail, Silence, linkVars
  <2>2. ControlLoop(x).on = "cancelled"
    BY <2>1 DEF ControlLoop
  <2> QED
    BY <1>0, <2>1, <2>2
<1> QED
  BY <1>1, <1>2, <1>3, <1>4, <1>5, <1>6, <1>7, NextCases

\* Every loop looks in time, whatever happens to the other connections.
LEMMA LooksStep ==
  ASSUME TypeOK, WatchesOK, StallCounted, LooksInTime, [Next]_vars
  PROVE  LooksInTime'
<1>a. TypeOK'
  BY TypeStep
<1> SUFFICES ASSUME stalls' = 0, NEW x \in Conn, conn'[x] = "up"
             PROVE  InTime(x)'
  BY CancelledStep DEF LooksInTime, InTime
<1>t. /\ pongAge[x] \in 0 .. Oldest /\ control \in Conn /\ stalls \in Nat
      /\ ControlLoop(x) \in LoopRecords /\ DataLoop(x) \in LoopRecords
      /\ ControlLoop(control) \in LoopRecords
      /\ Watch(x) \in LoopRecords
      /\ Patience(x) \in Nat /\ Patience(x) >= DisconnectAfter + PingInterval
  BY LinkTyped, PatienceBounds
<1>p. Patience(x)' \in Nat /\ Patience(x)' >= DisconnectAfter + PingInterval
  BY <1>a, PatienceLeast DEF TypeOK
<1>s. stalls = 0 => ~stalled
  BY DEF StallCounted
<1>i. stalls = 0 /\ conn[x] = "up" => InTime(x)
  BY DEF LooksInTime, InTime
<1>f. ASSUME pongAge'[x] = 0, Watch(x)' = Started
      PROVE  InTime(x)'
  BY <1>f, <1>p, Intervals, StartedTyped DEF InTime
<1>k. ASSUME conn[x] = "up", UNCHANGED <<stalls, control, pongAge[x], Watch(x)>>,
             x = control => Misses' = Misses
      PROVE  InTime(x)'
  <2>1. Patience(x)' = Patience(x)
    BY <1>k DEF Patience, DisconnectAfter
  <2> QED
    BY <1>i, <1>k, <2>1 DEF InTime
<1>1. ASSUME NEW l \in Loops, Runs(l)
      PROVE  InTime(x)'
  <2>1. UNCHANGED <<control, pongAge, stalls>> /\ conn[x] = "up" /\ InTime(x)
    BY <1>1, <1>i, RunsStep
  <2>2. CASE l = <<x, IF x = control THEN "control" ELSE "data">>
    BY <1>1, <2>1, <2>2, WatchRan
  <2>3. CASE l # <<x, IF x = control THEN "control" ELSE "data">>
    <3>1. Watch(x)' = Watch(x)
      BY <1>1, <2>1, <2>3, RunsView DEF Watch
    <3>2. CASE x # control
      BY <1>k, <2>1, <3>1, <3>2
    <3>3. CASE x = control /\ l[2] # "control"
      <4>1. failures' = failures
        BY <1>1, <3>3 DEF Runs, LoopEnds, LoopPings, LoopMisses, LoopGivesUp,
                          Observed
      <4>2. Misses' = Misses
        BY <2>1, <3>1, <3>3, <4>1, MissesKept DEF Watch
      <4> QED
        BY <1>k, <2>1, <3>1, <4>2
    <3>4. CASE x = control /\ l[2] = "control"
      <4>1. l[1] \in Conn /\ l = <<l[1], "control">> /\ l[1] # control
        BY <2>3, <3>4 DEF Loops, Kind
      <4>2. ControlLoop(l[1]).on = "cancelled"
        <5>1. loop[l].on # "off"
          BY <1>1, RunsStep
        <5>2. ControlLoop(l[1]) = loop[l]
          BY <4>1 DEF ControlLoop
        <5>3. ControlLoop(l[1]) \in LoopRecords
          BY <4>1, LinkTyped
        <5> QED
          BY <4>1, <5>1, <5>2, <5>3 DEF WatchesOK, LoopRecords
      <4>3. pongAge'[x] = 0
        BY <2>1, <3>4, <4>1, <4>2 DEF LooksInTime
      <4>4. Watch(x).due => Watch(x).next = PingInterval
        BY <2>1 DEF InTime
      <4> QED
        BY <1>p, <1>t, <3>1, <4>3, <4>4, Intervals DEF InTime, LoopRecords
    <3> QED
      BY <3>2, <3>3, <3>4
  <2> QED
    BY <2>2, <2>3
<1>2. ASSUME NEW c \in Conn, PongArrives(c)
      PROVE  InTime(x)'
  <2>1. control' = control /\ stalls' = stalls /\ conn[x] = "up"
    BY <1>2, PongStep
  <2>2. CASE x = c
    <3>1. Watch(x)' = Noted(Watch(x)) /\ pongAge'[x] = 0
      BY <1>2, <2>1, <2>2, PongStep DEF Watch
    <3>2. Watch(x).due => Watch(x).next = PingInterval
      BY <1>i, <2>1 DEF InTime
    <3> QED
      BY <1>p, <1>t, <3>1, <3>2, Intervals, NotedTyped DEF InTime, LoopRecords
  <2>3. CASE x # c
    <3>1. Watch(x)' = Watch(x) /\ pongAge'[x] = pongAge[x]
      BY <1>2, <2>1, <2>3, PongStep DEF Watch
    <3>2. x = control => Misses' = Misses
      BY <1>2, <2>1, <2>3, <3>1, MissesKept DEF Watch, PongArrives
    <3> QED
      BY <1>k, <2>1, <3>1, <3>2
  <2> QED
    BY <2>2, <2>3
<1>3. ASSUME NEW c \in Conn, RemoveData(c)
      PROVE  InTime(x)'
  <2>1. UNCHANGED <<control, stalls, pongAge, failures>> /\ conn'[c] = "down"
    BY <1>3, RemoveStep
  <2>2. Watch(x)' = Watch(x) /\ conn[x] = "up"
    BY <1>3, <2>1, RemoveStep DEF Watch
  <2>3. x = control => Misses' = Misses
    BY <2>1, <2>2, MissesKept DEF Watch
  <2> QED
    BY <1>k, <2>1, <2>2, <2>3
<1>4. ASSUME NEW c \in Conn, Join(c)
      PROVE  InTime(x)'
  <2>1. UNCHANGED <<control, stalls, failures>> /\ c # control
    BY <1>4, JoinStep DEF WatchesOK
  <2>2. CASE x = c
    BY <1>4, <1>f, <2>1, <2>2, JoinStep DEF Watch
  <2>3. CASE x # c
    <3>1. /\ Watch(x)' = Watch(x) /\ pongAge'[x] = pongAge[x] /\ conn[x] = "up"
      BY <1>4, <2>1, <2>3, JoinStep DEF Watch
    <3>2. x = control => Misses' = Misses
      BY <2>1, <3>1, MissesKept DEF Watch
    <3> QED
      BY <1>k, <2>1, <3>1, <3>2
  <2> QED
    BY <2>2, <2>3
<1>5. ASSUME NEW c \in Conn, NEW d \in Conn, Promote(c, d)
      PROVE  InTime(x)'
  <2>1. stalls' = stalls /\ control = c /\ control' = d /\ c # d /\ conn'[c] = "down"
    BY <1>5, PromoteStep
  <2>2. CASE x = d
    BY <1>5, <1>f, <2>1, <2>2, PromoteStep DEF Watch
  <2>3. CASE x # d
    <3>1. x \notin {c, d}
      BY <2>1, <2>3
    <3>2. Watch(x)' = Watch(x) /\ pongAge'[x] = pongAge[x] /\ conn[x] = "up"
      BY <1>5, <2>1, <3>1, PromoteStep DEF Watch
    <3>3. Patience(x)' = Patience(x)
      BY <2>1, <3>1 DEF Patience, DisconnectAfter
    <3> QED
      BY <1>i, <2>1, <3>2, <3>3 DEF InTime
  <2> QED
    BY <2>2, <2>3
<1>6. ASSUME Tick
      PROVE  InTime(x)'
  <2>1. /\ stalls = 0 /\ conn[x] = "up" /\ control' = control /\ failures' = failures
        /\ Watch(x)' = Ticked(Watch(x)) /\ ~Watch(x).due
        /\ pongAge'[x] = Older(pongAge[x], Oldest)
    BY <1>6, <1>s, TickStep DEF Watch
  <2>2. InTime(x) /\ Watch(x).on = "on"
    BY <1>i, <2>1 DEF WatchesOK
  <2>3. /\ Watch(x)'.due <=> Watch(x).next = 1
        /\ Watch(x)'.next = IF Watch(x).next = 1 THEN PingInterval
                            ELSE Watch(x).next - 1
        /\ Watch(x)'.seen = Watch(x).seen
    BY <1>t, <2>1, <2>2, TickedTyped
  <2>4. pongAge'[x] \in Nat /\ pongAge'[x] <= pongAge[x] + 1
    BY <1>t, <2>1, Intervals DEF Older, None
  <2>5. Misses' = Misses
    <3>1. ControlLoop(control)' = Ticked(ControlLoop(control))
      BY <1>6, <1>t, TickStep
    <3>2. ControlLoop(control)'.seen = ControlLoop(control).seen
      BY <1>t, <3>1, TickedTyped
    <3> QED
      BY <2>1, <3>2, MissesKept
  <2>6. Patience(x)' = Patience(x)
    BY <2>1, <2>5, PatienceKept
  <2> QED
    BY <1>t, <2>1, <2>2, <2>3, <2>4, <2>6, Intervals DEF InTime, LoopRecords
<1>7. ASSUME \/ Stall \/ Resume \/ UNCHANGED vars
             \/ \E c \in Conn : Fail(c) \/ Silence(c)
      PROVE  InTime(x)'
  <2>1. UNCHANGED <<control, stalls, pongAge, loop, failures>> /\ conn[x] = "up"
    BY <1>7, <1>t DEF Stall, Resume, vars, Fail, Silence, linkVars, TypeOK
  <2>2. Watch(x)' = Watch(x) /\ ControlLoop(control)' = ControlLoop(control)
    BY <2>1 DEF Watch, ControlLoop, DataLoop
  <2>3. Misses' = Misses
    BY <2>1, <2>2, MissesKept
  <2> QED
    BY <1>k, <2>1, <2>2, <2>3
<1> QED
  BY <1>1, <1>2, <1>3, <1>4, <1>5, <1>6, <1>7, NextCases

-----------------------------------------------------------------------------
(* Who is given up *)

\* A connection is closed by a loop that watches it, at a tick at which its
\* pong is late.
LEMMA GivenUpBy ==
  ASSUME TypeOK, WatchesOK, [Next]_vars, NEW x \in Conn,
         conn'[x] = "givenUp", conn[x] # "givenUp"
  PROVE  LET l == <<x, IF x = control THEN "control" ELSE "data">>
         IN  LoopGivesUp(l) /\ conn[x] = "up"
<1>t. /\ conn \in [Conn -> {"up", "givenUp", "failed", "down"}] /\ control \in Conn
      /\ ControlLoop(x) \in LoopRecords /\ DataLoop(x) \in LoopRecords
  BY LinkTyped DEF TypeOK
<1>1. ASSUME NEW l \in Loops, Runs(l)
      PROVE  /\ LoopGivesUp(l) /\ conn[x] = "up"
             /\ l = <<x, IF x = control THEN "control" ELSE "data">>
  <2>1. x = l[1] /\ conn[x] = "up"
    BY <1>1, <1>t, RunsStep
  <2>2. LoopGivesUp(l) /\ loop[l].on = "on"
    BY <1>1, <1>t, <2>1
    DEF Runs, LoopEnds, LoopPings, LoopMisses, LoopGivesUp, SendPing, GiveUp
  <2>3. l = <<x, "control">> \/ l = <<x, "data">>
    BY <2>1 DEF Loops, Kind
  <2>4. /\ l = <<x, "control">> => x = control
        /\ l = <<x, "data">> => x # control
    BY <2>2 DEF WatchesOK, ControlLoop, DataLoop
  <2> QED
    BY <2>1, <2>2, <2>3, <2>4
<1>2. ASSUME \/ \E c \in Conn : PongArrives(c) \/ RemoveData(c) \/ Join(c)
             \/ \E c \in Conn : Fail(c) \/ Silence(c)
             \/ \E c, d \in Conn : Promote(c, d)
             \/ Stall \/ Resume \/ Tick \/ UNCHANGED vars
      PROVE  FALSE
  BY <1>2, <1>t
  DEF PongArrives, RemoveData, Join, Fail, Silence, Promote, Stall, Resume, Tick,
      vars, Disconnect
<1> QED
  BY <1>1, <1>2, NextCases

\* What excuses giving a connection up goes on excusing it.
LEMMA ExcusesKept ==
  ASSUME TypeOK, [Next]_vars, NEW x \in Conn,
         conn[x] = "givenUp", conn'[x] = "givenUp"
  PROVE  /\ silent[x] => silent'[x]
         /\ stalls' >= stalls
         /\ miscount => miscount'
         /\ x = control <=> x = control'
<1>t. /\ conn \in [Conn -> {"up", "givenUp", "failed", "down"}] /\ control \in Conn
      /\ stalls \in Nat /\ silent \in [Conn -> BOOLEAN]
  BY LinkTyped DEF TypeOK
<1>1. ASSUME NEW l \in Loops, Runs(l)
      PROVE  UNCHANGED <<silent, stalls, control>> /\ (miscount => miscount')
  <2>1. UNCHANGED <<silent, stalls, control>>
    BY <1>1, RunsStep
  <2>2. ASSUME miscount
        PROVE  miscount'
    <3>1. CASE LoopMisses(l)
      BY <2>2, <3>1, Zenon DEF LoopMisses
    <3>2. CASE LoopEnds(l) \/ LoopPings(l) \/ LoopGivesUp(l)
      <4>1. miscount' = miscount
        BY <3>2 DEF LoopEnds, LoopPings, LoopGivesUp, GiveUp
      <4> QED
        BY <2>2, <4>1
    <3> QED
      BY <1>1, <3>1, <3>2 DEF Runs
  <2> QED
    BY <2>1, <2>2
<1>2. ASSUME NEW c \in Conn, NEW d \in Conn, Promote(c, d)
      PROVE  /\ silent'[x] = silent[x] /\ UNCHANGED <<stalls, miscount>>
             /\ x # control /\ x # control'
  BY <1>2, PromoteStep
<1>3. ASSUME NEW c \in Conn, PongArrives(c) \/ RemoveData(c) \/ Join(c)
      PROVE  silent'[x] = silent[x] /\ UNCHANGED <<stalls, miscount, control>>
  BY <1>3, <1>t DEF PongArrives, RemoveData, Join, Disconnect, linkVars
<1>4. ASSUME NEW c \in Conn, Fail(c) \/ Silence(c)
      PROVE  (silent[x] => silent'[x]) /\ UNCHANGED <<stalls, miscount, control>>
  BY <1>4, <1>t DEF Fail, Silence, linkVars
<1>5. ASSUME Stall \/ Resume \/ Tick \/ UNCHANGED vars
      PROVE  UNCHANGED <<silent, miscount, control>> /\ stalls' >= stalls
  <2>1. CASE Stall
    BY <1>t, <2>1 DEF Stall
  <2>2. CASE Resume \/ Tick \/ UNCHANGED vars
    <3>1. UNCHANGED <<silent, miscount, control, stalls>>
      BY <2>2 DEF Resume, Tick, vars
    <3> QED
      BY <1>t, <3>1
  <2> QED
    BY <1>5, <2>1, <2>2
<1> QED
  BY <1>1, <1>2, <1>3, <1>4, <1>5, <1>t, NextCases

\* A server that is on time has no late pong.
LEMMA OnTimeNotLate ==
  ASSUME TypeOK, NEW x \in Conn, OnTime(x)
  PROVE  ~Late(x)
<1>1. /\ pongAge[x] \in 0 .. Oldest /\ ping[x] \in None .. PongTimeout
      /\ Watch(x) \in LoopRecords
  BY LinkTyped
<1> QED
  BY <1>1, Intervals DEF OnTime, Late, None, LoopRecords

\* A server that answers is given up only if the process stalled.
AnsweringKept == \A c \in Conn : conn[c] = "givenUp" => silent[c] \/ stalls > 0

\* Giving up takes a stall or a silent server.
LEMMA AnsweringStep ==
  ASSUME TypeOK, WatchesOK, Answered, AnsweringKept, [Next]_vars
  PROVE  AnsweringKept'
<1> SUFFICES ASSUME NEW x \in Conn, conn'[x] = "givenUp"
             PROVE  silent'[x] \/ stalls' > 0
  BY DEF AnsweringKept
<1>t. stalls \in Nat /\ stalls' \in Nat
  BY TypeStep, KeepaliveAssumption DEF TypeOK
<1>1. CASE conn[x] = "givenUp"
  BY <1>1, <1>t, ExcusesKept DEF AnsweringKept
<1>2. CASE conn[x] # "givenUp"
  <2> DEFINE l == <<x, IF x = control THEN "control" ELSE "data">>
  <2>1. LoopGivesUp(l) /\ conn[x] = "up"
    BY <1>2, GivenUpBy
  <2>2. UNCHANGED <<silent, stalls>> /\ Late(x)
    BY <2>1 DEF LoopGivesUp, GiveUp, linkVars
  <2> QED
    BY <1>t, <2>1, <2>2, OnTimeNotLate DEF Answered
<1> QED
  BY <1>1, <1>2

-----------------------------------------------------------------------------
(* A process that stalls once, and pongs due within an interval *)

\* A stall costs a control connection whose server answers two misses at most.
LEMMA MissesStep ==
  ASSUME FailureThreshold >= 3, PongTimeout <= PingInterval,
         TypeOK, WatchesOK, StallCounted, Answered, MissesFew, [Next]_vars
  PROVE  MissesFew'
<1> DEFINE w == ControlLoop(control)
           waits == ping[control]
           Few == /\ failures <= 2
                  /\ stalls = 0 \/ stalled => failures = 0
                  /\ failures > 0 =>
                       /\ waits # None
                       /\ \A x \in Conn : ControlLoop(x).on = "cancelled" =>
                            failures = 1 /\ ~w.due
                  /\ failures = 1 /\ w.due => waits >= 1 /\ w.next = PingInterval
                  /\ failures = 2 => /\ waits >= 1 /\ ~w.due
                                     /\ waits + w.next > PingInterval
<1>a. TypeOK'
  BY TypeStep
<1> SUFFICES ASSUME conn'[control'] = "up", ~silent'[control'], ~miscount',
                    stalls' <= 1
             PROVE  Few'
  BY DEF MissesFew
<1>t. /\ control \in Conn /\ stalls \in Nat /\ failures \in Nat
      /\ w \in LoopRecords /\ waits \in None .. PongTimeout
      /\ \A x \in Conn : ControlLoop(x) \in LoopRecords
  BY LinkTyped DEF TypeOK
<1>f. conn[control] = "up" /\ ~silent[control] /\ ~miscount /\ stalls <= 1 => Few
  BY DEF MissesFew
<1>z. failures' = 0 => Few'
  OBVIOUS
<1>w. conn[control] = "up" => w.on = "on"
  BY <1>t DEF WatchesOK, Watch
<1>k. ASSUME conn[control] = "up", ~silent[control], ~miscount,
             UNCHANGED <<control, failures, stalls, stalled>>, w' = w,
             waits' = waits,
             \A x \in Conn : ControlLoop(x)'.on = "cancelled" =>
                               ControlLoop(x).on = "cancelled"
      PROVE  Few'
  <2>1. Few
    BY <1>f, <1>k
  <2> HIDE DEF w, waits
  <2> QED
    BY <1>k, <2>1
<1>1. ASSUME NEW l \in Loops, Runs(l)
      PROVE  Few'
  <2>1. /\ UNCHANGED <<control, stalls, stalled, silent, pongAge>> /\ ~stalled
        /\ conn[control] = "up" /\ ~silent[control]
        /\ waits' = waits \/ (waits = None /\ waits' = 0)
    <3>1. UNCHANGED <<control, stalls, stalled, silent, pongAge>> /\ ~stalled
      BY <1>1, RunsStep
    <3>2. /\ conn'[control] = conn[control] \/ conn'[control] = "givenUp"
          /\ waits' = waits \/ (waits = None /\ waits' = 0)
      <4>1. waits' = ping'[control]
        BY <3>1
      <4> QED
        BY <1>1, <1>t, <4>1, RunsStep
    <3> QED
      BY <3>1, <3>2
  <2>2. ~miscount
    BY <1>1, <1>t DEF Runs, LoopEnds, LoopPings, LoopMisses, LoopGivesUp, GiveUp
  <2>3. Few
    BY <1>f, <2>1, <2>2
  <2>4. ASSUME NEW x \in Conn, ControlLoop(x)'.on = "cancelled"
        PROVE  ControlLoop(x).on = "cancelled"
    BY <1>1, <2>4, RunsView DEF Ran
  <2>5. CASE l = <<control, "control">>
    <3>1. /\ w.due /\ ~w'.due /\ w'.next = w.next /\ waits' # None
          /\ failures # 2
      <4>1. Ran(w, w', control)
        BY <1>1, <1>t, <2>1, <2>5, RunsView
      <4> QED
        BY <1>w, <2>1, <2>3, <4>1 DEF Ran
    <3>2. \A x \in Conn : failures > 0 => ControlLoop(x).on # "cancelled"
      BY <2>3, <3>1
    <3>3. CASE LoopPings(l)
      <4>1. failures' \in {0, failures}
        BY <2>5, <3>3 DEF LoopPings, Observed
      <4>2. CASE failures' = failures
        <5>1. \A x \in Conn : failures' > 0 => ControlLoop(x)'.on # "cancelled"
          BY <2>4, <3>2, <4>2
        <5>2. failures' \in {0, 1}
          BY <1>t, <2>3, <3>1, <4>2
        <5>3. stalls' = 0 \/ stalled' => failures' = 0
          BY <2>1, <2>3, <4>2
        <5> HIDE DEF w, waits
        <5> QED
          BY <3>1, <5>1, <5>2, <5>3
      <4> QED
        BY <1>z, <4>1, <4>2
    <3>4. CASE LoopMisses(l)
      <4>1. stalls # 0
        <5>1. Late(control)
          BY <2>5, <3>4 DEF LoopMisses
        <5> QED
          BY <1>t, <2>1, <5>1, OnTimeNotLate DEF Answered
      <4>2. \/ failures' = 1
            \/ failures = 1 /\ failures' = 2
        BY <1>t, <2>3, <2>5, <3>1, <3>4 DEF LoopMisses, Observed
      <4>3. CASE failures' = 1
        <5>1. stalls' # 0 /\ ~stalled'
          BY <2>1, <4>1
        <5> HIDE DEF w, waits
        <5> QED
          BY <3>1, <4>3, <5>1
      <4>4. CASE failures = 1 /\ failures' = 2
        <5>1. waits >= 1 /\ w.next = PingInterval
          BY <2>3, <3>1, <4>4
        <5>2. waits' = waits /\ waits' + w'.next > PingInterval
          BY <1>t, <2>1, <3>1, <5>1, Intervals DEF None
        <5>3. \A x \in Conn : ControlLoop(x)'.on # "cancelled"
          BY <2>4, <3>2, <4>4
        <5>4. stalls' # 0 /\ ~stalled'
          BY <2>1, <4>1
        <5> HIDE DEF w, waits
        <5> QED
          BY <3>1, <4>4, <5>1, <5>2, <5>3, <5>4
      <4> QED
        BY <4>2, <4>3, <4>4
    <3>5. CASE LoopEnds(l) \/ LoopGivesUp(l)
      <4>1. loop[l].on = "on" /\ l[1] = control
        BY <1>w, <2>1, <2>5 DEF ControlLoop
      <4>2. conn'[control] # "up"
        BY <1>t, <2>1, <3>5, <4>1 DEF LoopEnds, LoopGivesUp, GiveUp, TypeOK
      <4> QED
        BY <2>1, <4>2
    <3> QED
      BY <1>1, <3>3, <3>4, <3>5 DEF Runs
  <2>6. CASE l # <<control, "control">>
    <3>1. w' = w
      BY <1>1, <1>t, <2>1, <2>6, RunsView
    <3>2. failures' \in {0, failures}
      <4>1. CASE l[2] = "data"
        BY <1>1, <4>1
        DEF Runs, LoopEnds, LoopPings, LoopMisses, LoopGivesUp, Observed
      <4>2. CASE l[2] = "control"
        <5>1. /\ l[1] \in Conn /\ l = <<l[1], "control">> /\ l[1] # control
              /\ ControlLoop(l[1]) = loop[l]
          BY <2>6, <4>2 DEF Loops, Kind, ControlLoop
        <5>2. ControlLoop(l[1]).on = "cancelled"
          <6>1. loop[l].on # "off"
            BY <1>1, RunsStep
          <6> QED
            BY <1>t, <5>1, <6>1 DEF WatchesOK, LoopRecords
        <5>3. failures <= 1
          BY <1>t, <2>3, <5>1, <5>2
        <5>4. ~LoopMisses(l)
          BY <5>1, <5>2 DEF LoopMisses
        <5>5. ~LoopGivesUp(l)
          BY <1>t, <4>2, <5>3, Intervals DEF LoopGivesUp, Observed
        <5> QED
          BY <1>1, <5>4, <5>5 DEF Runs, LoopEnds, LoopPings, Observed
      <4> QED
        BY <4>1, <4>2 DEF Loops, Kind
    <3>3. CASE failures' = failures /\ failures > 0
      <4>1. waits' = waits
        BY <2>1, <2>3, <3>3
      <4> HIDE DEF Few
      <4> QED
        BY <1>k, <2>1, <2>2, <2>4, <3>1, <3>3, <4>1
    <3> QED
      BY <1>t, <1>z, <3>2, <3>3
  <2> QED
    BY <2>5, <2>6
<1>2. ASSUME NEW c \in Conn, PongArrives(c)
      PROVE  Few'
  <2>1. CASE c = control
    BY <1>2, <1>z, <2>1 DEF PongArrives
  <2>2. CASE c # control
    <3>1. /\ UNCHANGED <<conn, control, silent, stalled, stalls, miscount, failures>>
          /\ w' = w /\ waits' = waits
      BY <1>2, <1>t, <2>2, PongStep DEF PongArrives
    <3>2. ASSUME NEW x \in Conn, ControlLoop(x)'.on = "cancelled"
          PROVE  ControlLoop(x).on = "cancelled"
      BY <1>2, <1>t, <3>2, PongStep, NotedTyped
    <3> HIDE DEF Few
    <3> QED
      BY <1>k, <3>1, <3>2
  <2> QED
    BY <2>1, <2>2
<1>3. ASSUME NEW c \in Conn, RemoveData(c) \/ Join(c)
      PROVE  Few'
  <2>1. c # control
    BY <1>3, RemoveStep, JoinStep DEF WatchesOK
  <2>2. /\ UNCHANGED <<control, stalled, stalls, miscount, failures>>
        /\ w' = w /\ waits' = waits
        /\ conn'[control] = conn[control] /\ silent'[control] = silent[control]
    BY <1>3, <1>t, <2>1, RemoveStep, JoinStep
  <2>3. ASSUME NEW x \in Conn, ControlLoop(x)'.on = "cancelled"
        PROVE  ControlLoop(x).on = "cancelled"
    BY <1>3, <1>t, <2>1, <2>3, RemoveStep, JoinStep, CancelTyped DEF WatchesOK
  <2> HIDE DEF Few
  <2> QED
    BY <1>k, <2>2, <2>3
<1>4. ASSUME NEW c \in Conn, NEW d \in Conn, Promote(c, d)
      PROVE  Few'
  BY <1>4, <1>z, PromoteStep
<1>5. ASSUME Tick
      PROVE  Few'
  <2>1. /\ UNCHANGED <<conn, control, failures, silent, stalled, stalls, miscount>>
        /\ w' = Ticked(w) /\ waits' = Older(waits, PongTimeout)
    BY <1>5, <1>t, TickStep
  <2>2. Few /\ w.on = "on"
    BY <1>f, <1>w, <2>1
  <2>3. CASE failures > 0
    <3>1. ~stalled
      BY <2>2, <2>3
    <3>2. /\ ~w.due /\ waits < PongTimeout
          /\ \A x \in Conn : ControlLoop(x).on # "cancelled"
      BY <1>5, <1>t, <2>1, <3>1, TickStep
    <3>3. waits # None /\ waits' = waits + 1 /\ waits' >= 1
      BY <1>t, <2>1, <2>2, <2>3, <3>2, Intervals DEF Older, None
    <3>4. /\ w'.due <=> w.next = 1
          /\ w'.next = IF w.next = 1 THEN PingInterval ELSE w.next - 1
      BY <1>t, <2>1, <2>2, <3>2, TickedTyped
    <3>5. \A x \in Conn : ControlLoop(x)'.on # "cancelled"
      BY <1>5, <1>t, <3>2, TickStep, TickedTyped
    <3>6. failures = 2 => ~w'.due /\ waits' + w'.next > PingInterval
      <4> SUFFICES ASSUME failures = 2
                   PROVE  ~w'.due /\ waits' + w'.next > PingInterval
        OBVIOUS
      <4>1. waits + w.next > PingInterval
        BY <2>2
      <4>2. w.next \in 1 .. PingInterval
        BY <1>t DEF LoopRecords
      <4> HIDE DEF w, waits
      <4> QED
        BY <1>t, <3>2, <3>3, <3>4, <4>1, <4>2, Intervals
    <3>7. failures' = failures /\ failures <= 2 /\ stalls # 0 /\ stalls' = stalls
            /\ ~stalled'
      BY <2>1, <2>2, <2>3, <3>1
    <3> HIDE DEF w, waits
    <3> QED
      BY <3>3, <3>4, <3>5, <3>6, <3>7, Intervals DEF None
  <2> QED
    BY <1>t, <1>z, <2>1, <2>3
<1>6. ASSUME NEW c \in Conn, Fail(c) \/ Silence(c)
      PROVE  Few'
  <2>1. /\ UNCHANGED <<control, stalled, stalls, miscount, failures, loop, ping>>
        /\ conn[control] = "up" /\ ~silent[control]
    BY <1>6, <1>t DEF Fail, Silence, linkVars, TypeOK
  <2>2. w' = w /\ waits' = waits
        /\ \A x \in Conn : ControlLoop(x)' = ControlLoop(x)
    BY <2>1 DEF ControlLoop
  <2> HIDE DEF Few
  <2> QED
    BY <1>k, <2>1, <2>2
<1>7. CASE Stall \/ Resume
  <2>1. UNCHANGED <<conn, control, silent, failures, miscount>>
    BY <1>7 DEF Stall, Resume
  <2>2. failures = 0
    <3>1. stalls <= 1 /\ (stalls = 0 \/ stalled)
      BY <1>7, <1>t DEF Stall, Resume
    <3> QED
      BY <1>f, <2>1, <3>1
  <2> QED
    BY <1>z, <2>1, <2>2
<1>8. CASE UNCHANGED vars
  <2>1. /\ UNCHANGED <<control, stalled, stalls, miscount, failures, loop, ping, conn,
                       silent>>
    BY <1>8 DEF vars
  <2>2. w' = w /\ waits' = waits
        /\ \A x \in Conn : ControlLoop(x)' = ControlLoop(x)
    BY <2>1 DEF ControlLoop
  <2> HIDE DEF Few
  <2> QED
    BY <1>k, <2>1, <2>2
<1> HIDE DEF Few
<1> QED
  BY <1>1, <1>2, <1>3, <1>4, <1>5, <1>6, <1>7, <1>8, NextCases

\* Within one stall, and with misses counted by the right loops, the control
\* connection of a server that answers is not given up.
LEMMA NoFalseAlarmStep ==
  ASSUME FailureThreshold >= 3,
         TypeOK, WatchesOK, Answered, AnsweringKept, MissesFew, NoFalseAlarm,
         [Next]_vars
  PROVE  NoFalseAlarm'
<1> SUFFICES ASSUME NEW x \in Conn, conn'[x] = "givenUp"
             PROVE  \/ silent'[x]
                    \/ stalls' > IF x = control' THEN 1 ELSE 0
                    \/ miscount'
  BY DEF NoFalseAlarm
<1>t. /\ stalls \in Nat /\ stalls' \in Nat /\ failures \in Nat /\ control \in Conn
  BY TypeStep, KeepaliveAssumption DEF TypeOK
<1>1. CASE conn[x] = "givenUp"
  <2>1. silent[x] \/ stalls > (IF x = control THEN 1 ELSE 0) \/ miscount
    BY <1>1 DEF NoFalseAlarm
  <2> QED
    BY <1>1, <1>t, <2>1, ExcusesKept
<1>2. CASE conn[x] # "givenUp"
  <2> DEFINE l == <<x, IF x = control THEN "control" ELSE "data">>
  <2>1. LoopGivesUp(l) /\ conn[x] = "up"
    BY <1>2, GivenUpBy
  <2>2. UNCHANGED <<control, silent, stalls, miscount>>
    BY <2>1 DEF LoopGivesUp, GiveUp, linkVars
  <2>3. silent'[x] \/ stalls' > 0
    BY AnsweringStep DEF AnsweringKept
  <2>4. CASE x # control
    BY <1>t, <2>2, <2>3, <2>4
  <2>5. CASE x = control
    <3>1. ControlLoop(control).due
      BY <2>1, <2>5 DEF LoopGivesUp, Wakes, ControlLoop
    <3>2. failures + 1 >= FailureThreshold
      BY <1>t, <2>1, <2>5, Intervals DEF LoopGivesUp, Observed
    <3>3. failures >= 2
      BY <1>t, <3>2, Intervals
    <3>4. ASSUME ~silent[control], ~miscount, stalls <= 1
          PROVE  FALSE
      <4>1. failures <= 2 /\ (failures = 2 => ~ControlLoop(control).due)
        BY <2>1, <2>5, <3>4 DEF MissesFew
      <4> QED
        BY <1>t, <3>1, <3>3, <4>1
    <3> QED
      BY <1>t, <2>2, <2>5, <3>4
  <2> QED
    BY <2>4, <2>5
<1> QED
  BY <1>1, <1>2

-----------------------------------------------------------------------------
(* The theorems *)

\* What holds with any intervals, any threshold and any stalls.
KeepInv == /\ TypeOK /\ WatchesOK /\ StallCounted
           /\ Answered /\ AnsweringKept /\ LooksInTime

\* The first states.
LEMMA InitKeeps ==
  ASSUME Init
  PROVE  KeepInv /\ MissesFew /\ NoFalseAlarm
<1>1. /\ control \in Conn /\ failures = 0 /\ ~stalled /\ stalls = 0
      /\ stalled = FALSE /\ miscount = FALSE
      /\ conn = [c \in Conn |-> "up"] /\ pongAge = [c \in Conn |-> 0]
      /\ ping = [c \in Conn |-> None] /\ silent = [c \in Conn |-> FALSE]
  BY DEF Init
<1>2. loop \in [Loops -> LoopRecords]
  BY StartedTyped DEF Init
<1>3. TypeOK
  <2>1. 0 \in 0 .. Oldest /\ None \in None .. PongTimeout /\ stalls \in 0 .. MaxStalls
    BY <1>1, Intervals, KeepaliveAssumption DEF None
  <2> QED
    BY <1>1, <1>2, <2>1 DEF TypeOK, LoopRecords
<1>4. ASSUME NEW c \in Conn
      PROVE  /\ ControlLoop(c) = IF c = control THEN Started ELSE Off
             /\ DataLoop(c) = IF c = control THEN Off ELSE Started
             /\ Watch(c) = Started
  <2>1. <<c, "control">> \in Loops /\ <<c, "data">> \in Loops
    BY DEF Loops, Kind
  <2>2. /\ ControlLoop(c) = IF c = control THEN Started ELSE Off
        /\ DataLoop(c) = IF c = control THEN Off ELSE Started
    BY <2>1 DEF Init, ControlLoop, DataLoop
  <2> QED
    BY <2>2 DEF Watch
<1>5. WatchesOK
  BY <1>1, <1>4, StartedTyped DEF WatchesOK
<1>6. StallCounted /\ AnsweringKept /\ NoFalseAlarm
  BY <1>1 DEF StallCounted, AnsweringKept, NoFalseAlarm
<1>7. Answered
  BY <1>1, <1>4, StartedTyped, Intervals DEF Answered, OnTime
<1>8. LooksInTime
  <2>1. ASSUME NEW c \in Conn
        PROVE  pongAge[c] + Watch(c).next <= Patience(c) /\ ~Watch(c).due
    BY <1>1, <1>3, <1>4, StartedTyped, Intervals, PatienceBounds
  <2>2. \A x \in Conn : ControlLoop(x).on # "cancelled"
    BY <1>4, StartedTyped
  <2> QED
    BY <2>1, <2>2 DEF LooksInTime
<1>9. MissesFew
  BY <1>1 DEF MissesFew
<1> QED
  BY <1>3, <1>5, <1>6, <1>7, <1>8, <1>9 DEF KeepInv

\* A stall begins by being counted.
LEMMA StallStep ==
  ASSUME TypeOK, StallCounted, [Next]_vars
  PROVE  StallCounted'
<1>t. stalls \in Nat
  BY KeepaliveAssumption DEF TypeOK
<1>1. CASE Stall
  BY <1>1, <1>t DEF Stall, StallCounted
<1>2. CASE Resume
  BY <1>2 DEF Resume, StallCounted
<1>3. ASSUME UNCHANGED <<stalled, stalls>>
      PROVE  StallCounted'
  BY <1>3 DEF StallCounted
<1>4. CASE Tick \/ UNCHANGED vars
  BY <1>3, <1>4 DEF Tick, vars
<1>5. ASSUME NEW l \in Loops, Runs(l)
      PROVE  StallCounted'
  BY <1>3, <1>5, RunsStep
<1>6. ASSUME \/ \E c \in Conn : PongArrives(c) \/ RemoveData(c) \/ Join(c)
             \/ \E c \in Conn : Fail(c) \/ Silence(c)
             \/ \E c, d \in Conn : Promote(c, d)
      PROVE  StallCounted'
  <2>1. UNCHANGED <<stalled, stalls>>
    BY <1>6 DEF PongArrives, RemoveData, Join, Fail, Silence, Promote, Disconnect,
                linkVars
  <2> QED
    BY <1>3, <2>1
<1> QED
  BY <1>1, <1>2, <1>4, <1>5, <1>6, NextCases

\* The invariant holds.
THEOREM KeepaliveInvariant == Spec => []KeepInv
<1>1. Init => KeepInv
  BY InitKeeps
<1>2. KeepInv /\ [Next]_vars => KeepInv'
  BY TypeStep, WatchesStep, StallStep, AnsweredStep, AnsweringStep, LooksStep
  DEF KeepInv
<1> QED
  BY <1>1, <1>2, PTL DEF Spec

\* Connections, counter, loops and ages have their types.
THEOREM KeepaliveTypeCorrect == Spec => []TypeOK
BY KeepaliveInvariant, PTL DEF KeepInv

\* "Lane health is owned by the pong watchdog in pingLoop" (client.go:271):
\* every connection that is up has a loop that is not cancelled, a control loop
\* exactly if it is the control connection.
THEOREM EveryConnectionWatched == Spec => []WatchesOK
BY KeepaliveInvariant, PTL DEF KeepInv

\* A connection on which no pong arrives any more is given up in time, with any
\* number of connections, any intervals and any threshold.
THEOREM SilenceIsDetected == Spec => []SilenceDetected
<1>1. KeepInv => SilenceDetected
  <2> SUFFICES ASSUME KeepInv, NEW c \in Conn, conn[c] = "up", stalls = 0
               PROVE  pongAge[c] <= DisconnectAfter
                        + (IF c = control THEN FailureThreshold ELSE 1) * PingInterval
    BY DEF SilenceDetected
  <2>1. /\ pongAge[c] \in 0 .. Oldest /\ Watch(c) \in LoopRecords
        /\ Patience(c) \in Nat
        /\ c # control => Patience(c) = DisconnectAfter + PingInterval
        /\ c = control => Patience(c) <= DisconnectAfter
                                         + FailureThreshold * PingInterval
    BY LinkTyped, PatienceBounds DEF KeepInv
  <2>2. pongAge[c] <= Patience(c)
    <3>1. \/ pongAge[c] <= Patience(c)
          \/ pongAge[c] + Watch(c).next <= Patience(c)
      BY DEF KeepInv, LooksInTime
    <3> QED
      BY <2>1, <3>1 DEF LoopRecords
  <2>3. FailureThreshold * PingInterval \in Nat
    BY Intervals
  <2> QED
    BY <2>1, <2>2, <2>3, Intervals
<1> QED
  BY <1>1, KeepaliveInvariant, PTL

\* A server that answers every ping within PongTimeout is given up only if the
\* process stalled, with any intervals and any threshold.
THEOREM AnsweringIsKept == Spec => []AnsweringKept
BY KeepaliveInvariant, PTL DEF KeepInv

\* With the threshold of the code and pongs due within one ping interval, the
\* control connection is not given up for one stall either, unless a loop that
\* was cancelled counted a miss of its own.
THEOREM NoFalseAlarms ==
  ASSUME FailureThreshold >= 3, PongTimeout <= PingInterval
  PROVE  Spec => []NoFalseAlarm
<1>1. Init => MissesFew /\ NoFalseAlarm
  BY InitKeeps
<1>2. KeepInv /\ MissesFew /\ NoFalseAlarm /\ [Next]_vars => (MissesFew /\ NoFalseAlarm)'
  BY MissesStep, NoFalseAlarmStep DEF KeepInv
<1> QED
  BY <1>1, <1>2, KeepaliveInvariant, PTL DEF Spec
====
