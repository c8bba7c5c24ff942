# Verification of the Portless tunnel client

TLA+ models of the client in `src/pkg/client` and `src/cmd/client`: the process
that keeps a pool of WebSocket connections to a tunnel server and forwards the
HTTP requests arriving on them to a local Plex server. TLC checks the models on
small instances, TLAPS proves the safety properties among them for every instance.

Run a model with `tlc -config X.cfg M` and a proof module with `tlapm M.tla`;
`PROJECT.json` lists the runs, their properties, the source lines of every
definition, the hazards and the theorems.

## 1. Inventory

| Component | State | Operations | Interacts with |
|---|---|---|---|
| Connection pool (`pool.go`) | slots, slot cancel functions, size, control index, control ping cancel, per-connection ping cancel | add, remove (with promotion), Resize, close, setSlotCancel, setConnPingCancel, replacePingLoop | called by every goroutine of a session, under `p.mu`; cancel functions and `Close` run after the unlock |
| Session (`client.go`: runSession, sessionPoolController, maintainPoolSlot) | one goroutine per slot, session mutex, `errCh` (buffer 1), contexts | start slots, join, add, start ping loops, read, remove, promote, back off, resize, end | pool, transport, Run |
| Keepalive (`client.go`: pingLoop) | last pong per connection, one failure counter per session | ping, count misses, close the connection | started and cancelled through the pool |
| Request proxying (`client.go`: readLoop, handleHTTPRequest) | stream semaphore, stream counters, one goroutine per request | accept or refuse, forward, stream the body, answer | breaker, transport, slot context |
| Circuit breaker (`circuit.go`) | state, consecutive failures, time of the trip | Allow, RecordSuccess, RecordFailure | shared by all requests |
| Run loop and back-off (`client.go`: Run; `reconnect.go`) | attempt | run a session, wait, return | session, status |
| Status (`status.go`, syncPoolStatus) | ConnectionStatus | updateStatus, SnapshotStatus | written by Run, runSession and every slot; read by the UI |
| Handshake (validateRegisterAck, joinSessionConnection) | none | check of an ack | transport, pool size |
| Controller (`ui.go`: clientController) | runner, cancel, done, configuration | Start, Stop, ApplyConfig, Snapshot | Run, UI |
| Web UI (`ui.go`: handleIndex, handleSettings, handleStatus) | none of its own; the log level is global | show the form, check and apply a submitted one | controller |
| Login (`login.go`) | UI sessions, login buckets | login, logout, validate, two sweeps | in front of the web UI |
| Configuration (`config.go`) | none | LoadConfig | main, controller |
| Entry point (`main.go`) | root context, HTTP server | start, shut down | controller, web UI |
| Metrics (`metrics.go`) | counters nothing reads | count | - |
| Tunnel transport (`plex-tunnel-proto`, external) | - | dial, send, receive, close | everything above |

What is hard here: everything in a session is goroutines that act on a shared
pool *by slot index*, with network operations between reading a result and
acting on it (add, then start the ping loop; remove, then start the promoted
connection's loop), while the server may resize the pool at any time. The
breaker is shared by requests whose results arrive in any order, some of which
never report, and the connection a request came on may be lost or cut off under
it. Delays are computed in fixed-width integers over unbounded outages. Settings
requests replace the client by a protocol of two critical sections with a wait
between them. Ping loops judge by the age of a pong that may be waiting unread,
and the login limiter by clocks read before the mutex.

What makes each part correct:

* pool: connections in it imply a control connection or the end of the session;
  one control ping loop at most; a live control connection keeps its role;
  nothing stays behind in slots that were cut off;
* session: each slot has one live maintainer, which owns the connection in it;
  every connection that stays up is watched by the right ping loop; no
  connection is forgotten; an empty pool or a lost control ends the session; a
  cancelled context ends everything;
* proxying: semaphore slots are conserved on every path; nothing follows the end
  of a response; the circuit can always recover; a connection that is cut off
  is closed and rid of its requests;
* keepalive: a server that answers is not given up, one that does not is, in a
  time the intervals bound;
* run loop: delays follow the documented back-off; reconnection and shutdown
  happen;
* controller and web UI: one client runs, with the configuration that is shown
  and that Run can work with; the token survives being masked; the process ends
  when told to;
* login: attempts per address are bounded, a block is served, sessions last as
  long as promised and nothing piles up.

## 2. Modules

| Module | Models | Extends | Proofs |
|---|---|---|---|
| `ConnectionPool` | `pool.go`; one action per method, `PoolSpec` for any caller | - | `ConnectionPool_proofs` |
| `SessionPool` | runSession, startSlot, resize, maintainPoolSlot | `ConnectionPool` | `SessionPool_proofs` (on top of `ConnectionPool_proofs`) |
| `CircuitBreaker` | `circuit.go`, `BreakerSpec` for any caller | - | `CircuitBreaker_proofs` |
| `Proxy` | request case of readLoop, handleHTTPRequest, the loss and draining of a connection | `CircuitBreaker` | `Proxy_proofs` (on top of `CircuitBreaker_proofs`) |
| `Runner` | what the controller relies on in Run (abstract) | - | - |
| `Reconnect` | Run, BackoffDelay, syncPoolStatus, status; implements `Runner` | instantiates `Runner` | `Reconnect_proofs` |
| `Keepalive` | pingLoop in time, with pongs, promotion and stalls | - | `Keepalive_proofs` |
| `Config` | LoadConfig, the settings form, handleSettings' checks (operators) | - | lemmas in `WebUI_proofs` |
| `WebUI` | main, clientController, handleIndex, handleSettings | `Config` | `WebUI_proofs` |
| `Login` | loginRateLimiter, sessionStore, their handlers and sweeps | - | `Login_proofs` |
| `MC*` | symmetry sets, environments and forms for TLC | the module named | - |

Definitions whose comment starts with "Fault:" are not part of a specification:
each is one definition with a plausible mistake in it, used to check that a
property notices.

### ConnectionPool

A connection and its `poolConn` share a name. `conns`, `slotCancels`,
`maxConns`, `controlIndex` and `pingCancel` are the fields of the Go type;
`connPing[c]` is the `pingCancel` field of c's `poolConn`. Cancel functions are
represented by what they cancel: `pingCancel` and `connPing[c]` by the
connection whose loop they end, `slotCancels[i]` by a slot context. `ctlLoops`
and `dataLoop` say which ping loops exist and have not been cancelled through
the pool, `open` which connections nobody has closed.

A method is one step up to its unlock, cancellations of ping loops included (a
ping loop does nothing but ping and close its own connection). Cancelling slot
contexts and closing connections, which other goroutines notice, are steps of
their own, `CancelCtx` and `CloseDrained`. `remove` and `Resize` are split into
their outcomes: nothing there, a data connection, the last connection, control
with an idle successor, control without one; growth, shrink that keeps the
control, that promotes, that leaves nothing.

Names of connections are reused once nothing refers to them, so runs are not
limited to as many joins as there are names.

### SessionPool

A `maintainPoolSlot` goroutine is named by its slot context. Its program counter
stops wherever another goroutine can interfere:

    top -> join -> add -> startControl | startData -> read
    read -> remove -> retry -> top              (a data connection failed)
    read -> remove -> promote -> promoting -> top
    read -> remove -> lost -> done              (nothing left to promote)
    join -> count -> top | done                 (the join failed)
    read -> resized -> read                     (MaxConnectionsUpdate)

`smu` is `session.mu`, held across all of resize; `errCh` is a flag, as its
buffer holds one error and further sends are dropped. `runSession` starts
`granted` slots (the number of the ack, which the code does not cap here), waits,
closes the pool and cancels the session context. `Drop` closes any connection at
any time: the server, the network, or a ping loop that gives up. Which
connections remove sees as busy is chosen freely, which also covers a stream
counter that has not been incremented yet.

`SessionPool` implements `PoolSpec` with the pool's variables as they are: what
is proved of the pool holds in every session. TLC checks this as the property
`PoolSpec` of the run `SessionLiveness`, and `SessionImplementsPool` proves it.

### CircuitBreaker and Proxy

`sinceTrip` counts ticks since the trip up to the cooldown. A request is a
goroutine: start, upstream, body, final or failed, return. Of the upstream's
answer only its class (2xx or not, event stream or not) is kept. `cause` is `context.Cause(timeoutCtx)`: the proxy timeout, or
the cancellation of the slot context the request runs under. Do and Read run
under the slot context only, so a timeout alone does not end them.

A lane is a tunnel connection with the context of its slot and its `streams`
counter. `link` says what has become of it: `lost` is a connection that failed
while its slot lives on (its requests go on and cannot send), `cut` one whose slot
context Resize or the end of the session has cancelled, `closed` one that was then
closed. A cut lane still takes requests: readLoop looks at its context only after
an error of Receive, so such a request has a cancelled context from its first
moment. The drain goroutine polls `streams` up to `DrainPolls` times. `Begin` is
separate from `Accept` because `streams.Add(1)` is executed by the new goroutine:
in between, the lane looks idle.

### Reconnect

Run between sessions, with a session reduced to registered, some number of
connections, lost. `syncPoolStatus` is two steps, as it takes the pool's lock and
then the status lock. `Wrap` and `PowerOfTwo` compute in `Width`-bit integers;
the instance uses 14 bits and a second of 24 ticks, in which the product goes
wrong the way 10^9 does in 64 bits: first negative (attempt 34 in the code),
then zero (55).

`Runner` is what is left of Run for the controller: running until its context is
cancelled, and then, eventually, not. `ImplementsRunner` maps `running` to
`pc # "returned"` and `cancelled` to `ctxDone`. `Runner` states its progress as a
leads-to, which is what a caller needs and says nothing about how it is met.

### Keepalive

Times are ages in ticks: `pongAge` since `lastPong`, `ping` since the oldest ping
without a pong. A loop has its tick pending (`due`), the time to its next one, and
whether it has seen the latest pong (lastObservedPong); its iteration, from the
tick to the ping sent, is one step. A cancelled loop with a tick pending may take
either branch of its select. Removal and promotion are one step here, since their
interleavings are the subject of `SessionPool`.

Time passes only when the process has nothing to do (`Settled`: no tick to take,
no connection to remove, no pong of an answering server overdue), or when it is
stalled: then ages grow, a ticker keeps one tick (as time.Ticker does) and pongs
wait. After a stall, ticks and pongs are taken in any order.

### Config and WebUI

A token is a body and its last four characters, so that masking keeps just the
latter, as `maskToken` does. Other texts are classes: the scheme of a URL, a
subdomain that matches the pattern or does not, a level, the sign of a ping
interval. `LoadOK` and `LoadConfig`
are LoadConfig and main's check of the level; `Rendered` is the form the page
shows, `Settings` and `SettingsOK` what handleSettings makes of a submitted one.
`Checked` is what these checks leave certain of a configuration, `Runnable` what
Run needs of it.

`current` is `c.runner`, `c.cancel` and `c.done`, which change together. A
request's steps are those between which another request can act: the snapshot and
the checks, SetGlobalLevel, the first critical section of ApplyConfig (`ApplySwap`),
the cancellation, the wait, the second critical section (`ApplyStart`). Ids of
clients that have ended and that nobody waits for are reused; `RunnerId` bounds
how many there are at one time. main goes from load to serve, drain, stop, exited;
requests accepted before the shutdown go on until the process ends, also past the
five seconds Shutdown gives them.

### Login

A bucket holds the age of its window and the time its block has left; a caller
that read the clock `lag` ticks ago compares with that time, as the handlers do
(`time.Now()` is an argument of Allow) and both sweeps do. `granted` and `penalty`
are there for the properties: `granted[ip][a]` is how many attempts were let
through at most `a` ticks ago, `penalty` how long the last block has to run. A bucket that is not in the map is one whose times are out of
reach of every comparison. Validate of a session that is valid changes nothing and
is no action.

## 3. Runs

Every passing run is checked for deadlock unless the system may stop in it (a
session or Run that has ended).

| Run | Instance | Shows |
|---|---|---|
| `SessionThreeSlots` | 3 slots, 3 connections, grants up to 3, 1 resize | the pool keeps a control connection and one control loop, a live control is not demoted; data connections are watched; goroutines reach their own connection by index and no connection is forgotten; cut-off slots are empty; slot 0 keeps its goroutine; a control given up is always being reported |
| `SessionLiveness` | 2 slots, 1 resize, shutdown, fair | the session uses the pool as `PoolSpec` allows; shutdown completes; a lost control ends the session; an empty pool is resolved |
| `Proxy` | 2 requests, 2 stream slots, one lane that is lost, cut and replaced, threshold 2, cooldown 1, timeouts, fair | semaphore, stream counters, breaker count, cooldown, end of responses; a cut lane has its streams aborted and is closed and rid of them; the circuit closes once the upstream is healthy, if no request times out or loses its slot and no event stream is open |
| `Reconnect` | attempts up to 8, where nothing overflows | back-off, reconnection, refinement of `Runner` |
| `WebUI` | 2 tabs, 3 clients, 10 environments, 3 edits, fair | the held client runs the shown configuration; only configurations that the checks accept run; the token survives; a client comes back; the process ends |
| `Login` | 1 address, 2 requests, 1 session, limit 2, window 2, block 4, bucket age 7, fair | burst bound, served blocks, lasting sessions, emptied stores |
| `Keepalive` | 2 connections, interval 3, timeout 1, threshold 3, 1 stall | no false alarm; silence detected in time |

Five runs show a disagreement between the code and what the repository says of it:

| Run | What happens |
|---|---|
| `SessionControlWatched` | the control connection is lost, and the one promoted for it is lost before its loop is started (client.go:746-755); the loops of the two promoted connections are started in the wrong order and the second start cancels the loop of the connection that is the control one. client.go:271: "Lane health is owned by the pong watchdog in pingLoop". With two slots this cannot happen; with two slots and a resize it can (client.go:721-729) |
| `ProxyTimeout` | a half-open probe that times out never reports; the circuit refuses every request from then on ("upstream temporarily unavailable", client.go:434) |
| `ReconnectOverflow` | the delay becomes negative or zero in a long outage (reconnect.go:32; README.md:76 "Maximum backoff delay between reconnection attempts") |
| `WebUIOrphan` | two settings requests are in ApplyConfig together; the one that found no client to wait for starts one, the other starts another over it (ui.go:91-111), and the first keeps its tunnel for good. ui.go:400: "Changes are applied immediately and restart the client connection loop." |
| `LoginBurst` | the window is fixed, so that attempts at its end and at the beginning of the next come within one minute (login.go:142). CHANGELOG.md:21: "max 10 POST `/login` attempts per minute per source IP" |

### Bounds

Three slots are what promotion needs: one lost, a busy one, an idle one. Two
slots suffice wherever the question is about one goroutine racing another or a
resize. Three connections allow one that dies, one that replaces it and one
bystander; names are reused. `MaxResizes` bounds the MaxConnectionsUpdate
messages, `MaxGranted` the grant, `FailureCap` the failure count beyond the
threshold, `AttemptCap` the attempt counter, `MaxActive` the published count. A
slot context is never reused, so `EnoughCtx` also bounds a growth by the contexts
left. One resize races everything else in both runs of the session, with the
start-up loop too, which then starts slots outside the pool; what further resizes
do is left to the proofs, which have any number of them: of `CutSlotsEmpty`,
`SlotZeroMaintained`, `NoControlEndsSession`, `PoolSpec` and
`SlotsHaveOneLiveGoroutine`. So is a grant above the pool's limit, whose slots are
outside the pool from the start; in the runs a slot gets outside by a shrink that
comes before the start-up loop has reached it, and add refuses it likewise.

`Proxy`: two requests reach every pair of steps of two handlers, and an answered
one comes again, so that a result from before a trip meets any later state of the
breaker (which is proved for any callers anyway). One lane is enough because lanes
meet only in the semaphore and the breaker; it is replaced once its requests are
gone. `DrainPolls` is 1, which has both outcomes of the wait.

`WebUI`: two settings requests are what the second critical section can be raced
by; three clients are the one held, one being waited for, and the orphan. The
environments and edits differ from a good one in one field each, so every check
decides alone; one more has `ws://`, an interval of zero and whatever else the
checks let pass. `Login`: the limit, window and block keep the order of the real
ones (`LoginAssumption`), two requests make a stale clock meet a newer one
(`MaxLag` 1); `LoginBurst` has exact clocks (`MaxLag` 0). `Keepalive`: a timeout shorter than the interval, as in the
defaults of 30 s and 10 s, three misses, and one stall, the number a control
connection is meant to survive.

Connections, slot contexts and requests are interchangeable, hence the symmetry
in safety runs; the fair runs do without.

### Fairness

* `SessionPool`: each goroutine, runSession and the calls after an unlock keep
  going (the Go scheduler). Dials, registrations and reads end one way or
  another because they have deadlines; no join is assumed to succeed and no
  message to arrive.
* `Proxy`: handlers and time go on, and requests keep coming (weakly fair
  Accept). Admission is strongly fair: a request is at its admission check only
  for a moment, and of infinitely many arriving while the circuit would admit
  one, some are well-formed and reach the check. Do ends because the transport
  has a header timeout, a body because of the proxy timeout; an event stream is
  not assumed to end, nor a send to fail: it ends with its slot context. The
  upstream is assumed nothing; `Recovers` has its health as a premise.
* `Reconnect`: Run can always run and timers fire; a started publication is
  completed.
* `WebUI`: main and handlers go on (Shutdown has a timeout); a cancelled client
  ends, which is `Runner`'s promise. No user, signal or failure is assumed.
* `Login`: time goes on, tickers fire, a caller that waits for a mutex gets it.
* `Keepalive` has no liveness property: its bounds are stated in ticks.

## 4. Proofs

Eight modules, one per component with state. Every theorem holds for any number
of slots, connections, requests, tabs, addresses and so on, from the assumption
its model names (`PoolAssumption`, `SessionAssumption`, `BreakerAssumption`, ...,
which TLC evaluates on each instance) and, for three of them, from a hypothesis
stated in the theorem. All safety properties of the passing runs are proved.
Every inductive invariant was first checked with TLC.

### ConnectionPool_proofs

For any caller of the pool:

* `PoolInv == PoolTypeOK /\ CutSlotsEmpty /\ ControlPresent /\ OneControlLoop`
  is inductive. `ControlPresent` alone is not: a growth could bring an occupied
  slot back into the pool, which `CutSlotsEmpty` excludes, and the case of an
  add needs the types to know that a control index that is not -1 and not
  occupied means the pool was empty. The theorems `PoolTypeCorrect`,
  `ControlAlwaysPresent`, `AtMostOneControlLoop` and `CutSlotsAreEmpty` follow.
* `LiveControlNeverDemoted` is an action property, from `PoolInv` and one case
  per method.

### SessionPool_proofs

The invariant is built in four layers, each proved on top of the one before:

* `BaseInv`: types, what the place a goroutine is at says of what it holds, how
  far runSession is, and that a connection has one holder and is in no slot but
  its holder's (`HeldOK`). This is what `PoolSpec` asks of its callers (a
  connection is added once, a data loop is started once), so
  `SessionImplementsPool` follows, and with it, through the theorems above,
  `SessionKeepsPool`.
* `EndInv` adds that slotCancels[k] ends a goroutine of slot k, that Resize
  cancels none of slot 0, and that slot 0 has its goroutine: that goroutine is
  what an error can always still come from. It gives `LostControlEndsSession` and
  `SlotZeroAlwaysMaintained`, with no bound on resizes.
* `OwnInv` adds which slots have been started (`StartedOK`: a first resize that
  grows the pool starts from the size the ack granted, so it and the start-up
  loop cannot start the same slot), hence that a slot is started once, and that a
  goroutine uses the slot it was started for.
* `SessionInv` adds that each handle ends the loop of its own connection and that
  a goroutine past startConnPingLoop has its loop or the control slot, hence
  `SlotsAlwaysOwned`, `NoConnForgotten` and `DataLanesWatched`.

The last two layers speak of the time up to a second resize, because what they
say is false after it (section 5): `resizes <= 1` is a guard in the properties,
not a bound of the instance.

`LiveInv`, on top of `BaseInv` alone, is about any number of resizes in a session
that was granted one slot: a live goroutine is the one its slot's cancel function
ends, or the resize that cut its slot off is about to cancel it (`LiveOwned`), and
a growth finds nobody alive in the slots it has still to start (`NewSlotsFree`).
`SlotsHaveOneLiveGoroutine` follows. The invariant needs resize to run the cancel
functions before it unlocks session.mu. (No run has it: with one resize it would
show little. TLC found a `ResizeUnlock` that leaves the cancellations to later to
break it, with one slot granted and three resizes.)

### CircuitBreaker_proofs and Proxy_proofs

`BreakerInv == BreakerTypeOK /\ ClosedBelowThreshold` is inductive (the count
moves by one, so it cannot pass the threshold unnoticed), which gives
`BreakerTypeCorrect`, `ClosedExactlyBelowThreshold` and, with one case per method,
`OpenCooldownNeverExtended`. `Proxy` implements `BreakerSpec` (`ImplementsBreaker`),
so requests in any interleaving have these too (`SharedCircuitBelowThreshold`,
`SharedCooldownNotExtended`).

`ProxyInv` is `TypeOK`, `SlotsConserved`, that a request is on a lane exactly
while it has a goroutine and those are finitely many (cardinalities mean nothing
without it), and that a response that was ended leaves nothing but the return;
`SlotsAlwaysConserved` and `ResponseEndsOnce` follow. `DrainAbortsStreams` is
inductive by itself, given the types. `OnlyAbandonedProbesLost`
complements the run `ProxyTimeout`: without timeouts (`~MayTimeOut`) and without
slots being cancelled (`~MayCancel`) a half-open circuit always has a probe that
will report, so these two are the only ways into that state.

### Reconnect_proofs

* `MaximumAlwaysHeld`: no wait exceeds the maximum and its jitter, in integers of
  any width and after any overflow. What an overflow breaks is the other end.
* `IdealUntilOverflow`: whenever 2^attempt seconds fit (`Fits`), the wait is the
  documented one. `WaitsAsDocumented` concludes `DelayFollowsBackoff` where all
  attempts up to `AttemptCap` fit, as in the run `Reconnect`; the run
  `ReconnectOverflow` shows that the hypothesis is needed.
* `RunIsRunner`: the safety part of the refinement `ImplementsRunner`.

The provers know next to nothing of exponentiation; that 2^n is positive and
doubles with n comes from counting the subsets of 1..n (`SubsetsCounted`,
`PowerPositive`, `PowerDoubles`).

### WebUI_proofs

`WebInv` is `HeldRunsCurrent`, `CheckedConfig`, `TypeOK`, that whatever is about
to be applied has been checked (`ConfigsOK`), and the shape of requests and clients.
The shape says nothing of what forms and configurations hold, so `WebTypeCorrect`,
`HeldAlwaysCurrent` and `ClientsChecked` hold for any environments and edits.
`CheckedFallsShort` says what the checks miss of what Run needs: the scheme `ws`
and the sign of the ping interval, and nothing else (section 5).
`TokenKept` has an invariant of its own, `TokenOK`: until a token is typed every
page holds the mask of the one token there is. (`HeldRunsCurrent` is about the
client the controller holds; that there may be others is the run `WebUIOrphan`.)

### Login_proofs

`LoginInv` adds to the types:

* `TrippedStaysShut`: a bucket over its limit is blocked at least until its window
  is over, by every clock, so its count stops (`LoginTypeCorrect`);
* `PenaltyKept`: the bucket knows of every block being served, which gives
  `BlocksAreServed`: the block is looked at before the window, and the sweep
  leaves blocked buckets alone;
* `GrantsCounted`: three bounds on the attempts let through at most a ticks ago,
  by how a compares with the age of the window: within it they are among those
  counted, up to a window further back they are at most Limit more, and a whole
  window after it was over there were none. The last is what makes a new window
  and a sweep safe. `BurstsBounded` is the second. All three hold up to the lag of
  the callers' clocks.

`granted` counts attempts up to an age rather than at an age: sums over ages
would need an induction the provers cannot do, differences of bounds do not.
`SessionsLast` follows from the types.

### Keepalive_proofs

`KeepInv` says which loops there are (`WatchesOK`: each connection that is up has
the loop its role asks for, `EveryConnectionWatched`), that a server that answers
is on time while no process stalled (`Answered`), and that a loop looks before
lastPong is older than the misses still allowed (`LooksInTime`), which gives
`SilenceIsDetected` and `AnsweringIsKept` for any intervals and threshold.

`NoFalseAlarms` (the control connection survives one stall) has two hypotheses:
`FailureThreshold >= 3`, which the code's constant is (client.go:28), and
`PongTimeout <= PingInterval`, which the defaults satisfy and LoadConfig does not
enforce. Neither can be dropped: with a threshold of 2, or an interval of 2 and a
timeout of 3, TLC finds a stall after which an answering control connection is
given up. The invariant it takes, `MissesFew`, says that a stall costs two misses
at the most: the tick that was kept, and one more before the pong of the ping sent
then is due. In `SessionPool` a control connection may be left without its loop
(`SessionControlWatched`); `Keepalive` makes promotion one step, so
`EveryConnectionWatched` is about a promotion that is not interrupted.

### Only model-checked

Liveness is outside the proof system's reach: `ShutdownCompletes`,
`BrokenPoolResolved`, `Recovers`, `CutLaneCloses`, `Reconnects`, `ClientComesBack`,
`ShutdownExits`, `StoresCollected`, and the progress that `Runner` promises
(`ImplementsRunner` beyond its safety part). So is the deadlock check of the runs,
which is about ENABLED.

## 5. Not modelled, and known limits

Not modelled: metrics (nothing reads them); pages, cookies, origin checks and the
comparison of credentials (data handling without state of its own); the fields of
register acks, which are folded into whether a join succeeds; the web UI's own
environment variables. `handleStatus` and `Snapshot` only read.

Where the code and what the repository says of it disagree, besides the five runs
of section 3:

* *Draining aborts.* pool.go:287 says "Wait briefly for active streams to finish
  before closing.", but Resize runs the slots' cancel functions first
  (pool.go:281-283), and requests run under the slot context (client.go:312, 414):
  every active stream is aborted before the wait begins. `DrainAborts` and
  `DrainAbortsStreams` say so; `CutLaneCloses` says what is left of draining: the
  connection is closed and the requests are over. Requests that wait for Plex then
  count as upstream failures (client.go:442), so that shrinking the pool can open
  the circuit of a healthy upstream.
* *The pong timeout.* README.md:75 says of `PLEXTUNNEL_PONG_TIMEOUT` (10 s) "How
  long to wait for a pong reply before considering the connection dead". pingLoop
  compares the age of the last pong with interval and timeout together, at its ticks
  only, and a control connection is given up at the third such tick (client.go:380):
  with the defaults 40 to 70 s, and 100 to 130 s, after the last pong, and never
  less than 30 s after the ping that was not answered. `SilenceDetected` is the
  upper bound the code keeps.
* *ws:// servers.* config.go:77 and ui.go:601 say that the server must be a ws:// or
  wss:// URL, and LoadConfig and handleSettings accept both; runSession refuses
  ws:// in every session (client.go:181, tested in client_test.go:69), so that
  applying it replaces a working client by one that never connects.
  `CheckedConfig` holds; `Runnable` is what it lacks, by `CheckedFallsShort`.
* *A data loop on the control connection.* add answers that a connection is a data
  connection, and startConnPingLoop is called after the unlock (client.go:721-731).
  If remove promotes it in between, it gets a data loop beside its control loop,
  which gives it up at one missed pong: client.go:28 has three for the control
  connection, and client_handshake_test.go:590 is
  TestPingLoopPromotesAfterThreeMissedPongs. TLC finds it with two slots.
* *Two goroutines of a slot.* The start-up loop takes session.mu once per slot
  (client.go:246-252). A shrink and a growth in the middle of it make resize start a
  slot (client.go:100) that the loop then starts again. Each of the two goroutines
  overwrites the other's connection in the slot, and remove, which goes by index,
  takes the other's out and ends its ping loop: that connection is read on with
  nobody watching it, against client.go:271, "Lane health is owned by the pong
  watchdog in pingLoop". TLC finds it with two slots and two resizes. In sessions
  granted one slot it cannot happen (`SlotsHaveOneLiveGoroutine`).

What else the models show or had to work around, and no run states:

* replacePingLoop and remove call the cancel functions they swapped out after the
  unlock (pool.go:168-173); `ReplacePingLoop` makes the call part of the step. In
  between the old loop can only ping or close its own connection, which `Drop` does
  at any time, or count a miss, which `Keepalive` has its cancelled loops do.
* `attempt` (client.go:142) is reset only if runSession returns nil with its
  context alive, which it does not: a client that loses its session once a day
  shows, and waits, as if it had failed all week. The page says "Number of current
  retry attempt after a disconnection." (ui.go:379).
* ActiveConnections is not reset when a session fails (client.go:162-167), and a
  late syncPoolStatus may set it after the end of its session.
* A result from before a trip that arrives while the circuit is half-open is taken
  for the probe's; a failure restarts the cooldown. `CooldownNotExtended` is about
  the open circuit.
* An event stream that is admitted as the probe of a half-open circuit reports when
  it ends; until then every other request is refused. `Recovers` excepts it.
* A cancelled control loop that takes a tick instead of its cancellation may add a
  miss to the counter its successor has just cleared (client.go:384); the successor
  then tolerates one miss less. `NoFalseAlarm` excepts it (`miscount`). Data
  connections do not survive a stall longer than their timeout, and two stalls use
  up the tolerance of the control connection. So does a single one where
  `PLEXTUNNEL_PONG_TIMEOUT` is longer than `PLEXTUNNEL_PING_INTERVAL`, which
  nothing in LoadConfig excludes: see `NoFalseAlarms` in section 4.
* `PLEXTUNNEL_PING_INTERVAL` of zero or less is accepted and panics in
  time.NewTicker (client.go:359; see `CheckedFallsShort`); `PLEXTUNNEL_UI_SESSION_TTL` of zero or less is accepted.
* Of two concurrent settings requests the later ApplyConfig wins in every field, as
  each applies a whole snapshot. A page loaded before the token was changed submits
  the mask of the old token, which is then taken for a new token. The global level
  is set outside the mutex and may be that of the request that lost.
* A configuration without a maximum is rendered as "0", which handleSettings
  rejects: such a form cannot be sent back unchanged. handleSettings does not check
  the subdomain, LoadConfig does.
* main.go:44 says of the listen address "Set empty to disable."; getenvDefault
  replaces an empty value by the default, so the UI cannot be disabled.
* What the login limiter does bound (see `LoginBurst`) is `BurstBound`: up to twice the limit minus one
  get through within a minute, and twice the limit within a window's time and a
  tick. With clocks two or more ticks late a third window's attempts may
  fall into the last ticks of that time; `BurstBound` leaves those out.
* `SlotOwned`, `ConnAccounted` and `DataWatched` hold up to the second resize (with
  `resizes <= 1`), whatever the pool's size. After a shrink followed by a growth, a
  goroutine of the old slot that is still joining can add its connection to the
  slot of the new goroutine, and its data ping loop starts under a cancelled
  context, so the old goroutine, though no longer alive, disturbs the new one.
* After the session has ended, a connection whose add comes after `pool.close`
  collected its list is not closed (client.go:738 returns without Close), nor is
  an initial connection when the context is found cancelled at client.go:685.
  `ConnAccounted` is therefore stated for sessions that are up.
* Answers with a status outside 2xx, 304 and 404 included, count as upstream
  failures (client.go:448), and so does a request cancelled with its slot
  (client.go:442). The models do the same; no property says they should not.

## 6. Plan

1. `SessionPool` after any number of resizes: what still holds of a slot with two
   goroutines (a connection is in at most one slot and has at most one holder,
   which `HeldOK` already says, and what the second goroutine's removal leaves).
2. `CutLaneCloses` without fairness: a lane that is closed has no request whose
   send can succeed, as an invariant of `Proxy_proofs`.
3. `WebUI`: how many orphans there can be, against the number of settings requests
   under way.
4. Handshake: acks against the pool size of the moment, with the server's side.
