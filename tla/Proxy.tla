-------------------------------- MODULE Proxy --------------------------------
(***************************************************************************)
(* Proxied requests (src/pkg/client/client.go): the request case of        *)
(* readLoop, with the semaphore that bounds concurrent streams,            *)
(* handleHTTPRequest, with the circuit breaker it shares with every other  *)
(* request of the client, and what happens to the requests of a tunnel     *)
(* connection that is lost or removed (src/pkg/client/pool.go).            *)
(*                                                                         *)
(* A request is one goroutine.  Between two of its steps any other request *)
(* can run.  The contents of requests and responses are left out: of an    *)
(* upstream answer only its class matters (fails: not 2xx; sse: an event   *)
(* stream).  A lane is a connection with the context of its slot and its   *)
(* counter of streams; which slots have one is SessionPool.                *)
(***************************************************************************)
EXTENDS CircuitBreaker, FiniteSets

CONSTANTS
  Req,         \* requests; an answered one can be sent again
  Lane,        \* lanes; one that is gone can be used for another connection
  NoLane,      \* the lane of no request
  MaxStreams,  \* maxConcurrentStreams, 128 in client.go:24
  DrainPolls,  \* polls of the drain goroutine, 50 in pool.go:288
  MayTimeOut,  \* whether a request may outlive proxyRequestTimeout
  MayCancel    \* whether a slot context may be cancelled

ASSUME ProxyAssumption ==
  /\ NoLane \notin Lane
  /\ MaxStreams \in Nat \ {0}
  /\ DrainPolls \in Nat
  /\ MayTimeOut \in BOOLEAN
  /\ MayCancel \in BOOLEAN

VARIABLES
  pc,      \* where each request's goroutine is
  sem,     \* len(c.streamSem)
  cause,   \* context.Cause(timeoutCtx)
  fails,   \* upstreamFailure: the answer's status is not 2xx
  sse,     \* isSSE
  reply,   \* what of the response went out: nothing, a part, all of it
  on,      \* connRef, the lane each request came on
  link,    \* lanes: up; lost; cut off by a cancelled slot context; closed too
  streams, \* connRef.streams
  polls,   \* how often the drain goroutine has looked at streams
  healthy  \* the upstream answers, with a 2xx status (environment)

reqVars == <<pc, cause, fails, sse, reply>>
laneVars == <<link, streams, polls>>
vars == <<breakerVars, reqVars, on, laneVars, sem, healthy>>

\* Breaker, requests and semaphore stay within their types and bounds.
TypeOK ==
  /\ BreakerTypeOK
  /\ pc \in [Req -> {"none", "spawned", "start", "upstream", "body", "final", "failed",
                     "return"}]
  /\ on \in [Req -> Lane \cup {NoLane}]
  /\ link \in [Lane -> {"up", "lost", "cut", "closed"}]
  /\ streams \in [Lane -> 0 .. MaxStreams]
  /\ polls \in [Lane -> 0 .. DrainPolls]
  /\ sem \in 0 .. MaxStreams
  /\ cause \in [Req -> {"none", "timeout", "cancelled"}]
  /\ fails \in [Req -> BOOLEAN]
  /\ sse \in [Req -> BOOLEAN]
  /\ reply \in [Req -> {"none", "part", "all"}]
  /\ healthy \in BOOLEAN

Init ==
  /\ BreakerInit
  /\ pc = [r \in Req |-> "none"]
  /\ sem = 0
  /\ cause = [r \in Req |-> "none"]
  /\ fails = [r \in Req |-> FALSE]
  /\ sse = [r \in Req |-> FALSE]
  /\ reply = [r \in Req |-> "none"]
  /\ on = [r \in Req |-> NoLane]
  /\ link = [l \in Lane |-> "up"]
  /\ streams = [l \in Lane |-> 0]
  /\ polls = [l \in Lane |-> 0]
  /\ healthy = TRUE

Goto(r, label) == pc' = [pc EXCEPT ![r] = label]

\* The connection was not closed.  (It may be broken all the same.)
Open(l) == link[l] \in {"up", "cut"}

\* A send on the tunnel connection fails, or it goes out.
Sends(r, what) ==
  \/ UNCHANGED reply
  \/ Open(on[r]) /\ reply' = [reply EXCEPT ![r] = what]

-----------------------------------------------------------------------------
(* readLoop, MsgHTTPRequest *)

\* A slot in the semaphore is free: the request gets a goroutine.  readLoop
\* looks at its context after an error of Receive only, so that it takes
\* requests from a lane that is cut off and not yet closed.
Accept(r, l) ==
  /\ pc[r] = "none"
  /\ Open(l)
  /\ sem < MaxStreams
  /\ sem' = sem + 1
  /\ on' = [on EXCEPT ![r] = l]
  /\ Goto(r, "spawned")
  /\ UNCHANGED <<breakerVars, cause, fails, sse, reply, laneVars, healthy>>

\* No slot is free: the request is answered 503 without a goroutine.
Overloaded(l) ==
  /\ Open(l)
  /\ sem = MaxStreams
  /\ UNCHANGED vars

\* The slot context of the request's lane was cancelled.
SlotCancelled(r) == on[r] # NoLane /\ link[on[r]] \in {"cut", "closed"}

\* Fault: reqCtx is not made from the context of the slot.
BeginDetached(r) ==
  /\ pc[r] = "spawned"
  /\ streams' = [streams EXCEPT ![on[r]] = @ + 1]
  /\ Goto(r, "start")
  /\ UNCHANGED <<breakerVars, cause, fails, sse, reply, on, link, polls, sem, healthy>>

\* The goroutine begins: it counts itself, and reqCtx is made.
Begin(r) ==
  /\ pc[r] = "spawned"
  /\ streams' = [streams EXCEPT ![on[r]] = @ + 1]
  /\ cause' = [cause EXCEPT ![r] = IF SlotCancelled(r) THEN "cancelled" ELSE "none"]
  /\ Goto(r, "start")
  /\ UNCHANGED <<breakerVars, fails, sse, reply, on, link, polls, sem, healthy>>

-----------------------------------------------------------------------------
(* handleHTTPRequest *)

\* The request has no id (no answer), is a continuation frame, has a path that
\* does not stay on the target, or cannot be built.
BadRequest(r) ==
  /\ pc[r] = "start"
  /\ Sends(r, "all")
  /\ Goto(r, "return")
  /\ UNCHANGED <<breakerVars, sem, cause, fails, sse, on, laneVars, healthy>>

Admit(r) ==
  /\ pc[r] = "start"
  /\ AllowClosed \/ AllowProbe
  /\ Goto(r, "upstream")
  /\ UNCHANGED <<sem, cause, fails, sse, reply, on, laneVars, healthy>>

\* Fault: after the refusal is sent the handler goes on with the request.
RefuseFallsThrough(r) ==
  /\ pc[r] = "start"
  /\ Deny
  /\ Sends(r, "all")
  /\ Goto(r, "upstream")
  /\ UNCHANGED <<sem, cause, fails, sse, on, laneVars, healthy>>

Refuse(r) ==
  /\ pc[r] = "start"
  /\ Deny
  /\ Sends(r, "all")
  /\ Goto(r, "return")
  /\ UNCHANGED <<sem, cause, fails, sse, on, laneVars, healthy>>

\* An error counts as an upstream failure unless the proxy timeout has passed.
RecordError(r) ==
  IF cause[r] = "timeout" THEN UNCHANGED breakerVars ELSE RecordFailure

\* Fault: the request to the upstream has no context.
DoEndsNever(r) == FALSE

\* The request runs under the slot context, not under timeoutCtx: only the
\* cancellation of the former, which may follow the timeout, ends Do and Read.
DoEnds(r) == SlotCancelled(r)

\* Do returns an error: the upstream does not answer, or the slot context was
\* cancelled.
UpstreamError(r) ==
  /\ pc[r] = "upstream"
  /\ ~healthy \/ DoEnds(r)
  /\ RecordError(r)
  /\ Goto(r, "failed")
  /\ UNCHANGED <<sem, cause, fails, sse, reply, on, laneVars, healthy>>

AnswerError(r) ==
  /\ pc[r] = "failed"
  /\ Sends(r, "all")
  /\ Goto(r, "return")
  /\ UNCHANGED <<breakerVars, sem, cause, fails, sse, on, laneVars, healthy>>

\* The upstream answers.
UpstreamAnswer(r, bad, stream) ==
  /\ pc[r] = "upstream"
  /\ bad => ~healthy
  /\ fails' = [fails EXCEPT ![r] = bad]
  /\ sse' = [sse EXCEPT ![r] = stream]
  /\ Goto(r, "body")
  /\ UNCHANGED <<breakerVars, sem, cause, reply, on, laneVars, healthy>>

\* The result of a request whose answer was read: its status decides.
RecordStatus(r) == IF fails[r] THEN RecordFailure ELSE RecordSuccess

\* A piece of the body is read and sent on.
Chunk(r) ==
  /\ pc[r] = "body"
  /\ Open(on[r])
  /\ Sends(r, "part")
  /\ UNCHANGED <<breakerVars, pc, sem, cause, fails, sse, on, laneVars, healthy>>

\* The send of a piece fails: the tunnel's fault, so the status still counts.
ChunkLost(r) ==
  /\ pc[r] = "body"
  /\ RecordStatus(r)
  /\ Goto(r, "return")
  /\ UNCHANGED <<sem, cause, fails, sse, reply, on, laneVars, healthy>>

\* The read of the body fails.
BodyError(r) ==
  /\ pc[r] = "body"
  /\ ~healthy \/ DoEnds(r)
  /\ RecordError(r)
  /\ Goto(r, "return")
  /\ UNCHANGED <<sem, cause, fails, sse, reply, on, laneVars, healthy>>

\* timeoutCtx ends while the body of anything but an event stream is read: by
\* the timeout, or by the cancellation of the slot context.
BodyAbandoned(r) ==
  /\ pc[r] = "body"
  /\ ~sse[r]
  /\ cause[r] # "none"
  /\ Goto(r, "return")
  /\ UNCHANGED <<breakerVars, sem, cause, fails, sse, reply, on, laneVars, healthy>>

BodyEnd(r) ==
  /\ pc[r] = "body"
  /\ Goto(r, "final")
  /\ UNCHANGED <<breakerVars, sem, cause, fails, sse, reply, on, laneVars, healthy>>

\* The last message is sent; whether that fails or not, the status counts.
Final(r) ==
  /\ pc[r] = "final"
  /\ Sends(r, "all")
  /\ RecordStatus(r)
  /\ Goto(r, "return")
  /\ UNCHANGED <<sem, cause, fails, sse, on, laneVars, healthy>>

\* The request's goroutine and what it knew are gone.
Forget(r) ==
  /\ Goto(r, "none")
  /\ cause' = [cause EXCEPT ![r] = "none"]
  /\ fails' = [fails EXCEPT ![r] = FALSE]
  /\ sse' = [sse EXCEPT ![r] = FALSE]
  /\ reply' = [reply EXCEPT ![r] = "none"]
  /\ on' = [on EXCEPT ![r] = NoLane]

\* Fault: a request given up on does not give its semaphore slot back.
ReturnKeepsSlot(r) ==
  /\ pc[r] = "return"
  /\ sem' = IF reply[r] = "all" THEN sem - 1 ELSE sem
  /\ streams' = [streams EXCEPT ![on[r]] = @ - 1]
  /\ Forget(r)
  /\ UNCHANGED <<breakerVars, link, polls, healthy>>

\* The deferred calls of the goroutine.
Return(r) ==
  /\ pc[r] = "return"
  /\ sem' = sem - 1
  /\ streams' = [streams EXCEPT ![on[r]] = @ - 1]
  /\ Forget(r)
  /\ UNCHANGED <<breakerVars, link, polls, healthy>>

-----------------------------------------------------------------------------
(* Lanes *)

\* readLoop or pingLoop gives the connection up; the slot context lives on.
Lose(l) ==
  /\ link[l] = "up"
  /\ link' = [link EXCEPT ![l] = "lost"]
  /\ UNCHANGED <<breakerVars, reqVars, on, streams, polls, sem, healthy>>

\* The slot context is cancelled, by Resize, which leaves the connection to the
\* drain goroutine, or at the end of the session, when close is next (patience
\* spent).  Contexts made from it are cancelled unless they have timed out.
Cut(l, spent) ==
  /\ MayCancel
  /\ link[l] \in {"up", "lost"}
  /\ link' = [link EXCEPT ![l] = IF @ = "up" THEN "cut" ELSE "closed"]
  /\ polls' = [polls EXCEPT ![l] = IF link[l] = "up" THEN spent ELSE 0]
  /\ cause' = [r \in Req |->
       IF on[r] = l /\ pc[r] # "spawned" /\ cause[r] = "none" THEN "cancelled"
       ELSE cause[r]]
  /\ UNCHANGED <<breakerVars, pc, fails, sse, reply, on, streams, sem, healthy>>

\* Fault: the drain goroutine waits as long as there are streams.
DrainPollsOn(l) ==
  /\ link[l] = "cut"
  /\ streams[l] # 0
  /\ polls' = [polls EXCEPT ![l] = @ + 1]
  /\ UNCHANGED <<breakerVars, reqVars, on, link, streams, sem, healthy>>

\* The drain goroutine of Resize sees streams and sleeps.
DrainPoll(l) ==
  /\ link[l] = "cut"
  /\ streams[l] # 0
  /\ polls[l] < DrainPolls
  /\ polls' = [polls EXCEPT ![l] = @ + 1]
  /\ UNCHANGED <<breakerVars, reqVars, on, link, streams, sem, healthy>>

\* It sees none, or has waited long enough.
DrainClose(l) ==
  /\ link[l] = "cut"
  /\ streams[l] = 0 \/ polls[l] = DrainPolls
  /\ link' = [link EXCEPT ![l] = "closed"]
  /\ polls' = [polls EXCEPT ![l] = 0]
  /\ UNCHANGED <<breakerVars, reqVars, on, streams, sem, healthy>>

\* Another connection joins.
Join(l) ==
  /\ link[l] \in {"lost", "closed"}
  /\ \A r \in Req : on[r] # l
  /\ link' = [link EXCEPT ![l] = "up"]
  /\ UNCHANGED <<breakerVars, reqVars, on, streams, polls, sem, healthy>>

-----------------------------------------------------------------------------
(* The environment *)

Expire(r) ==
  /\ MayTimeOut
  /\ pc[r] \notin {"none", "spawned"}
  /\ cause[r] = "none"
  /\ cause' = [cause EXCEPT ![r] = "timeout"]
  /\ UNCHANGED <<breakerVars, pc, fails, sse, reply, on, laneVars, sem, healthy>>

Health ==
  /\ healthy' = ~healthy
  /\ UNCHANGED <<breakerVars, reqVars, on, laneVars, sem>>

TimePasses == Tick /\ UNCHANGED <<reqVars, on, laneVars, sem, healthy>>

\* What a request does by itself, whatever the upstream does.  The transport
\* has a timeout for the headers and proxyRequestTimeout is one for the body; an
\* event stream has none and ends only if its context does.
Handle(r) ==
  \/ Begin(r) \/ Admit(r) \/ Refuse(r)
  \/ UpstreamError(r) \/ AnswerError(r)
  \/ \E bad, stream \in BOOLEAN : UpstreamAnswer(r, bad, stream)
  \/ DoEnds(r) /\ BodyError(r)
  \/ ~sse[r] /\ (BodyAbandoned(r) \/ BodyEnd(r))
  \/ Final(r) \/ Return(r)

Drain(l) == DrainPoll(l) \/ DrainClose(l)

Next ==
  \/ \E r \in Req, l \in Lane : Accept(r, l)
  \/ \E r \in Req : BadRequest(r) \/ Handle(r)
  \/ \E r \in Req : Chunk(r) \/ ChunkLost(r) \/ BodyError(r) \/ BodyEnd(r)
  \/ \E r \in Req : Expire(r)
  \/ \E l \in Lane : Overloaded(l) \/ Lose(l) \/ Drain(l) \/ Join(l)
  \/ \E l \in Lane : Cut(l, 0) \/ Cut(l, DrainPolls)
  \/ Health
  \/ TimePasses

Spec == Init /\ [][Next]_vars

-----------------------------------------------------------------------------
(* Properties *)

\* Requests the breaker let through that have not reported their result.
Unreported == {r \in Req : pc[r] \in {"upstream", "body", "final"}}

\* The semaphore counts the requests that have a goroutine, on every path out
\* of the handler: a slot is neither lost, which would end in a client that
\* answers everything with 503, nor given back twice.  A lane's streams, by
\* which remove finds an idle connection and the drain goroutine an empty one,
\* count its requests but those whose goroutines have not begun.
SlotsConserved ==
  /\ sem = Cardinality({r \in Req : pc[r] # "none"})
  /\ \A l \in Lane : streams[l] =
       Cardinality({r \in Req : on[r] = l /\ pc[r] # "spawned"})

\* "upstream temporarily unavailable" (client.go:434): a refusal is temporary.
\* Only the report of a request that was let through ends the half-open state,
\* so while the circuit is half-open such a request must be under way.
HalfOpenHasProbe == state = "half-open" => Unreported # {}

\* The server sees nothing of a response after the message that ends it, on
\* any path through the handler: an error answer is never followed by a body.
NothingAfterEnd ==
  [][\A r \in Req : reply[r] = "all" /\ pc'[r] # "none" => reply'[r] = "all"]_vars

\* Requests keep coming; goroutines and time go on.
Fairness ==
  /\ \A r \in Req : /\ WF_vars(Handle(r)) /\ SF_vars(Admit(r))
                    /\ WF_vars(\E l \in Lane : Accept(r, l))
  /\ \A l \in Lane : WF_vars(Drain(l))
  /\ WF_vars(TimePasses)

FairSpec == Spec /\ Fairness

\* Once the upstream is healthy and the tunnel up for good, requests get through
\* again: the circuit closes and stays closed, whatever was in flight before.
\* Requests that time out or lose their slot (HalfOpenHasProbe) and an event
\* stream that does not end, which may be the probe, are excepted.
Recovers ==
  /\ <>[](/\ healthy
          /\ \A l \in Lane : link[l] = "up"
          /\ \A r \in Req : ~sse[r])
  /\ [](\A r \in Req : cause[r] = "none")
  => <>[](state = "closed")

\* A connection that Resize removed, or the end of the session, is closed in the
\* end and its requests are over, event streams too, which no timeout ends, and
\* also those it took while it was being drained.  (Over, not finished: see
\* DrainAborts.)
CutLaneCloses ==
  \A l \in Lane :
    link[l] = "cut" ~> link[l] = "closed" /\ \A r \in Req : on[r] # l

\* What the drain is to the streams on the lane.  A comment of Resize says "Wait
\* briefly for active streams to finish before closing." (pool.go:287), but the
\* slot context is cancelled first (pool.go:282): no stream is given the time to
\* finish.  Each of them, whether it was active before, had been accepted and not
\* begun, or is taken while the drain goroutine waits, is told to stop, unless it
\* was by its timeout.  So what the wait leaves is the end of the handlers only.
DrainAborts ==
  \A r \in Req : pc[r] \in {"start", "upstream", "body"} /\ SlotCancelled(r)
                 => cause[r] # "none"
=============================================================================
