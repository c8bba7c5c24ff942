-------------------------------- MODULE Login --------------------------------
(***************************************************************************)
(* The web UI's login (src/cmd/client/login.go): the rate limiter in front *)
(* of POST /login, the session store behind it, and the sweeps of both.    *)
(*                                                                         *)
(* Time is relative: what the code keeps as a time is here how long ago it *)
(* was or how far off it is, up to where no comparison tells more.  A      *)
(* caller reads the clock before it has the mutex, so it may act on a time *)
(* that is MaxLag ticks old, after others that read a later one.           *)
(***************************************************************************)
EXTENDS Integers

CONSTANTS
  Ip,            \* remote addresses
  Req,           \* POST /login requests under way at one time
  Session,       \* bound: UI sessions at one time
  Limit,         \* attempts per window, 10 in login.go:150
  LoginWindow,   \* loginWindow in ticks
  BlockDuration, \* loginBlockDuration in ticks
  BucketMaxAge,  \* loginBucketMaxAge in ticks
  TTL,           \* PLEXTUNNEL_UI_SESSION_TTL in ticks
  MaxLag         \* bound: ticks between reading the clock and the mutex

\* The durations are related as those of login.go:19-21 are.
ASSUME LoginAssumption ==
  /\ Ip # {}
  /\ {Limit, LoginWindow, BlockDuration, BucketMaxAge} \subseteq Nat \ {0}
  /\ TTL \in Nat
  /\ MaxLag \in Nat
  /\ LoginWindow + MaxLag < BlockDuration
  /\ LoginWindow + BlockDuration + MaxLag <= BucketMaxAge

VARIABLES
  bucket,  \* l.buckets
  req,     \* POST /login requests
  created, \* s.sessions: ticks since a session's createdAt, or None
  sweeps,  \* the two sweeps: ticks since each read the clock, or None
  granted, \* attempts let through at most so many ticks ago (auxiliary)
  penalty  \* ticks until the last block has been served (auxiliary)

vars == <<bucket, req, created, sweeps, granted, penalty>>

None == -1                          \* no session, no sweep under way
Zero == -(MaxLag + 1)               \* a blockedUntil before any time in use
Oldest == BucketMaxAge + MaxLag + 1 \* a windowStart before any that matters
Expired == TTL + MaxLag + 1

\* A bucket that is not in the map is like one that is long over, but empty.
NoBucket == [attempts |-> 0, windowAge |-> Oldest, blockedFor |-> Zero]

Idle == [pc |-> "idle", ip |-> CHOOSE ip \in Ip : TRUE, lag |-> 0]

\* Buckets, requests and sessions stay within their types; the attempts in a
\* bucket stop at the one that trips it.
TypeOK ==
  /\ bucket \in [Ip -> [attempts : 0 .. Limit + 1, windowAge : 0 .. Oldest,
                        blockedFor : Zero .. BlockDuration]]
  /\ req \in [Req -> [pc : {"idle", "arrived", "allowed"}, ip : Ip,
                      lag : 0 .. MaxLag]]
  /\ created \in [Session -> None .. Expired]
  /\ sweeps \in [{"buckets", "sessions"} -> None .. MaxLag]
  /\ granted \in [Ip -> [0 .. LoginWindow -> Nat]]
  /\ penalty \in [Ip -> 0 .. BlockDuration]

Init ==
  /\ bucket = [ip \in Ip |-> NoBucket]
  /\ req = [r \in Req |-> Idle]
  /\ created = [s \in Session |-> None]
  /\ sweeps = [w \in {"buckets", "sessions"} |-> None]
  /\ granted = [ip \in Ip |-> [a \in 0 .. LoginWindow |-> 0]]
  /\ penalty = [ip \in Ip |-> 0]

-----------------------------------------------------------------------------
(* loginRateLimiter.Allow, for a caller whose clock is lag ticks behind *)

\* now.Before(bucket.blockedUntil)
Blocked(b, lag) == b.blockedFor + lag > 0

\* now.Sub(bucket.windowStart) > loginWindow
WindowOver(b, lag) == b.windowAge - lag > LoginWindow

\* The caller has the mutex and is not turned away by a block.
Unblocked(r) ==
  req[r].pc = "arrived" /\ ~Blocked(bucket[req[r].ip], req[r].lag)

InWindow(r) == Unblocked(r) /\ ~WindowOver(bucket[req[r].ip], req[r].lag)

Grant(r) ==
  /\ granted' = [granted EXCEPT ![req[r].ip] = [a \in 0 .. LoginWindow |-> @[a] + 1]]
  /\ req' = [req EXCEPT ![r].pc = "allowed", ![r].lag = 0]
  /\ UNCHANGED <<created, sweeps, penalty>>

AllowDenied(r) ==
  /\ req[r].pc = "arrived"
  /\ Blocked(bucket[req[r].ip], req[r].lag)
  /\ req' = [req EXCEPT ![r] = Idle]
  /\ UNCHANGED <<bucket, created, sweeps, granted, penalty>>

\* Fault: a window that is over is restarted before the block is looked at.
AllowFreshUnblocks(r) ==
  /\ req[r].pc = "arrived"
  /\ WindowOver(bucket[req[r].ip], req[r].lag)
  /\ bucket' = [bucket EXCEPT ![req[r].ip] =
                  [attempts |-> 1, windowAge |-> req[r].lag, blockedFor |-> Zero]]
  /\ Grant(r)

AllowFresh(r) ==
  /\ Unblocked(r)
  /\ WindowOver(bucket[req[r].ip], req[r].lag)
  /\ bucket' = [bucket EXCEPT ![req[r].ip] =
                  [attempts |-> 1, windowAge |-> req[r].lag, blockedFor |-> Zero]]
  /\ Grant(r)

\* Fault: the attempt after the last one allowed is allowed too.
AllowCountedOneMore(r) ==
  /\ InWindow(r)
  /\ bucket[req[r].ip].attempts <= Limit
  /\ bucket' = [bucket EXCEPT ![req[r].ip].attempts = @ + 1]
  /\ Grant(r)

AllowCounted(r) ==
  /\ InWindow(r)
  /\ bucket[req[r].ip].attempts < Limit
  /\ bucket' = [bucket EXCEPT ![req[r].ip].attempts = @ + 1]
  /\ Grant(r)

\* Fault: an attempt over the limit is counted and does not start a block.
AllowOverLimitOnly(r) ==
  /\ InWindow(r)
  /\ bucket[req[r].ip].attempts >= Limit
  /\ bucket' = [bucket EXCEPT ![req[r].ip].attempts = @ + 1]
  /\ req' = [req EXCEPT ![r] = Idle]
  /\ UNCHANGED <<created, sweeps, granted, penalty>>

AllowTrips(r) ==
  /\ InWindow(r)
  /\ bucket[req[r].ip].attempts >= Limit
  /\ bucket' = [bucket EXCEPT
                  ![req[r].ip].attempts = @ + 1,
                  ![req[r].ip].blockedFor = BlockDuration - req[r].lag]
  /\ penalty' = [penalty EXCEPT ![req[r].ip] = BlockDuration - req[r].lag]
  /\ req' = [req EXCEPT ![r] = Idle]
  /\ UNCHANGED <<created, sweeps, granted>>

-----------------------------------------------------------------------------
(* The handlers *)

\* handleLoginPost reads the clock for Allow.
Arrive(r, ip) ==
  /\ req[r].pc = "idle"
  /\ req' = [req EXCEPT ![r] = [pc |-> "arrived", ip |-> ip, lag |-> 0]]
  /\ UNCHANGED <<bucket, created, sweeps, granted, penalty>>

\* The form does not parse or Verify fails.
LoginFails(r) ==
  /\ req[r].pc = "allowed"
  /\ req' = [req EXCEPT ![r] = Idle]
  /\ UNCHANGED <<bucket, created, sweeps, granted, penalty>>

\* Create: the clock is read with the mutex held.
LoginSucceeds(r, s) ==
  /\ req[r].pc = "allowed"
  /\ created[s] = None
  /\ created' = [created EXCEPT ![s] = 0]
  /\ req' = [req EXCEPT ![r] = Idle]
  /\ UNCHANGED <<bucket, sweeps, granted, penalty>>

\* handleLogoutPost
Logout(s) ==
  /\ created[s] # None
  /\ created' = [created EXCEPT ![s] = None]
  /\ UNCHANGED <<bucket, req, sweeps, granted, penalty>>

\* requireSession: Validate drops a session that is over (and changes nothing
\* for one that is not).
ValidateExpired(s) ==
  /\ created[s] > TTL
  /\ created' = [created EXCEPT ![s] = None]
  /\ UNCHANGED <<bucket, req, sweeps, granted, penalty>>

-----------------------------------------------------------------------------
(* The sweeps, each a goroutine with a ticker *)

SweepBegin(w) ==
  /\ sweeps[w] = None
  /\ sweeps' = [sweeps EXCEPT ![w] = 0]
  /\ UNCHANGED <<bucket, req, created, granted, penalty>>

\* Fault: a sweep takes away a session the moment its time is up.
SweepSessionsEarly ==
  /\ sweeps["sessions"] # None
  /\ created' = [s \in Session |-> IF created[s] - sweeps["sessions"] >= TTL
                                   THEN None ELSE created[s]]
  /\ sweeps' = [sweeps EXCEPT !["sessions"] = None]
  /\ UNCHANGED <<bucket, req, granted, penalty>>

SweepSessions ==
  /\ sweeps["sessions"] # None
  /\ created' = [s \in Session |-> IF created[s] - sweeps["sessions"] > TTL
                                   THEN None ELSE created[s]]
  /\ sweeps' = [sweeps EXCEPT !["sessions"] = None]
  /\ UNCHANGED <<bucket, req, granted, penalty>>

Sweepable(b, lag) == b.windowAge - lag > BucketMaxAge /\ b.blockedFor + lag < 0

\* Fault: the sweep leaves the buckets that were ever blocked.
SweepBucketsUnblocked ==
  /\ sweeps["buckets"] # None
  /\ bucket' = [ip \in Ip |-> IF /\ Sweepable(bucket[ip], sweeps["buckets"])
                                 /\ bucket[ip].attempts <= Limit
                              THEN NoBucket ELSE bucket[ip]]
  /\ sweeps' = [sweeps EXCEPT !["buckets"] = None]
  /\ UNCHANGED <<req, created, granted, penalty>>

SweepBuckets ==
  /\ sweeps["buckets"] # None
  /\ bucket' = [ip \in Ip |-> IF Sweepable(bucket[ip], sweeps["buckets"])
                              THEN NoBucket ELSE bucket[ip]]
  /\ sweeps' = [sweeps EXCEPT !["buckets"] = None]
  /\ UNCHANGED <<req, created, granted, penalty>>

-----------------------------------------------------------------------------
Older(age, cap) == IF age < cap THEN age + 1 ELSE cap
Nearer(t, floor) == IF t > floor THEN t - 1 ELSE floor

\* Time passes.  Nobody who has read the clock falls behind by more than MaxLag.
Tick ==
  /\ \A r \in Req : req[r].pc = "arrived" => req[r].lag < MaxLag
  /\ \A w \in DOMAIN sweeps : sweeps[w] < MaxLag
  /\ bucket' = [ip \in Ip |->
       [bucket[ip] EXCEPT !.windowAge = Older(@, Oldest),
                          !.blockedFor = Nearer(@, Zero)]]
  /\ req' = [r \in Req |-> IF req[r].pc = "arrived"
                           THEN [req[r] EXCEPT !.lag = @ + 1] ELSE req[r]]
  /\ created' = [s \in Session |-> IF created[s] = None THEN None
                                   ELSE Older(created[s], Expired)]
  /\ sweeps' = [w \in DOMAIN sweeps |-> IF sweeps[w] = None THEN None
                                        ELSE sweeps[w] + 1]
  /\ granted' = [ip \in Ip |-> [a \in 0 .. LoginWindow |->
                                  IF a = 0 THEN 0 ELSE granted[ip][a - 1]]]
  /\ penalty' = [ip \in Ip |-> Nearer(penalty[ip], 0)]

Allow(r) == AllowDenied(r) \/ AllowFresh(r) \/ AllowCounted(r) \/ AllowTrips(r)

Sweep == SweepSessions \/ SweepBuckets

Next ==
  \/ \E r \in Req, ip \in Ip : Arrive(r, ip)
  \/ \E r \in Req : Allow(r) \/ LoginFails(r)
  \/ \E r \in Req, s \in Session : LoginSucceeds(r, s)
  \/ \E s \in Session : Logout(s) \/ ValidateExpired(s)
  \/ \E w \in DOMAIN sweeps : SweepBegin(w)
  \/ Sweep
  \/ Tick

\* Time goes on, the tickers fire, and whoever has begun goes on.
Spec ==
  /\ Init /\ [][Next]_vars
  /\ WF_vars(Tick)
  /\ \A w \in {"buckets", "sessions"} : WF_vars(SweepBegin(w))
  /\ WF_vars(SweepSessions) /\ WF_vars(SweepBuckets)
  /\ \A r \in Req : WF_vars(Allow(r))

-----------------------------------------------------------------------------
(* Properties *)

\* "max 10 POST `/login` attempts per minute per source IP" (CHANGELOG.md:21): of
\* the attempts less than a minute old no more than that were let through.
AttemptsPerMinute == \A ip \in Ip : granted[ip][LoginWindow - 1] <= Limit

\* What there is instead, as windows do not slide: at most twice the limit is let
\* through in a window's time, whatever the order in which concurrent requests
\* get the mutex; but for the lag of their clocks, which from two ticks on may
\* bring a third window's attempts that close.
BurstBound ==
  \A ip \in Ip, a \in 0 .. LoginWindow :
    a + MaxLag <= LoginWindow + 1 => granted[ip][a] <= 2 * Limit

\* "exceeded IPs are blocked for 5 minutes" (CHANGELOG.md:22): from the
\* attempt that exceeded the limit until the block is over nothing is let
\* through, neither by a new window, nor by a sweep that drops the bucket, nor
\* by a request that read the clock earlier.
BlockServed ==
  [][\A ip \in Ip : penalty[ip] > 0 => granted'[ip][0] <= granted[ip][0]]_vars

\* Nobody who did not log out loses a session before its time, however a sweep
\* that read the clock earlier falls between logins.
SessionLasts ==
  [][\A s \in Session :
       created[s] \in 0 .. TTL /\ created'[s] = None => Logout(s)]_vars

\* The stores do not grow for ever: a session that is over, and a bucket whose
\* address stays away, blocked or not, are dropped by the sweeps.
StoresCollected ==
  /\ \A s \in Session : created[s] > TTL ~> created[s] <= TTL
  /\ \A ip \in Ip :
       <>[](\A r \in Req : req[r].ip = ip => req[r].pc # "arrived")
         => <>[](bucket[ip] = NoBucket)
=============================================================================
