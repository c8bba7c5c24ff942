----------------------------- MODULE Login_proofs -----------------------------
(***************************************************************************)
(* Proofs about the web UI's login, for any number of addresses, requests  *)
(* and sessions and any limit, durations and lag related as those of the   *)
(* code are: a block is served to its end, two windows' attempts at most   *)
(* come within a window's time, and a session lasts.                       *)
(***************************************************************************)
EXTENDS Login, TLAPS

\* A bucket over its limit is blocked for as long as its window is not over:
\* no caller, however late its clock, gets to count an attempt in it again.
TrippedStaysShut ==
  \A ip \in Ip : bucket[ip].attempts > Limit =>
    \/ bucket[ip].windowAge = Oldest
    \/ bucket[ip].windowAge + bucket[ip].blockedFor > LoginWindow

\* The bucket knows of every block that is being served.
PenaltyKept ==
  \A ip \in Ip : penalty[ip] > 0 => bucket[ip].blockedFor >= penalty[ip]

\* The bucket accounts for the attempts let through lately.  Its callers' clocks
\* differ by MaxLag: attempts made well after the window began are among those
\* it counts; those that go back a window further are at most Limit more; and
\* when a whole window has gone by since it was over, there were none.
GrantsCounted ==
  \A ip \in Ip, a \in 0 .. LoginWindow :
    LET age == bucket[ip].windowAge
        n == bucket[ip].attempts
        through == granted[ip][a]
    IN  /\ a + MaxLag <= age => through <= n /\ through <= Limit
        /\ a + MaxLag <= age + LoginWindow + 1 =>
              through <= n + Limit /\ through <= 2 * Limit
        /\ a + MaxLag + LoginWindow + 1 <= age => through = 0

\* The inductive invariant.
LoginInv == TypeOK /\ TrippedStaysShut /\ PenaltyKept /\ GrantsCounted

-----------------------------------------------------------------------------
(* Buckets *)

Buckets == [attempts : 0 .. Limit + 1, windowAge : 0 .. Oldest,
            blockedFor : Zero .. BlockDuration]
Requests == [pc : {"idle", "arrived", "allowed"}, ip : Ip, lag : 0 .. MaxLag]

\* What the durations are.
LEMMA Durations ==
  /\ {Limit, LoginWindow, BlockDuration, BucketMaxAge} \subseteq Nat
  /\ Limit >= 1
  /\ TTL \in Nat /\ MaxLag \in Nat
  /\ Zero \in Int /\ Zero = -(MaxLag + 1)
  /\ Oldest \in Nat /\ Oldest > LoginWindow + MaxLag /\ Oldest > MaxLag
  /\ Expired \in Nat /\ Expired = TTL + MaxLag + 1
BY LoginAssumption DEF Zero, Oldest, Expired

\* An empty bucket and a request that is not there.
LEMMA EmptyTyped ==
  NoBucket \in Buckets /\ Idle \in Requests
<1>1. (CHOOSE ip \in Ip : TRUE) \in Ip
  BY LoginAssumption
<1> QED
  BY <1>1, Durations DEF NoBucket, Idle, Buckets, Requests

\* A caller that finds neither a block nor a window that is over finds a bucket
\* that has not been tripped.
LEMMA InWindowNotTripped ==
  ASSUME LoginInv, NEW r \in Req, InWindow(r)
  PROVE  bucket[req[r].ip].attempts \in 0 .. Limit
<1> DEFINE b == bucket[req[r].ip]
<1>1. req[r].ip \in Ip /\ req[r].lag \in 0 .. MaxLag /\ b \in Buckets
  BY DEF LoginInv, TypeOK, Buckets
<1>2. b.blockedFor + req[r].lag <= 0 /\ b.windowAge - req[r].lag <= LoginWindow
  BY <1>1, Durations
  DEF InWindow, Unblocked, Blocked, WindowOver, Buckets
<1>3. b.windowAge # Oldest
  BY <1>1, <1>2, Durations DEF Buckets
<1>4. b.windowAge + b.blockedFor <= LoginWindow
  BY <1>1, <1>2, Durations DEF Buckets
<1>5. ASSUME b.attempts > Limit
      PROVE  FALSE
  <2>1. b.windowAge = Oldest \/ b.windowAge + b.blockedFor > LoginWindow
    BY <1>1, <1>5, Zenon DEF LoginInv, TrippedStaysShut
  <2> QED
    BY <1>1, <1>3, <1>4, <2>1, Durations DEF Buckets
<1> QED
  BY <1>1, <1>5, Durations DEF Buckets

\* A caller that is not turned away finds no block being served.
LEMMA UnblockedNotPenalised ==
  ASSUME LoginInv, NEW r \in Req, Unblocked(r)
  PROVE  penalty[req[r].ip] = 0
<1>1. /\ req[r].ip \in Ip /\ req[r].lag \in 0 .. MaxLag
      /\ bucket[req[r].ip] \in Buckets
      /\ penalty[req[r].ip] \in 0 .. BlockDuration
  BY DEF LoginInv, TypeOK, Buckets
<1>2. bucket[req[r].ip].blockedFor <= 0
  BY <1>1, Durations DEF Unblocked, Blocked, Buckets
<1> QED
  BY <1>1, <1>2, Durations DEF LoginInv, PenaltyKept, Buckets

-----------------------------------------------------------------------------
(* What the steps do *)

Whens == {"buckets", "sessions"}
Grants == [0 .. LoginWindow -> Nat]

\* The types, one by one.
LEMMA Typed ==
  TypeOK <=> /\ bucket \in [Ip -> Buckets]
             /\ req \in [Req -> Requests]
             /\ created \in [Session -> None .. Expired]
             /\ sweeps \in [Whens -> None .. MaxLag]
             /\ granted \in [Ip -> Grants]
             /\ penalty \in [Ip -> 0 .. BlockDuration]
BY DEF TypeOK, Buckets, Requests, Whens, Grants

\* A grant counts one attempt more and leaves the request allowed.
LEMMA GrantStep ==
  ASSUME TypeOK, NEW r \in Req, Grant(r)
  PROVE  /\ granted' \in [Ip -> Grants]
         /\ \A ip \in Ip : ip # req[r].ip => granted'[ip] = granted[ip]
         /\ \A a \in 0 .. LoginWindow :
              granted'[req[r].ip][a] = granted[req[r].ip][a] + 1
         /\ req' \in [Req -> Requests]
         /\ UNCHANGED <<created, sweeps, penalty>>
<1> DEFINE more == [a \in 0 .. LoginWindow |-> granted[req[r].ip][a] + 1]
<1>1. /\ granted' = [granted EXCEPT ![req[r].ip] = more]
      /\ req' = [req EXCEPT ![r].pc = "allowed", ![r].lag = 0]
      /\ UNCHANGED <<created, sweeps, penalty>>
  BY DEF Grant
<1>2. /\ req \in [Req -> Requests] /\ granted \in [Ip -> Grants]
      /\ req[r].ip \in Ip /\ 0 \in 0 .. MaxLag
  BY Typed, Durations DEF Requests
<1>3. [req[r] EXCEPT !.pc = "allowed", !.lag = 0] \in Requests
  BY <1>2 DEF Requests
<1>4. req' = [req EXCEPT ![r] = [req[r] EXCEPT !.pc = "allowed", !.lag = 0]]
  BY <1>1, <1>2
<1>5. more \in Grants
  <2>1. ASSUME NEW g \in Grants
        PROVE  [a \in 0 .. LoginWindow |-> g[a] + 1] \in Grants
    BY DEF Grants
  <2>2. granted[req[r].ip] \in Grants
    BY <1>2
  <2> QED
    BY <2>1, <2>2
<1>6. \A a \in 0 .. LoginWindow : more[a] = granted[req[r].ip][a] + 1
  OBVIOUS
<1> HIDE DEF more
<1>7. granted' \in [Ip -> Grants] /\ granted'[req[r].ip] = more
  <2> HIDE DEF Grants
  <2> QED
    BY <1>1, <1>2, <1>5
<1>8. \A ip \in Ip : ip # req[r].ip => granted'[ip] = granted[ip]
  BY <1>1, <1>2
<1> QED
  BY <1>1, <1>2, <1>3, <1>4, <1>6, <1>7, <1>8

\* Allow and the sweep write buckets of these kinds; everybody else leaves the
\* buckets, or lets them age.
LEMMA BucketStep ==
  ASSUME LoginInv, [Next]_vars
  PROVE  \/ UNCHANGED bucket /\ UNCHANGED penalty
         \/ \E r \in Req : Allow(r) /\ ~AllowDenied(r)
         \/ SweepBuckets
         \/ Tick
BY DEF Next, vars, Allow, AllowDenied, Arrive, LoginFails, LoginSucceeds, Logout,
       ValidateExpired, SweepBegin, Sweep, SweepSessions

\* The bucket an attempt that opens a window leaves.
LEMMA FreshBucket ==
  ASSUME TypeOK, NEW r \in Req, AllowFresh(r)
  PROVE  /\ bucket' \in [Ip -> Buckets]
         /\ \A ip \in Ip : ip # req[r].ip => bucket'[ip] = bucket[ip]
         /\ bucket'[req[r].ip].attempts = 1
         /\ bucket'[req[r].ip].windowAge = req[r].lag
<1> DEFINE new == [attempts |-> 1, windowAge |-> req[r].lag, blockedFor |-> Zero]
<1>1. bucket' = [bucket EXCEPT ![req[r].ip] = new]
  BY DEF AllowFresh
<1>2. /\ bucket \in [Ip -> Buckets]
      /\ req[r].ip \in Ip /\ req[r].lag \in 0 .. MaxLag
  BY Typed DEF Requests
<1>3. new \in Buckets
  BY <1>2, Durations DEF Buckets
<1> HIDE DEF new
<1>4. bucket'[req[r].ip] = new
  BY <1>1, <1>2
<1>5. new.attempts = 1 /\ new.windowAge = req[r].lag
  BY DEF new
<1> QED
  BY <1>1, <1>2, <1>3, <1>4, <1>5

\* The bucket an attempt that is counted leaves.
LEMMA CountedBucket ==
  ASSUME TypeOK, NEW r \in Req, AllowCounted(r)
  PROVE  /\ bucket' \in [Ip -> Buckets]
         /\ \A ip \in Ip : ip # req[r].ip => bucket'[ip] = bucket[ip]
         /\ bucket'[req[r].ip].attempts = bucket[req[r].ip].attempts + 1
         /\ bucket'[req[r].ip].windowAge = bucket[req[r].ip].windowAge
         /\ bucket'[req[r].ip].attempts <= Limit
<1> DEFINE old == bucket[req[r].ip]
           new == [old EXCEPT !.attempts = @ + 1]
<1>1. bucket' = [bucket EXCEPT ![req[r].ip].attempts = @ + 1]
  BY DEF AllowCounted
<1>2. /\ bucket \in [Ip -> Buckets]
      /\ req[r].ip \in Ip /\ old \in Buckets /\ old.attempts < Limit
  BY Typed DEF Requests, AllowCounted
<1>3. bucket' = [bucket EXCEPT ![req[r].ip] = new]
  BY <1>1, <1>2
<1>4. /\ new \in Buckets /\ new.attempts <= Limit
      /\ new.attempts = old.attempts + 1 /\ new.windowAge = old.windowAge
  BY <1>2, Durations DEF Buckets
<1> HIDE DEF new
<1>5. bucket'[req[r].ip] = new
  BY <1>2, <1>3
<1> QED
  BY <1>2, <1>3, <1>4, <1>5

\* The bucket the attempt over the limit leaves, and the block it starts.
LEMMA TrippedBucket ==
  ASSUME LoginInv, NEW r \in Req, AllowTrips(r)
  PROVE  /\ bucket' \in [Ip -> Buckets]
         /\ penalty' \in [Ip -> 0 .. BlockDuration]
         /\ \A ip \in Ip : ip # req[r].ip => /\ bucket'[ip] = bucket[ip]
                                             /\ penalty'[ip] = penalty[ip]
         /\ bucket'[req[r].ip].blockedFor = penalty'[req[r].ip]
         /\ bucket'[req[r].ip].blockedFor > LoginWindow
         /\ bucket'[req[r].ip].attempts = bucket[req[r].ip].attempts + 1
         /\ bucket'[req[r].ip].windowAge = bucket[req[r].ip].windowAge
<1> DEFINE old == bucket[req[r].ip]
           block == BlockDuration - req[r].lag
           new == [old EXCEPT !.attempts = @ + 1, !.blockedFor = block]
<1>1. /\ bucket' = [bucket EXCEPT ![req[r].ip].attempts = @ + 1,
                                  ![req[r].ip].blockedFor = block]
      /\ penalty' = [penalty EXCEPT ![req[r].ip] = block]
      /\ InWindow(r)
  BY DEF AllowTrips
<1>2. /\ bucket \in [Ip -> Buckets] /\ penalty \in [Ip -> 0 .. BlockDuration]
      /\ req[r].ip \in Ip /\ req[r].lag \in 0 .. MaxLag /\ old \in Buckets
  BY Typed DEF Requests, LoginInv
<1>3. old.attempts \in 0 .. Limit
  BY <1>1, InWindowNotTripped
<1>4. block \in 0 .. BlockDuration /\ block > LoginWindow
  BY <1>2, LoginAssumption
<1>5. bucket' = [bucket EXCEPT ![req[r].ip] = new]
  BY <1>1, <1>2
<1>6. /\ new \in Buckets /\ new.blockedFor = block
      /\ new.attempts = old.attempts + 1 /\ new.windowAge = old.windowAge
  <2>1. old.attempts + 1 \in 0 .. Limit + 1 /\ block \in Zero .. BlockDuration
    BY <1>3, <1>4, Durations
  <2> HIDE DEF old, block
  <2> QED
    BY <1>2, <2>1 DEF Buckets
<1> HIDE DEF new, block
<1>7. bucket'[req[r].ip] = new /\ penalty'[req[r].ip] = block
  BY <1>1, <1>2, <1>5
<1> QED
  BY <1>1, <1>2, <1>4, <1>5, <1>6, <1>7

\* A tick: the window a tick older, the block a tick nearer its end, as far as
\* the comparisons tell.
LEMMA TickedBucket ==
  ASSUME TypeOK, Tick
  PROVE  /\ bucket' \in [Ip -> Buckets]
         /\ \A ip \in Ip :
              /\ bucket'[ip].attempts = bucket[ip].attempts
              /\ bucket'[ip].windowAge = Older(bucket[ip].windowAge, Oldest)
              /\ bucket'[ip].blockedFor = Nearer(bucket[ip].blockedFor, Zero)
<1>1. bucket \in [Ip -> Buckets]
  BY Typed
<1>2. bucket' = [ip \in Ip |->
        [bucket[ip] EXCEPT !.windowAge = Older(@, Oldest),
                           !.blockedFor = Nearer(@, Zero)]]
  BY DEF Tick
<1>3. ASSUME NEW b \in Buckets
      PROVE  LET n == [b EXCEPT !.windowAge = Older(@, Oldest),
                                !.blockedFor = Nearer(@, Zero)]
             IN  /\ n \in Buckets /\ n.attempts = b.attempts
                 /\ n.windowAge = Older(b.windowAge, Oldest)
                 /\ n.blockedFor = Nearer(b.blockedFor, Zero)
  <2>1. /\ Older(b.windowAge, Oldest) \in 0 .. Oldest
        /\ Nearer(b.blockedFor, Zero) \in Zero .. BlockDuration
    BY Durations DEF Buckets, Older, Nearer
  <2> QED
    BY <2>1 DEF Buckets
<1> QED
  BY <1>1, <1>2, <1>3

\* The bucket a sweep leaves of b.
Swept(b) == IF Sweepable(b, sweeps["buckets"]) THEN NoBucket ELSE b

\* The sweep of the buckets, bucket by bucket; one that is being blocked, or
\* whose window matters, stays.
LEMMA SweptBucket ==
  ASSUME TypeOK, SweepBuckets
  PROVE  /\ bucket' \in [Ip -> Buckets]
         /\ \A ip \in Ip : \/ bucket'[ip] = bucket[ip]
                           \/ /\ bucket'[ip] = NoBucket
                              /\ bucket[ip].blockedFor < 0
                              /\ bucket[ip].windowAge > BucketMaxAge
<1>1. /\ bucket \in [Ip -> Buckets]
      /\ sweeps["buckets"] \in 0 .. MaxLag
  BY Typed DEF SweepBuckets, Whens, None
<1>2. bucket' = [ip \in Ip |-> Swept(bucket[ip])]
  BY DEF SweepBuckets, Swept
<1>3. ASSUME NEW b \in Buckets
      PROVE  /\ Swept(b) \in Buckets
             /\ \/ Swept(b) = b
                \/ /\ Swept(b) = NoBucket /\ b.blockedFor < 0
                   /\ b.windowAge > BucketMaxAge
  <2>1. Sweepable(b, sweeps["buckets"]) =>
          b.blockedFor < 0 /\ b.windowAge > BucketMaxAge
    BY <1>1, Durations DEF Sweepable, Buckets
  <2> QED
    BY <2>1, EmptyTyped DEF Swept
<1> QED
  BY <1>1, <1>2, <1>3

\* Types are kept.
LEMMA TypeStep ==
  ASSUME LoginInv, [Next]_vars
  PROVE  TypeOK'
<1>t. /\ bucket \in [Ip -> Buckets] /\ req \in [Req -> Requests]
      /\ created \in [Session -> None .. Expired]
      /\ sweeps \in [Whens -> None .. MaxLag]
      /\ granted \in [Ip -> Grants] /\ penalty \in [Ip -> 0 .. BlockDuration]
  BY Typed DEF LoginInv
<1>e. Idle \in Requests
  BY EmptyTyped
<1>n. None \in None .. Expired /\ 0 \in None .. Expired
        /\ None \in None .. MaxLag /\ 0 \in None .. MaxLag
  BY Durations DEF None
<1> DEFINE Same == UNCHANGED <<bucket, created, sweeps, granted, penalty>>
<1>a. ASSUME Same, req' \in [Req -> Requests]
      PROVE  TypeOK'
  BY <1>a, <1>t DEF TypeOK, Buckets, Requests, Whens, Grants
<1>b. ASSUME NEW r \in Req, Same, req' = [req EXCEPT ![r] = Idle]
      PROVE  TypeOK'
  BY <1>a, <1>b, <1>e, <1>t
<1>1. ASSUME NEW r \in Req, NEW ip \in Ip, Arrive(r, ip)
      PROVE  TypeOK'
  <2>1. [pc |-> "arrived", ip |-> ip, lag |-> 0] \in Requests
    BY Durations DEF Requests
  <2>2. req' \in [Req -> Requests]
    BY <1>1, <1>t, <2>1 DEF Arrive
  <2> QED
    BY <1>1, <1>a, <2>2 DEF Arrive
<1>2. ASSUME NEW r \in Req, AllowDenied(r) \/ LoginFails(r)
      PROVE  TypeOK'
  BY <1>2, <1>b DEF AllowDenied, LoginFails
<1> DEFINE Goal == /\ bucket' \in [Ip -> Buckets]
                   /\ req' \in [Req -> Requests]
                   /\ created' \in [Session -> None .. Expired]
                   /\ sweeps' \in [Whens -> None .. MaxLag]
                   /\ granted' \in [Ip -> Grants]
                   /\ penalty' \in [Ip -> 0 .. BlockDuration]
<1>g. Goal <=> TypeOK'
  BY DEF TypeOK, Buckets, Requests, Whens, Grants
<1>3. ASSUME NEW r \in Req, AllowFresh(r) \/ AllowCounted(r)
      PROVE  Goal
  <2>1. bucket' \in [Ip -> Buckets]
    BY <1>3, FreshBucket, CountedBucket DEF LoginInv
  <2>2. Grant(r)
    BY <1>3 DEF AllowFresh, AllowCounted
  <2> QED
    BY <1>t, <2>1, <2>2, GrantStep DEF LoginInv
<1>4. ASSUME NEW r \in Req, AllowTrips(r)
      PROVE  Goal
  <2>1. bucket' \in [Ip -> Buckets] /\ penalty' \in [Ip -> 0 .. BlockDuration]
    BY <1>4, TrippedBucket
  <2>2. req' \in [Req -> Requests]
    BY <1>4, <1>e, <1>t DEF AllowTrips
  <2> QED
    BY <1>4, <1>t, <2>1, <2>2 DEF AllowTrips
<1>5. ASSUME NEW r \in Req, NEW s \in Session, LoginSucceeds(r, s)
      PROVE  Goal
  <2>1. created' \in [Session -> None .. Expired]
    BY <1>5, <1>n, <1>t DEF LoginSucceeds
  <2>2. req' \in [Req -> Requests]
    BY <1>5, <1>e, <1>t DEF LoginSucceeds
  <2> QED
    BY <1>5, <1>t, <2>1, <2>2 DEF LoginSucceeds
<1>6. ASSUME NEW s \in Session, Logout(s) \/ ValidateExpired(s)
      PROVE  Goal
  <2>1. created' = [created EXCEPT ![s] = None]
    BY <1>6 DEF Logout, ValidateExpired
  <2>2. created' \in [Session -> None .. Expired]
    BY <1>n, <1>t, <2>1
  <2> QED
    BY <1>6, <1>t, <2>2 DEF Logout, ValidateExpired
<1>7. ASSUME NEW w \in DOMAIN sweeps, SweepBegin(w)
      PROVE  Goal
  <2>1. sweeps' \in [Whens -> None .. MaxLag]
    BY <1>7, <1>n, <1>t DEF SweepBegin
  <2> QED
    BY <1>7, <1>t, <2>1 DEF SweepBegin
<1>8. ASSUME SweepSessions
      PROVE  Goal
  <2>1. sweeps' \in [Whens -> None .. MaxLag]
    BY <1>8, <1>n, <1>t DEF SweepSessions
  <2>2. created' \in [Session -> None .. Expired]
    BY <1>8, <1>n, <1>t DEF SweepSessions
  <2> QED
    BY <1>8, <1>t, <2>1, <2>2 DEF SweepSessions
<1>9. ASSUME SweepBuckets
      PROVE  Goal
  <2>1. sweeps' \in [Whens -> None .. MaxLag]
    BY <1>9, <1>n, <1>t DEF SweepBuckets
  <2>2. bucket' \in [Ip -> Buckets]
    BY <1>9, SweptBucket DEF LoginInv
  <2> QED
    BY <1>9, <1>t, <2>1, <2>2 DEF SweepBuckets
<1>10. ASSUME Tick
      PROVE  Goal
  <2>1. bucket' \in [Ip -> Buckets]
    BY <1>10, TickedBucket DEF LoginInv
  <2>2. req' \in [Req -> Requests]
    <3>1. ASSUME NEW q \in Requests, q.pc = "arrived" => q.lag < MaxLag
          PROVE  (IF q.pc = "arrived" THEN [q EXCEPT !.lag = @ + 1] ELSE q)
                    \in Requests
      BY <3>1, Durations DEF Requests
    <3> QED
      BY <1>10, <1>t, <3>1 DEF Tick
  <2>3. created' \in [Session -> None .. Expired]
    <3>1. ASSUME NEW c \in None .. Expired
          PROVE  (IF c = None THEN None ELSE Older(c, Expired)) \in None .. Expired
      BY Durations DEF None, Older
    <3> QED
      BY <1>10, <1>t, <3>1 DEF Tick
  <2>4. sweeps' \in [Whens -> None .. MaxLag]
    <3>1. ASSUME NEW w \in None .. MaxLag, w < MaxLag
          PROVE  (IF w = None THEN None ELSE w + 1) \in None .. MaxLag
      BY <3>1, Durations DEF None
    <3> QED
      BY <1>10, <1>t, <3>1 DEF Tick
  <2>5. granted' \in [Ip -> Grants]
    <3>1. ASSUME NEW ip \in Ip, NEW a \in 0 .. LoginWindow
          PROVE  (IF a = 0 THEN 0 ELSE granted[ip][a - 1]) \in Nat
      <4>1. granted[ip] \in Grants
        BY <1>t
      <4>2. a # 0 => a - 1 \in 0 .. LoginWindow
        BY Durations
      <4> QED
        BY <4>1, <4>2 DEF Grants
    <3> QED
      BY <1>10, <3>1 DEF Tick, Grants
  <2>6. penalty' \in [Ip -> 0 .. BlockDuration]
    <3>1. ASSUME NEW p \in 0 .. BlockDuration
          PROVE  Nearer(p, 0) \in 0 .. BlockDuration
      BY Durations DEF Nearer
    <3> QED
      BY <1>10, <1>t, <3>1 DEF Tick
  <2> QED
    BY <2>1, <2>2, <2>3, <2>4, <2>5, <2>6
<1>11. CASE UNCHANGED vars
  BY <1>11, <1>g, <1>t DEF vars
<1> HIDE DEF Goal, Same
<1> QED
  BY <1>1, <1>2, <1>3, <1>4, <1>5, <1>6, <1>7, <1>8, <1>9, <1>10, <1>11, <1>g
  DEF Next, Allow, Sweep

\* A bucket over its limit stays shut.
LEMMA TrippedStep ==
  ASSUME LoginInv, [Next]_vars
  PROVE  TrippedStaysShut'
<1> DEFINE Shut(b) == b.attempts > Limit => \/ b.windowAge = Oldest
                                            \/ b.windowAge + b.blockedFor > LoginWindow
<1>t. TypeOK /\ bucket \in [Ip -> Buckets] /\ \A ip \in Ip : Shut(bucket[ip])
  BY Typed DEF LoginInv, TrippedStaysShut
<1> SUFFICES ASSUME NEW ip \in Ip
             PROVE  Shut(bucket'[ip])
  BY DEF TrippedStaysShut
<1>1. CASE UNCHANGED bucket
  BY <1>1, <1>t
<1>2. ASSUME NEW r \in Req, AllowFresh(r) \/ AllowCounted(r)
      PROVE  Shut(bucket'[ip])
  <2>1. bucket'[req[r].ip].attempts <= Limit
    BY <1>2, <1>t, FreshBucket, CountedBucket, Durations
  <2>2. CASE ip = req[r].ip
    <3>1. bucket' \in [Ip -> Buckets]
      BY <1>2, <1>t, FreshBucket, CountedBucket
    <3> QED
      BY <2>1, <2>2, <3>1, Durations DEF Buckets
  <2>3. CASE ip # req[r].ip
    BY <1>2, <1>t, <2>3, FreshBucket, CountedBucket
  <2> QED
    BY <2>2, <2>3
<1>3. ASSUME NEW r \in Req, AllowTrips(r)
      PROVE  Shut(bucket'[ip])
  <2>1. CASE ip = req[r].ip
    <3>1. bucket'[ip] \in Buckets /\ bucket'[ip].blockedFor > LoginWindow
      BY <1>3, <2>1, TrippedBucket
    <3> QED
      BY <3>1, Durations DEF Buckets
  <2>2. CASE ip # req[r].ip
    BY <1>3, <1>t, <2>2, TrippedBucket
  <2> QED
    BY <2>1, <2>2
<1>4. CASE SweepBuckets
  <2>1. bucket'[ip] = bucket[ip] \/ bucket'[ip] = NoBucket
    BY <1>4, <1>t, SweptBucket
  <2>2. Shut(NoBucket)
    BY Durations DEF NoBucket
  <2> QED
    BY <1>t, <2>1, <2>2
<1>5. CASE Tick
  <2>1. /\ bucket'[ip].attempts = bucket[ip].attempts
        /\ bucket'[ip].windowAge = Older(bucket[ip].windowAge, Oldest)
        /\ bucket'[ip].blockedFor = Nearer(bucket[ip].blockedFor, Zero)
    BY <1>5, <1>t, TickedBucket
  <2>2. bucket[ip] \in Buckets
    BY <1>t
  <2> QED
    BY <1>t, <2>1, <2>2, Durations DEF Older, Nearer, Buckets
<1> HIDE DEF Shut
<1> QED
  BY <1>1, <1>2, <1>3, <1>4, <1>5, BucketStep DEF Allow

\* A block being served is not forgotten.
LEMMA PenaltyStep ==
  ASSUME LoginInv, [Next]_vars
  PROVE  PenaltyKept'
<1>t. /\ TypeOK
      /\ bucket \in [Ip -> Buckets] /\ penalty \in [Ip -> 0 .. BlockDuration]
      /\ \A ip \in Ip : penalty[ip] > 0 => bucket[ip].blockedFor >= penalty[ip]
  BY Typed DEF LoginInv, PenaltyKept
<1> DEFINE Kept(ip) == penalty'[ip] > 0 => bucket'[ip].blockedFor >= penalty'[ip]
<1> SUFFICES ASSUME NEW ip \in Ip
             PROVE  Kept(ip)
  BY DEF PenaltyKept
<1>1. CASE UNCHANGED bucket /\ UNCHANGED penalty
  BY <1>1, <1>t
<1>2. ASSUME NEW r \in Req, AllowFresh(r) \/ AllowCounted(r)
      PROVE  Kept(ip)
  <2>1. penalty' = penalty /\ penalty[req[r].ip] = 0
    BY <1>2, UnblockedNotPenalised
    DEF AllowFresh, AllowCounted, InWindow, Grant
  <2>2. ip # req[r].ip => bucket'[ip] = bucket[ip]
    BY <1>2, <1>t, FreshBucket, CountedBucket
  <2> QED
    BY <1>t, <2>1, <2>2
<1>3. ASSUME NEW r \in Req, AllowTrips(r)
      PROVE  Kept(ip)
  <2>1. CASE ip = req[r].ip
    <3>1. bucket'[ip].blockedFor = penalty'[ip]
            /\ penalty'[ip] \in 0 .. BlockDuration
      BY <1>3, <2>1, TrippedBucket
    <3> QED
      BY <3>1, Durations
  <2>2. CASE ip # req[r].ip
    BY <1>3, <1>t, <2>2, TrippedBucket
  <2> QED
    BY <2>1, <2>2
<1>4. CASE SweepBuckets
  <2>1. penalty' = penalty
    BY <1>4 DEF SweepBuckets
  <2>2. bucket'[ip] = bucket[ip] \/ bucket[ip].blockedFor < 0
    BY <1>4, <1>t, SweptBucket
  <2>3. bucket[ip] \in Buckets /\ penalty[ip] \in 0 .. BlockDuration
    BY <1>t
  <2> QED
    BY <1>t, <2>1, <2>2, <2>3, Durations DEF Buckets
<1>5. CASE Tick
  <2>1. /\ bucket'[ip].blockedFor = Nearer(bucket[ip].blockedFor, Zero)
        /\ penalty'[ip] = Nearer(penalty[ip], 0)
    BY <1>5, <1>t, TickedBucket DEF Tick
  <2>2. bucket[ip] \in Buckets /\ penalty[ip] \in 0 .. BlockDuration
    BY <1>t
  <2> QED
    BY <1>t, <2>1, <2>2, Durations DEF Nearer, Buckets
<1> HIDE DEF Kept
<1> QED
  BY <1>1, <1>2, <1>3, <1>4, <1>5, BucketStep DEF Allow

\* The attempts let through stay accounted for.
LEMMA GrantsStep ==
  ASSUME LoginInv, [Next]_vars
  PROVE  GrantsCounted'
<1> DEFINE Counts(age, n, a, through) ==
             /\ a + MaxLag <= age => through <= n /\ through <= Limit
             /\ a + MaxLag <= age + LoginWindow + 1 =>
                   through <= n + Limit /\ through <= 2 * Limit
             /\ a + MaxLag + LoginWindow + 1 <= age => through = 0
           Now(ip, a) == Counts(bucket[ip].windowAge, bucket[ip].attempts, a,
                                granted[ip][a])
           Then(ip, a) == Counts(bucket'[ip].windowAge, bucket'[ip].attempts, a,
                                 granted'[ip][a])
<1>t. /\ TypeOK /\ TypeOK'
      /\ bucket \in [Ip -> Buckets] /\ granted \in [Ip -> Grants]
      /\ req \in [Req -> Requests]
  BY Typed, TypeStep DEF LoginInv
<1>h. \A ip \in Ip, a \in 0 .. LoginWindow : Now(ip, a)
  BY DEF LoginInv, GrantsCounted
<1> SUFFICES ASSUME NEW ip \in Ip, NEW a \in 0 .. LoginWindow
             PROVE  Then(ip, a)
  BY DEF GrantsCounted
<1>b. /\ bucket[ip].windowAge \in 0 .. Oldest
      /\ bucket[ip].attempts \in 0 .. Limit + 1
      /\ granted[ip][a] \in Nat
  BY <1>t DEF Buckets, Grants
<1>n. Now(ip, a)
  BY <1>h
<1>s. \/ UNCHANGED granted
      \/ \E r \in Req : AllowFresh(r) \/ AllowCounted(r)
      \/ Tick
  BY DEF Next, vars, Allow, AllowDenied, AllowTrips, Arrive, LoginFails,
         LoginSucceeds, Logout, ValidateExpired, SweepBegin, Sweep, SweepSessions,
         SweepBuckets
<1>1. CASE UNCHANGED bucket /\ UNCHANGED granted
  BY <1>1, <1>n
<1>2. ASSUME NEW r \in Req, AllowFresh(r)
      PROVE  Then(ip, a)
  <2>1. Grant(r)
    BY <1>2 DEF AllowFresh
  <2>2. CASE ip # req[r].ip
    BY <1>2, <1>n, <1>t, <2>1, <2>2, FreshBucket, GrantStep
  <2>3. CASE ip = req[r].ip
    <3>1. /\ granted'[ip][a] = granted[ip][a] + 1
          /\ bucket'[ip].attempts = 1 /\ bucket'[ip].windowAge = req[r].lag
      BY <1>2, <1>t, <2>1, <2>3, FreshBucket, GrantStep
    <3>2. req[r].lag \in 0 .. MaxLag
      BY <1>t DEF Requests
    <3>3. bucket[ip].windowAge - req[r].lag > LoginWindow
      BY <1>2, <2>3 DEF AllowFresh, WindowOver
    <3> QED
      BY <1>b, <1>n, <3>1, <3>2, <3>3, Durations
  <2> QED
    BY <2>2, <2>3
<1>3. ASSUME NEW r \in Req, AllowCounted(r)
      PROVE  Then(ip, a)
  <2>1. Grant(r)
    BY <1>3 DEF AllowCounted
  <2>2. CASE ip # req[r].ip
    BY <1>3, <1>n, <1>t, <2>1, <2>2, CountedBucket, GrantStep
  <2>3. CASE ip = req[r].ip
    <3>1. /\ granted'[ip][a] = granted[ip][a] + 1
          /\ bucket'[ip].attempts = bucket[ip].attempts + 1
          /\ bucket'[ip].windowAge = bucket[ip].windowAge
      BY <1>3, <1>t, <2>1, <2>3, CountedBucket, GrantStep
    <3>2. req[r].lag \in 0 .. MaxLag
      BY <1>t DEF Requests
    <3>3. /\ bucket[ip].windowAge - req[r].lag <= LoginWindow
          /\ bucket[ip].attempts < Limit
      BY <1>3, <1>b, <2>3, <3>2, Durations DEF AllowCounted, InWindow, WindowOver
    <3> QED
      BY <1>b, <1>n, <3>1, <3>2, <3>3, Durations
  <2> QED
    BY <2>2, <2>3
<1>4. ASSUME NEW r \in Req, AllowTrips(r)
      PROVE  Then(ip, a)
  <2>1. granted' = granted
    BY <1>4 DEF AllowTrips
  <2>2. CASE ip # req[r].ip
    BY <1>4, <1>n, <2>1, <2>2, TrippedBucket
  <2>3. CASE ip = req[r].ip
    <3>1. /\ bucket'[ip].attempts = bucket[ip].attempts + 1
          /\ bucket'[ip].windowAge = bucket[ip].windowAge
      BY <1>4, <2>3, TrippedBucket
    <3> QED
      BY <1>b, <1>n, <2>1, <3>1, Durations
  <2> QED
    BY <2>2, <2>3
<1>5. CASE SweepBuckets
  <2>1. granted' = granted
    BY <1>5 DEF SweepBuckets
  <2>2. \/ bucket'[ip] = bucket[ip]
        \/ bucket'[ip] = NoBucket /\ bucket[ip].windowAge > BucketMaxAge
    BY <1>5, <1>t, SweptBucket
  <2>3. CASE bucket'[ip] = NoBucket /\ bucket[ip].windowAge > BucketMaxAge
    <3>1. granted[ip][a] = 0
      BY <1>b, <1>n, <2>3, LoginAssumption
    <3> QED
      BY <2>1, <2>3, <3>1, Durations DEF NoBucket
  <2> QED
    BY <1>n, <2>1, <2>2, <2>3
<1>6. CASE Tick
  <2>1. /\ bucket'[ip].attempts = bucket[ip].attempts
        /\ bucket'[ip].windowAge = Older(bucket[ip].windowAge, Oldest)
    BY <1>6, <1>t, TickedBucket
  <2>2. granted'[ip][a] = IF a = 0 THEN 0 ELSE granted[ip][a - 1]
    BY <1>6 DEF Tick
  <2>3. CASE a = 0
    BY <1>b, <2>1, <2>2, <2>3, Durations DEF Older
  <2>4. CASE a # 0
    <3>1. a - 1 \in 0 .. LoginWindow
      BY <2>4, Durations
    <3>2. Now(ip, a - 1)
      BY <1>h, <3>1
    <3>3. granted[ip][a - 1] \in Nat
      BY <1>t, <3>1 DEF Grants
    <3>4. bucket[ip].windowAge = Oldest => granted[ip][a - 1] = 0
      BY <3>1, <3>2, LoginAssumption DEF Oldest
    <3> QED
      BY <1>b, <2>1, <2>2, <2>4, <3>1, <3>2, <3>3, <3>4, Durations DEF Older
  <2> QED
    BY <2>3, <2>4
<1> HIDE DEF Then
<1> QED
  BY <1>1, <1>2, <1>3, <1>4, <1>5, <1>6, <1>s, BucketStep DEF Allow

\* The invariant holds.
THEOREM LoginInvariant == Spec => []LoginInv
<1>1. Init => LoginInv
  <2> SUFFICES ASSUME Init
               PROVE  LoginInv
    OBVIOUS
  <2>1. TypeOK
    <3>1. None \in None .. Expired /\ None \in None .. MaxLag
            /\ 0 \in 0 .. BlockDuration
      BY Durations DEF None
    <3>2. granted \in [Ip -> Grants]
      BY DEF Init, Grants
    <3> QED
      BY <3>1, <3>2, EmptyTyped, Typed DEF Init, Whens
  <2>2. TrippedStaysShut
    BY Durations DEF Init, TrippedStaysShut, NoBucket
  <2>3. PenaltyKept
    BY DEF Init, PenaltyKept
  <2>4. GrantsCounted
    BY Durations DEF Init, GrantsCounted, NoBucket
  <2> QED
    BY <2>1, <2>2, <2>3, <2>4 DEF LoginInv
<1>2. LoginInv /\ [Next]_vars => LoginInv'
  BY TypeStep, TrippedStep, PenaltyStep, GrantsStep DEF LoginInv
<1> QED
  BY <1>1, <1>2, PTL DEF Spec

\* Buckets, requests and sessions have their types: the attempts of a bucket
\* stop at the one that trips it, however late a clock its callers have.
THEOREM LoginTypeCorrect == Spec => []TypeOK
BY LoginInvariant, PTL DEF LoginInv

\* Of the attempts of one address at most two windows' worth is let through in
\* any window's time, but for the lag of the callers' clocks, whatever the order
\* in which concurrent requests get the mutex and whatever the sweeps drop.
THEOREM BurstsBounded == Spec => []BurstBound
<1>1. ASSUME LoginInv, NEW ip \in Ip, NEW a \in 0 .. LoginWindow,
             a + MaxLag <= LoginWindow + 1
      PROVE  granted[ip][a] <= 2 * Limit
  <2>1. bucket[ip].windowAge \in 0 .. Oldest
    BY <1>1, Typed DEF LoginInv, Buckets
  <2>2. a + MaxLag <= bucket[ip].windowAge + LoginWindow + 1
    BY <1>1, <2>1, Durations
  <2> QED
    BY <1>1, <2>2 DEF LoginInv, GrantsCounted
<1>2. LoginInv => BurstBound
  BY <1>1 DEF BurstBound
<1> QED
  BY <1>2, LoginInvariant, PTL

\* "exceeded IPs are blocked for 5 minutes": from the attempt over the limit
\* until then nothing is let through, not by a new window, a sweep or a request
\* that read the clock earlier.
THEOREM BlocksAreServed == Spec => BlockServed
<1>1. ASSUME LoginInv, [Next]_vars, NEW ip \in Ip, penalty[ip] > 0
      PROVE  granted'[ip][0] <= granted[ip][0]
  <2>t. TypeOK /\ granted \in [Ip -> Grants]
    BY <1>1, Typed DEF LoginInv
  <2>0. granted[ip][0] \in Nat /\ 0 \in 0 .. LoginWindow
    BY <2>t, Durations DEF Grants
  <2>1. ASSUME NEW r \in Req, AllowFresh(r) \/ AllowCounted(r)
        PROVE  granted'[ip] = granted[ip]
    <3>1. Grant(r) /\ penalty[req[r].ip] = 0
      BY <1>1, <2>1, UnblockedNotPenalised
      DEF AllowFresh, AllowCounted, InWindow
    <3>2. ip # req[r].ip
      BY <1>1, <3>1
    <3> QED
      BY <2>t, <3>1, <3>2, GrantStep
  <2>2. CASE Tick
    <3>1. granted'[ip][0] = 0
      BY <2>0, <2>2 DEF Tick
    <3> QED
      BY <2>0, <3>1
  <2>3. \/ UNCHANGED granted
        \/ \E r \in Req : AllowFresh(r) \/ AllowCounted(r)
        \/ Tick
    BY <1>1
    DEF Next, vars, Allow, AllowDenied, AllowTrips, Arrive, LoginFails,
        LoginSucceeds, Logout, ValidateExpired, SweepBegin, Sweep, SweepSessions,
        SweepBuckets
  <2> QED
    BY <2>0, <2>1, <2>2, <2>3
<1>2. LoginInv /\ [Next]_vars =>
        [\A ip \in Ip : penalty[ip] > 0 => granted'[ip][0] <= granted[ip][0]]_vars
  BY <1>1
<1> QED
  BY <1>2, LoginInvariant, PTL DEF Spec, BlockServed

\* Nobody who does not log out loses a session before its time, to a sweep that
\* read the clock earlier or to anything else.
THEOREM SessionsLast == Spec => SessionLasts
<1>1. ASSUME LoginInv, [Next]_vars, NEW s \in Session,
             created[s] \in 0 .. TTL, created'[s] = None
      PROVE  Logout(s)
  <2>t. /\ created \in [Session -> None .. Expired]
        /\ sweeps \in [Whens -> None .. MaxLag]
    BY <1>1, Typed DEF LoginInv
  <2>0. created[s] # None /\ 0 # None
    BY <1>1, Durations DEF None
  <2>1. ~UNCHANGED created
    BY <1>1, <2>0
  <2>2. ASSUME NEW r \in Req, NEW x \in Session, LoginSucceeds(r, x)
        PROVE  FALSE
    BY <1>1, <2>t, <2>0, <2>2 DEF LoginSucceeds
  <2>3. ASSUME NEW x \in Session, Logout(x)
        PROVE  x = s
    BY <1>1, <2>t, <2>0, <2>3 DEF Logout
  <2>4. ASSUME NEW x \in Session, ValidateExpired(x)
        PROVE  FALSE
    <3>1. x = s
      BY <1>1, <2>t, <2>0, <2>4 DEF ValidateExpired
    <3> QED
      BY <1>1, <2>4, <3>1, Durations DEF ValidateExpired
  <2>5. CASE SweepSessions
    <3>1. sweeps["sessions"] \in 0 .. MaxLag
      BY <2>t, <2>5, Durations DEF SweepSessions, Whens, None
    <3>2. created[s] - sweeps["sessions"] > TTL
      BY <1>1, <2>0, <2>5 DEF SweepSessions
    <3> QED
      BY <1>1, <3>1, <3>2, Durations
  <2>6. CASE Tick
    <3>1. created'[s] = Older(created[s], Expired)
      BY <2>0, <2>6 DEF Tick
    <3> QED
      BY <1>1, <3>1, Durations DEF Older, None
  <2>7. \/ UNCHANGED created \/ Tick \/ SweepSessions
        \/ \E r \in Req, x \in Session : LoginSucceeds(r, x)
        \/ \E x \in Session : Logout(x) \/ ValidateExpired(x)
    BY <1>1
    DEF Next, vars, Allow, AllowDenied, AllowTrips, AllowFresh, AllowCounted,
        Grant, Arrive, LoginFails, SweepBegin, Sweep, SweepBuckets
  <2> QED
    BY <2>1, <2>2, <2>3, <2>4, <2>5, <2>6, <2>7
<1>2. LoginInv /\ [Next]_vars =>
        [\A s \in Session :
           created[s] \in 0 .. TTL /\ created'[s] = None => Logout(s)]_vars
  BY <1>1
<1> QED
  BY <1>2, LoginInvariant, PTL DEF Spec, SessionLasts
====
