---------------------------- MODULE HttpEdgeProofs ----------------------------
(***************************************************************************)
(* For every number of requests and keys, every limit and all intervals:   *)
(* no body beyond the limit reaches the application, what the tunnel       *)
(* decides cannot be claimed by others, and a withdrawn key is used no     *)
(* longer than the cache lives or the throttle lasts, an outage aside.     *)
(* The second part is the rate limiter, which stands before the handlers   *)
(* as well and shares no state with the rest.                              *)
(***************************************************************************)
EXTENDS HttpEdge, RateLimiter, TLAPS

USE EdgeAssumption

(***************************************************************************)
(* Requests.  A request is idle, or its record tells how it got there.     *)
(***************************************************************************)
Statuses == {200, 400, 401, 403, 411, 413}

Records == [stage: Stages \ {"idle"}, secret: BOOLEAN, received: Nat, fed: 0..Limit,
            exceeded: BOOLEAN, over: BOOLEAN, tunnel: BOOLEAN, scheme: {"http", "https"},
            kid: Keys \cup {Unknown, None}, acted: BOOLEAN, status: {0} \cup Statuses]

Good(x) ==
    /\ x \in Records
    /\ x.over = x.exceeded
    /\ x.stage = "answer" => x.status # 0
    /\ x.stage = "answer" /\ x.over => x.status = 413
    /\ x.scheme = "https" => x.tunnel
    /\ x.stage = "run" /\ x.tunnel => x.kid \in Keys
    /\ x.acted => /\ x.stage = "answer"
                  /\ x.tunnel => x.kid \in Keys
                  /\ x.secret => x.tunnel /\ x.scheme = "https"

Course ==
    /\ DOMAIN req = Requests
    /\ \A r \in Requests : req[r] = Idle \/ Good(req[r])

(* A field of a record keeps it a record.                                  *)
LEMMA RecordChanges ==
  ASSUME NEW x \in Records
  PROVE  /\ \A v \in Stages \ {"idle"} : [x EXCEPT !.stage = v] \in Records
         /\ \A v \in Nat : [x EXCEPT !.received = v] \in Records
         /\ \A v \in 0..Limit : [x EXCEPT !.fed = v] \in Records
         /\ \A v \in {0} \cup Statuses : [x EXCEPT !.status = v] \in Records
         /\ [x EXCEPT !.acted = TRUE] \in Records
  BY DEF Records

LEMMA AnsweredIsRecord ==
  ASSUME NEW x \in Records, NEW status \in Statuses
  PROVE  Answered(x, status) \in Records
  <1> DEFINE ended  == [x EXCEPT !.stage = "answer"]
             freed  == [ended EXCEPT !.received = 0]
             code   == IF x.exceeded THEN 413 ELSE status
  <1>1. "answer" \in Stages \ {"idle"} /\ 413 \in Statuses
    BY DEF Stages, Statuses
  <1>2. ended \in Records
    BY <1>1, RecordChanges
  <1>3. code \in {0} \cup Statuses
    BY <1>1
  <1>4. Answered(x, status) = [freed EXCEPT !.status = code]
    BY DEF Answered, Records
  <1> HIDE DEF ended, code
  <1>5. freed \in Records
    BY <1>2, RecordChanges
  <1> HIDE DEF freed
  <1>6. QED
    BY <1>3, <1>4, <1>5, RecordChanges

(* An answer is a good end for every request that is under way.            *)
LEMMA AnsweredIsGood ==
  ASSUME NEW x, Good(x), NEW status \in Statuses,
         x.acted => /\ x.tunnel => x.kid \in Keys
                    /\ x.secret => x.tunnel /\ x.scheme = "https"
  PROVE  Good(Answered(x, status))
  <1>1. Answered(x, status) \in Records
    BY AnsweredIsRecord DEF Good
  <1>2. QED
    BY <1>1 DEF Good, Records, Answered, Statuses

LEMMA BecomeIsGood ==
  ASSUME Course, NEW r \in Requests, NEW x, Become(r, x), x = Idle \/ Good(x)
  PROVE  Course'
  BY DEF Course, Become

(* Who waits for a key or has one goes on to run with one of Cloudflare's. *)
LEMMA LookIsGood ==
  ASSUME Course, NEW r \in Requests, req[r].stage \in {"key", "fetch"},
         NEW cached \in SUBSET Keys, Look(r, cached)
  PROVE  Course'
  <1>1. Good(req[r]) /\ ~req[r].acted
    BY DEF Course, Idle, Good
  <1>2. CASE Become(r, Answered(req[r], 403))
    BY <1>1, <1>2, AnsweredIsGood, BecomeIsGood DEF Statuses
  <1>3. CASE req[r].kid \in cached /\ Move(r, "run")
    <2> DEFINE new == [req[r] EXCEPT !.stage = "run"]
    <2>1. new \in Records
      BY <1>1 DEF Good, Records, Stages
    <2>2. Good(new)
      BY <1>1, <1>3, <2>1 DEF Good, Records
    <2>3. Become(r, new)
      BY <1>3 DEF Move
    <2> HIDE DEF new
    <2>4. QED
      BY <2>2, <2>3, BecomeIsGood
  <1>4. QED
    BY <1>2, <1>3 DEF Look, Found, NotFound

LEMMA StepCourse ==
  ASSUME TypeOK, Course, [Next]_vars
  PROVE  Course'
  <1>1. CASE UNCHANGED req
    BY <1>1 DEF Course
  <1>2. ASSUME NEW r \in Requests, NEW route \in Routes, NEW length \in {None} \cup 0..Limit + 1,
               Arrive(r, route, length)
        PROVE  Course'
    <2> DEFINE x == [stage |-> "read", secret |-> route = "secret",
                     received |-> 0, fed |-> 0, exceeded |-> FALSE, over |-> FALSE,
                     tunnel |-> FALSE, scheme |-> "http", kid |-> None,
                     acted |-> FALSE, status |-> 0]
    <2>1. x \in Records
      BY DEF Records, Stages, Statuses
    <2>2. Good(x)
      BY <2>1 DEF Good
    <2>3. Good([x EXCEPT !.stage = "auth"])
      <3>1. [x EXCEPT !.stage = "auth"] \in Records
        BY <2>1 DEF Records, Stages
      <3>2. QED
        BY <3>1 DEF Good
    <2>4. Good(Answered(x, 411)) /\ Good(Answered(x, 413))
      BY <2>2, AnsweredIsGood DEF Statuses
    <2>5. \/ Become(r, x) \/ Become(r, [x EXCEPT !.stage = "auth"])
          \/ Become(r, Answered(x, 411)) \/ Become(r, Answered(x, 413))
      BY <1>2 DEF Arrive
    <2> HIDE DEF x
    <2>6. QED
      BY <2>2, <2>3, <2>4, <2>5, BecomeIsGood
  <1>3. ASSUME NEW r \in Requests, NEW size \in 1..Limit + 1, Receive(r, size)
        PROVE  Course'
    <2> DEFINE total == req[r].received + size
               new == [req[r] EXCEPT !.received = total,
                                     !.exceeded = total > Limit,
                                     !.over = total > Limit,
                                     !.fed = IF total > Limit THEN @ ELSE total]
    <2>1. Good(req[r]) /\ req[r].stage = "read"
      BY <1>3 DEF Receive, At, Course, Idle
    <2>2. new \in Records
      <3>1. req[r] \in Records
        BY <2>1 DEF Good
      <3>2. total \in Nat /\ (total > Limit) \in BOOLEAN
            /\ (IF total > Limit THEN req[r].fed ELSE total) \in 0..Limit
        BY <3>1 DEF Records
      <3> HIDE DEF total
      <3>3. QED
        BY <3>1, <3>2 DEF Records
    <2>3. Good(new)
      BY <2>1, <2>2 DEF Good, Records
    <2>4. Become(r, new)
      BY <1>3 DEF Receive
    <2> HIDE DEF new
    <2>5. QED
      BY <2>3, <2>4, BecomeIsGood
  <1>4. ASSUME NEW r \in Requests, Parse(r)
        PROVE  Course'
    <2>1. Good(req[r]) /\ ~req[r].acted
      BY <1>4 DEF Parse, At, Course, Idle, Good
    <2>2. CASE Respond(r, 400)
      BY <2>1, <2>2, AnsweredIsGood, BecomeIsGood DEF Respond, Statuses
    <2>3. CASE Become(r, [req[r] EXCEPT !.stage = "auth", !.received = 0, !.fed = 0])
      <3> DEFINE new == [req[r] EXCEPT !.stage = "auth", !.received = 0, !.fed = 0]
      <3>1. new \in Records
        <4> DEFINE parsed == [req[r] EXCEPT !.stage = "auth"]
                   freed  == [parsed EXCEPT !.received = 0]
        <4>1. /\ req[r] \in Records /\ "auth" \in Stages \ {"idle"}
              /\ 0 \in Nat /\ 0 \in 0..Limit
          BY <2>1 DEF Good, Stages
        <4>2. new = [freed EXCEPT !.fed = 0]
          BY <4>1 DEF Records
        <4>3. parsed \in Records
          BY <4>1, RecordChanges
        <4> HIDE DEF parsed, new
        <4>4. freed \in Records
          BY <4>1, <4>3, RecordChanges
        <4> HIDE DEF freed
        <4>5. QED
          BY <4>1, <4>2, <4>4, RecordChanges
      <3>2. Good(new)
        BY <2>1, <3>1 DEF Good, Records
      <3> HIDE DEF new
      <3>3. QED
        BY <2>3, <3>2, BecomeIsGood DEF new
    <2>4. QED
      BY <1>4, <2>2, <2>3 DEF Parse
  <1>5. ASSUME NEW r \in Requests, NEW tunnel \in BOOLEAN, NEW proto \in {"http", "https", "none"},
               NEW kid \in Keys \cup {Unknown, None}, Authenticate(r, tunnel, proto, kid)
        PROVE  Course'
    <2> DEFINE new == [req[r] EXCEPT !.stage = IF tunnel THEN "key" ELSE "run",
                                     !.tunnel = tunnel,
                                     !.scheme = Scheme(tunnel, proto),
                                     !.kid = IF tunnel THEN kid ELSE None]
    <2>1. Good(req[r]) /\ ~req[r].acted
      BY <1>5 DEF Authenticate, At, Course, Idle, Good
    <2>2. CASE Respond(r, 401) \/ Respond(r, 403)
      BY <2>1, <2>2, AnsweredIsGood, BecomeIsGood DEF Respond, Statuses
    <2>3. Scheme(tunnel, proto) \in {"http", "https"}
          /\ (Scheme(tunnel, proto) = "https" => tunnel)
      BY DEF Scheme
    <2>4. new \in Records
      BY <2>1, <2>3 DEF Good, Records, Stages
    <2>5. Good(new)
      BY <2>1, <2>3, <2>4 DEF Good, Records
    <2>6. Respond(r, 401) \/ Respond(r, 403) \/ Become(r, new)
      BY <1>5 DEF Authenticate
    <2> HIDE DEF new
    <2>7. QED
      BY <2>2, <2>5, <2>6, BecomeIsGood
  <1>6. ASSUME NEW r \in Requests, Hit(r) \/ Throttled(r) \/ FetchOk(r) \/ FetchFails(r)
        PROVE  Course'
    <2>1. req[r].stage \in {"key", "fetch"}
      BY <1>6 DEF Hit, Throttled, FetchOk, FetchFails, AtLock, At
    <2>2. Look(r, keys) \/ Look(r, published)
      BY <1>6 DEF Hit, Throttled, FetchOk, FetchFails, Look
    <2>3. keys \in SUBSET Keys /\ published \in SUBSET Keys
      BY DEF TypeOK
    <2>4. QED
      BY <2>1, <2>2, <2>3, LookIsGood
  <1>7. ASSUME NEW r \in Requests, Fetch(r)
        PROVE  Course'
    <2> DEFINE new == [req[r] EXCEPT !.stage = "fetch"]
    <2>1. Good(req[r]) /\ ~req[r].acted
      BY <1>7 DEF Fetch, AtLock, At, Course, Idle, Good
    <2>2. new \in Records
      BY <2>1 DEF Good, Records, Stages
    <2>3. Good(new)
      BY <2>1, <2>2 DEF Good, Records
    <2>4. Become(r, new)
      BY <1>7 DEF Fetch, Move
    <2> HIDE DEF new
    <2>5. QED
      BY <2>3, <2>4, BecomeIsGood
  <1>8. ASSUME NEW r \in Requests, Run(r)
        PROVE  Course'
    <2> DEFINE new == [req[r] EXCEPT !.acted = TRUE]
    <2>1. Good(req[r]) /\ ~req[r].acted /\ req[r].stage = "run"
      BY <1>8 DEF Run, At, Course, Idle, Good
    <2>2. CASE Respond(r, 403)
      BY <2>1, <2>2, AnsweredIsGood, BecomeIsGood DEF Respond, Statuses
    <2>3. CASE ~(req[r].secret /\ req[r].scheme # "https") /\ Become(r, Answered(new, 200))
      <3>1. Answered(new, 200) \in Records
        <4>1. new \in Records /\ 200 \in Statuses
          BY <2>1, RecordChanges DEF Good, Statuses
        <4> HIDE DEF new
        <4>2. QED
          BY <4>1, AnsweredIsRecord
      <3>2. Good(Answered(new, 200))
        BY <2>1, <2>3, <3>1 DEF Good, Records, Answered
      <3> HIDE DEF new
      <3>3. QED
        BY <2>3, <3>2, BecomeIsGood
    <2>4. QED
      BY <1>8, <2>2, <2>3 DEF Run
  <1>9. ASSUME NEW r \in Requests, Close(r)
        PROVE  Course'
    BY <1>9, BecomeIsGood DEF Close
  <1>10. QED
    BY <1>1, <1>2, <1>3, <1>4, <1>5, <1>6, <1>7, <1>8, <1>9 DEF Next, Tick, Rotate, vars

(***************************************************************************)
(* Types.                                                                  *)
(***************************************************************************)
LEMMA HorizonIs == Horizon \in Nat /\ TTL <= Horizon /\ MinRefetch <= Horizon
  BY DEF Horizon

LEMMA OlderIs ==
  ASSUME NEW age \in 0..Horizon
  PROVE  Older(age) \in 0..Horizon
  BY HorizonIs DEF Older

Cache ==
    /\ keys \subseteq Keys
    /\ {fetchedAge, attemptAge} \subseteq 0..Horizon
    /\ lock \in Requests \cup {None}
    /\ published \subseteq Keys
    /\ goneFor \in [Keys -> 0..Horizon]
    /\ lastFailed \in BOOLEAN

LEMMA TypesAre == Course /\ Cache <=> TypeOK /\ Course
  BY DEF TypeOK, Cache, Course, Good, Records, Statuses, Idle, Stages

(* Only fetches, time and Cloudflare change what is known of the keys.     *)
LEMMA CacheSteps ==
  ASSUME [Next]_vars
  PROVE  \/ UNCHANGED cache
         \/ \E r \in Requests : Fetch(r) \/ FetchOk(r) \/ FetchFails(r)
         \/ Tick
         \/ \E now \in SUBSET Keys : Rotate(now)
  <1>1. ASSUME NEW r \in Requests,
               \/ \E route \in Routes, length \in {None} \cup 0..Limit + 1 : Arrive(r, route, length)
               \/ \E size \in 1..Limit + 1 : Receive(r, size)
               \/ \E tunnel \in BOOLEAN, proto \in {"http", "https", "none"},
                     kid \in Keys \cup {Unknown, None} : Authenticate(r, tunnel, proto, kid)
        PROVE  UNCHANGED cache
    BY <1>1, Zenon DEF Arrive, Receive, Authenticate, Respond
  <1>2. ASSUME NEW r \in Requests,
               Parse(r) \/ Hit(r) \/ Throttled(r) \/ Run(r) \/ Close(r)
        PROVE  UNCHANGED cache
    BY <1>2, Zenon DEF Parse, Hit, Throttled, Run, Close, Respond
  <1>3. CASE UNCHANGED vars
    BY <1>3 DEF vars
  <1>4. QED
    BY <1>1, <1>2, <1>3, Zenon DEF Next

LEMMA StepCache ==
  ASSUME Cache, [Next]_vars
  PROVE  Cache'
  <1>1. CASE UNCHANGED cache
    BY <1>1 DEF cache, Cache
  <1>2. ASSUME NEW r \in Requests, Fetch(r)
        PROVE  Cache'
    BY <1>2, HorizonIs DEF Fetch, Cache
  <1>3. ASSUME NEW r \in Requests, FetchOk(r) \/ FetchFails(r)
        PROVE  Cache'
    BY <1>3 DEF FetchOk, FetchFails, Cache
  <1>4. CASE Tick
    <2>1. fetchedAge' \in 0..Horizon /\ attemptAge' \in 0..Horizon
      BY <1>4, OlderIs DEF Tick, Cache
    <2>2. goneFor' \in [Keys -> 0..Horizon]
      BY <1>4, OlderIs, HorizonIs DEF Tick, Cache
    <2>3. QED
      BY <1>4, <2>1, <2>2 DEF Tick, Cache
  <1>5. ASSUME NEW now \in SUBSET Keys, Rotate(now)
        PROVE  Cache'
    BY <1>5, HorizonIs DEF Rotate, Cache
  <1>6. QED
    BY <1>1, <1>2, <1>3, <1>4, <1>5, CacheSteps

(***************************************************************************)
(* Keys.  A key in the cache was published when it was fetched, so that it *)
(* has been gone for no longer than the cache is old; and unless a fetch   *)
(* is under way or the last one failed, the cache is as old as the last    *)
(* attempt.                                                                *)
(***************************************************************************)
Ages ==
    /\ \A k \in published : goneFor[k] = 0
    /\ \A k \in keys : goneFor[k] <= fetchedAge
    /\ lock = None => lastFailed \/ fetchedAge = attemptAge

LEMMA StepAges ==
  ASSUME Cache, Ages, [Next]_vars
  PROVE  Ages'
  <1>1. CASE UNCHANGED cache
    BY <1>1 DEF cache, Ages
  <1>2. ASSUME NEW r \in Requests, Fetch(r)
        PROVE  Ages'
    BY <1>2 DEF Fetch, Ages
  <1>3. ASSUME NEW r \in Requests, FetchOk(r) \/ FetchFails(r)
        PROVE  Ages'
    BY <1>3 DEF FetchOk, FetchFails, Cache, Ages
  <1>4. CASE Tick
    <2>1. \A k \in Keys : goneFor'[k] = IF k \in published THEN 0 ELSE Older(goneFor[k])
      BY <1>4 DEF Tick
    <2>2. ASSUME NEW k \in keys
          PROVE  goneFor'[k] <= fetchedAge'
      BY <1>4, <2>1, HorizonIs DEF Tick, Cache, Ages, Older
    <2>3. QED
      BY <1>4, <2>1, <2>2 DEF Tick, Cache, Ages
  <1>5. ASSUME NEW now \in SUBSET Keys, Rotate(now)
        PROVE  Ages'
    BY <1>5 DEF Rotate, Cache, Ages
  <1>6. QED
    BY <1>1, <1>2, <1>3, <1>4, <1>5, CacheSteps

IInv == Course /\ Cache /\ Ages

LEMMA Always == Spec => []IInv
  <1>1. Init => IInv
    <2> SUFFICES ASSUME Init PROVE IInv
      OBVIOUS
    <2>1. Course
      BY DEF Init, Course
    <2>2. Cache
      <3>1. goneFor \in [Keys -> 0..Horizon]
        BY HorizonIs DEF Init
      <3>2. lastFailed \in BOOLEAN
        BY Zenon DEF Init
      <3>3. QED
        BY <3>1, <3>2, HorizonIs DEF Init, Cache
    <2>3. Ages
      BY <2>2 DEF Init, Ages, Cache
    <2>4. QED
      BY <2>1, <2>2, <2>3 DEF IInv
  <1>2. IInv /\ [Next]_vars => IInv'
    BY StepCourse, StepCache, StepAges, TypesAre DEF IInv
  <1>3. QED
    BY <1>1, <1>2, PTL DEF Spec

(* Requests and the cache of keys keep their types.                        *)
THEOREM EdgeTypeCorrect == Spec => []TypeOK
  <1>1. IInv => TypeOK
    BY TypesAre DEF IInv
  <1>2. QED
    BY <1>1, Always, PTL

(* The application never sees more of a body than the limit, and whoever   *)
(* has sent more is answered 413.                                          *)
THEOREM BodyIsWithinLimit == Spec => []BodyWithinLimit
  <1>1. IInv => BodyWithinLimit
    BY DEF IInv, Course, Good, Records, Idle, BodyWithinLimit
  <1>2. QED
    BY <1>1, Always, PTL

(* A handler acts only for the LAN or behind a key of Cloudflare's, and    *)
(* with a secret only for what came over TLS through the tunnel.           *)
THEOREM EdgeIsAlwaysEnforced == Spec => []EdgeIsEnforced
  <1>1. IInv => EdgeIsEnforced
    BY DEF IInv, Course, Good, Idle, EdgeIsEnforced
  <1>2. QED
    BY <1>1, Always, PTL

(* A withdrawn key is taken no longer than the cache's lifetime or the     *)
(* throttle's interval, unless the last fetch has failed.                  *)
THEOREM StaleKeysNeedOutage == Spec => StaleKeyNeedsOutage
  <1> DEFINE Taken == \A r \in Requests :
                         req[r].stage \in {"key", "fetch"} /\ req'[r].stage = "run" =>
                            \/ req[r].kid \in published
                            \/ goneFor[req[r].kid] < Horizon
                            \/ lastFailed'
  <1>1. ASSUME IInv, Next
        PROVE  Taken
    <2> SUFFICES ASSUME NEW r \in Requests, req[r].stage \in {"key", "fetch"},
                        req'[r].stage = "run"
                 PROVE  \/ req[r].kid \in published
                        \/ goneFor[req[r].kid] < Horizon
                        \/ lastFailed'
      OBVIOUS
    <2> DEFINE kid == req[r].kid
    <2>1. \A cached : Look(r, cached) => kid \in cached
      <3>1. ASSUME NEW cached, Look(r, cached), kid \notin cached
            PROVE  FALSE
        <4>1. Become(r, Answered(req[r], 403))
          BY <3>1 DEF Look, NotFound
        <4>2. Good(req[r])
          BY <1>1 DEF IInv, Course, Idle
        <4>3. req'[r].stage = "answer"
          BY <1>1, <4>1, <4>2 DEF Become, Answered, Good, Records, IInv, Course
        <4>4. QED
          BY <4>3
      <3>2. QED
        BY <3>1
    <2>2. Hit(r) \/ Throttled(r) \/ FetchOk(r) \/ FetchFails(r)
      <3>1. req'[r] # req[r]
        OBVIOUS
      <3>2. PICK q \in Requests :
               \/ \E route \in Routes, length \in {None} \cup 0..Limit + 1 : Arrive(q, route, length)
               \/ \E size \in 1..Limit + 1 : Receive(q, size)
               \/ Parse(q)
               \/ \E tunnel \in BOOLEAN, proto \in {"http", "https", "none"},
                     x \in Keys \cup {Unknown, None} : Authenticate(q, tunnel, proto, x)
               \/ Hit(q) \/ Throttled(q) \/ Fetch(q) \/ FetchOk(q) \/ FetchFails(q)
               \/ Run(q)
               \/ Close(q)
        BY <1>1, <3>1, Zenon DEF Next, Tick, Rotate
      <3>3. \E new : Become(q, new)
        <4>1. CASE \E route \in Routes, length \in {None} \cup 0..Limit + 1 :
                      Arrive(q, route, length)
          BY <4>1, Zenon DEF Arrive
        <4>2. CASE \E size \in 1..Limit + 1 : Receive(q, size)
          BY <4>2, Zenon DEF Receive
        <4>3. CASE \E tunnel \in BOOLEAN, proto \in {"http", "https", "none"},
                      x \in Keys \cup {Unknown, None} : Authenticate(q, tunnel, proto, x)
          BY <4>3, Zenon DEF Authenticate, Respond
        <4>4. CASE Parse(q) \/ Fetch(q) \/ Run(q) \/ Close(q)
          BY <4>4, Zenon DEF Parse, Fetch, Run, Close, Respond, Move
        <4>5. CASE Hit(q) \/ Throttled(q) \/ FetchOk(q) \/ FetchFails(q)
          BY <4>5, Zenon DEF Hit, Throttled, FetchOk, FetchFails, Look, Found, NotFound, Move
        <4>6. QED
          BY <3>2, <4>1, <4>2, <4>3, <4>4, <4>5, Zenon
      <3>4. q = r
        BY <3>1, <3>3, <1>1 DEF Become, IInv, Course
      <3>5. ~Fetch(r)
        BY <1>1 DEF Fetch, Move, Become, IInv, Course, Idle, Good, Records
      <3>6. QED
        BY <3>2, <3>4, <3>5 DEF Arrive, Receive, Parse, Authenticate, Run, Close, At
    <2>3. CASE Hit(r)
      <3>1. kid \in keys /\ fetchedAge < TTL
        BY <2>3 DEF Hit, Fresh
      <3>2. QED
        BY <1>1, <3>1, HorizonIs DEF IInv, Cache, Ages
    <2>4. CASE Throttled(r)
      <3>1. kid \in keys /\ attemptAge < MinRefetch /\ lock = None /\ lastFailed' = lastFailed
        BY <2>1, <2>4 DEF Throttled, AtLock, cache
      <3>2. QED
        BY <1>1, <3>1, HorizonIs DEF IInv, Cache, Ages
    <2>5. CASE FetchOk(r)
      BY <2>1, <2>5 DEF FetchOk
    <2>6. CASE FetchFails(r)
      BY <2>6 DEF FetchFails
    <2>7. QED
      BY <2>2, <2>3, <2>4, <2>5, <2>6
  <1>2. IInv /\ [Next]_vars => [Taken]_vars
    BY <1>1
  <1>3. QED
    BY <1>2, Always, PTL DEF Spec, StaleKeyNeedsOutage


(***************************************************************************)
(* The token bucket, for any burst, refill and number of threads.  The     *)
(* inductive invariant puts what has been let through and what is left     *)
(* against the burst and the refill up to last, the only clock value the   *)
(* bucket itself knows.                                                    *)
(***************************************************************************)
(* What is spent and left is covered by the burst and by the refill.       *)
Covered ==
    IF known THEN tokens + granted * Cost <= Full + (last + rewound) * Rate
             ELSE granted = 0 /\ rewound = 0

Balance == BucketTypeOK /\ Covered /\ BurstIsAvailable

(* A full bucket holds at least the price of one request.                  *)
LEMMA FullType == Full \in Nat /\ Full >= Cost /\ Full > 0
  <1>1. \A a, b \in Nat \ {0} : a * b \in Nat /\ a * b >= b
    OBVIOUS
  <1> QED
    BY <1>1, RateAssumption DEF Full

(* The clock ticks between two reads are paid for once.                    *)
LEMMA Pay ==
  ASSUME NEW a \in Nat, NEW b \in Nat
  PROVE  a * Rate \in Nat /\ (a + b) * Rate = a * Rate + b * Rate
  BY RateAssumption

(* One more request costs Cost more.                                       *)
LEMMA Spend ==
  ASSUME NEW n \in Nat
  PROVE  n * Cost \in Nat /\ (n + 1) * Cost = n * Cost + Cost
  BY RateAssumption

(* A refill stays within the burst, takes nothing away and adds no more    *)
(* than the ticks since last.                                              *)
LEMMA RefillBounds ==
  ASSUME BucketTypeOK, Covered, BurstIsAvailable, NEW now \in 0..clock
  PROVE  /\ Refilled(now) \in 0..Full
         /\ Refilled(now) + granted * Cost >= Full
         /\ Refilled(now) + granted * Cost <=
              Full + (now + rewound + IF known /\ now < last THEN last - now ELSE 0) * Rate
  <1> DEFINE back == IF known /\ now < last THEN last - now ELSE 0
             gone == IF now > last THEN now - last ELSE 0
  <1>1. /\ now \in Nat /\ last \in Nat /\ rewound \in Nat /\ granted \in Nat
        /\ tokens \in Nat /\ tokens <= Full /\ Rate \in Nat /\ known \in BOOLEAN
    BY RateAssumption DEF BucketTypeOK
  <1>2. back \in Nat /\ gone \in Nat /\ Full \in Nat
    BY <1>1, FullType
  <1>3. gone * Rate \in Nat /\ (now + rewound + back) * Rate \in Nat
    <2>1. now + rewound + back \in Nat
      BY <1>1, <1>2
    <2> HIDE DEF back, gone
    <2> QED
      BY <1>2, <2>1, Pay
  <1>4. granted * Cost \in Nat
    BY <1>1, Spend
  <1>5. CASE ~known
    <2>1. granted * Cost = 0 /\ Refilled(now) = Full
      BY <1>5, RateAssumption DEF Refilled, Covered
    <2> HIDE DEF back, gone
    <2>2. Refilled(now) + granted * Cost <= Full + (now + rewound + back) * Rate
      BY <1>2, <1>3, <2>1
    <2> QED
      BY <1>2, <2>1, <2>2 DEF back
  <1>6. CASE known
    <2>1. now + rewound + back = (last + rewound) + gone
      BY <1>1, <1>6
    <2>2. (now + rewound + back) * Rate = (last + rewound) * Rate + gone * Rate
      <3>1. last + rewound \in Nat
        BY <1>1
      <3> HIDE DEF back, gone
      <3>2. ((last + rewound) + gone) * Rate = (last + rewound) * Rate + gone * Rate
        BY <1>2, <3>1, Pay
      <3> QED
        BY <2>1, <3>2
    <2>3. (last + rewound) * Rate \in Nat
      BY <1>1, Pay
    <2>4. /\ tokens + granted * Cost <= Full + (last + rewound) * Rate
          /\ tokens + granted * Cost >= Full
      BY <1>6 DEF Covered, BurstIsAvailable
    <2>5. \/ Refilled(now) = Full
             /\ tokens + gone * Rate > Full
          \/ Refilled(now) = tokens + gone * Rate
             /\ tokens + gone * Rate <= Full
      BY <1>1, <1>2, <1>3, <1>6 DEF Refilled
    <2> HIDE DEF back, gone
    <2>6. /\ Refilled(now) \in 0..Full
          /\ Refilled(now) + granted * Cost >= Full
          /\ Refilled(now) + granted * Cost <= Full + (now + rewound + back) * Rate
      BY <1>1, <1>2, <1>3, <1>4, <2>2, <2>3, <2>4, <2>5
    <2> QED
      BY <2>6 DEF back
  <1> QED
    BY <1>1, <1>5, <1>6

(* Before the first request nothing is spent.                              *)
LEMMA InitBalance == BucketInit => Balance
  <1> SUFFICES ASSUME BucketInit PROVE Balance
    OBVIOUS
  <1>0. known \in BOOLEAN
    BY Zenon DEF BucketInit
  <1>1. clock \in Nat /\ last \in 0..clock
    BY DEF BucketInit
  <1>2. tokens \in 0..Full /\ granted \in Nat /\ rewound \in Nat
    BY FullType DEF BucketInit
  <1>3. seen \in [Threads -> 0..clock \cup {NotRead}]
    BY DEF BucketInit
  <1>4. BucketTypeOK
    BY <1>0, <1>1, <1>2, <1>3 DEF BucketTypeOK
  <1>5. Covered /\ BurstIsAvailable
    BY DEF BucketInit, Covered, BurstIsAvailable
  <1> QED
    BY <1>4, <1>5 DEF Balance

(* Every check, in whatever order the threads get the lock, keeps the      *)
(* balance.                                                                *)
LEMMA StepBalance == ASSUME Balance, [BucketNext]_bucket PROVE Balance'
  <1> USE DEF Balance
  <1>1. CASE ClockTicks
    BY <1>1 DEF ClockTicks, BucketTypeOK, Covered, BurstIsAvailable
  <1>2. ASSUME NEW t \in Threads, ReadClock(t) PROVE Balance'
    BY <1>2 DEF ReadClock, BucketTypeOK, Covered, BurstIsAvailable
  <1>3. ASSUME NEW t \in Threads, Check(t) PROVE Balance'
    <2> DEFINE now == seen[t]
               back == IF known /\ now < last THEN last - now ELSE 0
               filled == Refilled(now)
    <2>1. /\ now \in 0..clock /\ clock \in Nat /\ granted \in Nat /\ rewound \in Nat
          /\ last \in 0..clock /\ seen \in [Threads -> 0..clock \cup {NotRead}]
      BY <1>3 DEF Check, BucketTypeOK
    <2>2. /\ filled \in 0..Full
          /\ filled + granted * Cost >= Full
          /\ filled + granted * Cost <= Full + (now + rewound + back) * Rate
      BY <2>1, RefillBounds
    <2>3. /\ known' = TRUE /\ last' = now /\ clock' = clock
          /\ rewound' = rewound + back
          /\ seen' = [seen EXCEPT ![t] = NotRead]
          /\ \/ filled < Cost /\ tokens' = filled /\ granted' = granted
             \/ filled >= Cost /\ tokens' = filled - Cost /\ granted' = granted + 1
      BY <1>3 DEF Check
    <2>4. back \in Nat
      BY <2>1
    <2>5. /\ granted * Cost \in Nat /\ (granted + 1) * Cost = granted * Cost + Cost
          /\ Cost \in Nat \ {0} /\ Full \in Nat
      BY <2>1, Spend, RateAssumption, FullType
    <2> HIDE DEF now, back, filled
    <2>6. tokens' + granted' * Cost = filled + granted * Cost
      BY <2>2, <2>3, <2>5
    <2>7. now + (rewound + back) = now + rewound + back
      BY <2>1, <2>4
    <2>8. Covered'
      BY <2>2, <2>3, <2>6, <2>7 DEF Covered
    <2>9. BurstIsAvailable'
      BY <2>2, <2>6 DEF BurstIsAvailable, Full
    <2>10. tokens' \in 0..Full /\ granted' \in Nat /\ rewound' \in Nat
      BY <2>1, <2>2, <2>3, <2>4, <2>5
    <2>11. seen' \in [Threads -> 0..clock' \cup {NotRead}]
      BY <2>1, <2>3
    <2>12. last' \in 0..clock'
      BY <2>1, <2>3
    <2> QED
      BY <2>1, <2>3, <2>8, <2>9, <2>10, <2>11, <2>12 DEF BucketTypeOK, Full
  <1>4. CASE UNCHANGED bucket
    BY <1>4 DEF bucket, BucketTypeOK, Covered, BurstIsAvailable
  <1> QED
    BY <1>1, <1>2, <1>3, <1>4 DEF BucketNext

(* The bucket never holds less than nothing or more than the burst.        *)
THEOREM BucketTypeCorrect == BucketSpec => []BucketTypeOK
  <1>1. Balance => BucketTypeOK
    BY DEF Balance
  <1> QED
    BY <1>1, InitBalance, StepBalance, PTL DEF BucketSpec

(* No user is refused before the burst is spent, however threads overlap.  *)
THEOREM BurstIsNeverLost == BucketSpec => []BurstIsAvailable
  <1>1. Balance => BurstIsAvailable
    BY DEF Balance
  <1> QED
    BY <1>1, InitBalance, StepBalance, PTL DEF BucketSpec

(* The limit is exceeded at most by the refill of the time by which checks *)
(* overtook each other; with a single thread it is exact.                  *)
THEOREM OverissueIsBounded == BucketSpec => []OverissueBounded
  <1>1. Balance => OverissueBounded
    <2> SUFFICES ASSUME Balance PROVE OverissueBounded
      OBVIOUS
    <2>1. /\ clock \in Nat /\ last \in Nat /\ last <= clock /\ rewound \in Nat
          /\ granted \in Nat /\ tokens \in Nat /\ Full \in Nat
      BY FullType DEF Balance, BucketTypeOK
    <2>2. PICK d \in Nat : clock = last + d
      <3>1. clock - last \in Nat /\ clock = last + (clock - last)
        BY <2>1
      <3> QED
        BY <3>1
    <2>3. (clock + rewound) * Rate = (last + rewound) * Rate + d * Rate
      <3>1. clock + rewound = (last + rewound) + d /\ last + rewound \in Nat
        BY <2>1, <2>2
      <3> QED
        BY <2>2, <3>1, Pay
    <2>4. /\ granted * Cost \in Nat /\ d * Rate \in Nat
          /\ (last + rewound) * Rate \in Nat /\ (clock + rewound) * Rate \in Nat
      <3>1. last + rewound \in Nat /\ clock + rewound \in Nat
        BY <2>1
      <3>2. granted * Cost \in Nat
        BY <2>1, Spend
      <3> QED
        BY <2>2, <3>1, <3>2, Pay
    <2>5. CASE known
      BY <2>1, <2>3, <2>4, <2>5 DEF Balance, Covered, OverissueBounded
    <2>6. CASE ~known
      <3>1. granted * Cost = 0
        BY <2>6, RateAssumption DEF Balance, Covered
      <3> QED
        BY <2>1, <2>4, <3>1 DEF OverissueBounded
    <2> QED
      BY <2>5, <2>6
  <1> QED
    BY <1>1, InitBalance, StepBalance, PTL DEF BucketSpec
===============================================================================
