------------------------------- MODULE HttpEdge -------------------------------
(***************************************************************************)
(* The way of a request through the backend up to its handler:             *)
(* middleware/body_limit.py, middleware/trusted_ingress.py, auth.py with   *)
(* auth.mode = token_plus_cf_access, and services/cf_access.py with its    *)
(* cache of the keys that Cloudflare Access signs with.                    *)
(*                                                                         *)
(* FastAPI reads and parses the body before it resolves the dependencies   *)
(* (bearer, access JWT, TLS), and answers only then: no body is read after *)
(* a response has begun.  Lengths are in units of which Limit are allowed  *)
(* on the path; a header is chosen where the code first reads it.  Whether *)
(* a bearer or cookie is accepted is the subject of ConsoleAccess.         *)
(***************************************************************************)
EXTENDS Integers, FiniteSets

CONSTANTS
    Requests,        \* threads that serve requests
    Keys,            \* kids that are followed: Cloudflare publishes and withdraws them
    Unknown,         \* a kid that it never does
    None,
    Limit,           \* MAX_STANDARD_BODY_BYTES, or that of audio paths
    TTL, MinRefetch  \* jwks_cache_ttl_s, jwks_min_refetch_interval_s

ASSUME EdgeAssumption ==
    /\ {Limit, TTL} \subseteq Nat \ {0} /\ MinRefetch \in Nat
    /\ Unknown \notin Keys /\ None \notin Keys \cup {Unknown} \cup Requests

VARIABLES
    req,           \* request -> where it is; over is history: it was too long
    keys,          \* CfAccessVerifier._keys
    fetchedAge,    \* time since _fetched_at
    attemptAge,    \* time since _last_attempt
    lock,          \* holder of _lock during a fetch
    published,     \* the keys under /cdn-cgi/access/certs
    goneFor,       \* history: time since a key was withdrawn
    lastFailed     \* history: the last fetch failed

cache == <<keys, fetchedAge, attemptAge, lock, published, goneFor, lastFailed>>
vars == <<req, cache>>

Routes == {"audio", "json", "secret", "get"}   \* "secret" depends on require_tls
\* Ages are counted up to the longer of the two intervals.
Horizon == IF TTL >= MinRefetch THEN TTL ELSE MinRefetch
Idle   == [stage |-> "idle"]
Stages == {"idle", "read", "auth", "key", "fetch", "run", "answer"}

TypeOK ==
    /\ \A r \in Requests : /\ req[r].stage \in Stages
                           /\ req[r].stage = "answer" =>
                                req[r].status \in {200, 400, 401, 403, 411, 413}
    /\ keys \subseteq Keys
    /\ {fetchedAge, attemptAge} \subseteq 0..Horizon
    /\ lock \in Requests \cup {None}
    /\ published \subseteq Keys
    /\ goneFor \in [Keys -> 0..Horizon]
    /\ lastFailed \in BOOLEAN

Init ==
    /\ req = [r \in Requests |-> Idle]
    /\ keys = {}
    /\ fetchedAge = Horizon
    /\ attemptAge = Horizon
    /\ lock = None
    /\ published \in SUBSET Keys
    /\ goneFor = [k \in Keys |-> IF k \in published THEN 0 ELSE Horizon]
    /\ lastFailed = FALSE

Become(r, record) == req' = [req EXCEPT ![r] = record]

At(r, stage) == req[r].stage = stage

Move(r, stage) == Become(r, [req[r] EXCEPT !.stage = stage])

(* What the client is answered: once the limit was exceeded the response   *)
(* of the application is dropped and a 413 sent when it has returned.      *)
Answered(record, status) ==
    [record EXCEPT !.stage = "answer", !.received = 0,
                   !.status = IF record.exceeded THEN 413 ELSE status]

Respond(r, status) == Become(r, Answered(req[r], status)) /\ UNCHANGED cache

------------------------------------------------------------------------------
(* The body *)

(* The limit looks at the header only, before anything is read; without a  *)
(* length an upload is refused, and a body is measured as it comes in.     *)
Arrive(r, route, length) ==
    LET record == [stage |-> "read", secret |-> route = "secret",
                   received |-> 0, fed |-> 0, exceeded |-> FALSE, over |-> FALSE,
                   tunnel |-> FALSE, scheme |-> "http", kid |-> None,
                   acted |-> FALSE, status |-> 0]
    IN  /\ At(r, "idle")
        /\ Become(r, CASE route = "get" -> [record EXCEPT !.stage = "auth"]
                       [] route = "audio" /\ length = None -> Answered(record, 411)
                       [] route # "get" /\ length # None /\ length > Limit -> Answered(record, 413)
                       [] OTHER -> record)
        /\ UNCHANGED cache

\* Fault: each message is compared with the limit on its own
ReceiveEach(r, size) ==
    /\ At(r, "read")
    /\ ~req[r].exceeded
    /\ ~req[r].over
    /\ Become(r, [req[r] EXCEPT !.received = @ + size,
                                !.exceeded = size > Limit,
                                !.over = req[r].received + size > Limit,
                                !.fed = IF size > Limit THEN @ ELSE @ + size])
    /\ UNCHANGED cache

(* limited_receive: the message that crosses the limit becomes an empty    *)
(* last one, whatever Content-Length has said.                             *)
Receive(r, size) ==
    /\ At(r, "read")
    /\ ~req[r].exceeded
    /\ LET total == req[r].received + size
       IN  Become(r, [req[r] EXCEPT !.received = total,
                                    !.exceeded = total > Limit,
                                    !.over = total > Limit,
                                    !.fed = IF total > Limit THEN @ ELSE total])
    /\ UNCHANGED cache

(* The body has ended for the application: it is parsed or a 400 or 422.   *)
(* What was cut off may be a blank end, and then the rest parses.          *)
Parse(r) ==
    /\ At(r, "read")
    /\ \/ /\ Become(r, [req[r] EXCEPT !.stage = "auth", !.received = 0, !.fed = 0])
          /\ UNCHANGED cache
       \/ Respond(r, 400)

------------------------------------------------------------------------------
(* Ingress and identity *)

Scheme(tunnel, proto) == IF tunnel /\ proto \in {"http", "https"} THEN proto ELSE "http"

(* Bearer or cookie first.  On the way through the tunnel, which is the    *)
(* raw peer's to say, an access JWT is needed; without it, or on the LAN,  *)
(* no key is looked at.                                                    *)
Authenticate(r, tunnel, proto, kid) ==
    /\ At(r, "auth")
    /\ \/ Respond(r, 401)
       \/ tunnel /\ kid = None /\ Respond(r, 403)
       \/ /\ tunnel => kid # None
          /\ Become(r, [req[r] EXCEPT !.stage = IF tunnel THEN "key" ELSE "run",
                                      !.tunnel = tunnel,
                                      !.scheme = Scheme(tunnel, proto),
                                      !.kid = IF tunnel THEN kid ELSE None])
          /\ UNCHANGED cache

------------------------------------------------------------------------------
(* _key_for_kid: one thread at a time, and the clock is read under the lock *)

AtLock(r) == At(r, "key") /\ lock = None

Fresh == fetchedAge < TTL

\* A key was found; the JWT is still checked for signature, aud, iss and exp.
Found(r) == Move(r, "run") \/ Become(r, Answered(req[r], 403))

NotFound(r) == Become(r, Answered(req[r], 403))

Look(r, known) == IF req[r].kid \in known THEN Found(r) ELSE NotFound(r)

\* Fault: a key that is in the cache is good for ever
HitForEver(r) ==
    /\ AtLock(r)
    /\ req[r].kid \in keys
    /\ Found(r)
    /\ UNCHANGED cache

Hit(r) ==
    /\ AtLock(r)
    /\ Fresh /\ req[r].kid \in keys
    /\ Found(r)
    /\ UNCHANGED cache

Miss(r) == ~(Fresh /\ req[r].kid \in keys)

\* Fault: every miss counts as an attempt
ThrottledAnew(r) ==
    /\ AtLock(r) /\ Miss(r)
    /\ attemptAge < MinRefetch
    /\ Look(r, keys)
    /\ attemptAge' = 0
    /\ UNCHANGED <<keys, fetchedAge, lock, published, goneFor, lastFailed>>

(* Too early to ask again: an old key is still taken, a new one refused.   *)
Throttled(r) ==
    /\ AtLock(r) /\ Miss(r)
    /\ attemptAge < MinRefetch
    /\ Look(r, keys)
    /\ UNCHANGED cache

Fetch(r) ==
    /\ AtLock(r) /\ Miss(r)
    /\ attemptAge >= MinRefetch
    /\ lock' = r
    /\ attemptAge' = 0
    /\ Move(r, "fetch")
    /\ UNCHANGED <<keys, fetchedAge, published, goneFor, lastFailed>>

(* The answer replaces the cache, dated to when the fetch began. *)
FetchOk(r) ==
    /\ At(r, "fetch")
    /\ keys' = published
    /\ fetchedAge' = attemptAge
    /\ lock' = None
    /\ lastFailed' = FALSE
    /\ Look(r, published)
    /\ UNCHANGED <<attemptAge, published, goneFor>>

(* Unreachable, an error status or keys that do not parse: nothing changes, *)
(* and an old key is taken.                                                 *)
FetchFails(r) ==
    /\ At(r, "fetch")
    /\ lock' = None
    /\ lastFailed' = TRUE
    /\ Look(r, keys)
    /\ UNCHANGED <<keys, fetchedAge, attemptAge, published, goneFor>>

------------------------------------------------------------------------------
(* The handler: require_tls refuses it, or it acts. *)
Run(r) ==
    /\ At(r, "run")
    /\ IF req[r].secret /\ req[r].scheme # "https"
       THEN Respond(r, 403)
       ELSE Become(r, Answered([req[r] EXCEPT !.acted = TRUE], 200)) /\ UNCHANGED cache

Close(r) ==
    /\ At(r, "answer")
    /\ Become(r, Idle)
    /\ UNCHANGED cache

Older(age) == IF age < Horizon THEN age + 1 ELSE Horizon

Tick ==
    /\ fetchedAge' = Older(fetchedAge)
    /\ attemptAge' = Older(attemptAge)
    /\ goneFor' = [k \in Keys |-> IF k \in published THEN 0 ELSE Older(goneFor[k])]
    /\ UNCHANGED <<req, keys, lock, published, lastFailed>>

(* Cloudflare rotates its keys. *)
Rotate(now) ==
    /\ published' = now
    /\ goneFor' = [k \in Keys |-> IF k \in published \cup now THEN 0 ELSE goneFor[k]]
    /\ UNCHANGED <<req, keys, fetchedAge, attemptAge, lock, lastFailed>>

Next ==
    \/ \E r \in Requests :
        \/ \E route \in Routes, length \in {None} \cup 0..Limit + 1 : Arrive(r, route, length)
        \/ \E size \in 1..Limit + 1 : Receive(r, size)
        \/ Parse(r)
        \/ \E tunnel \in BOOLEAN, proto \in {"http", "https", "none"},
              kid \in Keys \cup {Unknown, None} : Authenticate(r, tunnel, proto, kid)
        \/ Hit(r) \/ Throttled(r) \/ Fetch(r) \/ FetchOk(r) \/ FetchFails(r)
        \/ Run(r)
        \/ Close(r)
    \/ Tick
    \/ \E now \in SUBSET Keys : Rotate(now)

(* Time passes, a thread that can have the lock to fetch takes it, every   *)
(* fetch ends (http_timeout_s), and an endpoint that is asked over and     *)
(* over answers at some time.                                              *)
Fairness ==
    /\ WF_vars(Tick)
    /\ \A r \in Requests : WF_vars(Fetch(r)) /\ WF_vars(FetchOk(r) \/ FetchFails(r))
    /\ SF_vars(\E r \in Requests : FetchOk(r))

Spec == Init /\ [][Next]_vars /\ Fairness

------------------------------------------------------------------------------
(* However a body is cut into messages and whatever its length is said to  *)
(* be: the application never sees more than the limit, and a client that   *)
(* has sent more is answered 413 and nothing else, by one response.        *)
BodyWithinLimit ==
    \A r \in Requests : req[r].stage \notin {"idle"} =>
        /\ req[r].fed <= Limit
        /\ req[r].stage = "answer" /\ req[r].over => req[r].status = 413

(* A handler has only acted for a request that came through the tunnel     *)
(* with a key of Cloudflare's, or over the LAN; where TLS is required, only *)
(* through the tunnel, whatever X-Forwarded-Proto a LAN client sends.      *)
EdgeIsEnforced ==
    \A r \in Requests : req[r].stage = "answer" /\ req[r].acted =>
        /\ req[r].tunnel => req[r].kid \in Keys
        /\ req[r].secret => req[r].tunnel /\ req[r].scheme = "https"

(* A key that Cloudflare has withdrawn is taken no longer than the cache's *)
(* lifetime or the throttle's interval, unless the last fetch has failed:  *)
(* however requests queue for the lock and keys rotate during a fetch.     *)
StaleKeyNeedsOutage ==
    [][ \A r \in Requests :
          req[r].stage \in {"key", "fetch"} /\ req'[r].stage = "run" =>
              \/ req[r].kid \in published
              \/ goneFor[req[r].kid] < Horizon
              \/ lastFailed' ]_vars

(* A new key gets in: when Cloudflare publishes it and requests keep coming *)
(* with it, it is in the cache some time and stays, although unknown kids  *)
(* share its throttle and the lock is not fair.                            *)
NewKeyGetsIn ==
    \A k \in Keys :
        /\ <>[](k \in published)
        /\ []<>(\E r \in Requests : At(r, "key") /\ req[r].kid = k)
        => <>[](k \in keys)

==============================================================================
