----------------------------- MODULE RateLimiter -----------------------------
(***************************************************************************)
(* services/rate_limit.py: the token bucket of one user.  Threads check    *)
(* it: the event loop for the async routes, the workers of the thread pool *)
(* for the synchronous console route.  A check reads the monotonic clock   *)
(* before it takes the lock; what it does under the lock is one step.      *)
(*                                                                         *)
(* Tokens are counted in fractions, Cost of them to a token, so that the   *)
(* refill of one clock tick is a whole number: Rate.  Float rounding is    *)
(* not modelled.                                                           *)
(***************************************************************************)
EXTENDS Integers
CONSTANTS Threads,
          Burst,    \* limits.rate_limit_capacity, in tokens
          Cost,        \* fractions per token
          Rate,        \* refill in fractions per clock tick; 0 is allowed
          MaxClock,    \* bound on the clock, for model checking
          NotRead      \* no clock value: the thread is not on its way to the lock

ASSUME RateAssumption ==
    /\ Burst \in Nat \ {0} /\ Cost \in Nat \ {0} /\ Rate \in Nat
    /\ MaxClock \in Nat /\ NotRead \notin Nat

Full == Burst * Cost

VARIABLES
    clock,     \* time.monotonic()
    known,     \* is there a bucket for the user?
    tokens,    \* _Bucket.tokens
    last,      \* _Bucket.last
    seen,      \* the clock value a thread has read on its way to the lock
    granted,   \* history: requests let through
    rewound    \* history: clock ticks by which last was moved back

bucket == <<clock, known, tokens, last, seen, granted, rewound>>

BucketTypeOK ==
    /\ clock \in Nat /\ known \in BOOLEAN
    /\ tokens \in 0..Full /\ last \in 0..clock
    /\ seen \in [Threads -> 0..clock \cup {NotRead}]
    /\ granted \in Nat /\ rewound \in Nat

BucketInit ==
    /\ clock = 0 /\ known = FALSE
    /\ tokens = 0 /\ last = 0
    /\ seen = [t \in Threads |-> NotRead]
    /\ granted = 0 /\ rewound = 0

-----------------------------------------------------------------------------
ClockTicks ==
    /\ clock < MaxClock
    /\ clock' = clock + 1
    /\ UNCHANGED <<known, tokens, last, seen, granted, rewound>>

ReadClock(t) ==
    /\ seen[t] = NotRead
    /\ seen' = [seen EXCEPT ![t] = clock]
    /\ UNCHANGED <<clock, known, tokens, last, granted, rewound>>

(* Fault: the refill starts from zero. *)
RefilledFromZero(now) ==
    IF ~known THEN Full
    ELSE LET more == (IF now > last THEN now - last ELSE 0) * Rate
         IN  IF more > Full THEN Full ELSE more

Refilled(now) ==
    IF ~known THEN Full
    ELSE LET more == tokens + (IF now > last THEN now - last ELSE 0) * Rate
         IN  IF more > Full THEN Full ELSE more

(* Fault: last is not moved on. *)
CheckKeepingLast(t) ==
    LET now == seen[t]
    IN  /\ now # NotRead
        /\ known' = TRUE
        /\ last' = IF known THEN last ELSE now
        /\ \/ /\ Refilled(now) < Cost
              /\ tokens' = Refilled(now) /\ UNCHANGED granted
           \/ /\ Refilled(now) >= Cost
              /\ tokens' = Refilled(now) - Cost /\ granted' = granted + 1
        /\ seen' = [seen EXCEPT ![t] = NotRead]
        /\ UNCHANGED <<clock, rewound>>

(* check under the lock: refill, then let through or refuse.  last becomes *)
(* the time this thread has read, even when another thread was later.      *)
Check(t) ==
    LET now == seen[t]
    IN  /\ now # NotRead
        /\ known' = TRUE
        /\ last' = now
        /\ rewound' = rewound + IF known /\ now < last THEN last - now ELSE 0
        /\ \/ /\ Refilled(now) < Cost
              /\ tokens' = Refilled(now) /\ UNCHANGED granted
           \/ /\ Refilled(now) >= Cost
              /\ tokens' = Refilled(now) - Cost /\ granted' = granted + 1
        /\ seen' = [seen EXCEPT ![t] = NotRead]
        /\ UNCHANGED clock

BucketNext == ClockTicks \/ \E t \in Threads : ReadClock(t) \/ Check(t)

BucketSpec == BucketInit /\ [][BucketNext]_bucket
-----------------------------------------------------------------------------
(* Requests let through never exceed the burst plus what the clock has     *)
(* refilled, plus what was refilled twice because threads took the lock in *)
(* another order than they read the clock.                                 *)
OverissueBounded == granted * Cost <= Full + (clock + rewound) * Rate

(* Nobody is refused before the burst is spent: tokens are only lost to    *)
(* requests let through.                                                   *)
BurstIsAvailable == known => tokens + granted * Cost >= Full

(* The limit itself: never more than the burst plus the refill.  The lock  *)
(* is there to protect the whole read-modify-write cycle (docstring of     *)
(* rate_limit.py).                                                         *)
NoOverissue == granted * Cost <= Full + clock * Rate
=============================================================================
