-------------------------- MODULE LocalInferenceGate --------------------------
(***************************************************************************)
(* services/local_gate.py: an asyncio.Semaphore around every call to a     *)
(* local provider, acquired under wait_for with a timeout.  The semaphore  *)
(* is the standard library's (CPython 3.11 and 3.12, the versions the      *)
(* backend allows).  A waiter goes through steps of the event loop of its  *)
(* own: release() resolves its future, later it runs; a timeout cancels    *)
(* the future, or, when the future is already resolved, the task that was  *)
(* about to run, and again the task runs later.                            *)
(***************************************************************************)
EXTENDS Integers, Sequences, FiniteSets
CONSTANTS Callers,       \* requests that use local providers
          Concurrency    \* limits.local_concurrency

ASSUME GateAssumption == IsFiniteSet(Callers) /\ Concurrency \in Int

(* LocalInferenceGate.__init__: max(1, concurrency) *)
Capacity == IF Concurrency < 1 THEN 1 ELSE Concurrency

VARIABLES
    permits,   \* Semaphore._value
    queue,     \* Semaphore._waiters, oldest first
    slot       \* where a caller is with respect to slot()

gate == <<permits, queue, slot>>

(* "waiting": the future is pending; "granted": it has its result, the     *)
(* caller has not run yet; "expired", "revoked": the timeout struck before *)
(* or after the result; "in": the body of slot() runs.                     *)
SlotStates == {"out", "waiting", "granted", "expired", "revoked", "in"}

GateTypeOK == /\ permits \in Nat
              /\ queue \in Seq(Callers)
              /\ slot \in [Callers -> SlotStates]

GateInit == /\ permits = Capacity
            /\ queue = <<>>
            /\ slot = [c \in Callers |-> "out"]

Waiting == {c \in Callers : slot[c] = "waiting"}
Inside  == {c \in Callers : slot[c] = "in"}

-----------------------------------------------------------------------------
Ahead(c, d) ==
    \E i, j \in DOMAIN queue : i < j /\ queue[i] = c /\ queue[j] = d

(* Semaphore._wake_up_next, n times or as often as someone waits: W are    *)
(* the waiters that get a result, the oldest first.                        *)
Wakes(W, n) ==
    /\ W \subseteq Waiting
    /\ Cardinality(W) = IF Cardinality(Waiting) < n THEN Cardinality(Waiting) ELSE n
    /\ \A c \in W, d \in Waiting \ W : Ahead(c, d)

(* Caller c goes to state s, the callers in W get their result. *)
Move(c, s, W) ==
    slot' = [d \in Callers |-> IF d = c THEN s ELSE IF d \in W THEN "granted" ELSE slot[d]]

Dequeue(c) ==
    \E i \in DOMAIN queue :
        /\ queue[i] = c
        /\ queue' = SubSeq(queue, 1, i - 1) \o SubSeq(queue, i + 1, Len(queue))

(* Semaphore.locked: no permit, or somebody with a live future queues. *)
Locked == permits = 0 \/ \E c \in Callers : slot[c] \in {"waiting", "granted", "revoked"}

-----------------------------------------------------------------------------
(* Fault: a newcomer only looks at the counter. *)
EnterUnqueued(c) ==
    /\ slot[c] = "out" /\ permits > 0
    /\ permits' = permits - 1
    /\ slot' = [slot EXCEPT ![c] = "in"]
    /\ UNCHANGED queue

(* slot(): Semaphore.acquire succeeds at once. *)
Enter(c) ==
    /\ slot[c] = "out" /\ ~Locked
    /\ permits' = permits - 1
    /\ slot' = [slot EXCEPT ![c] = "in"]
    /\ UNCHANGED queue

Enqueue(c) ==
    /\ slot[c] = "out" /\ Locked
    /\ queue' = Append(queue, c)
    /\ slot' = [slot EXCEPT ![c] = "waiting"]
    /\ UNCHANGED permits

(* Fault: the woken waiter does not pass surplus permits on. *)
ResumeAlone(c) ==
    /\ slot[c] = "granted"
    /\ Dequeue(c)
    /\ slot' = [slot EXCEPT ![c] = "in"]
    /\ UNCHANGED permits

(* The woken caller runs, and passes permits on that became free meanwhile. *)
Resume(c) ==
    /\ slot[c] = "granted"
    /\ Dequeue(c)
    /\ \E W \in SUBSET Waiting :
          /\ Wakes(W, permits)
          /\ Move(c, "in", W)
          /\ permits' = permits - Cardinality(W)

(* wait_for's timeout (or the cancellation of the request). *)
Expire(c) ==
    /\ slot[c] \in {"waiting", "granted"}
    /\ slot' = [slot EXCEPT ![c] = IF slot[c] = "waiting" THEN "expired" ELSE "revoked"]
    /\ UNCHANGED <<permits, queue>>

(* The timed out caller runs: it gives a granted permit back, wakes others *)
(* and raises LocalGateTimeout.                                            *)
GivenBack(c) == IF slot[c] = "revoked" THEN 1 ELSE 0

Leave(c) ==
    /\ slot[c] \in {"expired", "revoked"}
    /\ Dequeue(c)
    /\ \E W \in SUBSET Waiting :
          /\ Wakes(W, permits + GivenBack(c))
          /\ Move(c, "out", W)
          /\ permits' = permits + GivenBack(c) - Cardinality(W)

(* Fault: release() does not wake anybody. *)
ReleaseSilently(c) ==
    /\ slot[c] = "in"
    /\ permits' = permits + 1
    /\ slot' = [slot EXCEPT ![c] = "out"]
    /\ UNCHANGED queue

(* The finally of slot(): Semaphore.release. *)
Release(c) ==
    /\ slot[c] = "in"
    /\ \E W \in SUBSET Waiting :
          /\ Wakes(W, 1)
          /\ Move(c, "out", W)
          /\ permits' = permits + 1 - Cardinality(W)
    /\ UNCHANGED queue

GateStep(c) ==
    Enter(c) \/ Enqueue(c) \/ Resume(c) \/ Expire(c) \/ Leave(c) \/ Release(c)

GateNext == \E c \in Callers : GateStep(c)

GateSpec == GateInit /\ [][GateNext]_gate

(* Callers run when the event loop gets to them; provider calls end, they  *)
(* have timeouts.  Timeouts of the gate itself are not relied upon.        *)
GateFairness ==
    \A c \in Callers : WF_gate(Resume(c)) /\ WF_gate(Leave(c)) /\ WF_gate(Release(c))

FairGateSpec == GateSpec /\ GateFairness
-----------------------------------------------------------------------------
(* Permits are neither lost nor invented by a timeout that races with a    *)
(* release (docstring of local_gate.py).                                   *)
Holding == {c \in Callers : slot[c] \in {"granted", "revoked", "in"}}

PermitsConserved == permits + Cardinality(Holding) = Capacity

(* Nobody waits for a free permit unless someone already on the way to run *)
(* will pass it on.                                                        *)
NoLostWakeup ==
    permits > 0 /\ Waiting # {} => \E c \in Callers : slot[c] \in {"granted", "revoked"}

(* A caller never gets a permit over the head of one that waits longer.    *)
Overtakes(d, c) ==
    /\ slot[c] = "waiting" /\ slot'[c] = "waiting"
    /\ slot[d] \in {"out", "waiting"} /\ slot'[d] \in {"granted", "in"}
    /\ ~Ahead(d, c)

NoOvertaking == [][\A c, d \in Callers : ~Overtakes(d, c)]_gate

(* Who waits gets the slot even if no timeout ever ends the waiting.       *)
WaitersServed == \A c \in Callers : slot[c] = "waiting" ~> slot[c] # "waiting"

(* The gate implements a bounded pool: no more than Capacity calls at once. *)
Pool == INSTANCE SlotPool WITH holders <- Inside
ImplementsPool == Pool!Spec
=============================================================================
