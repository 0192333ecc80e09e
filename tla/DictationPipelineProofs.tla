------------------------ MODULE DictationPipelineProofs ------------------------
(***************************************************************************)
(* The gate for any number of callers and any local_concurrency, and the   *)
(* pipeline that goes through it: where a request's audio and text go, for *)
(* any registry of providers, any modes and any number of requests.        *)
(*                                                                         *)
(* permits + Cardinality(Holding) = Capacity is inductive together with    *)
(* the types of the gate: a permit is counted, or it belongs to a caller   *)
(* inside, or it is on its way to a caller that was woken, timed out or    *)
(* not.  The pipeline uses the gate by the gate's own steps, so what is    *)
(* shown of the gate holds in the pipeline.  The rest is one invariant per *)
(* request, Course: while a request is under way its plan is the one made  *)
(* of what was asked, each stage has the calls behind it that lead there,  *)
(* every call made was one the request allows, and the slot of the gate is *)
(* held during local calls only.                                           *)
(***************************************************************************)
EXTENDS DictationPipeline, FiniteSetTheorems, TLAPS

(***************************************************************************)
(* The gate.                                                               *)
(***************************************************************************)
(* The configured concurrency yields at least one permit.                  *)
LEMMA CapacityType == Capacity \in Nat \ {0}
  BY GateAssumption DEF Capacity

(* Sets of callers are finite.                                             *)
LEMMA CallerSets ==
  ASSUME NEW S \in SUBSET Callers
  PROVE  IsFiniteSet(S) /\ Cardinality(S) \in Nat
  BY FS_Subset, FS_CardinalityType, GateAssumption

(* Taking a caller out of the queue leaves a queue of callers.             *)
LEMMA DequeueType ==
  ASSUME GateTypeOK, NEW c \in Callers, Dequeue(c)
  PROVE  queue' \in Seq(Callers)
  BY DEF GateTypeOK, Dequeue

(* At most as many are woken as there are permits to hand out.             *)
LEMMA WokenBound ==
  ASSUME NEW W \in SUBSET Waiting, NEW n \in Nat, Wakes(W, n)
  PROVE  Cardinality(W) \in Nat /\ Cardinality(W) <= n
  <1>1. W \in SUBSET Callers /\ Waiting \in SUBSET Callers
    BY DEF Waiting
  <1>2. Cardinality(W) \in Nat /\ Cardinality(Waiting) \in Nat
    BY <1>1, CallerSets
  <1> QED
    BY <1>2 DEF Wakes

(* What a move does to the permits in use: those of the woken are added,   *)
(* the caller's own is added, kept or given back.                          *)
LEMMA HoldingAfterMove ==
  ASSUME GateTypeOK, NEW c \in Callers, NEW s \in {"in", "out"},
         NEW W \in SUBSET Waiting, slot[c] # "waiting", Move(c, s, W)
  PROVE  /\ slot' \in [Callers -> SlotStates]
         /\ s = "in" /\ c \in Holding =>
               Cardinality(Holding') = Cardinality(Holding) + Cardinality(W)
         /\ s = "out" /\ c \in Holding =>
               Cardinality(Holding') = Cardinality(Holding) + Cardinality(W) - 1
         /\ s = "out" /\ c \notin Holding =>
               Cardinality(Holding') = Cardinality(Holding) + Cardinality(W)
  <1> DEFINE Kept == IF s = "in" THEN Holding ELSE Holding \ {c}
  <1> USE DEF GateTypeOK, SlotStates, Move, Waiting
  <1>1. slot' \in [Callers -> SlotStates]
    OBVIOUS
  <1>2. Holding \in SUBSET Callers /\ W \in SUBSET Callers /\ Kept \in SUBSET Callers
    BY DEF Holding
  <1>3. Kept \cap W = {}
    BY DEF Holding
  <1>4. s = "out" \/ c \in Holding => Holding' = Kept \cup W
    BY DEF Holding
  <1>5. /\ IsFiniteSet(Holding) /\ IsFiniteSet(W) /\ IsFiniteSet(Kept)
        /\ Cardinality(Holding) \in Nat /\ Cardinality(W) \in Nat
        /\ Cardinality(Kept) \in Nat
    BY <1>2, CallerSets
  <1>6. Cardinality(Kept \cup W) = Cardinality(Kept) + Cardinality(W)
    <2>1. Cardinality(Kept \cup W) =
             Cardinality(Kept) + Cardinality(W) - Cardinality(Kept \cap W)
      BY <1>5, FS_Union
    <2>2. Cardinality(Kept \cap W) = 0
      BY <1>3, FS_EmptySet
    <2> HIDE DEF Kept
    <2> QED
      BY <2>1, <2>2, <1>5
  <1>7. Cardinality(Holding \ {c}) =
           IF c \in Holding THEN Cardinality(Holding) - 1 ELSE Cardinality(Holding)
    BY <1>5, FS_RemoveElement
  <1>8. CASE s = "in"
    BY <1>1, <1>4, <1>5, <1>6, <1>8
  <1>9. CASE s = "out"
    <2>1. Kept = Holding \ {c} /\ Holding' = Kept \cup W
      BY <1>4, <1>9
    <2> HIDE DEF Kept
    <2> QED
      BY <1>1, <1>5, <1>6, <1>7, <1>9, <2>1
  <1> QED
    BY <1>8, <1>9

Counted == GateTypeOK /\ PermitsConserved

(* At first every permit is free.                                          *)
LEMMA InitCounted == GateInit => Counted
  <1> SUFFICES ASSUME GateInit PROVE Counted
    OBVIOUS
  <1>1. Holding = {}
    BY DEF GateInit, Holding
  <1> QED
    BY <1>1, CapacityType, FS_EmptySet
       DEF GateInit, Counted, GateTypeOK, PermitsConserved, SlotStates

(* Every step of the gate, timeouts included, keeps the count.             *)
LEMMA StepCounted == ASSUME Counted, [GateNext]_gate PROVE Counted'
  <1> USE DEF Counted
  <1>0. /\ GateTypeOK /\ PermitsConserved
        /\ permits \in Nat /\ Cardinality(Holding) \in Nat /\ IsFiniteSet(Holding)
    <2>1. Holding \in SUBSET Callers
      BY DEF Holding
    <2> QED
      BY <2>1, CallerSets DEF GateTypeOK
  <1>1. ASSUME NEW c \in Callers, Enter(c) PROVE Counted'
    <2>1. GateTypeOK'
      BY <1>0, <1>1 DEF GateTypeOK, Enter, Locked, SlotStates
    <2>2. Holding' = Holding \cup {c} /\ c \notin Holding
      BY <1>0, <1>1 DEF GateTypeOK, Enter, Holding
    <2>3. Cardinality(Holding') = Cardinality(Holding) + 1
      BY <1>0, <2>2, FS_AddElement
    <2> QED
      BY <1>0, <1>1, <2>1, <2>3, CapacityType DEF Enter, PermitsConserved
  <1>2. ASSUME NEW c \in Callers, Enqueue(c) PROVE Counted'
    <2>1. GateTypeOK'
      BY <1>0, <1>2 DEF GateTypeOK, Enqueue, SlotStates
    <2>2. Holding' = Holding
      BY <1>0, <1>2 DEF GateTypeOK, Enqueue, Holding
    <2> QED
      BY <1>0, <1>2, <2>1, <2>2 DEF Enqueue, PermitsConserved
  <1>3. ASSUME NEW c \in Callers, Resume(c) PROVE Counted'
    <2>1. PICK W \in SUBSET Waiting :
             Wakes(W, permits) /\ Move(c, "in", W) /\ permits' = permits - Cardinality(W)
      BY <1>3 DEF Resume
    <2>2. Cardinality(W) \in Nat /\ Cardinality(W) <= permits
      BY <1>0, <2>1, WokenBound
    <2>3. slot[c] = "granted" /\ c \in Holding /\ queue' \in Seq(Callers)
      BY <1>0, <1>3, DequeueType DEF Resume, Holding
    <2>4. /\ slot' \in [Callers -> SlotStates]
          /\ Cardinality(Holding') = Cardinality(Holding) + Cardinality(W)
      BY <1>0, <2>1, <2>3, HoldingAfterMove
    <2>5. GateTypeOK'
      BY <1>0, <2>1, <2>2, <2>3, <2>4 DEF GateTypeOK
    <2> QED
      BY <1>0, <2>1, <2>2, <2>4, <2>5, CapacityType DEF PermitsConserved
  <1>4. ASSUME NEW c \in Callers, Expire(c) PROVE Counted'
    <2>1. GateTypeOK'
      BY <1>0, <1>4 DEF GateTypeOK, Expire, SlotStates
    <2>2. Holding' = Holding
      BY <1>0, <1>4 DEF GateTypeOK, Expire, Holding
    <2> QED
      BY <1>0, <1>4, <2>1, <2>2 DEF Expire, PermitsConserved
  <1>5. ASSUME NEW c \in Callers, Leave(c) PROVE Counted'
    <2>1. PICK W \in SUBSET Waiting :
             /\ Wakes(W, permits + GivenBack(c)) /\ Move(c, "out", W)
             /\ permits' = permits + GivenBack(c) - Cardinality(W)
      BY <1>5 DEF Leave
    <2>0. GivenBack(c) \in 0..1
      BY DEF GivenBack
    <2>2. Cardinality(W) \in Nat /\ Cardinality(W) <= permits + GivenBack(c)
      BY <1>0, <2>0, <2>1, WokenBound
    <2>3. /\ slot[c] \in {"expired", "revoked"} /\ queue' \in Seq(Callers)
          /\ c \in Holding <=> slot[c] = "revoked"
      BY <1>0, <1>5, DequeueType DEF Leave, Holding
    <2>4. /\ slot' \in [Callers -> SlotStates]
          /\ Cardinality(Holding') = Cardinality(Holding) + Cardinality(W) - GivenBack(c)
      BY <1>0, <2>1, <2>2, <2>3, HoldingAfterMove DEF GivenBack
    <2>5. GateTypeOK'
      BY <1>0, <2>0, <2>1, <2>2, <2>3, <2>4 DEF GateTypeOK
    <2> QED
      BY <1>0, <2>0, <2>1, <2>2, <2>4, <2>5, CapacityType DEF PermitsConserved
  <1>6. ASSUME NEW c \in Callers, Release(c) PROVE Counted'
    <2>1. PICK W \in SUBSET Waiting :
             /\ Wakes(W, 1) /\ Move(c, "out", W)
             /\ permits' = permits + 1 - Cardinality(W)
      BY <1>6 DEF Release
    <2>2. Cardinality(W) \in Nat /\ Cardinality(W) <= 1
      BY <2>1, WokenBound
    <2>3. slot[c] = "in" /\ c \in Holding /\ queue' = queue
      BY <1>6 DEF Release, Holding
    <2>4. /\ slot' \in [Callers -> SlotStates]
          /\ Cardinality(Holding') = Cardinality(Holding) + Cardinality(W) - 1
      BY <1>0, <2>1, <2>3, HoldingAfterMove
    <2>5. GateTypeOK'
      BY <1>0, <2>1, <2>2, <2>3, <2>4 DEF GateTypeOK
    <2> QED
      BY <1>0, <2>1, <2>2, <2>4, <2>5, CapacityType DEF PermitsConserved
  <1>7. CASE UNCHANGED gate
    BY <1>0, <1>7 DEF gate, GateTypeOK, PermitsConserved, Holding
  <1> QED
    BY <1>1, <1>2, <1>3, <1>4, <1>5, <1>6, <1>7 DEF GateNext, GateStep

(* No timeout, however it races with a release, loses or invents a permit. *)
THEOREM PermitsAreConserved == GateSpec => []PermitsConserved
  <1>1. Counted => PermitsConserved
    BY DEF Counted
  <1> QED
    BY <1>1, InitCounted, StepCounted, PTL DEF GateSpec

(* The semaphore's counter never becomes negative.                         *)
THEOREM GateTypeCorrect == GateSpec => []GateTypeOK
  <1>1. Counted => GateTypeOK
    BY DEF Counted
  <1> QED
    BY <1>1, InitCounted, StepCounted, PTL DEF GateSpec

-----------------------------------------------------------------------------
(***************************************************************************)
(* No lost wake-up.  A step that leaves permits over wakes everybody, and  *)
(* who queues while permits are free queues behind one that was woken.     *)
(***************************************************************************)
(* When fewer waiters than permits are woken, nobody is left waiting.      *)
LEMMA WakesAll ==
  ASSUME NEW W \in SUBSET Waiting, NEW n \in Nat, Wakes(W, n), Cardinality(W) < n
  PROVE  W = Waiting
  <1>1. Waiting \in SUBSET Callers /\ W \in SUBSET Callers
    BY DEF Waiting
  <1>2. /\ IsFiniteSet(Waiting)
        /\ Cardinality(Waiting) \in Nat /\ Cardinality(W) \in Nat
    BY <1>1, CallerSets
  <1>3. Cardinality(Waiting) = Cardinality(W)
    BY <1>2 DEF Wakes
  <1> QED
    BY <1>2, <1>3, FS_Subset

(* Every step keeps a free permit from being forgotten.                    *)
LEMMA StepNoLostWakeup ==
  ASSUME Counted, NoLostWakeup, [GateNext]_gate PROVE NoLostWakeup'
  <1> USE DEF NoLostWakeup, Waiting
  <1>0. permits \in Nat /\ slot \in [Callers -> SlotStates] /\ GateTypeOK
    BY DEF Counted, GateTypeOK
  <1>1. ASSUME NEW c \in Callers, Enter(c) PROVE NoLostWakeup'
    BY <1>0, <1>1 DEF Enter, Locked
  <1>2. ASSUME NEW c \in Callers, Enqueue(c) PROVE NoLostWakeup'
    BY <1>0, <1>2 DEF Enqueue, Locked
  <1>3. ASSUME NEW c \in Callers, Resume(c) PROVE NoLostWakeup'
    <2>1. PICK W \in SUBSET Waiting :
             Wakes(W, permits) /\ Move(c, "in", W) /\ permits' = permits - Cardinality(W)
      BY <1>3 DEF Resume
    <2>2. Cardinality(W) \in Nat /\ Cardinality(W) <= permits
      BY <1>0, <2>1, WokenBound
    <2>3. permits' > 0 => W = Waiting
      <3>1. permits' > 0 => Cardinality(W) < permits
        BY <1>0, <2>1, <2>2
      <3> QED
        BY <1>0, <2>1, <3>1, WakesAll
    <2> QED
      BY <1>0, <2>1, <2>3 DEF Move
  <1>4. ASSUME NEW c \in Callers, Expire(c) PROVE NoLostWakeup'
    BY <1>0, <1>4 DEF Expire
  <1>5. ASSUME NEW c \in Callers, Leave(c) PROVE NoLostWakeup'
    <2>0. GivenBack(c) \in 0..1
      BY DEF GivenBack
    <2>1. PICK W \in SUBSET Waiting :
             /\ Wakes(W, permits + GivenBack(c)) /\ Move(c, "out", W)
             /\ permits' = permits + GivenBack(c) - Cardinality(W)
      BY <1>5 DEF Leave
    <2>2. Cardinality(W) \in Nat /\ Cardinality(W) <= permits + GivenBack(c)
      BY <1>0, <2>0, <2>1, WokenBound
    <2>3. permits' > 0 => W = Waiting
      <3>1. permits' > 0 => Cardinality(W) < permits + GivenBack(c)
        BY <1>0, <2>0, <2>1, <2>2
      <3> QED
        BY <1>0, <2>0, <2>1, <3>1, WakesAll
    <2> QED
      BY <1>0, <2>1, <2>3 DEF Move
  <1>6. ASSUME NEW c \in Callers, Release(c) PROVE NoLostWakeup'
    <2>1. PICK W \in SUBSET Waiting :
             /\ Wakes(W, 1) /\ Move(c, "out", W)
             /\ permits' = permits + 1 - Cardinality(W)
      BY <1>6 DEF Release
    <2>2. Cardinality(W) \in Nat /\ Cardinality(W) <= 1 /\ slot[c] = "in"
      BY <1>6, <2>1, WokenBound DEF Release
    <2>3. CASE Cardinality(W) < 1
      <3>1. W = Waiting
        BY <2>1, <2>3, WakesAll
      <3> QED
        BY <1>0, <2>1, <3>1 DEF Move
    <2>4. CASE Cardinality(W) = 1
      <3>1. permits' = permits
        BY <1>0, <2>1, <2>4
      <3> QED
        BY <1>0, <2>1, <2>2, <3>1 DEF Move
    <2> QED
      BY <2>2, <2>3, <2>4
  <1>7. CASE UNCHANGED gate
    BY <1>7 DEF gate
  <1> QED
    BY <1>1, <1>2, <1>3, <1>4, <1>5, <1>6, <1>7 DEF GateNext, GateStep

(* No request waits for a permit that is free and that nobody will hand    *)
(* on, whatever timeouts and releases coincide.                            *)
THEOREM WakeupsAreNotLost == GateSpec => []NoLostWakeup
  <1>1. GateInit => NoLostWakeup
    BY DEF GateInit, NoLostWakeup, Waiting
  <1> QED
    BY <1>1, InitCounted, StepCounted, StepNoLostWakeup, PTL DEF GateSpec

-----------------------------------------------------------------------------
(***************************************************************************)
(* The queue.  Who waits at the gate, or was woken or timed out and has    *)
(* not run since, is in the queue exactly once: _waiters.remove finds what *)
(* it removes, and "the oldest first" has one meaning.                     *)
(***************************************************************************)
(* Taking the i-th element out moves the later ones up by one.             *)
LEMMA RemovedIs ==
  ASSUME NEW S, NEW q \in Seq(S), NEW i \in 1..Len(q)
  PROVE  LET new == SubSeq(q, 1, i - 1) \o SubSeq(q, i + 1, Len(q))
         IN  /\ new \in Seq(S) /\ Len(new) = Len(q) - 1
             /\ \A j \in 1..(Len(q) - 1) : new[j] = IF j < i THEN q[j] ELSE q[j + 1]
  <1> DEFINE front == SubSeq(q, 1, i - 1)
             back  == SubSeq(q, i + 1, Len(q))
  <1>1. /\ front \in Seq(S) /\ Len(front) = i - 1
        /\ \A j \in 1..(i - 1) : front[j] = q[j]
    OBVIOUS
  <1>2. /\ back \in Seq(S) /\ Len(back) = Len(q) - i
        /\ \A j \in 1..(Len(q) - i) : back[j] = q[i + j]
    OBVIOUS
  <1> HIDE DEF front, back
  <1>3. /\ front \o back \in Seq(S) /\ Len(front \o back) = Len(q) - 1
    BY <1>1, <1>2
  <1>4. \A j \in 1..(Len(q) - 1) : (front \o back)[j] = IF j < i THEN q[j] ELSE q[j + 1]
    BY <1>1, <1>2, <1>3
  <1>5. QED
    BY <1>3, <1>4 DEF front, back

(* Caller c has a future in the queue.                                     *)
Present(c) == \E i \in DOMAIN queue : queue[i] = c

(* Caller c is between the lines of acquire that append its future to the  *)
(* queue and remove it again.                                              *)
Queued(c) == slot[c] \in {"waiting", "granted", "expired", "revoked"}

(* The queue holds the callers that are queued, each once.                 *)
QueueIsExact ==
    /\ \A c \in Callers : Queued(c) <=> Present(c)
    /\ \A i, j \in DOMAIN queue : queue[i] = queue[j] => i = j

(* Who is taken out of the queue was in it once; the others stay, in order. *)
LEMMA DequeueIs ==
  ASSUME GateTypeOK, QueueIsExact, NEW c \in Callers, Dequeue(c)
  PROVE  /\ ~Present(c)'
         /\ \A d \in Callers : d # c => (Present(d)' <=> Present(d))
         /\ \A i, j \in DOMAIN queue' : queue'[i] = queue'[j] => i = j
  <1>1. PICK i \in DOMAIN queue :
           queue[i] = c /\ queue' = SubSeq(queue, 1, i - 1) \o SubSeq(queue, i + 1, Len(queue))
    BY DEF Dequeue
  <1>2. queue \in Seq(Callers) /\ i \in 1..Len(queue) /\ DOMAIN queue = 1..Len(queue)
        /\ Len(queue) \in Nat
    BY DEF GateTypeOK
  <1>3. /\ queue' \in Seq(Callers) /\ Len(queue') = Len(queue) - 1
        /\ \A j \in 1..(Len(queue) - 1) : queue'[j] = IF j < i THEN queue[j] ELSE queue[j + 1]
    BY <1>1, <1>2, RemovedIs
  <1>4. DOMAIN queue' = 1..(Len(queue) - 1)
    BY <1>2, <1>3
  <1>5. \A j, k \in 1..Len(queue) : queue[j] = queue[k] => j = k
    BY <1>2 DEF QueueIsExact
  <1>6. ASSUME NEW d \in Callers, d # c, Present(d) PROVE Present(d)'
    <2>1. PICK k \in 1..Len(queue) : queue[k] = d
      BY <1>2, <1>6 DEF Present
    <2>2. k # i
      BY <1>1, <1>6, <2>1
    <2>3. CASE k < i
      <3>1. k \in 1..(Len(queue) - 1) /\ queue'[k] = d
        BY <1>2, <1>3, <2>1, <2>3
      <3>2. QED
        BY <1>4, <3>1 DEF Present
    <2>4. CASE k > i
      <3>1. k - 1 \in 1..(Len(queue) - 1) /\ ~(k - 1 < i) /\ (k - 1) + 1 = k
        BY <1>2, <2>4
      <3>2. queue'[k - 1] = d
        BY <1>3, <2>1, <3>1
      <3>3. QED
        BY <1>4, <3>1, <3>2 DEF Present
    <2>5. QED
      BY <1>2, <2>2, <2>3, <2>4
  <1>7. ASSUME NEW d \in Callers, Present(d)' PROVE d # c /\ Present(d)
    <2>1. PICK j \in 1..(Len(queue) - 1) : queue'[j] = d
      BY <1>4, <1>7 DEF Present
    <2>2. PICK k \in 1..Len(queue) : k # i /\ queue[k] = d
      <3>1. CASE j < i
        BY <1>2, <1>3, <2>1, <3>1
      <3>2. CASE ~(j < i)
        <4>1. j + 1 \in 1..Len(queue) /\ j + 1 # i
          BY <1>2, <3>2
        <4>2. QED
          BY <1>3, <2>1, <3>2, <4>1
      <3>3. QED
        BY <3>1, <3>2
    <2>3. QED
      BY <1>1, <1>2, <1>5, <2>2 DEF Present
  <1>8. ASSUME NEW j \in DOMAIN queue', NEW k \in DOMAIN queue', queue'[j] = queue'[k]
        PROVE  j = k
    <2> DEFINE f(x) == IF x < i THEN x ELSE x + 1
    <2>1. j \in 1..(Len(queue) - 1) /\ k \in 1..(Len(queue) - 1)
      BY <1>4, <1>8
    <2>2. f(j) \in 1..Len(queue) /\ f(k) \in 1..Len(queue)
      BY <1>2, <2>1
    <2>3. queue'[j] = queue[f(j)] /\ queue'[k] = queue[f(k)]
      BY <1>3, <2>1
    <2>4. f(j) = f(k)
      BY <1>5, <1>8, <2>2, <2>3
    <2>5. QED
      BY <1>2, <2>1, <2>4
  <1>9. QED
    BY <1>6, <1>7, <1>8

(* Waking others and moving on, the caller leaves the queue and nobody     *)
(* else enters or leaves it.                                               *)
LEMMA MoveKeepsQueued ==
  ASSUME GateTypeOK, NEW c \in Callers, NEW s \in {"in", "out"},
         NEW W \in SUBSET Waiting, Move(c, s, W)
  PROVE  /\ ~Queued(c)'
         /\ \A d \in Callers : d # c => (Queued(d)' <=> Queued(d))
  BY DEF GateTypeOK, Move, Waiting, Queued

(* Every step keeps the queue and the callers' states in agreement.        *)
LEMMA StepQueue == ASSUME GateTypeOK, QueueIsExact, [GateNext]_gate PROVE QueueIsExact'
  <1>0. /\ queue \in Seq(Callers) /\ slot \in [Callers -> SlotStates]
        /\ DOMAIN queue = 1..Len(queue) /\ Len(queue) \in Nat
        /\ \A d \in Callers : Queued(d) <=> Present(d)
        /\ \A i, j \in DOMAIN queue : queue[i] = queue[j] => i = j
    BY DEF GateTypeOK, QueueIsExact
  <1>1. ASSUME NEW c \in Callers, Enter(c) PROVE QueueIsExact'
    <2>1. \A d \in Callers : (Queued(d)' <=> Queued(d)) /\ (Present(d)' <=> Present(d))
      BY <1>0, <1>1 DEF Enter, Queued, Present
    <2> QED
      BY <1>0, <1>1, <2>1 DEF Enter, QueueIsExact
  <1>2. ASSUME NEW c \in Callers, Enqueue(c) PROVE QueueIsExact'
    <2>1. queue' = Append(queue, c) /\ slot' = [slot EXCEPT ![c] = "waiting"] /\ ~Queued(c)
      BY <1>2 DEF Enqueue, Queued
    <2>2. /\ DOMAIN queue' = 1..(Len(queue) + 1)
          /\ queue'[Len(queue) + 1] = c
          /\ \A i \in 1..Len(queue) : queue'[i] = queue[i]
      BY <1>0, <2>1
    <2>3. \A i \in 1..Len(queue) : queue[i] # c
      BY <1>0, <2>1 DEF Present
    <2>4. \A d \in Callers : Queued(d)' <=> d = c \/ Queued(d)
      BY <1>0, <2>1 DEF Queued
    <2>5. \A d \in Callers : Present(d)' <=> d = c \/ Present(d)
      BY <1>0, <2>2 DEF Present
    <2>6. \A i, j \in DOMAIN queue' : queue'[i] = queue'[j] => i = j
      BY <1>0, <2>2, <2>3
    <2> QED
      BY <1>0, <2>4, <2>5, <2>6 DEF QueueIsExact
  <1>3. ASSUME NEW c \in Callers, Dequeue(c), ~Queued(c)',
               \A d \in Callers : d # c => (Queued(d)' <=> Queued(d))
        PROVE  QueueIsExact'
    <2>1. /\ ~Present(c)'
          /\ \A d \in Callers : d # c => (Present(d)' <=> Present(d))
          /\ \A i, j \in DOMAIN queue' : queue'[i] = queue'[j] => i = j
      BY <1>3, DequeueIs
    <2> QED
      BY <1>0, <1>3, <2>1 DEF QueueIsExact
  <1>4. ASSUME NEW c \in Callers, Resume(c) PROVE QueueIsExact'
    BY <1>3, <1>4, MoveKeepsQueued DEF Resume
  <1>5. ASSUME NEW c \in Callers, Expire(c) PROVE QueueIsExact'
    <2>1. \A d \in Callers : (Queued(d)' <=> Queued(d)) /\ (Present(d)' <=> Present(d))
      BY <1>0, <1>5 DEF Expire, Queued, Present
    <2> QED
      BY <1>0, <1>5, <2>1 DEF Expire, QueueIsExact
  <1>6. ASSUME NEW c \in Callers, Leave(c) PROVE QueueIsExact'
    BY <1>3, <1>6, MoveKeepsQueued DEF Leave
  <1>7. ASSUME NEW c \in Callers, Release(c) PROVE QueueIsExact'
    <2>1. ~Queued(c)
      BY <1>7 DEF Release, Queued
    <2>2. /\ ~Queued(c)'
          /\ \A d \in Callers : d # c => (Queued(d)' <=> Queued(d))
      BY <1>7, MoveKeepsQueued DEF Release
    <2>3. queue' = queue /\ \A d \in Callers : Present(d)' <=> Present(d)
      BY <1>7 DEF Release, Present
    <2> QED
      BY <1>0, <2>1, <2>2, <2>3 DEF QueueIsExact
  <1>8. CASE UNCHANGED gate
    BY <1>0, <1>8 DEF gate, QueueIsExact, Queued, Present
  <1> QED
    BY <1>1, <1>2, <1>4, <1>5, <1>6, <1>7, <1>8 DEF GateNext, GateStep

(* Nobody is ever queued twice, and nobody queues who is not queued.       *)
THEOREM QueueIsAlwaysExact == GateSpec => []QueueIsExact
  <1>1. GateInit => QueueIsExact
    BY DEF GateInit, QueueIsExact, Queued, Present
  <1> QED
    BY <1>1, GateTypeCorrect, StepQueue, PTL DEF GateSpec

(* Who gets a permit in a step either found the gate unlocked or was woken *)
(* as one of the oldest.                                                   *)
LEMMA StepOvertakesNobody ==
  ASSUME GateTypeOK, GateNext, NEW c \in Callers, NEW d \in Callers
  PROVE  ~Overtakes(d, c)
  <1> SUFFICES ASSUME slot[c] = "waiting", slot'[c] = "waiting",
                      slot[d] \in {"out", "waiting"}, slot'[d] \in {"granted", "in"}
               PROVE  Ahead(d, c)
    BY DEF Overtakes
  <1>0. slot \in [Callers -> SlotStates]
    BY DEF GateTypeOK
  <1>1. ASSUME NEW e \in Callers, NEW s \in {"in", "out"}, NEW W \in SUBSET Waiting,
               NEW n, Wakes(W, n), Move(e, s, W), slot[e] \notin {"out", "waiting"}
        PROVE  Ahead(d, c)
    <2>1. d \in W /\ c \in Waiting \ W
      BY <1>0, <1>1 DEF Move, Waiting
    <2> QED
      BY <1>1, <2>1 DEF Wakes
  <1>2. PICK e \in Callers : GateStep(e)
    BY DEF GateNext
  <1>3. CASE Enter(e)
    BY <1>0, <1>3 DEF Enter, Locked
  <1>4. CASE Enqueue(e)
    BY <1>0, <1>4 DEF Enqueue
  <1>5. CASE Resume(e)
    BY <1>1, <1>5 DEF Resume
  <1>6. CASE Expire(e)
    BY <1>0, <1>6 DEF Expire
  <1>7. CASE Leave(e)
    BY <1>1, <1>7 DEF Leave
  <1>8. CASE Release(e)
    BY <1>1, <1>8 DEF Release
  <1> QED
    BY <1>2, <1>3, <1>4, <1>5, <1>6, <1>7, <1>8 DEF GateStep

(* No caller gets a permit over the head of one that waits longer.         *)
THEOREM NobodyIsOvertaken == GateSpec => NoOvertaking
  <1>1. GateTypeOK /\ GateNext => \A c, d \in Callers : ~Overtakes(d, c)
    BY StepOvertakesNobody
  <1>2. GateTypeOK /\ [GateNext]_gate => [\A c, d \in Callers : ~Overtakes(d, c)]_gate
    BY <1>1
  <1> QED
    BY <1>2, GateTypeCorrect, PTL DEF GateSpec, NoOvertaking

-----------------------------------------------------------------------------
(***************************************************************************)
(* The gate implements the bounded pool.  Only Enter, Resume and Release   *)
(* change who is inside; the permit of a caller that enters was counted,   *)
(* so fewer than Capacity are inside before it.                            *)
(***************************************************************************)
(* The pool counts as the gate does.                                       *)
LEMMA PoolCounts == ASSUME NEW S PROVE Pool!Cardinality(S) = Cardinality(S)
  BY DEF Cardinality, Pool!Cardinality

(* Every step of the gate is a step of the pool or leaves it alone.        *)
LEMMA StepPool == ASSUME Counted, [GateNext]_gate PROVE [Pool!Next]_Inside
  <1>0. /\ permits \in Nat /\ slot \in [Callers -> SlotStates] /\ GateTypeOK
        /\ permits + Cardinality(Holding) = Capacity
        /\ Capacity \in Nat
    BY CapacityType DEF Counted, GateTypeOK, PermitsConserved
  <1>1. /\ Inside \in SUBSET Callers /\ Holding \in SUBSET Callers
        /\ Inside \subseteq Holding
    BY DEF Inside, Holding
  <1>2. /\ IsFiniteSet(Holding) /\ Cardinality(Holding) \in Nat
        /\ Cardinality(Inside) \in Nat /\ Cardinality(Inside) <= Cardinality(Holding)
    BY <1>1, CallerSets, FS_Subset
  <1>3. ASSUME NEW c \in Callers, Enter(c) PROVE Pool!Take(c)
    <2>1. c \notin Inside /\ Inside' = Inside \cup {c}
      BY <1>0, <1>3 DEF Enter, Inside
    <2>2. permits > 0
      BY <1>0, <1>3 DEF Enter, Locked
    <2>3. Cardinality(Inside) < Capacity
      BY <1>0, <1>2, <2>2
    <2> QED
      BY <2>1, <2>3, PoolCounts DEF Pool!Take
  <1>4. ASSUME NEW c \in Callers, Resume(c) PROVE Pool!Take(c)
    <2>1. PICK W \in SUBSET Waiting : Move(c, "in", W)
      BY <1>4 DEF Resume
    <2>2. slot[c] = "granted"
      BY <1>4 DEF Resume
    <2>3. c \notin Inside /\ Inside' = Inside \cup {c}
      BY <1>0, <2>1, <2>2 DEF Move, Inside, Waiting
    <2>4. c \in Holding /\ c \notin Inside
      BY <2>2, <2>3 DEF Holding
    <2>5. Cardinality(Inside) # Cardinality(Holding)
      <3>1. Inside \in SUBSET Holding /\ Inside # Holding
        BY <1>1, <2>4
      <3> QED
        BY <1>2, <3>1, FS_Subset
    <2> QED
      BY <1>0, <1>2, <2>3, <2>5, PoolCounts DEF Pool!Take
  <1>5. ASSUME NEW c \in Callers, Release(c) PROVE Pool!Give(c)
    <2>1. PICK W \in SUBSET Waiting : Move(c, "out", W)
      BY <1>5 DEF Release
    <2> QED
      BY <1>0, <1>5, <2>1 DEF Move, Inside, Waiting, Release, Pool!Give
  <1>6. ASSUME NEW c \in Callers, Leave(c) PROVE Inside' = Inside
    <2>1. PICK W \in SUBSET Waiting : Move(c, "out", W)
      BY <1>6 DEF Leave
    <2>2. slot[c] \notin {"waiting", "in"}
      BY <1>6 DEF Leave
    <2>3. \A d \in Callers : slot'[d] = "in" <=> slot[d] = "in"
      BY <1>0, <2>1, <2>2 DEF Move, Waiting
    <2> QED
      BY <2>3 DEF Inside
  <1>7. ASSUME NEW c \in Callers, Enqueue(c) \/ Expire(c) PROVE Inside' = Inside
    BY <1>0, <1>7 DEF Enqueue, Expire, Inside
  <1>8. CASE UNCHANGED gate
    BY <1>8 DEF gate, Inside
  <1> QED
    BY <1>3, <1>4, <1>5, <1>6, <1>7, <1>8 DEF GateNext, GateStep, Pool!Next

(* At most max(1, local_concurrency) local calls are ever under way.       *)
THEOREM GateIsBoundedPool == GateSpec => ImplementsPool
  <1>1. GateInit => Pool!Init
    BY DEF GateInit, Pool!Init, Inside
  <1> QED
    BY <1>1, InitCounted, StepCounted, StepPool, PTL
       DEF GateSpec, ImplementsPool, Pool!Spec

-----------------------------------------------------------------------------
(* The pipeline drives the gate by the gate's own steps.                   *)
LEMMA StepIsGateStep == [Next]_vars => [GateNext]_gate
  <1> SUFFICES ASSUME [Next]_vars PROVE [GateNext]_gate
    OBVIOUS
  <1>1. ASSUME NEW r \in Requests, GateStep(r) PROVE GateNext
    BY <1>1 DEF GateNext, Requests
  <1>2. ASSUME NEW r \in Requests, NEW o \in Outcomes, HangUp(r, o)
        PROVE  Release(r) \/ UNCHANGED gate
    BY <1>2 DEF HangUp
  <1>3. ASSUME NEW r \in Requests, CallEnds(r) PROVE Release(r) \/ UNCHANGED gate
    BY <1>3, <1>2 DEF CallEnds, FirstSttEnds, RetryEnds, FallbackEnds, LlmEnds
  <1>4. ASSUME NEW r \in Requests, NEW in \in Inputs, Submit(r, in) \/ Refuse(r, in)
        PROVE  UNCHANGED gate
    BY <1>4 DEF Submit, Refuse
  <1>5. ASSUME NEW r \in Requests, Respond(r) PROVE UNCHANGED gate
    BY <1>5 DEF Respond
  <1>6. ASSUME NEW r \in Requests,
               ArriveAtGate(r) \/ ResumeAtGate(r) \/ ExpireAtGate(r) \/ GateTimeout(r)
        PROVE  GateStep(r)
    BY <1>6 DEF ArriveAtGate, ResumeAtGate, ExpireAtGate, GateTimeout, GateStep
  <1>7. CASE UNCHANGED vars
    BY <1>7 DEF vars
  <1> QED
    BY <1>1, <1>3, <1>4, <1>5, <1>6, <1>7 DEF Next, GateStep

(* To the gate, the backend is nothing but callers of slot().              *)
THEOREM PipelineUsesGate == Spec => GateSpec
  <1>1. Init => GateInit
    BY DEF Init
  <1> QED
    BY <1>1, StepIsGateStep, PTL DEF Spec, GateSpec

-----------------------------------------------------------------------------
(***************************************************************************)
(* The effective mode.                                                     *)
(***************************************************************************)
(* apply_user_override keeps the shape of a mode.                          *)
LEMMA OverrideType ==
  ASSUME NEW mode \in ModeConfigs, NEW ov,
         ov.applyLlm \in BOOLEAN \cup {None}, ov.prompt \in BOOLEAN
  PROVE  /\ ApplyUserOverride(mode, ov) \in ModeConfigs
         /\ ov.stt \in SttProviders =>
               /\ ApplyUserOverride(mode, ov).stt = ov.stt
               /\ ApplyUserOverride(mode, ov).fallback = None
  <1> DEFINE stt      == IF ov.stt \in SttProviders THEN ov.stt ELSE mode.stt
             fallback == IF ov.stt \in SttProviders THEN None ELSE mode.fallback
             llm      == IF ov.llm \in LlmProviders THEN ov.llm ELSE mode.llm
             apply    == IF ov.applyLlm = None THEN mode.applyLlm ELSE ov.applyLlm
             prompt   == mode.prompt \/ ov.prompt
  <1>1. stt \in SttProviders
    BY DEF ModeConfigs
  <1>2. fallback \in SttProviders \cup {None} /\ llm \in LlmProviders \cup {None}
    BY DEF ModeConfigs
  <1>3. mode.applyLlm \in BOOLEAN
    BY DEF ModeConfigs
  <1>4. apply \in BOOLEAN
    BY <1>3, Zenon
  <1>5. prompt \in BOOLEAN
    BY Zenon
  <1>6. ApplyUserOverride(mode, ov) =
           [mode EXCEPT !.stt = stt, !.fallback = fallback, !.llm = llm,
                        !.applyLlm = apply, !.prompt = prompt]
    BY Zenon DEF ApplyUserOverride
  <1>7. ov.stt \in SttProviders => stt = ov.stt /\ fallback = None
    OBVIOUS
  <1> HIDE DEF stt, fallback, llm, apply, prompt
  <1> QED
    BY <1>1, <1>2, <1>4, <1>5, <1>6, <1>7 DEF ModeConfigs

(* An accepted request has a mode of the configuration's shape.            *)
LEMMA EffectiveType ==
  ASSUME NEW in \in Inputs, Accepted(in)
  PROVE  Effective(in) \in ModeConfigs
  <1> DEFINE own  == ApplyUserOverride(in.base, in.override)
             here == ResolveForLocation(own, in.location)
  <1>1. in.base \in ModeConfigs /\ OverridesAllowed(in)
    BY PipelineAssumption DEF Accepted
  <1>2. own \in ModeConfigs
    BY <1>1, PipelineAssumption, OverrideType
  <1>3. here \in ModeConfigs
    <2> HIDE DEF own
    <2> QED
      BY <1>2, PipelineAssumption DEF ResolveForLocation, ModeConfigs
  <1>4. /\ in.stt \in SttProviders \cup {None}
        /\ in.llm \in LlmProviders \cup {None}
    BY <1>1, PipelineAssumption DEF OverridesAllowed
  <1>5. BuildEffective(here, in.stt, in.llm) \in ModeConfigs
    <2> HIDE DEF here
    <2> QED
      BY <1>3, <1>4 DEF BuildEffective, ModeConfigs
  <1> QED
    BY <1>5 DEF Effective

(* The plan names providers of the registry, and the first stage has one.  *)
LEMMA PlanType ==
  ASSUME NEW in \in Inputs, Accepted(in)
  PROVE  /\ PlanOf(in) \in Plans
         /\ in.kind = "process" => PlanOf(in).llm # None
         /\ in.kind # "process" => PlanOf(in).stt # None
  BY EffectiveType, PipelineAssumption DEF PlanOf, Plans, ModeConfigs, Accepted

(* resolve_mode_for_location and the check on the request's parameters     *)
(* leave a local request no provider but the local ones.                   *)
LEMMA LocalPlan ==
  ASSUME NEW in \in Inputs, Accepted(in), in.location = "local"
  PROVE  /\ PlanOf(in).stt \in {None, LocalStt}
         /\ PlanOf(in).fallback = None
         /\ PlanOf(in).llm \in {None, LocalLlm}
  <1> DEFINE own  == ApplyUserOverride(in.base, in.override)
             here == ResolveForLocation(own, in.location)
             eff  == BuildEffective(here, in.stt, in.llm)
  <1>1. in.base \in ModeConfigs /\ OverridesAllowed(in)
    BY PipelineAssumption DEF Accepted
  <1>2. own \in ModeConfigs
    BY <1>1, PipelineAssumption, OverrideType
  <1>3. /\ here \in ModeConfigs /\ here.stt = LocalStt /\ here.fallback = None
        /\ here.applyLlm => here.llm = LocalLlm
    <2> HIDE DEF own
    <2> QED
      BY <1>2, PipelineAssumption DEF ResolveForLocation, ModeConfigs
  <1>4. in.stt \in {None, LocalStt} /\ in.llm \in {None, LocalLlm}
    BY <1>1 DEF OverridesAllowed
  <1>5. /\ eff.stt = LocalStt /\ eff.fallback = None
        /\ eff.applyLlm => eff.llm = LocalLlm
    <2> HIDE DEF here
    <2> QED
      BY <1>3, <1>4 DEF BuildEffective, ModeConfigs
  <1>6. Effective(in) = eff
    BY DEF Effective
  <1> HIDE DEF eff
  <1> QED
    BY <1>5, <1>6 DEF PlanOf

(* The user chose an STT in the settings, works online and names none in   *)
(* the request.                                                            *)
Chosen(in) == /\ in.location = "online" /\ in.stt = None
              /\ in.override.stt \in SttProviders

(* apply_user_override takes the fallback away with the STT it replaces.   *)
LEMMA ChosenPlan ==
  ASSUME NEW in \in Inputs, Accepted(in), Chosen(in)
  PROVE  /\ PlanOf(in).stt \in {None, in.override.stt}
         /\ PlanOf(in).fallback = None
  <1> DEFINE own == ApplyUserOverride(in.base, in.override)
             eff == BuildEffective(own, in.stt, in.llm)
  <1>1. in.base \in ModeConfigs
    BY PipelineAssumption DEF Accepted
  <1>2. own \in ModeConfigs /\ own.stt = in.override.stt /\ own.fallback = None
    BY <1>1, PipelineAssumption, OverrideType DEF Chosen
  <1>3. eff.stt = in.override.stt /\ eff.fallback = None
    <2> HIDE DEF own
    <2> QED
      BY <1>2 DEF BuildEffective, ModeConfigs, Chosen
  <1>4. Effective(in) = eff
    BY DEF Effective, ResolveForLocation, Chosen
  <1> HIDE DEF eff
  <1> QED
    BY <1>3, <1>4 DEF PlanOf

-----------------------------------------------------------------------------
(***************************************************************************)
(* The course of a request.                                                *)
(***************************************************************************)
UnderWay(r) == pc[r] \in {"gate", "call"}

(* The calls behind a request when it is at a stage. *)
Behind(r) ==
    /\ stage[r] = "stt" => log[r] = <<>>
    /\ stage[r] = "retry" =>
          Len(log[r]) = 1 /\ log[r][1].got = "blank" /\ plan[r].fallback # None
    /\ stage[r] = "fallback" =>
          \/ Len(log[r]) = 1 /\ log[r][1].got \in Triggers
          \/ /\ Len(log[r]) = 2 /\ log[r][1].got = "blank"
             /\ log[r][2].stage = "retry" /\ log[r][2].got \in {"blank"} \cup Triggers
    /\ stage[r] = "llm" => Len(log[r]) <= 3

(* Every call so far went where the request allows it. *)
CallsAllowed(r) ==
    req[r] # None =>
        \A i \in DOMAIN log[r] :
            /\ req[r].location = "local" => log[r][i].to \in Local
            /\ Chosen(req[r]) /\ log[r][i].stage # "llm" =>
                  log[r][i].to = req[r].override.stt

SlotUse(r) ==
    /\ pc[r] = "call" => slot[r] = IF Provider(r) \in Local THEN "in" ELSE "out"
    /\ pc[r] = "gate" => slot[r] # "in" /\ Provider(r) \in Local
    /\ pc[r] \in {"new", "done"} => slot[r] = "out"

Course(r) ==
    /\ pc[r] = "new" => log[r] = <<>> /\ stage[r] = "stt"
    /\ UnderWay(r) => /\ req[r] \in Inputs /\ Accepted(req[r])
                      /\ plan[r] = PlanOf(req[r])
                      /\ Provider(r) # None
                      /\ Behind(r)
    /\ CallsAllowed(r)
    /\ SlotUse(r)

PipelineInv == TypeOK /\ \A r \in Requests : Course(r)

(* At first nobody asks for anything.                                      *)
LEMMA InitCourse == Init => PipelineInv
  <1> SUFFICES ASSUME Init PROVE PipelineInv
    OBVIOUS
  <1>1. GateTypeOK
    BY InitCounted DEF Init, Counted
  <1>2. NoPlan \in Plans
    BY DEF NoPlan, Plans
  <1>3. TypeOK
    BY <1>1, <1>2 DEF Init, TypeOK, Stages
  <1>4. ASSUME NEW r \in Requests PROVE Course(r)
    BY <1>4 DEF Init, Course, UnderWay, CallsAllowed, SlotUse, GateInit, Requests
  <1> QED
    BY <1>3, <1>4 DEF PipelineInv

-----------------------------------------------------------------------------
(* What a step of request r leaves of another request.                     *)
Same(q) == /\ req'[q] = req[q] /\ plan'[q] = plan[q] /\ stage'[q] = stage[q]
           /\ pc'[q] = pc[q] /\ log'[q] = log[q]

(* A step of one caller may resolve the future of another, nothing more.   *)
Woken(q) == \/ slot'[q] = slot[q]
            \/ slot[q] = "waiting" /\ slot'[q] = "granted"

(* The steps of the gate, as the request sees them.                        *)
LEMMA SlotSteps ==
  ASSUME GateTypeOK, NEW c \in Callers
  PROVE  /\ GateStep(c) => \A q \in Callers \ {c} : Woken(q)
         /\ Enter(c) => slot'[c] = "in"
         /\ Enqueue(c) => slot'[c] = "waiting"
         /\ Resume(c) => slot'[c] = "in"
         /\ Expire(c) => slot'[c] \in {"expired", "revoked"}
         /\ Leave(c) => slot'[c] = "out"
         /\ Release(c) => slot'[c] = "out"
  <1> USE DEF GateTypeOK, Woken, Move, Waiting
  <1>1. Enter(c) => slot'[c] = "in" /\ \A q \in Callers \ {c} : Woken(q)
    BY DEF Enter
  <1>2. Enqueue(c) => slot'[c] = "waiting" /\ \A q \in Callers \ {c} : Woken(q)
    BY DEF Enqueue
  <1>3. Resume(c) => slot'[c] = "in" /\ \A q \in Callers \ {c} : Woken(q)
    BY DEF Resume
  <1>4. Expire(c) => /\ slot'[c] \in {"expired", "revoked"}
                     /\ \A q \in Callers \ {c} : Woken(q)
    BY DEF Expire
  <1>5. Leave(c) => slot'[c] = "out" /\ \A q \in Callers \ {c} : Woken(q)
    BY DEF Leave
  <1>6. Release(c) => slot'[c] = "out" /\ \A q \in Callers \ {c} : Woken(q)
    BY DEF Release
  <1> QED
    BY <1>1, <1>2, <1>3, <1>4, <1>5, <1>6 DEF GateStep

(* A request keeps its course while others go on.                          *)
LEMMA OthersKeepCourse ==
  ASSUME NEW q \in Requests, Course(q), Same(q), Woken(q)
  PROVE  Course(q)'
  <1>1. Provider(q)' = Provider(q)
    BY DEF Provider, Same
  <1>2. SlotUse(q)'
    BY <1>1 DEF Course, SlotUse, Same, Woken
  <1>3. CallsAllowed(q)'
    BY DEF Course, CallsAllowed, Same
  <1>4. UnderWay(q)' => Behind(q)'
    BY DEF Course, UnderWay, Behind, Same
  <1> QED
    BY <1>1, <1>2, <1>3, <1>4 DEF Course, UnderWay, Same

-----------------------------------------------------------------------------
(***************************************************************************)
(* Where a request goes next: to the call of provider p at stage s, or to  *)
(* its end.  Turn: nobody else is affected.                                *)
(***************************************************************************)
Called(r, s, p) == /\ stage'[r] = s
                   /\ pc'[r] = IF p \in Local THEN "gate" ELSE "call"

Ended(r) == pc'[r] = "done"

TurnType == /\ stage \in [Requests -> Stages]
            /\ pc \in [Requests -> {"new", "gate", "call", "done"}]
            /\ answer \in [Requests -> {"none", "ok", "refused", "noKey", "busy", "failed"}]
            /\ booked \in [Requests -> {"none", "success", "error"}]

Turn(r) == /\ TurnType'
           /\ \A q \in Requests \ {r} : stage'[q] = stage[q] /\ pc'[q] = pc[q]

(* Every ending of a step is one of the two.                               *)
LEMMA Turns ==
  ASSUME TurnType, NEW r \in Requests, NEW s \in Stages, NEW p
  PROVE  /\ GoCall(r, s, p) => Turn(r) /\ Called(r, s, p)
         /\ Begin(r, s, p) => Turn(r) /\ (Called(r, s, p) \/ Ended(r))
         /\ Succeed(r) => Turn(r) /\ Ended(r)
         /\ Fail(r) => Turn(r) /\ Ended(r)
         /\ AfterStt(r) => /\ Turn(r)
                           /\ \/ Ended(r)
                              \/ plan[r].llm # None /\ Called(r, "llm", plan[r].llm)
  <1> USE DEF TurnType, Turn, Called, Ended, Answer
  <1>1. ASSUME NEW t \in Stages, NEW g
        PROVE  /\ GoCall(r, t, g) => Turn(r) /\ Called(r, t, g)
               /\ Begin(r, t, g) => Turn(r) /\ (Called(r, t, g) \/ Ended(r))
    <2>1. GoCall(r, t, g) => Turn(r) /\ Called(r, t, g)
      BY DEF GoCall
    <2>2. Begin(r, t, g) => Turn(r) /\ (Called(r, t, g) \/ Ended(r))
      BY <2>1 DEF Begin
    <2> QED
      BY <2>1, <2>2
  <1>2. Succeed(r) => Turn(r) /\ Ended(r)
    BY DEF Succeed
  <1>3. Fail(r) => Turn(r) /\ Ended(r)
    BY DEF Fail
  <1>4. "llm" \in Stages
    BY DEF Stages
  <1>5. AfterStt(r) => /\ Turn(r)
                      /\ \/ Ended(r)
                         \/ plan[r].llm # None /\ Called(r, "llm", plan[r].llm)
    <2>1. Begin(r, "llm", plan[r].llm) =>
             Turn(r) /\ (Called(r, "llm", plan[r].llm) \/ Ended(r))
      BY <1>1, <1>4
    <2> HIDE DEF Turn, Called, Ended
    <2> QED
      BY <1>2, <2>1 DEF AfterStt
  <1> QED
    BY <1>1, <1>2, <1>3, <1>5

(* A call is to a provider the request allows: local ones only for a local *)
(* request, the chosen STT for who chose one.                              *)
LEMMA ProviderAllowed ==
  ASSUME TypeOK, NEW r \in Requests, UnderWay(r), Course(r)
  PROVE  /\ Provider(r) \in SttProviders \cup LlmProviders
         /\ req[r].location = "local" => Provider(r) \in Local
         /\ Chosen(req[r]) /\ stage[r] # "llm" => Provider(r) = req[r].override.stt
  <1>1. /\ req[r] \in Inputs /\ Accepted(req[r]) /\ plan[r] = PlanOf(req[r])
        /\ Provider(r) # None
    BY DEF Course
  <1>2. plan[r] \in Plans
    BY <1>1, PlanType
  <1>3. Provider(r) \in SttProviders \cup LlmProviders
    BY <1>1, <1>2 DEF Provider, Plans
  <1>4. req[r].location = "local" => Provider(r) \in Local
    BY <1>1, LocalPlan, PipelineAssumption DEF Provider
  <1>5. Chosen(req[r]) /\ stage[r] # "llm" => Provider(r) = req[r].override.stt
    BY <1>1, ChosenPlan DEF Provider
  <1> QED
    BY <1>3, <1>4, <1>5

(* What the end of a call does: the call is remembered, its slot is free.  *)
LEMMA HangUpEffect ==
  ASSUME TypeOK, NEW r \in Requests, NEW o \in Outcomes, Course(r), HangUp(r, o)
  PROVE  /\ UnderWay(r) /\ req' = req /\ plan' = plan
         /\ log' \in [Requests -> Seq(Calls)]
         /\ \A q \in Requests \ {r} : log'[q] = log[q] /\ Woken(q)
         /\ log[r] \in Seq(Calls)
         /\ log'[r] = Append(log[r], [stage |-> stage[r], to |-> Provider(r), got |-> o])
         /\ CallsAllowed(r)'
         /\ slot'[r] = "out"
  <1> DEFINE call == [stage |-> stage[r], to |-> Provider(r), got |-> o]
  <1>1. pc[r] = "call" /\ UnderWay(r) /\ req' = req /\ plan' = plan
    BY DEF HangUp, UnderWay
  <1>2. /\ Provider(r) \in SttProviders \cup LlmProviders
        /\ req[r].location = "local" => Provider(r) \in Local
        /\ Chosen(req[r]) /\ stage[r] # "llm" => Provider(r) = req[r].override.stt
    BY <1>1, ProviderAllowed
  <1>3. call \in Calls
    BY <1>2 DEF TypeOK, Calls
  <1>4. call.to = Provider(r) /\ call.stage = stage[r]
    OBVIOUS
  <1>5. log' = [log EXCEPT ![r] = Append(@, call)]
    BY DEF HangUp
  <1> HIDE DEF call
  <1>6. /\ log' \in [Requests -> Seq(Calls)] /\ log[r] \in Seq(Calls)
        /\ log'[r] = Append(log[r], call)
        /\ \A q \in Requests \ {r} : log'[q] = log[q]
    BY <1>3, <1>5 DEF TypeOK
  <1>7. /\ \A q \in Requests \ {r} : Woken(q)
        /\ slot'[r] = "out"
    <2>1. GateTypeOK /\ r \in Callers
      BY DEF TypeOK, Requests
    <2>2. CASE Provider(r) \in Local
      <3>1. Release(r)
        BY <2>2 DEF HangUp
      <3> QED
        BY <2>1, <3>1, SlotSteps DEF GateStep, Requests
    <2>3. CASE Provider(r) \notin Local
      BY <1>1, <2>3 DEF HangUp, gate, Woken, Course, SlotUse
    <2> QED
      BY <2>2, <2>3
  <1>8. CallsAllowed(r)'
    <2>1. \A i \in DOMAIN log'[r] :
             \/ i \in DOMAIN log[r] /\ log'[r][i] = log[r][i]
             \/ log'[r][i] = call
      BY <1>6
    <2> QED
      BY <1>1, <1>2, <1>4, <2>1 DEF Course, CallsAllowed
  <1> QED
    BY <1>1, <1>6, <1>7, <1>8 DEF call

(* The end of a call leads to the next stage with the calls behind it that *)
(* lead there.                                                             *)
LEMMA NextStage ==
  ASSUME TypeOK, NEW r \in Requests, NEW o \in Outcomes, Course(r),
         \/ FirstSttEnds(r, o) \/ RetryEnds(r, o)
         \/ FallbackEnds(r, o) \/ LlmEnds(r, o)
  PROVE  /\ HangUp(r, o) /\ Turn(r) /\ Len(log'[r]) <= 4
         /\ \/ Ended(r)
            \/ /\ Provider(r)' # None
               /\ Called(r, stage'[r], Provider(r)')
               /\ Behind(r)'
  <1> DEFINE To(s, p) == p # None /\ Called(r, s, p)
             call       == [stage |-> stage[r], to |-> Provider(r), got |-> o]
  <1>0. /\ TurnType /\ stage \in [Requests -> Stages]
        /\ {"stt", "retry", "fallback", "llm"} = Stages
    BY DEF TypeOK, TurnType, Stages
  <1>1. HangUp(r, o)
    BY DEF FirstSttEnds, RetryEnds, FallbackEnds, LlmEnds
  <1>2. /\ UnderWay(r) /\ plan' = plan
        /\ log[r] \in Seq(Calls) /\ log'[r] = Append(log[r], call)
    BY <1>1, HangUpEffect
  <1>3. Behind(r) /\ Provider(r) # None
    BY <1>2 DEF Course
  <1>4. /\ Len(log'[r]) = Len(log[r]) + 1
        /\ Len(log[r]) = 0 => log'[r][1] = call
        /\ Len(log[r]) >= 1 => log'[r][1] = log[r][1]
        /\ Len(log[r]) = 1 => log'[r][2] = call
        /\ Len(log[r]) \in Nat
    <2> HIDE DEF call
    <2> QED
      BY <1>2
  <1>5. call.got = o /\ call.stage = stage[r]
    OBVIOUS
  <1> HIDE DEF call
  <1>6. /\ stage[r] \in {"stt", "retry", "fallback", "llm"}
        /\ stage[r] = "stt" => Len(log[r]) = 0
        /\ stage[r] # "llm" => Len(log[r]) <= 2
        /\ Len(log[r]) <= 3
    <2>1. stage[r] \in {"stt", "retry", "fallback", "llm"}
      BY <1>0
    <2>2. stage[r] = "stt" => Len(log[r]) = 0
      BY <1>3 DEF Behind
    <2>3. stage[r] = "retry" => Len(log[r]) = 1
      BY <1>3 DEF Behind
    <2>4. stage[r] = "fallback" => Len(log[r]) = 1 \/ Len(log[r]) = 2
      BY <1>3 DEF Behind
    <2>5. stage[r] = "llm" => Len(log[r]) <= 3
      BY <1>3 DEF Behind
    <2>6. ASSUME NEW n, n \in {0, 1, 2} PROVE n <= 2 /\ n <= 3
      BY <2>6
    <2>7. stage[r] # "llm" => Len(log[r]) <= 2 /\ Len(log[r]) <= 3
      <3>1. stage[r] # "llm" => Len(log[r]) \in {0, 1, 2}
        BY <2>1, <2>2, <2>3, <2>4, Zenon
      <3> QED
        BY <2>6, <3>1, Zenon
    <2> QED
      BY <2>1, <2>2, <2>5, <2>7, Zenon
  <1>7. ASSUME FirstSttEnds(r, o)
        PROVE  /\ Turn(r)
               /\ \/ Ended(r) \/ To("llm", plan[r].llm)
                  \/ o = "blank" /\ plan[r].fallback # None /\ To("retry", plan[r].stt)
                  \/ o \in Triggers /\ To("fallback", plan[r].fallback)
    <2>1. stage[r] = "stt" /\ plan[r].stt # None
      BY <1>3, <1>7 DEF FirstSttEnds, Provider
    <2> QED
      BY <1>0, <1>7, <2>1, Turns DEF FirstSttEnds
  <1>8. ASSUME RetryEnds(r, o)
        PROVE  /\ Turn(r)
               /\ \/ Ended(r) \/ To("llm", plan[r].llm)
                  \/ o \in {"blank"} \cup Triggers /\ To("fallback", plan[r].fallback)
    <2>1. stage[r] = "retry" /\ plan[r].fallback # None
      BY <1>3, <1>8 DEF RetryEnds, Behind
    <2> QED
      BY <1>0, <1>8, <2>1, Turns DEF RetryEnds
  <1>9. ASSUME FallbackEnds(r, o) \/ LlmEnds(r, o)
        PROVE  Turn(r) /\ (Ended(r) \/ (stage[r] # "llm" /\ To("llm", plan[r].llm)))
    BY <1>0, <1>9, Turns DEF FallbackEnds, LlmEnds
  <1>10. ASSUME To("llm", plan[r].llm), stage[r] # "llm"
         PROVE  /\ Provider(r)' # None /\ Called(r, stage'[r], Provider(r)')
                /\ Behind(r)'
    <2>1. stage'[r] = "llm" /\ Provider(r)' = plan[r].llm
      BY <1>2, <1>10 DEF Called, Provider
    <2> QED
      BY <1>4, <1>6, <1>10, <2>1 DEF Behind, Called
  <1>11. ASSUME stage[r] = "stt", o = "blank", plan[r].fallback # None,
                To("retry", plan[r].stt)
         PROVE  /\ Provider(r)' # None /\ Called(r, stage'[r], Provider(r)')
                /\ Behind(r)'
    <2>1. stage'[r] = "retry" /\ Provider(r)' = plan[r].stt
      BY <1>2, <1>11 DEF Called, Provider
    <2>2. Len(log[r]) = 0
      BY <1>3, <1>11 DEF Behind
    <2> QED
      BY <1>2, <1>4, <1>5, <1>11, <2>1, <2>2 DEF Behind, Called
  <1>12. ASSUME \/ stage[r] = "stt" /\ o \in Triggers
                \/ stage[r] = "retry" /\ o \in {"blank"} \cup Triggers,
                To("fallback", plan[r].fallback)
         PROVE  /\ Provider(r)' # None /\ Called(r, stage'[r], Provider(r)')
                /\ Behind(r)'
    <2>1. stage'[r] = "fallback" /\ Provider(r)' = plan[r].fallback
      BY <1>2, <1>12 DEF Called, Provider
    <2>2. \/ stage[r] = "stt" /\ o \in Triggers /\ Len(log[r]) = 0
          \/ /\ stage[r] = "retry" /\ o \in {"blank"} \cup Triggers
             /\ Len(log[r]) = 1 /\ log[r][1].got = "blank"
      BY <1>3, <1>6, <1>12 DEF Behind
    <2>3. \/ Len(log'[r]) = 1 /\ log'[r][1].got \in Triggers
          \/ /\ Len(log'[r]) = 2 /\ log'[r][1].got = "blank"
             /\ log'[r][2].stage = "retry" /\ log'[r][2].got \in {"blank"} \cup Triggers
      <3>1. CASE stage[r] = "stt" /\ o \in Triggers /\ Len(log[r]) = 0
        BY <1>4, <1>5, <3>1
      <3>2. CASE /\ stage[r] = "retry" /\ o \in {"blank"} \cup Triggers
                 /\ Len(log[r]) = 1 /\ log[r][1].got = "blank"
        <4>1. Len(log'[r]) = 2
          BY <1>4, <3>2
        <4> QED
          BY <1>4, <1>5, <3>2, <4>1
      <3> QED
        BY <2>2, <3>1, <3>2
    <2>4. Behind(r)'
      BY <2>1, <2>3 DEF Behind, Triggers
    <2> QED
      BY <1>12, <2>1, <2>4 DEF Called
  <1> HIDE DEF To
  <1>13. Turn(r)
    BY <1>7, <1>8, <1>9
  <1>14. \/ Ended(r)
         \/ /\ Provider(r)' # None
            /\ Called(r, stage'[r], Provider(r)')
            /\ Behind(r)'
    <2>1. CASE FirstSttEnds(r, o)
      <3>1. stage[r] = "stt"
        BY <2>1 DEF FirstSttEnds
      <3> QED
        BY <1>7, <1>10, <1>11, <1>12, <2>1, <3>1
    <2>2. CASE RetryEnds(r, o)
      <3>1. stage[r] = "retry"
        BY <2>2 DEF RetryEnds
      <3> QED
        BY <1>8, <1>10, <1>12, <2>2, <3>1
    <2>3. CASE FallbackEnds(r, o) \/ LlmEnds(r, o)
      BY <1>9, <1>10, <2>3
    <2> QED
      BY <2>1, <2>2, <2>3
  <1> QED
    BY <1>1, <1>4, <1>6, <1>13, <1>14

-----------------------------------------------------------------------------
(***************************************************************************)
(* Every step keeps the types, the course of its request and, through      *)
(* OthersKeepCourse, that of the others.                                   *)
(***************************************************************************)
RequestType == /\ req \in [Requests -> Inputs \cup {None}]
               /\ plan \in [Requests -> Plans]
               /\ TurnType
               /\ log \in [Requests -> Seq(Calls)]
               /\ \A r \in Requests : Len(log[r]) <= 4

Keeps(r) == /\ RequestType'
            /\ Course(r)'
            /\ \A q \in Requests \ {r} : Same(q) /\ Woken(q)

(* The end of a provider call.                                             *)
LEMMA CallEndsKeeps ==
  ASSUME TypeOK, NEW r \in Requests, Course(r), CallEnds(r) PROVE Keeps(r)
  <1>1. PICK o \in Outcomes : \/ FirstSttEnds(r, o) \/ RetryEnds(r, o)
                              \/ FallbackEnds(r, o) \/ LlmEnds(r, o)
    BY DEF CallEnds
  <1>2. /\ HangUp(r, o) /\ Turn(r) /\ Len(log'[r]) <= 4
        /\ \/ Ended(r)
           \/ /\ Provider(r)' # None
              /\ Called(r, stage'[r], Provider(r)')
              /\ Behind(r)'
    BY <1>1, NextStage
  <1>3. /\ UnderWay(r) /\ req' = req /\ plan' = plan
        /\ log' \in [Requests -> Seq(Calls)]
        /\ \A q \in Requests \ {r} : log'[q] = log[q] /\ Woken(q)
        /\ CallsAllowed(r)' /\ slot'[r] = "out"
    BY <1>2, HangUpEffect
  <1>4. /\ req[r] \in Inputs /\ Accepted(req[r]) /\ plan[r] = PlanOf(req[r])
    BY <1>3 DEF Course
  <1>5. RequestType'
    BY <1>2, <1>3 DEF TypeOK, RequestType, Turn
  <1>6. \A q \in Requests \ {r} : Same(q) /\ Woken(q)
    BY <1>2, <1>3 DEF Same, Turn
  <1>7. Course(r)'
    <2>1. CASE Ended(r)
      BY <1>3, <2>1 DEF Course, Ended, SlotUse, UnderWay
    <2>2. CASE /\ Provider(r)' # None
               /\ Called(r, stage'[r], Provider(r)')
               /\ Behind(r)'
      <3>1. SlotUse(r)'
        BY <1>3, <2>2 DEF Called, SlotUse
      <3> QED
        BY <1>3, <1>4, <2>2, <3>1 DEF Course, Called, UnderWay
    <2> QED
      BY <1>2, <2>1, <2>2
  <1> QED
    BY <1>5, <1>6, <1>7 DEF Keeps

(* A new request: nothing was called for it, its first stage is planned.   *)
LEMMA SubmitKeeps ==
  ASSUME TypeOK, NEW r \in Requests, NEW in \in Inputs, Course(r), Submit(r, in)
  PROVE  Keeps(r)
  <1>1. /\ Accepted(in) /\ pc[r] = "new" /\ log' = log /\ slot' = slot
        /\ req' = [req EXCEPT ![r] = in]
        /\ plan' = [plan EXCEPT ![r] = PlanOf(in)]
    BY DEF Submit, gate
  <1>2. /\ PlanOf(in) \in Plans
        /\ in.kind = "process" => PlanOf(in).llm # None
        /\ in.kind # "process" => PlanOf(in).stt # None
    BY <1>1, PlanType
  <1>3. /\ req'[r] = in /\ plan'[r] = PlanOf(in)
        /\ \A q \in Requests \ {r} : req'[q] = req[q] /\ plan'[q] = plan[q]
        /\ req' \in [Requests -> Inputs \cup {None}] /\ plan' \in [Requests -> Plans]
    BY <1>1, <1>2 DEF TypeOK
  <1>4. log[r] = <<>> /\ slot[r] = "out"
    BY <1>1 DEF Course, SlotUse
  <1>5. TurnType /\ "stt" \in Stages /\ "llm" \in Stages
    BY DEF TypeOK, TurnType, Stages
  <1>6. /\ Turn(r)
        /\ \/ Ended(r)
           \/ in.kind = "process" /\ Called(r, "llm", PlanOf(in).llm)
           \/ in.kind # "process" /\ Called(r, "stt", PlanOf(in).stt)
    BY <1>5, Turns DEF Submit
  <1>7. RequestType'
    BY <1>1, <1>3, <1>6 DEF TypeOK, RequestType, Turn
  <1>8. \A q \in Requests \ {r} : Same(q) /\ Woken(q)
    BY <1>1, <1>3, <1>6 DEF Same, Turn, Woken
  <1>9. Course(r)'
    <2>1. CallsAllowed(r)'
      BY <1>1, <1>4 DEF CallsAllowed
    <2>2. CASE Ended(r)
      BY <1>1, <1>4, <2>1, <2>2 DEF Course, Ended, SlotUse, UnderWay
    <2>3. CASE in.kind = "process" /\ Called(r, "llm", PlanOf(in).llm)
      <3>1. stage'[r] = "llm" /\ Provider(r)' = PlanOf(in).llm
        BY <1>3, <2>3 DEF Called, Provider
      <3>2. Behind(r)'
        BY <1>1, <1>4, <3>1 DEF Behind
      <3>3. SlotUse(r)'
        BY <1>1, <1>4, <2>3, <3>1 DEF SlotUse, Called
      <3> QED
        BY <1>1, <1>2, <1>3, <2>1, <2>3, <3>1, <3>2, <3>3 DEF Course, UnderWay, Called
    <2>4. CASE in.kind # "process" /\ Called(r, "stt", PlanOf(in).stt)
      <3>1. stage'[r] = "stt" /\ Provider(r)' = PlanOf(in).stt
        BY <1>3, <2>4 DEF Called, Provider
      <3>2. Behind(r)'
        BY <1>1, <1>4, <3>1 DEF Behind
      <3>3. SlotUse(r)'
        BY <1>1, <1>4, <2>4, <3>1 DEF SlotUse, Called
      <3> QED
        BY <1>1, <1>2, <1>3, <2>1, <2>4, <3>1, <3>2, <3>3 DEF Course, UnderWay, Called
    <2> QED
      BY <1>6, <2>2, <2>3, <2>4
  <1> QED
    BY <1>7, <1>8, <1>9 DEF Keeps

(* A refusal and the response that ends a request.                         *)
LEMMA EndsKeep ==
  ASSUME TypeOK, NEW r \in Requests, Course(r),
         (\E in \in Inputs : Refuse(r, in)) \/ Respond(r)
  PROVE  Keeps(r)
  <1> USE DEF TypeOK, RequestType, TurnType, gate, Same, Woken, Keeps
  <1>1. ASSUME NEW in \in Inputs, Refuse(r, in) PROVE Keeps(r)
    <2>1. RequestType' /\ \A q \in Requests \ {r} : Same(q) /\ Woken(q)
      BY <1>1 DEF Refuse, Answer
    <2>2. /\ pc'[r] = "done" /\ slot'[r] = "out" /\ log'[r] = <<>>
      BY <1>1 DEF Refuse, Answer, Course, SlotUse
    <2>3. Course(r)'
      BY <2>2 DEF Course, SlotUse, UnderWay, CallsAllowed
    <2> QED
      BY <2>1, <2>3
  <1>2. ASSUME Respond(r) PROVE Keeps(r)
    <2>1. NoPlan \in Plans
      BY DEF NoPlan, Plans
    <2>2. RequestType' /\ \A q \in Requests \ {r} : Same(q) /\ Woken(q)
      BY <1>2, <2>1 DEF Respond, Stages
    <2>3. /\ pc'[r] = "new" /\ slot'[r] = "out" /\ log'[r] = <<>>
          /\ stage'[r] = "stt" /\ req'[r] = None
      BY <1>2 DEF Respond, Course, SlotUse
    <2>4. Course(r)'
      BY <2>3 DEF Course, SlotUse, UnderWay, CallsAllowed
    <2> QED
      BY <2>2, <2>4
  <1> QED
    BY <1>1, <1>2

(* The steps of async with gate.slot().                                    *)
LEMMA GateKeeps ==
  ASSUME TypeOK, NEW r \in Requests, Course(r),
         ArriveAtGate(r) \/ ResumeAtGate(r) \/ ExpireAtGate(r) \/ GateTimeout(r)
  PROVE  Keeps(r)
  <1>1. /\ pc[r] = "gate" /\ GateStep(r) /\ GateTypeOK /\ r \in Callers
        /\ req' = req /\ plan' = plan /\ stage' = stage /\ log' = log
    BY DEF ArriveAtGate, ResumeAtGate, ExpireAtGate, GateTimeout, GateStep, request,
           TypeOK, Requests
  <1>2. \A q \in Requests \ {r} : Woken(q)
    BY <1>1, SlotSteps DEF Requests
  <1>3. /\ TurnType' /\ \A q \in Requests \ {r} : pc'[q] = pc[q]
    BY <1>1 DEF ArriveAtGate, ResumeAtGate, ExpireAtGate, GateTimeout, Answer, request,
                TypeOK, TurnType
  <1>4. \/ pc'[r] = "call" /\ slot'[r] = "in"
        \/ pc'[r] = "gate" /\ slot'[r] # "in"
        \/ pc'[r] = "done" /\ slot'[r] = "out"
    <2>1. CASE ArriveAtGate(r)
      BY <1>1, <2>1, SlotSteps DEF ArriveAtGate, TypeOK
    <2>2. CASE ResumeAtGate(r)
      BY <1>1, <2>2, SlotSteps DEF ResumeAtGate, TypeOK
    <2>3. CASE ExpireAtGate(r)
      BY <1>1, <2>3, SlotSteps DEF ExpireAtGate, request
    <2>4. CASE GateTimeout(r)
      BY <1>1, <2>4, SlotSteps DEF GateTimeout, Answer, TypeOK
    <2> QED
      BY <2>1, <2>2, <2>3, <2>4
  <1>5. RequestType'
    BY <1>1, <1>3 DEF TypeOK, RequestType
  <1>6. /\ Provider(r)' = Provider(r) /\ Provider(r) \in Local
        /\ Behind(r)' /\ CallsAllowed(r)'
        /\ req[r] \in Inputs /\ Accepted(req[r]) /\ plan[r] = PlanOf(req[r])
        /\ Provider(r) # None
    BY <1>1 DEF Course, UnderWay, SlotUse, Provider, Behind, CallsAllowed
  <1>7. SlotUse(r)'
    BY <1>4, <1>6 DEF SlotUse
  <1>8. Course(r)'
    BY <1>1, <1>4, <1>6, <1>7 DEF Course, UnderWay
  <1> QED
    BY <1>1, <1>2, <1>3, <1>5, <1>8 DEF Keeps, Same

(* The invariant is inductive.                                             *)
LEMMA StepCourse ==
  ASSUME PipelineInv, GateTypeOK', [Next]_vars PROVE PipelineInv'
  <1>1. TypeOK /\ \A r \in Requests : Course(r)
    BY DEF PipelineInv
  <1>2. ASSUME NEW r \in Requests, Keeps(r) PROVE PipelineInv'
    <2>1. TypeOK'
      BY <1>2 DEF Keeps, RequestType, TurnType, TypeOK
    <2>2. ASSUME NEW q \in Requests PROVE Course(q)'
      BY <1>1, <1>2, OthersKeepCourse DEF Keeps
    <2> QED
      BY <2>1, <2>2 DEF PipelineInv
  <1>3. CASE Next
    <2>1. PICK r \in Requests :
             \/ \E in \in Inputs : Submit(r, in) \/ Refuse(r, in)
             \/ Respond(r)
             \/ ArriveAtGate(r) \/ ResumeAtGate(r) \/ ExpireAtGate(r) \/ GateTimeout(r)
             \/ CallEnds(r)
      BY <1>3 DEF Next
    <2>2. Keeps(r)
      BY <1>1, <2>1, SubmitKeeps, EndsKeep, GateKeeps, CallEndsKeeps
    <2> QED
      BY <1>2, <2>2
  <1>4. CASE UNCHANGED vars
    <2>1. ASSUME NEW q \in Requests PROVE Course(q)'
      BY <1>1, <1>4, OthersKeepCourse DEF vars, gate, request, Same, Woken
    <2>2. TypeOK'
      BY <1>1, <1>4 DEF vars, request, TypeOK
    <2> QED
      BY <2>1, <2>2 DEF PipelineInv
  <1> QED
    BY <1>3, <1>4

(* The invariant holds in every state of the pipeline.                     *)
LEMMA PipelineInvariant == Spec => []PipelineInv
  <1>1. PipelineInv /\ GateTypeOK' /\ [Next]_vars => PipelineInv'
    BY StepCourse
  <1> QED
    BY <1>1, InitCourse, PipelineUsesGate, GateTypeCorrect, PTL DEF Spec

-----------------------------------------------------------------------------
(* Types, the providers called and the counter of the gate among them.     *)
THEOREM PipelineTypeCorrect == Spec => []TypeOK
  <1>1. PipelineInv => TypeOK
    BY DEF PipelineInv
  <1> QED
    BY <1>1, PipelineInvariant, PTL

(* With processing_location = local nothing leaves for the cloud, whatever *)
(* mode, override and parameters say and however the calls end.            *)
THEOREM LocalStaysLocalAlways == Spec => []LocalStaysLocal
  <1>1. PipelineInv => LocalStaysLocal
    <2> SUFFICES ASSUME PipelineInv, NEW r \in Requests,
                        req[r] # None, req[r].location = "local"
                 PROVE  /\ \A call \in Sent(r) : call.to \in Local
                        /\ pc[r] = "call" => Provider(r) \in Local
      BY DEF LocalStaysLocal
    <2>1. TypeOK /\ Course(r)
      BY DEF PipelineInv
    <2>2. \A call \in Sent(r) : call.to \in Local
      BY <2>1 DEF Course, CallsAllowed, Sent
    <2>3. pc[r] = "call" => Provider(r) \in Local
      BY <2>1, ProviderAllowed DEF UnderWay
    <2> QED
      BY <2>2, <2>3
  <1> QED
    BY <1>1, PipelineInvariant, PTL

(* The STT chosen in the settings is the one that hears the audio.         *)
THEOREM ChosenSttIsAlwaysUsed == Spec => []ChosenSttIsUsed
  <1>1. PipelineInv => ChosenSttIsUsed
    BY DEF PipelineInv, Course, CallsAllowed, Chosen, Sent, ChosenSttIsUsed
  <1> QED
    BY <1>1, PipelineInvariant, PTL

(* No fallback before the primary STT failed, or was blank and then, asked *)
(* again, gave no text; never after it gave text.                          *)
THEOREM FallbackIsAlwaysLast == Spec => []FallbackIsLastResort
  <1>1. PipelineInv => FallbackIsLastResort
    <2> SUFFICES ASSUME PipelineInv, NEW r \in Requests,
                        stage[r] = "fallback", pc[r] # "done"
                 PROVE  \/ log[r][1].got \in Triggers
                        \/ /\ log[r][1].got = "blank"
                           /\ Len(log[r]) >= 2 /\ log[r][2].stage = "retry"
                           /\ log[r][2].got \in {"blank"} \cup Triggers
      BY DEF FallbackIsLastResort
    <2>1. TypeOK /\ Course(r)
      BY DEF PipelineInv
    <2>2. pc[r] # "new"
      BY <2>1 DEF Course
    <2>3. Behind(r)
      BY <2>1, <2>2 DEF TypeOK, Course, UnderWay
    <2> QED
      BY <2>3 DEF Behind
  <1> QED
    BY <1>1, PipelineInvariant, PTL

(* One slot per local call, none for cloud calls and answered requests.    *)
THEOREM OneSlotPerLocalCall == Spec => []SlotPerLocalCall
  <1>1. PipelineInv => SlotPerLocalCall
    BY DEF PipelineInv, TypeOK, Course, SlotUse, SlotPerLocalCall
  <1> QED
    BY <1>1, PipelineInvariant, PTL

(* Over all requests no more local calls are under way than the gate lets  *)
(* through: the calls implement the bounded pool.                          *)
THEOREM LocalCallsAreBounded == Spec => ImplementsPoolOfCalls
  <1>1. PipelineInv => LocalCalls = Inside
    BY DEF PipelineInv, TypeOK, Course, SlotUse, LocalCalls, Inside, Requests
  <1>2. PipelineInv /\ Pool!Init => LocalCallPool!Init
    BY <1>1 DEF LocalCallPool!Init, Pool!Init
  <1>3. PipelineInv /\ PipelineInv' /\ [Pool!Next]_Inside => [LocalCallPool!Next]_LocalCalls
    <2>1. PipelineInv' => (LocalCalls = Inside)'
      BY <1>1, PTL
    <2> QED
      BY <1>1, <2>1 DEF LocalCallPool!Next, Pool!Next, LocalCallPool!Take, Pool!Take,
         LocalCallPool!Give, Pool!Give, LocalCallPool!Cardinality, Pool!Cardinality
  <1>4. Spec => Pool!Init /\ [][Pool!Next]_Inside
    BY PipelineUsesGate, GateIsBoundedPool DEF ImplementsPool, Pool!Spec
  <1> QED
    BY <1>2, <1>3, <1>4, PipelineInvariant, PTL
       DEF ImplementsPoolOfCalls, LocalCallPool!Spec
=============================================================================
