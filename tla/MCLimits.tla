------------------------------ MODULE MCLimits ------------------------------
(* The two limits of the backend for TLC.  They share no state: a behaviour *)
(* moves one of them and leaves the other in its initial state.             *)
EXTENDS LocalInferenceGate, RateLimiter
CONSTANTS c1, c2, c3, c4, loop, p1, p2
VARIABLE moving    \* which of the two this behaviour is about

Init == moving \in {"gate", "bucket"} /\ GateInit /\ BucketInit

Next == \/ moving = "gate" /\ GateNext /\ UNCHANGED <<bucket, moving>>
        \/ moving = "bucket" /\ BucketNext /\ UNCHANGED <<gate, moving>>

Spec == Init /\ [][Next]_<<gate, bucket, moving>> /\ GateFairness
=============================================================================
