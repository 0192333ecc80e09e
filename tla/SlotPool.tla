------------------------------- MODULE SlotPool -------------------------------
(***************************************************************************)
(* What the gate in front of local inference promises: at no time are more *)
(* than Capacity calls to local providers under way.                       *)
(***************************************************************************)
EXTENDS Integers, FiniteSets
CONSTANTS Callers, Capacity
VARIABLE holders

Init == holders = {}

Take(c) == /\ c \notin holders /\ Cardinality(holders) < Capacity
           /\ holders' = holders \cup {c}

Give(c) == /\ c \in holders
           /\ holders' = holders \ {c}

Next == \E c \in Callers : Take(c) \/ Give(c)

Spec == Init /\ [][Next]_holders
=============================================================================
