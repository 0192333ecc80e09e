---------------------------- MODULE MCWebConsole ----------------------------
(* Two calls under way are enough for an answer to be overtaken, and three *)
(* renderings for a card that has left the page while two are in it.       *)
EXTENDS WebConsole, TLC

Symmetry == Permutations(Cards) \cup Permutations(Calls)
==============================================================================
