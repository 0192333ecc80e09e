-------------------------- MODULE MCClientSettings --------------------------
(* One mode, which comes and goes in the backend's list; two tokens, one of *)
(* them old; no hotkeys by default.                                         *)
EXTENDS ClientSettings, TLC

CONSTANTS DefaultUrl, DefaultOption

MCDefaults ==
    [url |-> DefaultUrl, option |-> DefaultOption, keys |-> [m \in AllModes |-> Unset]]

MCSymmetry == Permutations(Tokens)
=============================================================================
