--------------------------- MODULE MCWindowsShell ---------------------------
(* What surrounds the recording core of the Windows client, for TLC: tray   *)
(* and insertion, and the hotkeys.  They share no state: a behaviour moves  *)
(* one of the two and leaves the other in an initial state.                 *)
EXTENDS WindowsShell, HotkeyBackends, TLC
VARIABLE moving    \* which of the two this behaviour is about

MCInit ==
    /\ moving \in {"shell", "hotkeys"}
    /\ Init /\ HotkeysInit
    /\ moving = "shell" => foreign = {} /\ config.kind = "win32"
                             /\ config.keys = [m \in Modes |-> Nothing]

MCNext == \/ moving = "shell" /\ Next /\ UNCHANGED <<hotkeys, moving>>
          \/ moving = "hotkeys" /\ HotkeysNext /\ UNCHANGED <<vars, moving>>

MCSpec == MCInit /\ [][MCNext]_<<vars, hotkeys, moving>> /\ HotkeysFairness

(* Liveness is about the hotkeys, and no condition of its fairness tells   *)
(* modes apart; names of the shell do not occur in their behaviours.        *)
MCSymmetry == Permutations(BlinkThreads) \cup Permutations(Workers)
                \cup Permutations(Modes)
=============================================================================
