-------------------------- MODULE MCClientDictation --------------------------
(* One hotkey thread, as with the Win32 backend; recordings and worker      *)
(* slots from small pools.                                                  *)
EXTENDS ClientDictation, TLC
CONSTANTS h1, r1, r2, w1, w2, mA, mB

MCSymmetry == Permutations({r1, r2}) \cup Permutations({w1, w2})

(* Without what is only written: what the threads do next does not depend  *)
(* on the tray, nor, with a single mode, on the modes.                     *)
MCView == <<state, recorder, timeout, streaming, frames, pc, rec, tim, target>>
=============================================================================
