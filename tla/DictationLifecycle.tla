------------------------- MODULE DictationLifecycle -------------------------
(***************************************************************************)
(* What the Windows client promises its user about one dictation at a      *)
(* time: the state diagram of docs/architecture.md ("Windows-Client -      *)
(* State-Machine"), with the microphone added.  The microphone is open in  *)
(* state "recording" and never while a text is being produced, an error is *)
(* shown or the client waits for a key, apart from the moment between      *)
(* opening the device and showing the state.  The exception is a driver    *)
(* that fails: the microphone may then be stuck open for good, and the     *)
(* client shows an error before it does anything else.  ClientDictation    *)
(* implements this as long as key presses and the hard timeout do not      *)
(* overlap.                                                                *)
(***************************************************************************)
VARIABLES phase,
          mic,      \* "failed": the device failed, which is about to be shown
          stuck     \* some failure may have left the microphone open

vars == <<phase, mic, stuck>>

Init == phase = "idle" /\ mic = "closed" /\ ~stuck

OpenMic ==
    /\ phase = "idle" /\ mic = "closed"
    /\ mic' = "open"
    /\ UNCHANGED <<phase, stuck>>

BeginRecording ==
    /\ phase = "idle" /\ mic = "open"
    /\ phase' = "recording"
    /\ UNCHANGED <<mic, stuck>>

(* The user's key, or the hard timeout, ends the recording. *)
CloseMic ==
    /\ phase = "recording" /\ mic = "open"
    /\ mic' = "closed"
    /\ UNCHANGED <<phase, stuck>>

(* The device fails to open, or to stop. *)
MicFails ==
    /\ \/ phase = "idle" /\ mic = "closed"
       \/ phase = "recording" /\ mic = "open"
    /\ mic' = "failed" /\ stuck' \in {stuck, TRUE}
    /\ UNCHANGED phase

ShowFailure ==
    /\ mic = "failed"
    /\ phase' = "error" /\ mic' = "closed"
    /\ UNCHANGED stuck

(* Silence leads back to idle, speech is sent. *)
EndRecording ==
    /\ phase = "recording" /\ mic = "closed"
    /\ phase' \in {"idle", "processing"}
    /\ UNCHANGED <<mic, stuck>>

EndProcessing ==
    /\ phase = "processing"
    /\ phase' \in {"idle", "error"}
    /\ UNCHANGED <<mic, stuck>>

Recover == phase = "error" /\ phase' = "idle" /\ UNCHANGED <<mic, stuck>>

Next == \/ OpenMic \/ BeginRecording \/ CloseMic \/ MicFails \/ ShowFailure
        \/ EndRecording \/ EndProcessing \/ Recover

(* Everything but the user's decision to dictate happens by itself: the    *)
(* hard timeout ends a recording, the network timeout ends a request.      *)
Fairness ==
    /\ WF_vars(BeginRecording)
    /\ WF_vars(phase = "recording" /\ (CloseMic \/ MicFails))
    /\ WF_vars(ShowFailure)
    /\ WF_vars(EndRecording)
    /\ WF_vars(EndProcessing)
    /\ WF_vars(Recover)

Spec == Init /\ [][Next]_vars /\ Fairness
=============================================================================
