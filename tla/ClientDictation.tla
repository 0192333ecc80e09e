--------------------------- MODULE ClientDictation ---------------------------
(***************************************************************************)
(* The recording core of the Windows client (app.py with audio/recorder.py *)
(* and audio/timeout.py).  Four kinds of threads share the fields of       *)
(* ClientApp: the hotkey thread, one timer thread per recording, the send  *)
(* threads and the recovery threads.  Only _state is under a lock, and the *)
(* lock covers single reads and writes, so every other access is a step of *)
(* its own here.                                                           *)
(*                                                                         *)
(* A recording is named by its Recorder object; its timer thread carries   *)
(* the same name.  A name is reused once nothing refers to it any more.    *)
(***************************************************************************)
CONSTANTS HotkeyThreads,  \* threads that run hotkey callbacks: one, or two after a
                          \* reload whose stop() gave up on the old one after 2 s
          Recorders,      \* names of Recorder objects (bound on live ones)
          Workers,        \* slots for send and recovery threads (bound)
          Modes,          \* dictation modes
          DefaultMode,    \* Mode.exact_de
          None,
          Overlap         \* may hotkey and timer callbacks run at the same time?

ASSUME DictationAssumption ==
    /\ HotkeyThreads \cap Recorders = {}
    /\ HotkeyThreads \cap Workers = {}
    /\ Recorders \cap Workers = {}
    /\ DefaultMode \in Modes
    /\ None \notin Recorders \cup Modes
    /\ Overlap \in BOOLEAN

Threads == HotkeyThreads \cup Recorders \cup Workers
States  == {"idle", "recording", "processing", "error"}

VARIABLES
    state,        \* ClientApp._state
    tray,         \* TrayIcon._state, the icon the user sees
    recorder,     \* ClientApp._recorder
    timeout,      \* ClientApp._timeout
    activeMode,   \* ClientApp._active_mode
    streaming,    \* Recorder._stream is not None: it holds an open stream
    frames,       \* Recorder._frames holds this recording's audio
    unclosed,     \* some stream was given up without being closed, which may
                  \* have left the microphone open
    pc,           \* where each thread is; "rest": not running a callback
    rec,          \* local recorder of a thread, or the recording it sends
    tim,          \* local timeout of _stop_recording_and_send
    mode,         \* mode argument of a thread
    target,       \* argument of the _set_state call a thread is in
    startedWith   \* history: the mode a recording was started with

app    == <<state, tray, recorder, timeout, activeMode>>
device == <<streaming, frames, unclosed>>
locals == <<rec, tim, mode, target>>
vars   == <<app, device, pc, locals, startedWith>>

Starting == {"start", "publish", "setTimeout", "startTimer"}
Stopping == {"grabRecorder", "grabTimeout", "clearRecorder", "clearTimeout",
             "stop", "stopStream"}
Labels == Starting \cup Stopping \cup
          {"rest", "armed", "onTimeout", "set", "tray", "send", "sleep"}

TypeOK ==
    /\ state \in States /\ tray \in States
    /\ recorder \in Recorders \cup {None}
    /\ timeout \in Recorders \cup {None}
    /\ activeMode \in Modes \cup {None}
    /\ streaming \in [Recorders -> BOOLEAN]
    /\ frames \in [Recorders -> BOOLEAN]
    /\ unclosed \in BOOLEAN
    /\ pc \in [Threads -> Labels]
    /\ rec \in [Threads -> Recorders \cup {None}]
    /\ tim \in [Threads -> Recorders \cup {None}]
    /\ mode \in [Threads -> Modes \cup {None}]
    /\ target \in [Threads -> States]
    /\ startedWith \in [Recorders -> Modes \cup {None}]

Init ==
    /\ state = "idle" /\ tray = "idle"
    /\ recorder = None /\ timeout = None /\ activeMode = None
    /\ streaming = [r \in Recorders |-> FALSE]
    /\ frames = [r \in Recorders |-> FALSE]
    /\ unclosed = FALSE
    /\ pc = [t \in Threads |-> "rest"]
    /\ rec = [t \in Threads |-> None]
    /\ tim = [t \in Threads |-> None]
    /\ mode = [t \in Threads |-> None]
    /\ target = [t \in Threads |-> "idle"]
    /\ startedWith = [r \in Recorders |-> None]

-----------------------------------------------------------------------------
Callbacks == HotkeyThreads \cup Recorders
InCallback(t) == pc[t] \notin {"rest", "armed"}
MayEnter == Overlap \/ \A t \in Callbacks : ~InCallback(t)

Goto(t, l) == pc' = [pc EXCEPT ![t] = l]

(* The thread calls _set_state(s) next. *)
Calls(t, s) == Goto(t, "set") /\ target' = [target EXCEPT ![t] = s]

(* The thread's callback returns, or the thread ends; its locals are gone. *)
Forget(t) == /\ rec' = [rec EXCEPT ![t] = None]
             /\ tim' = [tim EXCEPT ![t] = None]
             /\ mode' = [mode EXCEPT ![t] = None]
             /\ target' = [target EXCEPT ![t] = "idle"]

Return(t) == Goto(t, "rest") /\ Forget(t)

(* No variable refers to r: a new Recorder may take the name. *)
Unused(r) ==
    /\ r # recorder /\ r # timeout /\ ~streaming[r] /\ pc[r] = "rest"
    /\ \A t \in Threads : r # rec[t] /\ r # tim[t]

-----------------------------------------------------------------------------
(* Fault: "processing" is not ignored. *)
HotkeyPressedWhileBusy(h, m) ==
    /\ pc[h] = "rest" /\ MayEnter
    /\ \/ state \in {"idle", "processing"} /\ Goto(h, "start")
       \/ state = "recording" /\ Goto(h, "grabRecorder")
    /\ mode' = [mode EXCEPT ![h] = m]
    /\ UNCHANGED <<app, device, rec, tim, target, startedWith>>

(* _on_hotkey: the state is read under the lock and acted on after it.     *)
(* Presses in "processing" and "error", and presses of a disabled mode,    *)
(* change nothing.                                                         *)
HotkeyPressed(h, m) ==
    /\ pc[h] = "rest" /\ MayEnter
    /\ \/ state = "idle" /\ Goto(h, "start")
       \/ state = "recording" /\ Goto(h, "grabRecorder")
    /\ mode' = [mode EXCEPT ![h] = m]
    /\ UNCHANGED <<app, device, rec, tim, target, startedWith>>

(* _start_recording: the device refuses.  When it is the stream's start()  *)
(* that raises, the stream is open already, and is dropped unclosed with   *)
(* the local Recorder.                                                     *)
RecorderFails(h) ==
    /\ pc[h] = "start"
    /\ unclosed' \in {unclosed, TRUE}
    /\ Calls(h, "error")
    /\ UNCHANGED <<app, streaming, frames, rec, tim, mode, startedWith>>

(* _start_recording: Recorder().start() opens the stream. *)
RecorderStarts(h, r) ==
    /\ pc[h] = "start" /\ Unused(r)
    /\ streaming' = [streaming EXCEPT ![r] = TRUE]
    /\ frames' = [frames EXCEPT ![r] = TRUE]
    /\ rec' = [rec EXCEPT ![h] = r]
    /\ startedWith' = [startedWith EXCEPT ![r] = mode[h]]
    /\ Goto(h, "publish")
    /\ UNCHANGED <<app, unclosed, tim, mode, target>>

PublishRecorder(h) ==
    /\ pc[h] = "publish"
    /\ recorder' = rec[h] /\ activeMode' = mode[h]
    /\ Goto(h, "setTimeout")
    /\ UNCHANGED <<state, tray, timeout, device, locals, startedWith>>

SetTimeout(h) ==
    /\ pc[h] = "setTimeout"
    /\ timeout' = rec[h]
    /\ Goto(h, "startTimer")
    /\ UNCHANGED <<state, tray, recorder, activeMode, device, locals, startedWith>>

(* Fault: the timer is made but not started. *)
StartTimerForgotten(h) ==
    /\ pc[h] = "startTimer"
    /\ Calls(h, "recording")
    /\ UNCHANGED <<app, device, rec, tim, mode, startedWith>>

(* self._timeout is read again.  If a stop has cleared it meanwhile, the   *)
(* call on None raises and the hotkey loop swallows the exception.         *)
StartTimer(h) ==
    /\ pc[h] = "startTimer"
    /\ \/ /\ timeout = None
          /\ Return(h)
       \/ /\ timeout # None
          /\ pc' = [pc EXCEPT ![timeout] = "armed", ![h] = "set"]
          /\ target' = [target EXCEPT ![h] = "recording"]
          /\ UNCHANGED <<rec, tim, mode>>
    /\ UNCHANGED <<app, device, startedWith>>

-----------------------------------------------------------------------------
(* Thread h is in _start_recording with recording r or its timer. *)
IsStarting(h, r) ==
    \/ pc[h] \in Starting /\ rec[h] = r
    \/ pc[h] = "startTimer" /\ timeout = r
    \/ pc[h] \in {"set", "tray"} /\ target[h] = "recording" /\ rec[h] = r

(* The timer thread of recording r wakes up.  59 s are longer than the few *)
(* statements its starter has left.  From here on cancel() has no effect   *)
(* on this thread.                                                         *)
TimerFires(r) ==
    /\ pc[r] = "armed" /\ MayEnter
    /\ \A h \in HotkeyThreads : ~IsStarting(h, r)
    /\ Goto(r, "onTimeout")
    /\ UNCHANGED <<app, device, locals, startedWith>>

(* Fault: an automatic stop uses the default mode. *)
OnTimeoutDefaultMode(r) ==
    /\ pc[r] = "onTimeout"
    /\ mode' = [mode EXCEPT ![r] = DefaultMode]
    /\ Goto(r, "grabRecorder")
    /\ UNCHANGED <<app, device, rec, tim, target, startedWith>>

OnTimeout(r) ==
    /\ pc[r] = "onTimeout"
    /\ mode' = [mode EXCEPT ![r] = IF activeMode = None THEN DefaultMode ELSE activeMode]
    /\ Goto(r, "grabRecorder")
    /\ UNCHANGED <<app, device, rec, tim, target, startedWith>>

-----------------------------------------------------------------------------
(* Fault: the field is cleared before it is read. *)
GrabRecorderCleared(t) ==
    /\ pc[t] = "grabRecorder"
    /\ recorder' = None
    /\ Goto(t, "grabTimeout")
    /\ UNCHANGED <<state, tray, timeout, activeMode, device, locals, startedWith>>

(* _stop_recording_and_send, run by the hotkey thread or a timer thread.   *)
GrabRecorder(t) ==
    /\ pc[t] = "grabRecorder"
    /\ rec' = [rec EXCEPT ![t] = recorder]
    /\ Goto(t, "grabTimeout")
    /\ UNCHANGED <<app, device, tim, mode, target, startedWith>>

GrabTimeout(t) ==
    /\ pc[t] = "grabTimeout"
    /\ tim' = [tim EXCEPT ![t] = timeout]
    /\ Goto(t, "clearRecorder")
    /\ UNCHANGED <<app, device, rec, mode, target, startedWith>>

ClearRecorder(t) ==
    /\ pc[t] = "clearRecorder"
    /\ recorder' = None
    /\ Goto(t, "clearTimeout")
    /\ UNCHANGED <<state, tray, timeout, activeMode, device, locals, startedWith>>

(* timeout.cancel() ends a timer thread that still waits; a stop without a *)
(* recorder is ignored.                                                    *)
ClearTimeout(t) ==
    LET cancelled == IF tim[t] # None /\ pc[tim[t]] = "armed" THEN {tim[t]} ELSE {}
        After(l) == pc' = [u \in Threads |->
                             IF u = t THEN l ELSE IF u \in cancelled THEN "rest" ELSE pc[u]]
    IN  /\ pc[t] = "clearTimeout"
        /\ timeout' = None
        /\ \/ rec[t] = None /\ After("rest") /\ Forget(t)
           \/ /\ rec[t] # None /\ After("stop")
              /\ tim' = [tim EXCEPT ![t] = None] /\ UNCHANGED <<rec, mode, target>>
        /\ UNCHANGED <<state, tray, recorder, activeMode, device, startedWith>>

(* Recorder.stop: without a stream the WAV is empty, which the VAD calls   *)
(* silence.                                                                *)
StopBegins(t) ==
    /\ pc[t] = "stop"
    /\ \/ streaming[rec[t]] /\ Goto(t, "stopStream") /\ UNCHANGED target
       \/ ~streaming[rec[t]] /\ Calls(t, "idle")
    /\ UNCHANGED <<app, device, rec, tim, mode, startedWith>>

(* Fault: the frames are not cleared. *)
StopEndsKeepingFrames(t) ==
    /\ pc[t] = "stopStream"
    /\ streaming' = [streaming EXCEPT ![rec[t]] = FALSE]
    /\ \/ Calls(t, "error") /\ unclosed' \in {unclosed, unclosed \/ streaming[rec[t]]}
       \/ /\ Calls(t, "idle") \/ (frames[rec[t]] /\ Calls(t, "processing"))
          /\ UNCHANGED unclosed
    /\ UNCHANGED <<app, frames, rec, tim, mode, startedWith>>

(* The reference to the stream is given up in any case (finally).  When    *)
(* stop() raises, close() is skipped, and when close() raises the device   *)
(* may be open too: nobody can close the stream any more.  Either raises   *)
(* when another thread got here first.  Otherwise the frames are taken out *)
(* under the recorder's lock and judged by the VAD.                        *)
StopEnds(t) ==
    /\ pc[t] = "stopStream"
    /\ streaming' = [streaming EXCEPT ![rec[t]] = FALSE]
    /\ \/ /\ Calls(t, "error")
          /\ unclosed' \in {unclosed, unclosed \/ streaming[rec[t]]}
          /\ UNCHANGED frames
       \/ /\ Calls(t, "idle") \/ (frames[rec[t]] /\ Calls(t, "processing"))
          /\ frames' = [frames EXCEPT ![rec[t]] = FALSE]
          /\ UNCHANGED unclosed
    /\ UNCHANGED <<app, rec, tim, mode, startedWith>>

-----------------------------------------------------------------------------
(* _set_state: _state is written under its lock, the tray after it.  What  *)
(* the caller does next depends only on the state it set: "processing"     *)
(* starts the send thread, "error" a recovery thread.                      *)
SetState(t) ==
    /\ pc[t] = "set"
    /\ state' = target[t]
    /\ Goto(t, "tray")
    /\ UNCHANGED <<tray, recorder, timeout, activeMode, device, locals, startedWith>>

TrayAndReturn(t) ==
    /\ pc[t] = "tray" /\ target[t] \in {"idle", "recording"}
    /\ tray' = target[t]
    /\ Return(t)
    /\ UNCHANGED <<state, recorder, timeout, activeMode, device, startedWith>>

(* Thread t starts worker w at label l with recording r and mode m and is  *)
(* done.  A send thread leaves its slot to the recovery thread it starts.  *)
Spawn(t, w, l, r, m) ==
    /\ IF t \in Workers THEN w = t ELSE pc[w] = "rest"
    /\ pc' = [pc EXCEPT ![t] = "rest", ![w] = l]
    /\ rec' = [rec EXCEPT ![t] = None, ![w] = r]
    /\ tim' = [tim EXCEPT ![t] = None]
    /\ mode' = [mode EXCEPT ![t] = None, ![w] = m]
    /\ target' = [target EXCEPT ![t] = "idle"]

TrayAndSend(t, w) ==
    /\ pc[t] = "tray" /\ target[t] = "processing"
    /\ tray' = "processing"
    /\ Spawn(t, w, "send", rec[t], mode[t])
    /\ UNCHANGED <<state, recorder, timeout, activeMode, device, startedWith>>

(* Fault: an error path forgets _schedule_recovery. *)
TrayWithoutRecovery(t, w) ==
    /\ pc[t] = "tray" /\ target[t] = "error" /\ pc[w] = "rest"
    /\ tray' = "error"
    /\ Return(t)
    /\ UNCHANGED <<state, recorder, timeout, activeMode, device, startedWith>>

TrayAndRecover(t, w) ==
    /\ pc[t] = "tray" /\ target[t] = "error"
    /\ tray' = "error"
    /\ Spawn(t, w, "sleep", None, None)
    /\ UNCHANGED <<state, recorder, timeout, activeMode, device, startedWith>>

(* _send_and_insert: backend or insertion failure leads to error. *)
SendEnds(w) ==
    /\ pc[w] = "send"
    /\ Calls(w, "idle") \/ Calls(w, "error")
    /\ rec' = [rec EXCEPT ![w] = None]
    /\ UNCHANGED <<app, device, tim, mode, startedWith>>

(* recover(): after 4 s the state is checked under the lock, and set after *)
(* the lock is released.                                                   *)
RecoverChecks(w) ==
    /\ pc[w] = "sleep"
    /\ \/ state = "error" /\ Calls(w, "idle") /\ UNCHANGED <<rec, tim, mode>>
       \/ state # "error" /\ Return(w)
    /\ UNCHANGED <<app, device, startedWith>>

-----------------------------------------------------------------------------
StartStep(h) == \/ RecorderFails(h) \/ \E r \in Recorders : RecorderStarts(h, r)
                \/ PublishRecorder(h) \/ SetTimeout(h) \/ StartTimer(h)

StopStep(t) == \/ GrabRecorder(t) \/ GrabTimeout(t) \/ ClearRecorder(t)
               \/ ClearTimeout(t) \/ StopBegins(t) \/ StopEnds(t)

StateStep(t) == \/ SetState(t) \/ TrayAndReturn(t)
                \/ \E w \in Workers : TrayAndSend(t, w) \/ TrayAndRecover(t, w)

(* What a thread that has work to do does next. *)
Step(t) == \/ t \in HotkeyThreads /\ StartStep(t)
           \/ t \in Recorders /\ OnTimeout(t)
           \/ t \in Callbacks /\ StopStep(t)
           \/ t \in Workers /\ (SendEnds(t) \/ RecoverChecks(t))
           \/ StateStep(t)

Next == \/ \E h \in HotkeyThreads, m \in Modes : HotkeyPressed(h, m)
        \/ \E r \in Recorders : TimerFires(r)
        \/ \E t \in Threads : Step(t)

Spec == Init /\ [][Next]_vars

(* Running threads go on, timers fire, requests end (httpx timeouts of 60  *)
(* and 10 s).  The user need not press a key.                              *)
Fairness == /\ \A t \in Threads : WF_vars(Step(t))
            /\ \A r \in Recorders : SF_vars(TimerFires(r))

FairSpec == Spec /\ Fairness
-----------------------------------------------------------------------------
(* Threads that carry the audio of recording r towards the backend. *)
Carriers(r) ==
    {t \in Threads : /\ rec[t] = r
                     /\ \/ pc[t] = "send"
                        \/ pc[t] \in {"set", "tray"} /\ target[t] = "processing"}

(* Audio of one recording is sent at most once, even when the hotkey and   *)
(* the timer stop it at the same time: Recorder.stop hands the frames to   *)
(* one caller and clears the buffer.                                       *)
AudioSentOnce ==
    \A r \in Recorders :
        /\ frames[r] => Carriers(r) = {}
        /\ \A t, u \in Carriers(r) : t = u

WillLeave(t, s) ==
    \/ pc[t] = "tray" /\ target[t] = s
    \/ pc[t] = "send" /\ s = "processing"
    \/ pc[t] = "sleep" /\ s = "error"
    \/ pc[t] = "set" /\ target[t] # s

(* In "processing" and "error" presses are ignored, so some thread must be *)
(* on its way to leave the state: a send thread after "processing", a      *)
(* recovery thread after "error".  No interleaving of overlapping stops,   *)
(* sends and recoveries loses it.                                          *)
NeverAbandoned ==
    \A s \in {"processing", "error"} :
        state = s => \E t \in Threads : WillLeave(t, s)

(* A Recorder that holds an open stream is the current one or in the hands *)
(* of a callback that works on it, and no two hold one: a Recorder that is *)
(* dropped before its stop() would record on.  What the driver does with a *)
(* stream it refused to stop is ImplementsLifecycle's matter.              *)
OneMicrophone ==
    /\ \A r \in Recorders :
          streaming[r] => \/ recorder = r
                          \/ \E t \in Callbacks : InCallback(t) /\ rec[t] = r
    /\ \A r, q \in Recorders : streaming[r] /\ streaming[q] => r = q

(* While the client shows a recording and nobody is about to end it, the   *)
(* microphone is open and the hard timeout is armed for this recording.    *)
RecordingIsGuarded ==
    state = "recording" /\ (\A t \in Callbacks : ~InCallback(t)) =>
        /\ recorder # None /\ streaming[recorder]
        /\ timeout = recorder /\ pc[timeout] = "armed"

(* An automatic stop sends the recording in the mode it was started with   *)
(* (comment in _on_timeout).                                               *)
AutoStopKeepsMode ==
    \A r \in Recorders :
        InCallback(r) /\ pc[r] # "onTimeout" /\ rec[r] # None =>
            mode[r] = startedWith[rec[r]]

(* The tray shows the state: red while recording, grey when idle.          *)
TrayShowsState == (\A t \in Threads : pc[t] # "tray") => tray = state

(* The client cuts every recording after 59 s at the latest.               *)
HardTimeoutCuts == \A r \in Recorders : streaming[r] ~> ~streaming[r]

(* Thread t, in a callback, is about to show that the device failed. *)
ShowsFailure(t) == pc[t] = "set" /\ target[t] = "error"

MicIsOpen == \E r \in Recorders : streaming[r]

Mic == IF MicIsOpen THEN "open"
       ELSE IF \E t \in Callbacks : ShowsFailure(t) THEN "failed"
       ELSE "closed"

(* The state diagram of the documentation, the microphone included: a      *)
(* microphone that the client could not close is one the user is shown an  *)
(* error for.                                                              *)
Lifecycle == INSTANCE DictationLifecycle WITH
                 phase <- state, mic <- Mic, stuck <- unclosed
ImplementsLifecycle == Lifecycle!Spec
=============================================================================
