----------------------- MODULE ClientDictationProofs -----------------------
(***************************************************************************)
(* For every number of hotkey threads, recordings and workers.             *)
(*                                                                         *)
(* However their steps interleave (Overlap or not): the variables keep     *)
(* their types, no recording is sent twice, and "processing" and "error"   *)
(* are never abandoned.                                                    *)
(*                                                                         *)
(* As long as one callback runs at a time: no Recorder is lost before its  *)
(* stop(), a recording that is shown is guarded by its timeout, an         *)
(* automatic stop keeps the mode, and the client follows the documented    *)
(* state diagram, also when the driver fails.                              *)
(*                                                                         *)
(* At the end, the settings: for every set of modes, combinations, tokens  *)
(* and threads, what is saved is in force and what is typed is kept.       *)
(***************************************************************************)
EXTENDS ClientDictation, ClientSettings, TLAPS

USE DictationAssumption DEF Threads

(***************************************************************************)
(* Types.                                                                  *)
(***************************************************************************)
LEMMA InitTypeOK == Init => TypeOK
  <1> SUFFICES ASSUME Init PROVE TypeOK
    OBVIOUS
  <1>1. /\ unclosed \in BOOLEAN /\ streaming \in [Recorders -> BOOLEAN]
        /\ frames \in [Recorders -> BOOLEAN]
    BY DEF Init
  <1>2. QED
    BY <1>1 DEF Init, TypeOK, States, Labels

(* Every step keeps every variable within its type.                        *)
LEMMA StepTypeOK == ASSUME TypeOK, [Next]_vars PROVE TypeOK'
  <1> USE DEF TypeOK, States, Labels, Starting, Stopping, vars, app, device, locals,
              Goto, Calls, Forget, Return
  <1>1. ASSUME NEW h \in HotkeyThreads, NEW m \in Modes, HotkeyPressed(h, m)
        PROVE  TypeOK'
    BY <1>1 DEF HotkeyPressed
  <1>2. ASSUME NEW r \in Recorders, TimerFires(r)
        PROVE  TypeOK'
    BY <1>2 DEF TimerFires
  <1>3. ASSUME NEW h \in HotkeyThreads, StartStep(h)
        PROVE  TypeOK'
    <2>1. CASE RecorderFails(h)
      BY <2>1 DEF RecorderFails
    <2>2. ASSUME NEW r \in Recorders, RecorderStarts(h, r)
          PROVE  TypeOK'
      BY <2>2 DEF RecorderStarts
    <2>3. CASE PublishRecorder(h)
      BY <2>3 DEF PublishRecorder
    <2>4. CASE SetTimeout(h)
      BY <2>4 DEF SetTimeout
    <2>5. CASE StartTimer(h)
      BY <2>5 DEF StartTimer
    <2>6. QED
      BY <1>3, <2>1, <2>2, <2>3, <2>4, <2>5 DEF StartStep
  <1>4. ASSUME NEW r \in Recorders, OnTimeout(r)
        PROVE  TypeOK'
    BY <1>4 DEF OnTimeout
  <1>5. ASSUME NEW t \in Threads, StopStep(t)
        PROVE  TypeOK'
    <2>1. CASE GrabRecorder(t)
      BY <2>1 DEF GrabRecorder
    <2>2. CASE GrabTimeout(t)
      BY <2>2 DEF GrabTimeout
    <2>3. CASE ClearRecorder(t)
      BY <2>3 DEF ClearRecorder
    <2>4. CASE ClearTimeout(t)
      BY <2>4 DEF ClearTimeout
    <2>5. CASE StopBegins(t)
      BY <2>5 DEF StopBegins
    <2>6. CASE StopEnds(t)
      BY <2>6 DEF StopEnds
    <2>7. QED
      BY <1>5, <2>1, <2>2, <2>3, <2>4, <2>5, <2>6 DEF StopStep
  <1>6. ASSUME NEW w \in Workers, SendEnds(w)
        PROVE  TypeOK'
    BY <1>6 DEF SendEnds
  <1>7. ASSUME NEW w \in Workers, RecoverChecks(w)
        PROVE  TypeOK'
    BY <1>7 DEF RecoverChecks
  <1>8. ASSUME NEW t \in Threads, StateStep(t)
        PROVE  TypeOK'
    <2>1. CASE SetState(t)
      BY <2>1 DEF SetState
    <2>2. CASE TrayAndReturn(t)
      BY <2>2 DEF TrayAndReturn
    <2>3. ASSUME NEW w \in Workers, TrayAndSend(t, w)
          PROVE  TypeOK'
      BY <2>3 DEF TrayAndSend, Spawn
    <2>4. ASSUME NEW w \in Workers, TrayAndRecover(t, w)
          PROVE  TypeOK'
      BY <2>4 DEF TrayAndRecover, Spawn
    <2>5. QED
      BY <1>8, <2>1, <2>2, <2>3, <2>4 DEF StateStep
  <1>9. CASE UNCHANGED vars
    BY <1>9
  <1>10. QED
    BY <1>1, <1>2, <1>3, <1>4, <1>5, <1>6, <1>7, <1>8, <1>9
       DEF Next, Step, Callbacks

(* Every variable keeps its type, for all constants.                       *)
THEOREM TypeCorrect == Spec => []TypeOK
  <1>1. QED
    BY InitTypeOK, StepTypeOK, PTL DEF Spec

(***************************************************************************)
(* At most one thread carries the audio of a recording, and none does      *)
(* while the recorder still holds it.  The invariant is inductive by       *)
(* itself: audio moves from the recorder to the thread that stops it, from *)
(* there to the send thread, and a name is only reused when no thread      *)
(* refers to it.                                                           *)
(***************************************************************************)
LEMMA InitAudio == Init => AudioSentOnce
  BY DEF Init, AudioSentOnce, Carriers

(* The steps that neither fill a recorder nor make a thread a carrier.     *)
LEMMA AudioKept ==
  ASSUME AudioSentOnce,
         \A r \in Recorders : frames'[r] => frames[r],
         \A r \in Recorders : Carriers(r)' \subseteq Carriers(r)
  PROVE  AudioSentOnce'
  BY DEF AudioSentOnce

(* No step gives the audio of a recording a second carrier.                *)
LEMMA StepAudio == ASSUME TypeOK, AudioSentOnce, [Next]_vars PROVE AudioSentOnce'
  <1> USE DEF TypeOK, States, Labels, Starting, Stopping, vars, app, device, locals,
              Goto, Calls, Forget, Return
  <1>1. ASSUME NEW h \in HotkeyThreads, NEW m \in Modes, HotkeyPressed(h, m)
        PROVE  AudioSentOnce'
    BY <1>1, AudioKept DEF HotkeyPressed, Carriers
  <1>2. ASSUME NEW r \in Recorders, TimerFires(r)
        PROVE  AudioSentOnce'
    BY <1>2, AudioKept DEF TimerFires, Carriers
  <1>3. ASSUME NEW h \in HotkeyThreads, StartStep(h)
        PROVE  AudioSentOnce'
    <2>1. CASE RecorderFails(h)
      BY <2>1, AudioKept DEF RecorderFails, Carriers
    <2>2. ASSUME NEW r \in Recorders, RecorderStarts(h, r)
          PROVE  AudioSentOnce'
      <3>1. Carriers(r)' = {}
        BY <2>2 DEF RecorderStarts, Unused, Carriers
      <3>2. \A q \in Recorders \ {r} : /\ Carriers(q)' \subseteq Carriers(q)
                                       /\ frames'[q] = frames[q]
        BY <2>2 DEF RecorderStarts, Carriers
      <3>3. QED
        BY <3>1, <3>2 DEF AudioSentOnce
    <2>3. CASE PublishRecorder(h)
      BY <2>3, AudioKept DEF PublishRecorder, Carriers
    <2>4. CASE SetTimeout(h)
      BY <2>4, AudioKept DEF SetTimeout, Carriers
    <2>5. CASE StartTimer(h)
      BY <2>5, AudioKept DEF StartTimer, Carriers
    <2>6. QED
      BY <1>3, <2>1, <2>2, <2>3, <2>4, <2>5 DEF StartStep
  <1>4. ASSUME NEW r \in Recorders, OnTimeout(r)
        PROVE  AudioSentOnce'
    BY <1>4, AudioKept DEF OnTimeout, Carriers
  <1>5. ASSUME NEW t \in Threads, StopStep(t)
        PROVE  AudioSentOnce'
    <2>1. CASE GrabRecorder(t)
      BY <2>1, AudioKept DEF GrabRecorder, Carriers
    <2>2. CASE GrabTimeout(t)
      BY <2>2, AudioKept DEF GrabTimeout, Carriers
    <2>3. CASE ClearRecorder(t)
      BY <2>3, AudioKept DEF ClearRecorder, Carriers
    <2>4. CASE ClearTimeout(t)
      BY <2>4, AudioKept DEF ClearTimeout, Carriers
    <2>5. CASE StopBegins(t)
      BY <2>5, AudioKept DEF StopBegins, Carriers
    <2>6. CASE StopEnds(t)
      <3>1. CASE target'[t] # "processing"
        BY <2>6, <3>1, AudioKept DEF StopEnds, Carriers
      <3>2. CASE target'[t] = "processing"
        <4>0. PICK q \in Recorders \cup {None} : q = rec[t]
          OBVIOUS
        <4>1. /\ frames[q]
              /\ frames' = [frames EXCEPT ![q] = FALSE]
              /\ pc' = [pc EXCEPT ![t] = "set"]
              /\ target' = [target EXCEPT ![t] = "processing"]
              /\ rec' = rec
          BY <4>0, <2>6, <3>2 DEF StopEnds
        <4>2. ASSUME NEW r \in Recorders, r # q
              PROVE  Carriers(r)' \subseteq Carriers(r) /\ frames'[r] = frames[r]
          BY <4>0, <4>1, <4>2 DEF Carriers
        <4>3. q \in Recorders => Carriers(q) = {}
          BY <4>1 DEF AudioSentOnce
        <4>4. q \in Recorders => Carriers(q)' \subseteq {t} /\ ~frames'[q]
          BY <4>0, <4>1, <4>3 DEF Carriers
        <4>5. ASSUME NEW r \in Recorders
              PROVE  /\ frames'[r] => Carriers(r)' = {}
                     /\ \A u, v \in Carriers(r)' : u = v
          <5>1. CASE r = q
            BY <4>4, <5>1
          <5>2. CASE r # q
            BY <4>2, <5>2 DEF AudioSentOnce
          <5>3. QED
            BY <5>1, <5>2
        <4>6. QED
          BY <4>5 DEF AudioSentOnce
      <3>3. QED
        BY <3>1, <3>2
    <2>7. QED
      BY <1>5, <2>1, <2>2, <2>3, <2>4, <2>5, <2>6 DEF StopStep
  <1>6. ASSUME NEW w \in Workers, SendEnds(w)
        PROVE  AudioSentOnce'
    BY <1>6, AudioKept DEF SendEnds, Carriers
  <1>7. ASSUME NEW w \in Workers, RecoverChecks(w)
        PROVE  AudioSentOnce'
    BY <1>7, AudioKept DEF RecoverChecks, Carriers
  <1>8. ASSUME NEW t \in Threads, StateStep(t)
        PROVE  AudioSentOnce'
    <2>1. CASE SetState(t)
      BY <2>1, AudioKept DEF SetState, Carriers
    <2>2. CASE TrayAndReturn(t)
      BY <2>2, AudioKept DEF TrayAndReturn, Carriers
    <2>3. ASSUME NEW w \in Workers, TrayAndSend(t, w)
          PROVE  AudioSentOnce'
      <3>1. ASSUME NEW r \in Recorders
            PROVE  Carriers(r)' \subseteq
                     (Carriers(r) \ {t}) \cup (IF t \in Carriers(r) THEN {w} ELSE {})
        BY <2>3 DEF TrayAndSend, Spawn, Carriers
      <3>2. frames' = frames
        BY <2>3 DEF TrayAndSend
      <3>3. QED
        BY <3>1, <3>2 DEF AudioSentOnce
    <2>4. ASSUME NEW w \in Workers, TrayAndRecover(t, w)
          PROVE  AudioSentOnce'
      BY <2>4, AudioKept DEF TrayAndRecover, Spawn, Carriers
    <2>5. QED
      BY <1>8, <2>1, <2>2, <2>3, <2>4 DEF StateStep
  <1>9. CASE UNCHANGED vars
    BY <1>9, AudioKept DEF Carriers
  <1>10. QED
    BY <1>1, <1>2, <1>3, <1>4, <1>5, <1>6, <1>7, <1>8, <1>9
       DEF Next, Step, Callbacks

(* No recording is sent twice, whatever the hotkey and the timers do.      *)
THEOREM AudioIsSentOnce == Spec => []AudioSentOnce
  <1>1. QED
    BY TypeCorrect, InitAudio, StepAudio, PTL DEF Spec

(***************************************************************************)
(* "processing" and "error" are never abandoned.  The one step that could  *)
(* take a witness away from outside is StartTimer, were the timer it       *)
(* starts in the middle of its callback.  It is not: a timer whose         *)
(* recording is still being started has not fired.                         *)
(***************************************************************************)
Waiting(r) == pc[r] \in {"rest", "armed"}

StartedTimerWaits ==
    \A h \in HotkeyThreads :
        /\ pc[h] \in {"publish", "setTimeout", "startTimer"} =>
              rec[h] \in Recorders /\ Waiting(rec[h])
        /\ pc[h] = "startTimer" /\ timeout # None => Waiting(timeout)

Guarded == StartedTimerWaits /\ NeverAbandoned

(* The client starts with no timer and in neither busy state.              *)
LEMMA InitGuarded == Init => Guarded
  BY DEF Init, Guarded, StartedTimerWaits, NeverAbandoned

(* A timer about to be started waits: no step takes it away from the       *)
(* starting callback, except by clearing _timeout.                         *)
LEMMA StepTimerWaits ==
  ASSUME TypeOK, StartedTimerWaits, [Next]_vars PROVE StartedTimerWaits'
  <1> USE DEF TypeOK, States, Labels, Starting, Stopping, vars, app, device, locals,
              Goto, Calls, Forget, Return, StartedTimerWaits, Waiting
  <1>1. ASSUME NEW h \in HotkeyThreads, NEW m \in Modes, HotkeyPressed(h, m)
        PROVE  StartedTimerWaits'
    BY <1>1 DEF HotkeyPressed
  <1>2. ASSUME NEW r \in Recorders, TimerFires(r)
        PROVE  StartedTimerWaits'
    BY <1>2 DEF TimerFires, IsStarting
  <1>3. ASSUME NEW h \in HotkeyThreads, StartStep(h)
        PROVE  StartedTimerWaits'
    <2>1. CASE RecorderFails(h)
      BY <2>1 DEF RecorderFails
    <2>2. ASSUME NEW r \in Recorders, RecorderStarts(h, r)
          PROVE  StartedTimerWaits'
      BY <2>2 DEF RecorderStarts, Unused
    <2>3. CASE PublishRecorder(h)
      BY <2>3 DEF PublishRecorder
    <2>4. CASE SetTimeout(h)
      BY <2>4 DEF SetTimeout
    <2>5. CASE StartTimer(h)
      BY <2>5 DEF StartTimer
    <2>6. QED
      BY <1>3, <2>1, <2>2, <2>3, <2>4, <2>5 DEF StartStep
  <1>4. ASSUME NEW r \in Recorders, OnTimeout(r)
        PROVE  StartedTimerWaits'
    BY <1>4 DEF OnTimeout
  <1>5. ASSUME NEW t \in Threads, StopStep(t)
        PROVE  StartedTimerWaits'
    <2>1. CASE GrabRecorder(t)
      BY <2>1 DEF GrabRecorder
    <2>2. CASE GrabTimeout(t)
      BY <2>2 DEF GrabTimeout
    <2>3. CASE ClearRecorder(t)
      BY <2>3 DEF ClearRecorder
    <2>4. CASE ClearTimeout(t)
      BY <2>4 DEF ClearTimeout
    <2>5. CASE StopBegins(t)
      BY <2>5 DEF StopBegins
    <2>6. CASE StopEnds(t)
      BY <2>6 DEF StopEnds
    <2>7. QED
      BY <1>5, <2>1, <2>2, <2>3, <2>4, <2>5, <2>6 DEF StopStep
  <1>6. ASSUME NEW w \in Workers, SendEnds(w) \/ RecoverChecks(w)
        PROVE  StartedTimerWaits'
    BY <1>6 DEF SendEnds, RecoverChecks
  <1>7. ASSUME NEW t \in Threads, StateStep(t)
        PROVE  StartedTimerWaits'
    <2>1. CASE SetState(t)
      BY <2>1 DEF SetState
    <2>2. CASE TrayAndReturn(t)
      BY <2>2 DEF TrayAndReturn
    <2>3. ASSUME NEW w \in Workers, TrayAndSend(t, w)
          PROVE  StartedTimerWaits'
      BY <2>3 DEF TrayAndSend, Spawn
    <2>4. ASSUME NEW w \in Workers, TrayAndRecover(t, w)
          PROVE  StartedTimerWaits'
      BY <2>4 DEF TrayAndRecover, Spawn
    <2>5. QED
      BY <1>7, <2>1, <2>2, <2>3, <2>4 DEF StateStep
  <1>8. CASE UNCHANGED vars
    BY <1>8
  <1>9. QED
    BY <1>1, <1>2, <1>3, <1>4, <1>5, <1>6, <1>7, <1>8
       DEF Next, Step, Callbacks

(* A step after which every thread that was to leave s still is, and that  *)
(* does not change the state, abandons nothing.                            *)
LEMMA WitnessKept ==
  ASSUME NeverAbandoned, state' = state,
         NEW t \in Threads,
         \A u \in Threads \ {t} : \A s \in {"processing", "error"} :
            WillLeave(u, s) => WillLeave(u, s)',
         \A s \in {"processing", "error"} :
            state = s /\ WillLeave(t, s) => \E u \in Threads : WillLeave(u, s)'
  PROVE  NeverAbandoned'
  BY DEF NeverAbandoned

(* No step leaves "processing" or "error" without a thread to leave it.    *)
LEMMA StepNeverAbandoned ==
  ASSUME TypeOK, StartedTimerWaits, NeverAbandoned, [Next]_vars
  PROVE  NeverAbandoned'
  <1> USE DEF TypeOK, States, Labels, Starting, Stopping, vars, app, device, locals,
              Goto, Calls, Forget, Return
  <1>1. ASSUME NEW h \in HotkeyThreads, NEW m \in Modes, HotkeyPressed(h, m)
        PROVE  NeverAbandoned'
    BY <1>1, WitnessKept DEF HotkeyPressed, WillLeave
  <1>2. ASSUME NEW r \in Recorders, TimerFires(r)
        PROVE  NeverAbandoned'
    BY <1>2, WitnessKept DEF TimerFires, WillLeave
  <1>3. ASSUME NEW h \in HotkeyThreads, StartStep(h)
        PROVE  NeverAbandoned'
    <2>1. CASE RecorderFails(h)
      BY <2>1, WitnessKept DEF RecorderFails, WillLeave
    <2>2. ASSUME NEW r \in Recorders, RecorderStarts(h, r)
          PROVE  NeverAbandoned'
      BY <2>2, WitnessKept DEF RecorderStarts, WillLeave
    <2>3. CASE PublishRecorder(h)
      BY <2>3, WitnessKept DEF PublishRecorder, WillLeave
    <2>4. CASE SetTimeout(h)
      BY <2>4, WitnessKept DEF SetTimeout, WillLeave
    <2>5. CASE StartTimer(h)
      <3>1. timeout # None => Waiting(timeout)
        BY <2>5 DEF StartTimer, StartedTimerWaits
      <3>2. QED
        BY <2>5, <3>1, WitnessKept DEF StartTimer, WillLeave, Waiting
    <2>6. QED
      BY <1>3, <2>1, <2>2, <2>3, <2>4, <2>5 DEF StartStep
  <1>4. ASSUME NEW r \in Recorders, OnTimeout(r)
        PROVE  NeverAbandoned'
    BY <1>4, WitnessKept DEF OnTimeout, WillLeave
  <1>5. ASSUME NEW t \in Threads, StopStep(t)
        PROVE  NeverAbandoned'
    <2>1. CASE GrabRecorder(t)
      BY <2>1, WitnessKept DEF GrabRecorder, WillLeave
    <2>2. CASE GrabTimeout(t)
      BY <2>2, WitnessKept DEF GrabTimeout, WillLeave
    <2>3. CASE ClearRecorder(t)
      BY <2>3, WitnessKept DEF ClearRecorder, WillLeave
    <2>4. CASE ClearTimeout(t)
      BY <2>4, WitnessKept DEF ClearTimeout, WillLeave
    <2>5. CASE StopBegins(t)
      BY <2>5, WitnessKept DEF StopBegins, WillLeave
    <2>6. CASE StopEnds(t)
      BY <2>6, WitnessKept DEF StopEnds, WillLeave
    <2>7. QED
      BY <1>5, <2>1, <2>2, <2>3, <2>4, <2>5, <2>6 DEF StopStep
  <1>6. ASSUME NEW w \in Workers, SendEnds(w)
        PROVE  NeverAbandoned'
    BY <1>6, WitnessKept DEF SendEnds, WillLeave
  <1>7. ASSUME NEW w \in Workers, RecoverChecks(w)
        PROVE  NeverAbandoned'
    BY <1>7, WitnessKept DEF RecoverChecks, WillLeave
  <1>8. ASSUME NEW t \in Threads, StateStep(t)
        PROVE  NeverAbandoned'
    <2>1. CASE SetState(t)
      <3>1. ASSUME NEW s \in States, state' = s
            PROVE  WillLeave(t, s)'
        BY <2>1, <3>1 DEF SetState, WillLeave
      <3>2. QED
        BY <3>1 DEF NeverAbandoned
    <2>2. CASE TrayAndReturn(t)
      BY <2>2, WitnessKept DEF TrayAndReturn, WillLeave
    <2>3. ASSUME NEW w \in Workers, TrayAndSend(t, w)
          PROVE  NeverAbandoned'
      <3>1. WillLeave(w, "processing")'
        BY <2>3 DEF TrayAndSend, Spawn, WillLeave
      <3>2. QED
        BY <2>3, <3>1, WitnessKept DEF TrayAndSend, Spawn, WillLeave
    <2>4. ASSUME NEW w \in Workers, TrayAndRecover(t, w)
          PROVE  NeverAbandoned'
      <3>1. WillLeave(w, "error")'
        BY <2>4 DEF TrayAndRecover, Spawn, WillLeave
      <3>2. QED
        BY <2>4, <3>1, WitnessKept DEF TrayAndRecover, Spawn, WillLeave
    <2>5. QED
      BY <1>8, <2>1, <2>2, <2>3, <2>4 DEF StateStep
  <1>9. CASE UNCHANGED vars
    BY <1>9 DEF NeverAbandoned, WillLeave
  <1>10. QED
    BY <1>1, <1>2, <1>3, <1>4, <1>5, <1>6, <1>7, <1>8, <1>9
       DEF Next, Step, Callbacks

(* The client always has a thread that will take it out of "processing"    *)
(* and "error", the two states in which it ignores its hotkeys.            *)
THEOREM BusyStatesAreLeft == Spec => []NeverAbandoned
  <1>1. Guarded /\ TypeOK /\ [Next]_vars => Guarded'
    BY StepTimerWaits, StepNeverAbandoned DEF Guarded
  <1>2. Guarded => NeverAbandoned
    BY DEF Guarded
  <1>3. QED
    BY <1>1, <1>2, TypeCorrect, InitGuarded, PTL DEF Spec

(***************************************************************************)
(* One callback at a time.  Without Overlap a single hotkey or timer       *)
(* callback is at work, and then no worker sends or recovers; where it is  *)
(* determines the state, who owns the microphone and which timer is armed. *)
(* Serial says so, place by place, and is inductive.                       *)
(***************************************************************************)
(* Thread t is at work on the state of the client: it runs a callback,     *)
(* sends a recording, or recovers from an error.                           *)
Owner(t) ==
    IF t \in Workers THEN \/ pc[t] \in {"send", "sleep", "set"}
                          \/ pc[t] = "tray" /\ target[t] = "error"
                     ELSE InCallback(t)

Alone == \A t, u \in Threads : Owner(t) /\ Owner(u) => t = u

(* Where a worker may be, given the state.                                 *)
WorkerPlace(w) ==
    \/ pc[w] = "rest"
    \/ pc[w] = "tray" /\ target[w] = "idle"
    \/ pc[w] = "send" /\ state = "processing"
    \/ pc[w] = "set" /\ state = "processing" /\ target[w] \in {"idle", "error"}
    \/ pc[w] = "tray" /\ state = "error" /\ target[w] = "error"
    \/ pc[w] = "sleep" /\ state = "error"
    \/ pc[w] = "set" /\ state = "error" /\ target[w] = "idle"

(* Where a hotkey or timer thread may be, given the state.                 *)
CallbackPlace(t) ==
    \/ pc[t] \in {"rest", "armed"}
    \/ pc[t] = "tray" /\ state = target[t]
    \/ pc[t] \in Starting /\ state = "idle"
    \/ pc[t] = "set" /\ state = "idle" /\ target[t] \in {"recording", "error"}
    \/ pc[t] \in Stopping \cup {"onTimeout"} /\ state = "recording"
    \/ pc[t] = "set" /\ state = "recording" /\ target[t] # "recording"

Places == /\ \A w \in Workers : WorkerPlace(w)
          /\ \A t \in Callbacks : CallbackPlace(t)

(* The recordings with an open microphone, and with a running timer.       *)
OpenAre(S)  == \A q \in Recorders : streaming[q] <=> q \in S
ArmedAre(S) == \A q \in Recorders : pc[q] = "armed" <=> q \in S

Silent == /\ recorder = None /\ timeout = None
          /\ OpenAre({}) /\ ArmedAre({})

Current(r) == /\ r \in Recorders /\ recorder = r /\ timeout = r
              /\ OpenAre({r})
              /\ activeMode = startedWith[r] /\ activeMode \in Modes

(* What thread t may rely on at each place of _start_recording, ...        *)
StartStage(t) ==
    /\ pc[t] = "start" => Silent /\ mode[t] \in Modes
    /\ pc[t] \in {"publish", "setTimeout"} =>
          /\ rec[t] \in Recorders
          /\ mode[t] = startedWith[rec[t]] /\ mode[t] \in Modes
          /\ timeout = None /\ OpenAre({rec[t]}) /\ ArmedAre({})
    /\ pc[t] = "publish" => recorder = None
    /\ pc[t] = "setTimeout" => recorder = rec[t] /\ activeMode = mode[t]
    /\ pc[t] = "startTimer" => Current(rec[t]) /\ ArmedAre({})

(* ... of _stop_recording_and_send, ...                                    *)
StopStage(t) ==
    /\ pc[t] \in {"onTimeout", "grabRecorder", "grabTimeout", "clearRecorder"} =>
          /\ Current(recorder) /\ ArmedAre({recorder} \ {t})
          /\ t \in Recorders => t = recorder
    /\ pc[t] = "grabRecorder" /\ t \in Recorders => mode[t] = activeMode
    /\ pc[t] \in {"grabTimeout", "clearRecorder"} => rec[t] = recorder
    /\ pc[t] = "clearRecorder" => tim[t] = recorder
    /\ pc[t] = "clearTimeout" =>
          /\ recorder = None /\ timeout = rec[t] /\ tim[t] = rec[t]
          /\ ArmedAre({rec[t]} \ {t})
    /\ pc[t] \in {"stop", "stopStream"} =>
          recorder = None /\ timeout = None /\ ArmedAre({})
    /\ pc[t] \in {"clearTimeout", "stop", "stopStream"} =>
          rec[t] \in Recorders /\ OpenAre({rec[t]})

(* ... and of _set_state.                                                  *)
SetStage(t) ==
    pc[t] \in {"set", "tray"} =>
        IF target[t] = "recording" THEN Current(rec[t]) /\ ArmedAre({rec[t]})
                                   ELSE Silent

Stage(t) == StartStage(t) /\ StopStage(t) /\ SetStage(t)

(* Between callbacks: a recording goes on, or nothing does.                *)
QuietStage ==
    IF state = "recording" THEN Current(recorder) /\ ArmedAre({recorder}) ELSE Silent

Stages == /\ (\A t \in Callbacks : ~InCallback(t)) => QuietStage
          /\ \A t \in Callbacks : InCallback(t) => Stage(t)

(* A thread has no recording before it has opened or grabbed one, ...      *)
RecKnown(t) ==
    pc[t] \in {"rest", "armed", "onTimeout", "start", "grabRecorder"} => rec[t] = None

(* ... and a timer that has one has the mode it was started with.          *)
ModeKnown(t) ==
    InCallback(t) /\ pc[t] # "onTimeout" /\ rec[t] # None => mode[t] = startedWith[rec[t]]

Serial ==
    /\ TypeOK /\ Alone /\ Places /\ Stages
    /\ \A t \in Threads : RecKnown(t)
    /\ \A r \in Recorders : ModeKnown(r)

(* Thread u does nothing in a step; as a timer it may be armed or cancelled. *)
Kept(u) == /\ rec'[u] = rec[u] /\ mode'[u] = mode[u] /\ target'[u] = target[u]
           /\ \/ pc'[u] = pc[u]
              \/ u \in Recorders /\ {pc[u], pc'[u]} \subseteq {"rest", "armed"}

(* A step of callback t keeps Serial when t arrives at one of its places   *)
(* with what it relies on there.                                           *)
LEMMA CallbackStep ==
  ASSUME Serial, TypeOK', NEW t \in Callbacks,
         \A u \in Threads \ {t} : ~Owner(u) /\ Kept(u),
         CallbackPlace(t)', InCallback(t)' => Stage(t)', ~InCallback(t)' => QuietStage',
         RecKnown(t)', t \in Recorders => ModeKnown(t)'
  PROVE  Serial'
  <1>0. t \in Threads /\ t \notin Workers /\ Callbacks \cap Workers = {}
        /\ Callbacks \subseteq Threads
    BY DEF Callbacks
  <1>1. \A u \in Threads \ {t} : ~Owner(u)'
    BY <1>0 DEF Owner, Kept, InCallback
  <1>2. Alone'
    BY <1>1 DEF Alone
  <1>3. \A u \in Callbacks \ {t} : pc'[u] \in {"rest", "armed"}
    BY <1>0, <1>1 DEF Owner, InCallback
  <1>4. \A w \in Workers : \/ pc'[w] = "rest"
                           \/ pc'[w] = "tray" /\ target'[w] = "idle"
    <2>1. ASSUME NEW w \in Workers
          PROVE  \/ pc[w] = "rest"
                 \/ pc[w] = "tray" /\ target[w] = "idle"
      BY <1>0 DEF Serial, Places, WorkerPlace, Owner
    <2>2. QED
      BY <1>0, <2>1 DEF Kept
  <1>5. Places'
    BY <1>3, <1>4 DEF Places, WorkerPlace, CallbackPlace
  <1>6. Stages'
    <2>1. \A u \in Callbacks \ {t} : ~InCallback(u)'
      BY <1>3 DEF InCallback
    <2>2. QED
      BY <2>1 DEF Stages
  <1>7. ASSUME NEW u \in Threads \ {t} PROVE RecKnown(u)'
    BY <1>7 DEF Serial, RecKnown, Kept
  <1>8. ASSUME NEW u \in Recorders \ {t} PROVE ModeKnown(u)'
    <2>1. ~InCallback(u)'
      BY <1>0, <1>3 DEF InCallback, Callbacks
    <2>2. QED
      BY <2>1 DEF ModeKnown
  <1>9. QED
    BY <1>2, <1>5, <1>6, <1>7, <1>8 DEF Serial

(* A step of worker w keeps Serial when w stays among its places; it only  *)
(* writes the state while it is the one at work, and not to "recording".   *)
LEMMA WorkerStep ==
  ASSUME Serial, TypeOK', NEW w \in Workers,
         \A u \in Threads \ {w} : pc'[u] = pc[u] /\ Kept(u) /\ tim'[u] = tim[u],
         UNCHANGED <<recorder, timeout, activeMode, device, startedWith>>,
         state' # state => Owner(w) /\ "recording" \notin {state, state'},
         Owner(w)' => Owner(w), WorkerPlace(w)', RecKnown(w)'
  PROVE  Serial'
  <1>0. w \in Threads /\ w \notin Callbacks /\ Callbacks \subseteq Threads
        /\ Recorders \subseteq Callbacks /\ Callbacks \cap Workers = {}
    BY DEF Callbacks
  <1>1. \A u \in Threads \ {w} : Owner(u)' <=> Owner(u)
    BY DEF Owner, Kept, InCallback
  <1>2. Alone'
    BY <1>0, <1>1 DEF Serial, Alone
  <1>3. \A u \in Callbacks : pc'[u] = pc[u] /\ (InCallback(u)' <=> InCallback(u))
    BY <1>0 DEF InCallback
  <1>4. state' # state => \A u \in Threads \ {w} : ~Owner(u)
    BY <1>0 DEF Serial, Alone
  <1>5. ASSUME NEW u \in Workers \ {w} PROVE WorkerPlace(u)'
    <2>1. pc'[u] = pc[u] /\ target'[u] = target[u] /\ WorkerPlace(u)
      BY DEF Serial, Places, Kept
    <2>2. CASE state' = state
      BY <2>1, <2>2 DEF WorkerPlace
    <2>3. CASE state' # state
      <3>1. ~Owner(u)
        BY <1>4, <2>3
      <3>2. QED
        BY <2>1, <3>1 DEF WorkerPlace, Owner
    <2>4. QED
      BY <2>2, <2>3
  <1>6. ASSUME NEW u \in Callbacks PROVE CallbackPlace(u)'
    <2>1. pc'[u] = pc[u] /\ target'[u] = target[u] /\ CallbackPlace(u)
      BY <1>0, <1>3 DEF Serial, Places, Kept
    <2>2. CASE state' = state
      BY <2>1, <2>2 DEF CallbackPlace
    <2>3. CASE state' # state
      <3>1. ~Owner(u)
        BY <1>0, <1>4, <2>3
      <3>2. pc[u] \in {"rest", "armed"}
        BY <1>0, <3>1 DEF Owner, InCallback
      <3>3. QED
        BY <2>1, <3>2 DEF CallbackPlace
    <2>4. QED
      BY <2>2, <2>3
  <1>7. /\ Silent' <=> Silent
        /\ \A r : Current(r)' <=> Current(r)
        /\ \A S : (OpenAre(S)' <=> OpenAre(S)) /\ (ArmedAre(S)' <=> ArmedAre(S))
    BY <1>0, <1>3 DEF device, Silent, Current, OpenAre, ArmedAre
  <1>8. ASSUME NEW u \in Callbacks, Stage(u) PROVE Stage(u)'
    <2>1. /\ pc'[u] = pc[u] /\ rec'[u] = rec[u] /\ tim'[u] = tim[u]
          /\ mode'[u] = mode[u] /\ target'[u] = target[u]
      BY <1>0 DEF Kept
    <2>2. StartStage(u)'
      BY <1>7, <1>8, <2>1 DEF Stage, StartStage
    <2>3. StopStage(u)'
      BY <1>7, <1>8, <2>1 DEF Stage, StopStage
    <2>4. SetStage(u)'
      BY <1>7, <1>8, <2>1 DEF Stage, SetStage
    <2>5. QED
      BY <2>2, <2>3, <2>4 DEF Stage
  <1>9. ASSUME QuietStage PROVE QuietStage'
    BY <1>7, <1>9 DEF QuietStage
  <1>10. Stages'
    BY <1>3, <1>8, <1>9 DEF Serial, Stages
  <1>11. \A u \in Threads : RecKnown(u)'
    BY DEF Serial, RecKnown, Kept
  <1>12. \A u \in Recorders : ModeKnown(u)'
    BY <1>0, <1>3 DEF Serial, ModeKnown, Kept
  <1>13. QED
    BY <1>2, <1>5, <1>6, <1>10, <1>11, <1>12 DEF Serial, Places

(* While callback t is at work, nobody else is, and t is where it is with  *)
(* what it relies on.                                                      *)
LEMMA AtWork ==
  ASSUME Serial, NEW t \in Callbacks, InCallback(t)
  PROVE  /\ TypeOK /\ t \in Threads /\ t \notin Workers
         /\ Stage(t) /\ CallbackPlace(t) /\ RecKnown(t)
         /\ t \in Recorders => ModeKnown(t)
         /\ \A u \in Threads \ {t} : ~Owner(u)
  BY DEF Serial, Stages, Places, Alone, Owner, Callbacks

(* Between callbacks, when no worker is at work either.                    *)
LEMMA AtRest ==
  ASSUME Serial, Overlap = FALSE, MayEnter, state \in {"idle", "recording"}
  PROVE  /\ TypeOK /\ QuietStage
         /\ \A u \in Threads : ~Owner(u)
  <1>1. \A u \in Callbacks : ~InCallback(u)
    BY DEF MayEnter
  <1>2. TypeOK /\ QuietStage
    BY <1>1 DEF Serial, Stages
  <1>3. ASSUME NEW u \in Threads PROVE ~Owner(u)
    <2>1. CASE u \in Workers
      <3>1. WorkerPlace(u)
        BY <2>1 DEF Serial, Places
      <3>2. QED
        BY <2>1, <3>1 DEF WorkerPlace, Owner
    <2>2. CASE u \notin Workers
      BY <1>1, <2>2 DEF Owner, Callbacks
    <2>3. QED
      BY <2>1, <2>2
  <1>4. QED
    BY <1>2, <1>3

(* A callback begins between callbacks.                                    *)
LEMMA SerialBegins ==
  ASSUME Serial, TypeOK', Overlap = FALSE
  PROVE  /\ \A h \in HotkeyThreads, m \in Modes : HotkeyPressed(h, m) => Serial'
         /\ \A r \in Recorders : TimerFires(r) => Serial'
  <1> USE DEF Goto, app, device, locals
  <1>1. ASSUME NEW h \in HotkeyThreads, NEW m \in Modes, HotkeyPressed(h, m)
        PROVE  Serial'
    <2>1. /\ h \in Callbacks /\ h \in Threads /\ h \notin Recorders /\ h \notin Workers
          /\ pc[h] = "rest" /\ MayEnter /\ state \in {"idle", "recording"}
      BY <1>1 DEF HotkeyPressed, Callbacks
    <2>2. /\ TypeOK /\ QuietStage
          /\ \A u \in Threads : ~Owner(u)
      BY <2>1, AtRest
    <2>3. \A u \in Threads \ {h} : ~Owner(u) /\ Kept(u)
      BY <1>1, <2>2 DEF HotkeyPressed, Kept, TypeOK
    <2>4. RecKnown(h) /\ rec'[h] = rec[h] /\ rec'[h] = None /\ mode'[h] = m
      BY <1>1, <2>1, <2>2 DEF Serial, RecKnown, HotkeyPressed, TypeOK
    <2>5. /\ UNCHANGED <<state, recorder, timeout, activeMode, streaming, startedWith>>
          /\ \A q \in Recorders : pc'[q] = pc[q]
      BY <1>1, <2>1, <2>2 DEF HotkeyPressed, TypeOK
    <2>6. CASE state = "idle"
      <3>1. pc'[h] = "start" /\ state' = "idle"
        BY <1>1, <2>2, <2>6 DEF HotkeyPressed, TypeOK
      <3>2. Silent'
        BY <2>2, <2>5, <2>6 DEF QuietStage, Silent, OpenAre, ArmedAre
      <3>3. Stage(h)'
        BY <3>1, <3>2, <2>4 DEF Stage, StartStage, StopStage, SetStage
      <3>4. CallbackPlace(h)' /\ InCallback(h)' /\ RecKnown(h)'
        BY <2>4, <3>1 DEF CallbackPlace, Starting, InCallback, RecKnown
      <3>5. QED
        BY <2>1, <2>3, <3>3, <3>4, CallbackStep
    <2>7. CASE state = "recording"
      <3>1. pc'[h] = "grabRecorder" /\ state' = "recording"
        BY <1>1, <2>2, <2>7 DEF HotkeyPressed, TypeOK
      <3>2. Current(recorder)' /\ ArmedAre({recorder} \ {h})'
        BY <2>1, <2>2, <2>5, <2>7 DEF QuietStage, Current, OpenAre, ArmedAre
      <3>3. Stage(h)'
        BY <2>1, <3>1, <3>2 DEF Stage, StartStage, StopStage, SetStage
      <3>4. CallbackPlace(h)' /\ InCallback(h)' /\ RecKnown(h)'
        BY <2>4, <3>1 DEF CallbackPlace, Stopping, InCallback, RecKnown
      <3>5. QED
        BY <2>1, <2>3, <3>3, <3>4, CallbackStep
    <2>8. QED
      BY <2>1, <2>6, <2>7
  <1>2. ASSUME NEW r \in Recorders, TimerFires(r)
        PROVE  Serial'
    <2>1. /\ r \in Callbacks /\ r \in Threads /\ r \notin Workers
          /\ pc[r] = "armed" /\ MayEnter
      BY <1>2 DEF TimerFires, Callbacks
    <2>2. QuietStage /\ TypeOK
      BY <2>1 DEF Serial, Stages, MayEnter
    <2>3. state = "recording" /\ recorder = r
      BY <2>1, <2>2 DEF QuietStage, Silent, ArmedAre
    <2>4. \A u \in Threads : ~Owner(u)
      BY <2>1, <2>3, AtRest
    <2>5. /\ \A u \in Threads \ {r} : ~Owner(u) /\ Kept(u)
          /\ pc' = [pc EXCEPT ![r] = "onTimeout"]
          /\ UNCHANGED <<state, recorder, timeout, activeMode, streaming, startedWith, rec, mode>>
      BY <1>2, <2>2, <2>4 DEF TimerFires, Kept, TypeOK
    <2>6. pc'[r] = "onTimeout" /\ rec'[r] = None
      BY <2>1, <2>2, <2>5 DEF Serial, RecKnown, TypeOK
    <2>7. Current(recorder)' /\ ArmedAre({recorder} \ {r})'
      BY <2>2, <2>3, <2>5 DEF QuietStage, Current, OpenAre, ArmedAre, TypeOK
    <2>8. Stage(r)'
      BY <2>3, <2>5, <2>6, <2>7 DEF Stage, StartStage, StopStage, SetStage
    <2>9. CallbackPlace(r)' /\ InCallback(r)' /\ RecKnown(r)' /\ ModeKnown(r)'
      BY <2>3, <2>5, <2>6 DEF CallbackPlace, InCallback, RecKnown, ModeKnown
    <2>10. QED
      BY <2>1, <2>5, <2>8, <2>9, CallbackStep
  <1>3. QED
    BY <1>1, <1>2

(* The steps of _start_recording.                                          *)
LEMMA SerialStarts ==
  ASSUME Serial, TypeOK', NEW h \in HotkeyThreads, StartStep(h)
  PROVE  Serial'
  <1> USE DEF Goto, Calls, app, device, locals
  <1>0. /\ h \in Callbacks /\ h \in Threads /\ h \notin Recorders /\ InCallback(h)
        /\ pc[h] \in Starting
    BY DEF StartStep, RecorderFails, RecorderStarts, PublishRecorder, SetTimeout, StartTimer,
           Callbacks, InCallback, Starting
  <1>1. /\ TypeOK /\ Stage(h) /\ CallbackPlace(h) /\ RecKnown(h)
        /\ \A u \in Threads \ {h} : ~Owner(u)
    BY <1>0, AtWork
  <1>2. state = "idle"
    BY <1>0, <1>1 DEF CallbackPlace, Starting, Stopping
  <1>3. CASE RecorderFails(h)
    <2>1. /\ \A u \in Threads \ {h} : Kept(u)
          /\ pc'[h] = "set" /\ target'[h] = "error" /\ state' = "idle"
          /\ pc[h] = "start"
          /\ \A q \in Recorders : pc'[q] = pc[q]
      BY <1>0, <1>1, <1>2, <1>3 DEF RecorderFails, Kept, TypeOK
    <2>2. Silent'
      BY <1>1, <1>3, <2>1 DEF RecorderFails, Stage, StartStage, Silent, OpenAre, ArmedAre
    <2>3. Stage(h)'
      BY <2>1, <2>2 DEF Stage, StartStage, StopStage, SetStage
    <2>4. CallbackPlace(h)' /\ InCallback(h)' /\ RecKnown(h)'
      BY <2>1 DEF CallbackPlace, InCallback, RecKnown
    <2>5. QED
      BY <1>0, <1>1, <2>1, <2>3, <2>4, CallbackStep
  <1>4. ASSUME NEW r \in Recorders, RecorderStarts(h, r)
        PROVE  Serial'
    <2>1. /\ \A u \in Threads \ {h} : Kept(u)
          /\ pc'[h] = "publish" /\ rec'[h] = r /\ state' = "idle"
          /\ mode'[h] = mode[h] /\ startedWith'[r] = mode[h]
          /\ pc[h] = "start"
          /\ \A q \in Recorders : pc'[q] = pc[q]
          /\ recorder' = recorder /\ timeout' = timeout
      BY <1>0, <1>1, <1>2, <1>4 DEF RecorderStarts, Kept, TypeOK
    <2>2. Silent /\ mode[h] \in Modes
      BY <1>1, <2>1 DEF Stage, StartStage
    <2>3. OpenAre({r})' /\ ArmedAre({})' /\ recorder' = None /\ timeout' = None
      BY <1>1, <1>4, <2>1, <2>2 DEF RecorderStarts, Silent, OpenAre, ArmedAre, TypeOK
    <2>4. Stage(h)'
      BY <2>1, <2>2, <2>3 DEF Stage, StartStage, StopStage, SetStage
    <2>5. CallbackPlace(h)' /\ InCallback(h)' /\ RecKnown(h)'
      BY <2>1 DEF CallbackPlace, InCallback, RecKnown, Starting
    <2>6. QED
      BY <1>0, <1>1, <2>1, <2>4, <2>5, CallbackStep
  <1>5. CASE PublishRecorder(h)
    <2>1. /\ \A u \in Threads \ {h} : Kept(u)
          /\ pc'[h] = "setTimeout" /\ state' = "idle" /\ pc[h] = "publish"
          /\ \A q \in Recorders : pc'[q] = pc[q]
          /\ recorder' = rec[h] /\ activeMode' = mode[h]
          /\ UNCHANGED <<timeout, rec, mode, startedWith, streaming>>
      BY <1>0, <1>1, <1>2, <1>5 DEF PublishRecorder, Kept, TypeOK
    <2>2. Stage(h)'
      BY <1>1, <2>1 DEF Stage, StartStage, StopStage, SetStage, OpenAre, ArmedAre
    <2>3. CallbackPlace(h)' /\ InCallback(h)' /\ RecKnown(h)'
      BY <2>1 DEF CallbackPlace, InCallback, RecKnown, Starting
    <2>4. QED
      BY <1>0, <1>1, <2>1, <2>2, <2>3, CallbackStep
  <1>6. CASE SetTimeout(h)
    <2>1. /\ \A u \in Threads \ {h} : Kept(u)
          /\ pc'[h] = "startTimer" /\ state' = "idle" /\ pc[h] = "setTimeout"
          /\ \A q \in Recorders : pc'[q] = pc[q]
          /\ timeout' = rec[h]
          /\ UNCHANGED <<recorder, activeMode, rec, mode, startedWith, streaming>>
      BY <1>0, <1>1, <1>2, <1>6 DEF SetTimeout, Kept, TypeOK
    <2>2. Current(rec[h])' /\ ArmedAre({})'
      BY <1>1, <2>1 DEF Stage, StartStage, OpenAre, ArmedAre, Current
    <2>3. Stage(h)'
      BY <2>1, <2>2 DEF Stage, StartStage, StopStage, SetStage
    <2>4. CallbackPlace(h)' /\ InCallback(h)' /\ RecKnown(h)'
      BY <2>1 DEF CallbackPlace, InCallback, RecKnown, Starting
    <2>5. QED
      BY <1>0, <1>1, <2>1, <2>3, <2>4, CallbackStep
  <1>7. CASE StartTimer(h)
    <2>1. pc[h] = "startTimer" /\ Current(rec[h]) /\ ArmedAre({}) /\ timeout = rec[h]
          /\ timeout \in Recorders /\ timeout # h
      BY <1>0, <1>1, <1>7 DEF StartTimer, Stage, StartStage, Current
    <2>2. pc[timeout] \in {"rest", "armed"}
      BY <1>1, <2>1 DEF Owner, InCallback
    <2>3. /\ pc' = [pc EXCEPT ![timeout] = "armed", ![h] = "set"]
          /\ target' = [target EXCEPT ![h] = "recording"]
          /\ UNCHANGED <<rec, tim, mode, app, device, startedWith>>
      BY <1>7, <2>1 DEF StartTimer
    <2>4. /\ pc'[h] = "set" /\ target'[h] = "recording" /\ pc'[timeout] = "armed"
          /\ \A u \in Threads \ {h, timeout} : pc'[u] = pc[u] /\ target'[u] = target[u]
          /\ target'[timeout] = target[timeout]
      BY <1>0, <1>1, <2>1, <2>3 DEF TypeOK
    <2>5. \A u \in Threads \ {h} : Kept(u)
      BY <2>1, <2>2, <2>3, <2>4 DEF Kept
    <2>6. Current(rec[h])' /\ ArmedAre({rec[h]})'
      BY <1>0, <2>1, <2>3, <2>4 DEF Current, OpenAre, ArmedAre
    <2>7. Stage(h)'
      BY <2>4, <2>6 DEF Stage, StartStage, StopStage, SetStage
    <2>8. CallbackPlace(h)' /\ InCallback(h)' /\ RecKnown(h)'
      BY <1>2, <2>3, <2>4 DEF CallbackPlace, InCallback, RecKnown
    <2>9. QED
      BY <1>0, <1>1, <2>5, <2>7, <2>8, CallbackStep
  <1>8. QED
    BY <1>3, <1>4, <1>5, <1>6, <1>7 DEF StartStep

(* The steps of _on_timeout and _stop_recording_and_send.                  *)
LEMMA SerialStops ==
  ASSUME Serial, TypeOK', NEW t \in Callbacks,
         (t \in Recorders /\ OnTimeout(t)) \/ StopStep(t)
  PROVE  Serial'
  <1> USE DEF Goto, Calls, app, device, locals
  <1>0. t \in Threads /\ InCallback(t) /\ pc[t] \in Stopping \cup {"onTimeout"}
    BY DEF OnTimeout, StopStep, GrabRecorder, GrabTimeout, ClearRecorder, ClearTimeout,
           StopBegins, StopEnds, Callbacks, InCallback, Stopping
  <1>1. /\ TypeOK /\ Stage(t) /\ CallbackPlace(t) /\ RecKnown(t)
        /\ t \in Recorders => ModeKnown(t)
        /\ \A u \in Threads \ {t} : ~Owner(u)
    BY <1>0, AtWork
  <1>2. state = "recording"
    BY <1>0, <1>1 DEF CallbackPlace, Starting, Stopping
  <1>3. ASSUME t \in Recorders, OnTimeout(t)
        PROVE  Serial'
    <2>1. /\ \A u \in Threads \ {t} : Kept(u)
          /\ pc[t] = "onTimeout" /\ pc'[t] = "grabRecorder"
          /\ \A q \in Recorders \ {t} : pc'[q] = pc[q]
          /\ UNCHANGED <<state, recorder, timeout, activeMode, streaming, startedWith, rec>>
      BY <1>0, <1>1, <1>3 DEF OnTimeout, Kept, TypeOK
    <2>2. Current(recorder) /\ ArmedAre({recorder} \ {t}) /\ t = recorder
      BY <1>1, <1>3, <2>1 DEF Stage, StopStage
    <2>3. mode'[t] = activeMode
      BY <1>0, <1>1, <1>3, <2>2 DEF OnTimeout, Current, TypeOK
    <2>4. Current(recorder)' /\ ArmedAre({recorder} \ {t})'
      BY <2>1, <2>2 DEF Current, OpenAre, ArmedAre
    <2>5. Stage(t)'
      BY <2>1, <2>2, <2>3, <2>4 DEF Stage, StartStage, StopStage, SetStage
    <2>6. CallbackPlace(t)' /\ InCallback(t)' /\ RecKnown(t)' /\ ModeKnown(t)'
      BY <1>1, <1>2, <2>1 DEF CallbackPlace, InCallback, RecKnown, ModeKnown, Stopping
    <2>7. QED
      BY <1>1, <2>1, <2>5, <2>6, CallbackStep
  <1>4. CASE GrabRecorder(t)
    <2>1. /\ \A u \in Threads \ {t} : Kept(u)
          /\ pc[t] = "grabRecorder" /\ pc'[t] = "grabTimeout" /\ rec'[t] = recorder
          /\ \A q \in Recorders \ {t} : pc'[q] = pc[q]
          /\ UNCHANGED <<state, recorder, timeout, activeMode, streaming, startedWith, mode>>
      BY <1>0, <1>1, <1>4 DEF GrabRecorder, Kept, TypeOK
    <2>2. Current(recorder) /\ ArmedAre({recorder} \ {t}) /\ (t \in Recorders => t = recorder)
          /\ (t \in Recorders => mode[t] = activeMode)
      BY <1>1, <2>1 DEF Stage, StopStage
    <2>3. Current(recorder)' /\ ArmedAre({recorder} \ {t})'
      BY <2>1, <2>2 DEF Current, OpenAre, ArmedAre
    <2>4. Stage(t)'
      BY <2>1, <2>2, <2>3 DEF Stage, StartStage, StopStage, SetStage
    <2>5. CallbackPlace(t)' /\ InCallback(t)' /\ RecKnown(t)'
      BY <1>2, <2>1 DEF CallbackPlace, InCallback, RecKnown, Stopping
    <2>6. t \in Recorders => ModeKnown(t)'
      BY <2>1, <2>2 DEF ModeKnown, Current
    <2>7. QED
      BY <1>1, <2>1, <2>4, <2>5, <2>6, CallbackStep
  <1>5. CASE GrabTimeout(t)
    <2>1. /\ \A u \in Threads \ {t} : Kept(u)
          /\ pc[t] = "grabTimeout" /\ pc'[t] = "clearRecorder" /\ tim'[t] = timeout
          /\ \A q \in Recorders \ {t} : pc'[q] = pc[q]
          /\ UNCHANGED <<state, recorder, timeout, activeMode, streaming, startedWith, mode, rec>>
      BY <1>0, <1>1, <1>5 DEF GrabTimeout, Kept, TypeOK
    <2>2. Current(recorder) /\ ArmedAre({recorder} \ {t}) /\ (t \in Recorders => t = recorder)
          /\ rec[t] = recorder
      BY <1>1, <2>1 DEF Stage, StopStage
    <2>3. Current(recorder)' /\ ArmedAre({recorder} \ {t})'
      BY <2>1, <2>2 DEF Current, OpenAre, ArmedAre
    <2>4. Stage(t)'
      BY <2>1, <2>2, <2>3 DEF Stage, StartStage, StopStage, SetStage, Current
    <2>5. CallbackPlace(t)' /\ InCallback(t)' /\ RecKnown(t)'
      BY <1>2, <2>1 DEF CallbackPlace, InCallback, RecKnown, Stopping
    <2>6. t \in Recorders => ModeKnown(t)'
      BY <1>0, <1>1, <2>1 DEF ModeKnown
    <2>7. QED
      BY <1>1, <2>1, <2>4, <2>5, <2>6, CallbackStep
  <1>6. CASE ClearRecorder(t)
    <2>1. /\ \A u \in Threads \ {t} : Kept(u)
          /\ pc[t] = "clearRecorder" /\ pc'[t] = "clearTimeout" /\ recorder' = None
          /\ \A q \in Recorders \ {t} : pc'[q] = pc[q]
          /\ UNCHANGED <<state, timeout, activeMode, streaming, startedWith, mode, rec, tim>>
      BY <1>0, <1>1, <1>6 DEF ClearRecorder, Kept, TypeOK
    <2>2. /\ Current(recorder) /\ ArmedAre({recorder} \ {t})
          /\ rec[t] = recorder /\ tim[t] = recorder
      BY <1>1, <2>1 DEF Stage, StopStage
    <2>3. Stage(t)'
      BY <2>1, <2>2 DEF Stage, StartStage, StopStage, SetStage, Current, OpenAre, ArmedAre
    <2>4. CallbackPlace(t)' /\ InCallback(t)' /\ RecKnown(t)'
      BY <1>2, <2>1 DEF CallbackPlace, InCallback, RecKnown, Stopping
    <2>5. t \in Recorders => ModeKnown(t)'
      BY <1>0, <1>1, <2>1 DEF ModeKnown
    <2>6. QED
      BY <1>1, <2>1, <2>3, <2>4, <2>5, CallbackStep
  <1>7. CASE ClearTimeout(t)
    <2> DEFINE r == rec[t]
    <2>1. /\ pc[t] = "clearTimeout" /\ r \in Recorders /\ tim[t] = r
          /\ recorder = None /\ timeout = r /\ OpenAre({r}) /\ ArmedAre({r} \ {t})
      BY <1>1, <1>7 DEF ClearTimeout, Stage, StopStage
    <2> DEFINE cancelled == IF tim[t] # None /\ pc[tim[t]] = "armed" THEN {tim[t]} ELSE {}
    <2>2. /\ pc' = [u \in Threads |->
                       IF u = t THEN "stop" ELSE IF u \in cancelled THEN "rest" ELSE pc[u]]
          /\ timeout' = None /\ tim' = [tim EXCEPT ![t] = None]
          /\ UNCHANGED <<rec, mode, target, state, recorder, activeMode, streaming, startedWith>>
      BY <1>7, <2>1 DEF ClearTimeout
    <2>3. cancelled \subseteq {r} /\ (r # t => cancelled = {r})
      BY <2>1 DEF ArmedAre
    <2>4. /\ \A u \in Threads \ {t} : Kept(u)
          /\ pc'[t] = "stop"
          /\ \A q \in Recorders : pc'[q] # "armed"
      <3>1. pc'[t] = "stop"
        BY <1>0, <2>2
      <3>2. ASSUME NEW u \in Threads \ {t} PROVE Kept(u)
        BY <2>1, <2>2 DEF Kept
      <3>3. ASSUME NEW q \in Recorders PROVE pc'[q] # "armed"
        <4>1. CASE q = t
          BY <3>1, <4>1
        <4>2. CASE q # t /\ q = r
          BY <2>2, <2>3, <4>2
        <4>3. CASE q # t /\ q # r
          <5>1. pc[q] # "armed"
            BY <2>1, <4>3 DEF ArmedAre
          <5>2. QED
            BY <2>2, <2>3, <4>3, <5>1
        <4>4. QED
          BY <4>1, <4>2, <4>3
      <3>4. QED
        BY <3>1, <3>2, <3>3
    <2> HIDE DEF cancelled
    <2>5. rec'[t] = r /\ OpenAre({r})' /\ ArmedAre({})'
      BY <2>1, <2>2, <2>4 DEF OpenAre, ArmedAre
    <2>6. Stage(t)'
      BY <2>1, <2>2, <2>4, <2>5 DEF Stage, StartStage, StopStage, SetStage
    <2>7. CallbackPlace(t)' /\ InCallback(t)' /\ RecKnown(t)'
      BY <1>2, <2>2, <2>4 DEF CallbackPlace, InCallback, RecKnown, Stopping
    <2>8. t \in Recorders => ModeKnown(t)'
      BY <1>0, <1>1, <2>1, <2>2, <2>4 DEF ModeKnown
    <2>9. QED
      BY <1>1, <2>4, <2>6, <2>7, <2>8, CallbackStep
  <1>8. CASE StopBegins(t)
    <2>1. /\ pc[t] = "stop" /\ rec[t] \in Recorders /\ OpenAre({rec[t]}) /\ ArmedAre({})
          /\ recorder = None /\ timeout = None
      BY <1>1, <1>8 DEF StopBegins, Stage, StopStage
    <2>2. /\ \A u \in Threads \ {t} : Kept(u)
          /\ pc'[t] = "stopStream"
          /\ \A q \in Recorders \ {t} : pc'[q] = pc[q]
          /\ UNCHANGED <<state, recorder, timeout, activeMode, streaming, startedWith, mode, rec>>
      BY <1>0, <1>1, <1>8, <2>1 DEF StopBegins, OpenAre, Kept, TypeOK
    <2>3. Stage(t)'
      BY <2>1, <2>2 DEF Stage, StartStage, StopStage, SetStage, OpenAre, ArmedAre
    <2>4. CallbackPlace(t)' /\ InCallback(t)' /\ RecKnown(t)'
      BY <1>2, <2>2 DEF CallbackPlace, InCallback, RecKnown, Stopping
    <2>5. t \in Recorders => ModeKnown(t)'
      BY <1>0, <1>1, <2>1, <2>2 DEF ModeKnown
    <2>6. QED
      BY <1>1, <2>2, <2>3, <2>4, <2>5, CallbackStep
  <1>9. CASE StopEnds(t)
    <2>1. /\ pc[t] = "stopStream" /\ rec[t] \in Recorders /\ OpenAre({rec[t]}) /\ ArmedAre({})
          /\ recorder = None /\ timeout = None
      BY <1>1, <1>9 DEF StopEnds, Stage, StopStage
    <2>2. /\ \A u \in Threads \ {t} : Kept(u)
          /\ pc'[t] = "set" /\ target'[t] \in {"error", "idle", "processing"}
          /\ \A q \in Recorders \ {t} : pc'[q] = pc[q]
          /\ streaming' = [streaming EXCEPT ![rec[t]] = FALSE]
          /\ UNCHANGED <<state, recorder, timeout, activeMode, startedWith, mode, rec>>
      BY <1>0, <1>1, <1>9 DEF StopEnds, Kept, TypeOK
    <2>3. Silent'
      BY <1>1, <2>1, <2>2 DEF Silent, OpenAre, ArmedAre, TypeOK
    <2>4. Stage(t)'
      BY <2>2, <2>3 DEF Stage, StartStage, StopStage, SetStage
    <2>5. CallbackPlace(t)' /\ InCallback(t)' /\ RecKnown(t)'
      BY <1>2, <2>2 DEF CallbackPlace, InCallback, RecKnown
    <2>6. t \in Recorders => ModeKnown(t)'
      BY <1>0, <1>1, <2>1, <2>2 DEF ModeKnown
    <2>7. QED
      BY <1>1, <2>2, <2>4, <2>5, <2>6, CallbackStep
  <1>10. QED
    BY <1>3, <1>4, <1>5, <1>6, <1>7, <1>8, <1>9 DEF StopStep

(* A callback in _set_state.                                               *)
LEMMA SerialSets ==
  ASSUME Serial, TypeOK', NEW t \in Callbacks, StateStep(t)
  PROVE  Serial'
  <1> USE DEF Goto, Return, Forget, app, device, locals
  <1>0. t \in Threads /\ InCallback(t) /\ pc[t] \in {"set", "tray"}
    BY DEF StateStep, SetState, TrayAndReturn, TrayAndSend, TrayAndRecover, Callbacks, InCallback
  <1>1. /\ TypeOK /\ Stage(t) /\ CallbackPlace(t) /\ RecKnown(t) /\ t \notin Workers
        /\ t \in Recorders => ModeKnown(t)
        /\ \A u \in Threads \ {t} : ~Owner(u)
    BY <1>0, AtWork
  <1>2. IF target[t] = "recording" THEN Current(rec[t]) /\ ArmedAre({rec[t]}) ELSE Silent
    BY <1>0, <1>1 DEF Stage, SetStage
  <1>3. CASE SetState(t)
    <2>1. /\ \A u \in Threads \ {t} : Kept(u)
          /\ pc[t] = "set" /\ pc'[t] = "tray" /\ state' = target[t]
          /\ \A q \in Recorders \ {t} : pc'[q] = pc[q]
          /\ UNCHANGED <<recorder, timeout, activeMode, streaming, startedWith, mode, rec, target>>
      BY <1>0, <1>1, <1>3 DEF SetState, Kept, TypeOK
    <2>2. IF target[t] = "recording" THEN Current(rec[t])' /\ ArmedAre({rec[t]})' ELSE Silent'
      BY <1>2, <2>1 DEF Current, OpenAre, ArmedAre, Silent
    <2>3. Stage(t)'
      BY <2>1, <2>2 DEF Stage, StartStage, StopStage, SetStage
    <2>4. CallbackPlace(t)' /\ InCallback(t)' /\ RecKnown(t)'
      BY <2>1 DEF CallbackPlace, InCallback, RecKnown
    <2>5. t \in Recorders => ModeKnown(t)'
      BY <1>0, <1>1, <2>1 DEF ModeKnown
    <2>6. QED
      BY <1>1, <2>1, <2>3, <2>4, <2>5, CallbackStep
  <1>4. CASE TrayAndReturn(t)
    <2>1. /\ \A u \in Threads \ {t} : Kept(u)
          /\ pc[t] = "tray" /\ pc'[t] = "rest" /\ rec'[t] = None
          /\ state' = state /\ state = target[t]
          /\ \A q \in Recorders \ {t} : pc'[q] = pc[q]
          /\ UNCHANGED <<recorder, timeout, activeMode, streaming, startedWith>>
      BY <1>0, <1>1, <1>4 DEF TrayAndReturn, CallbackPlace, Starting, Stopping, Kept, TypeOK
    <2>2. QuietStage'
      BY <1>2, <2>1 DEF QuietStage, Current, OpenAre, ArmedAre, Silent
    <2>3. CallbackPlace(t)' /\ ~InCallback(t)' /\ RecKnown(t)'
      BY <2>1 DEF CallbackPlace, InCallback, RecKnown
    <2>4. t \in Recorders => ModeKnown(t)'
      BY <2>3 DEF ModeKnown
    <2>5. QED
      BY <1>1, <2>1, <2>2, <2>3, <2>4, CallbackStep
  <1>5. ASSUME NEW w \in Workers, TrayAndSend(t, w) \/ TrayAndRecover(t, w)
        PROVE  Serial'
    <2>1. /\ w \in Threads /\ w # t /\ pc[w] = "rest" /\ pc[t] = "tray"
          /\ state' = state /\ state = target[t] /\ state \in {"processing", "error"}
          /\ pc'[t] = "rest"
          /\ \/ state = "processing" /\ pc'[w] = "send"
             \/ state = "error" /\ pc'[w] = "sleep"
          /\ rec'[t] = None
          /\ UNCHANGED <<recorder, timeout, activeMode, streaming, startedWith>>
      BY <1>0, <1>1, <1>5 DEF TrayAndSend, TrayAndRecover, Spawn, CallbackPlace, Starting, Stopping,
                              TypeOK
    <2>2. \A u \in Threads \ {t, w} : Kept(u) /\ pc'[u] = pc[u]
      BY <1>0, <1>1, <1>5 DEF TrayAndSend, TrayAndRecover, Spawn, Kept, TypeOK
    <2>3. \A u \in Threads \ {w} : ~Owner(u)'
      BY <1>1, <2>1, <2>2 DEF Owner, InCallback, Kept
    <2>4. Alone'
      BY <2>3 DEF Alone
    <2>5. \A u \in Callbacks : u \in Threads /\ u \notin Workers /\ u # w
      BY DEF Callbacks
    <2>6. \A u \in Callbacks : ~InCallback(u)' /\ CallbackPlace(u)'
      BY <2>3, <2>5 DEF Owner, InCallback, CallbackPlace
    <2>7. ASSUME NEW u \in Workers PROVE WorkerPlace(u)'
      <3>1. CASE u = w
        BY <2>1, <3>1 DEF WorkerPlace
      <3>2. CASE u # w
        <4>1. WorkerPlace(u) /\ pc'[u] = pc[u] /\ target'[u] = target[u]
          BY <1>1, <2>2, <3>2 DEF Serial, Places, Kept
        <4>2. QED
          BY <2>1, <4>1 DEF WorkerPlace
      <3>3. QED
        BY <3>1, <3>2
    <2>8. Silent'
      <3>1. \A q \in Recorders : pc'[q] = "armed" <=> pc[q] = "armed"
        BY <2>1, <2>2
      <3>2. QED
        BY <1>2, <2>1, <3>1 DEF Silent, OpenAre, ArmedAre
    <2>9. Stages'
      BY <2>1, <2>6, <2>8 DEF Stages, QuietStage
    <2>10. ASSUME NEW u \in Threads PROVE RecKnown(u)'
      BY <2>1, <2>2 DEF Serial, RecKnown, Kept
    <2>11. ASSUME NEW u \in Recorders PROVE ModeKnown(u)'
      BY <2>6 DEF ModeKnown, Callbacks
    <2>12. QED
      BY <2>4, <2>6, <2>7, <2>9, <2>10, <2>11 DEF Serial, Places
  <1>6. QED
    BY <1>3, <1>4, <1>5 DEF StateStep

(* A send or recovery thread.                                              *)
LEMMA SerialWorks ==
  ASSUME Serial, TypeOK', NEW w \in Workers,
         SendEnds(w) \/ RecoverChecks(w) \/ StateStep(w)
  PROVE  Serial'
  <1> USE DEF Goto, Calls, Return, Forget, app, device, locals
  <1>0. TypeOK /\ w \in Threads /\ WorkerPlace(w) /\ RecKnown(w)
    BY DEF Serial, Places
  <1>1. CASE SendEnds(w)
    <2>1. \A u \in Threads \ {w} : pc'[u] = pc[u] /\ Kept(u) /\ tim'[u] = tim[u]
      BY <1>0, <1>1 DEF SendEnds, Kept, TypeOK
    <2>2. /\ Owner(w) /\ WorkerPlace(w)' /\ RecKnown(w)' /\ state' = state
          /\ UNCHANGED <<recorder, timeout, activeMode, device, startedWith>>
      BY <1>0, <1>1 DEF SendEnds, WorkerPlace, RecKnown, Owner, TypeOK
    <2>3. QED
      BY <2>1, <2>2, WorkerStep
  <1>2. CASE RecoverChecks(w)
    <2>1. \A u \in Threads \ {w} : pc'[u] = pc[u] /\ Kept(u) /\ tim'[u] = tim[u]
      BY <1>0, <1>2 DEF RecoverChecks, Kept, TypeOK
    <2>2. /\ Owner(w) /\ WorkerPlace(w)' /\ RecKnown(w)' /\ state' = state
          /\ UNCHANGED <<recorder, timeout, activeMode, device, startedWith>>
      BY <1>0, <1>2 DEF RecoverChecks, WorkerPlace, RecKnown, Owner, TypeOK
    <2>3. QED
      BY <2>1, <2>2, WorkerStep
  <1>3. CASE SetState(w)
    <2>1. \A u \in Threads \ {w} : pc'[u] = pc[u] /\ Kept(u) /\ tim'[u] = tim[u]
      BY <1>0, <1>3 DEF SetState, Kept, TypeOK
    <2>2. /\ Owner(w) /\ WorkerPlace(w)' /\ RecKnown(w)'
          /\ "recording" \notin {state, state'}
          /\ UNCHANGED <<recorder, timeout, activeMode, device, startedWith>>
      BY <1>0, <1>3 DEF SetState, WorkerPlace, RecKnown, Owner, TypeOK
    <2>3. QED
      BY <2>1, <2>2, WorkerStep
  <1>4. CASE TrayAndReturn(w)
    <2>1. \A u \in Threads \ {w} : pc'[u] = pc[u] /\ Kept(u) /\ tim'[u] = tim[u]
      BY <1>0, <1>4 DEF TrayAndReturn, Kept, TypeOK
    <2>2. /\ pc'[w] = "rest" /\ ~Owner(w)' /\ WorkerPlace(w)' /\ RecKnown(w)' /\ state' = state
          /\ UNCHANGED <<recorder, timeout, activeMode, device, startedWith>>
      BY <1>0, <1>4 DEF TrayAndReturn, WorkerPlace, RecKnown, Owner, TypeOK
    <2>3. QED
      BY <2>1, <2>2, WorkerStep
  <1>5. ASSUME NEW v \in Workers, TrayAndSend(w, v) \/ TrayAndRecover(w, v)
        PROVE  Serial'
    <2>1. v = w /\ TrayAndRecover(w, w)
      BY <1>0, <1>5 DEF TrayAndSend, TrayAndRecover, Spawn, WorkerPlace
    <2>2. \A u \in Threads \ {w} : pc'[u] = pc[u] /\ Kept(u) /\ tim'[u] = tim[u]
      BY <1>0, <2>1 DEF TrayAndRecover, Spawn, Kept, TypeOK
    <2>3. /\ Owner(w) /\ WorkerPlace(w)' /\ RecKnown(w)' /\ state' = state
          /\ UNCHANGED <<recorder, timeout, activeMode, device, startedWith>>
      BY <1>0, <2>1 DEF TrayAndRecover, Spawn, WorkerPlace, RecKnown, Owner, TypeOK
    <2>4. QED
      BY <2>2, <2>3, WorkerStep
  <1>6. QED
    BY <1>1, <1>2, <1>3, <1>4, <1>5 DEF StateStep

(* At first everybody rests and nothing is open.                           *)
LEMMA InitSerial == Init => Serial
  <1> SUFFICES ASSUME Init PROVE Serial
    OBVIOUS
  <1>1. \A t \in Threads : pc[t] = "rest" /\ rec[t] = None /\ ~InCallback(t) /\ ~Owner(t)
    BY DEF Init, InCallback, Owner
  <1>2. Silent
    BY DEF Init, Silent, OpenAre, ArmedAre
  <1>3. Alone /\ Places /\ Stages
    BY <1>1, <1>2 DEF Init, Alone, Places, WorkerPlace, CallbackPlace, Stages, QuietStage, Callbacks
  <1>4. /\ \A t \in Threads : RecKnown(t)
        /\ \A r \in Recorders : ModeKnown(r)
    BY <1>1 DEF RecKnown, ModeKnown
  <1>5. QED
    BY <1>3, <1>4, InitTypeOK DEF Serial

(* Every step keeps every thread among its places.                         *)
LEMMA StepSerial == ASSUME Overlap = FALSE, Serial, [Next]_vars PROVE Serial'
  <1>0. TypeOK'
    BY StepTypeOK DEF Serial
  <1>1. CASE UNCHANGED vars
    <2>1. UNCHANGED <<state, recorder, timeout, activeMode, streaming, pc, rec, tim, mode, target,
                      startedWith>>
      BY <1>1 DEF vars, app, device, locals
    <2>2. /\ \A u : (Owner(u)' <=> Owner(u)) /\ (InCallback(u)' <=> InCallback(u))
          /\ \A u : (WorkerPlace(u)' <=> WorkerPlace(u)) /\ (CallbackPlace(u)' <=> CallbackPlace(u))
          /\ \A u : (RecKnown(u)' <=> RecKnown(u)) /\ (ModeKnown(u)' <=> ModeKnown(u))
      BY <2>1 DEF Owner, InCallback, WorkerPlace, CallbackPlace, RecKnown, ModeKnown
    <2>3. /\ Silent' <=> Silent
          /\ \A r : Current(r)' <=> Current(r)
          /\ \A S : (OpenAre(S)' <=> OpenAre(S)) /\ (ArmedAre(S)' <=> ArmedAre(S))
      BY <2>1 DEF Silent, Current, OpenAre, ArmedAre
    <2>4. \A u : Stage(u) => Stage(u)'
      BY <2>1, <2>3 DEF Stage, StartStage, StopStage, SetStage
    <2>5. QuietStage => QuietStage'
      BY <2>1, <2>3 DEF QuietStage
    <2>6. Alone' /\ Places' /\ Stages'
      BY <2>2, <2>4, <2>5 DEF Serial, Alone, Places, Stages
    <2>7. QED
      BY <1>0, <2>2, <2>6 DEF Serial
  <1>2. ASSUME NEW t \in Threads, Step(t) PROVE Serial'
    <2>1. CASE t \in Workers
      BY <1>0, <1>2, <2>1, SerialWorks DEF Step, Callbacks
    <2>2. CASE t \notin Workers
      BY <1>0, <1>2, <2>2, SerialStarts, SerialStops, SerialSets DEF Step, Callbacks
    <2>3. QED
      BY <2>1, <2>2
  <1>3. QED
    BY <1>0, <1>1, <1>2, SerialBegins DEF Next

(* Serial is an invariant.                                                *)
LEMMA AlwaysSerial == ASSUME Overlap = FALSE PROVE Spec => []Serial
  <1>1. Serial /\ [Next]_vars => Serial'
    BY StepSerial
  <1>2. QED
    BY <1>1, InitSerial, PTL DEF Spec

(* At most one Recorder holds a stream, and the running callback or        *)
(* _recorder refers to it: none is lost before its stop().                 *)
THEOREM MicrophoneIsOwned == ASSUME Overlap = FALSE PROVE Spec => []OneMicrophone
  <1>1. ASSUME Serial PROVE OneMicrophone
    <2>1. CASE \A t \in Callbacks : ~InCallback(t)
      <3>1. QuietStage
        BY <1>1, <2>1 DEF Serial, Stages
      <3>2. QED
        BY <3>1 DEF QuietStage, Silent, Current, OpenAre, OneMicrophone
    <2>2. ASSUME NEW t \in Callbacks, InCallback(t) PROVE OneMicrophone
      <3>1. TypeOK /\ t \in Threads /\ Stage(t) /\ CallbackPlace(t)
        BY <1>1, <2>2, AtWork
      <3>2. CASE pc[t] \in Starting
        BY <2>2, <3>1, <3>2
           DEF Starting, Stage, StartStage, Silent, Current, OpenAre, OneMicrophone
      <3>3. CASE pc[t] \in Stopping \cup {"onTimeout"}
        BY <2>2, <3>1, <3>3 DEF Stopping, Stage, StopStage, Current, OpenAre, OneMicrophone
      <3>4. CASE pc[t] \in {"set", "tray"}
        BY <2>2, <3>1, <3>4 DEF Stage, SetStage, Silent, Current, OpenAre, OneMicrophone
      <3>5. QED
        BY <2>2, <3>1, <3>2, <3>3, <3>4 DEF CallbackPlace, InCallback
    <2>3. QED
      BY <2>1, <2>2
  <1>2. QED
    BY <1>1, AlwaysSerial, PTL

(* While a recording is shown and nobody is about to end it, its           *)
(* microphone is open and its hard timeout runs.                           *)
THEOREM RecordingsAreGuarded == ASSUME Overlap = FALSE PROVE Spec => []RecordingIsGuarded
  <1>1. Serial => RecordingIsGuarded
    BY DEF Serial, Stages, QuietStage, Current, OpenAre, ArmedAre, RecordingIsGuarded
  <1>2. QED
    BY <1>1, AlwaysSerial, PTL

(* The hard timeout sends a recording in the mode it was started with.     *)
THEOREM AutoStopsKeepTheirMode == ASSUME Overlap = FALSE PROVE Spec => []AutoStopKeepsMode
  <1>1. Serial => AutoStopKeepsMode
    BY DEF Serial, ModeKnown, AutoStopKeepsMode
  <1>2. QED
    BY <1>1, AlwaysSerial, PTL

(***************************************************************************)
(* The state diagram.  Its phase is _state, its microphone follows the     *)
(* streams and the callback that shows a failure of the device.  Only      *)
(* RecorderStarts, RecorderFails, StopEnds and SetState change one of      *)
(* them, at the places Serial allows; fairness is left to TLC.             *)
(***************************************************************************)
(* At each place of a callback the microphone is as the diagram has it.    *)
LEMMA MicAt ==
  ASSUME Serial, NEW t \in Callbacks, InCallback(t)
  PROVE  /\ pc[t] = "start" => ~MicIsOpen
         /\ pc[t] = "stopStream" =>
               streaming = [r \in Recorders |-> r = rec[t]] /\ rec[t] \in Recorders
         /\ pc[t] = "set" => (MicIsOpen <=> target[t] = "recording")
         /\ \A u \in Callbacks \ {t} : pc[u] \in {"rest", "armed"}
  <1>1. TypeOK /\ Stage(t) /\ \A u \in Threads \ {t} : ~Owner(u)
    BY AtWork
  <1>2. \A u \in Callbacks \ {t} : pc[u] \in {"rest", "armed"}
    BY <1>1 DEF Owner, InCallback, Callbacks
  <1>3. CASE pc[t] = "start"
    BY <1>1, <1>3, <1>2 DEF Stage, StartStage, Silent, OpenAre, MicIsOpen
  <1>4. CASE pc[t] = "stopStream"
    <2>1. rec[t] \in Recorders /\ OpenAre({rec[t]})
      BY <1>1, <1>4 DEF Stage, StopStage
    <2>2. streaming \in [Recorders -> BOOLEAN]
      BY <1>1 DEF TypeOK
    <2>3. QED
      BY <1>4, <1>2, <2>1, <2>2 DEF OpenAre
  <1>5. CASE pc[t] = "set"
    BY <1>1, <1>5, <1>2 DEF Stage, SetStage, Silent, Current, OpenAre, MicIsOpen
  <1>6. CASE pc[t] \notin {"start", "stopStream", "set"}
    BY <1>2, <1>6
  <1>7. QED
    BY <1>3, <1>4, <1>5, <1>2, <1>6

(* A step that changes nothing the diagram speaks of. *)
Idles == /\ UNCHANGED <<state, streaming, unclosed>>
         /\ \A u \in Callbacks : ShowsFailure(u)' <=> ShowsFailure(u)

LEMMA IdlesStutters == Idles => UNCHANGED Lifecycle!vars
  BY DEF Idles, Lifecycle!vars, Mic, MicIsOpen

(* The steps of a callback that idle.                                      *)
LEMMA CallbackIdles ==
  ASSUME Serial, NEW t \in Callbacks,
         \/ t \in HotkeyThreads /\ (PublishRecorder(t) \/ SetTimeout(t) \/ StartTimer(t))
         \/ t \in Recorders /\ OnTimeout(t)
         \/ StopStep(t) /\ ~StopEnds(t)
         \/ StateStep(t) /\ ~SetState(t)
  PROVE  Idles
  <1> USE DEF Goto, Calls, Return, Forget, ShowsFailure, app, device, locals
  <1>0. /\ TypeOK /\ t \in Threads /\ t \notin Workers
        /\ \A u \in Callbacks : u \in Threads /\ u \notin Workers
    BY DEF Serial, Callbacks
  <1>1. CASE PublishRecorder(t) \/ SetTimeout(t)
    BY <1>0, <1>1 DEF Idles, TypeOK, PublishRecorder, SetTimeout
  <1>2. CASE StartTimer(t)
    <2>1. InCallback(t) /\ pc[t] = "startTimer"
      BY <1>2 DEF StartTimer, InCallback
    <2>2. \A u \in Callbacks \ {t} : pc[u] \in {"rest", "armed"}
      BY <2>1, MicAt
    <2>3. /\ \A u \in Callbacks \ {t} : pc'[u] \in {"rest", "armed"}
          /\ pc'[t] # "set" \/ target'[t] # "error"
      BY <1>0, <1>2, <2>1, <2>2 DEF StartTimer, TypeOK
    <2>4. QED
      BY <1>2, <2>1, <2>2, <2>3 DEF Idles, StartTimer
  <1>3. CASE OnTimeout(t)
    BY <1>0, <1>3 DEF Idles, TypeOK, OnTimeout
  <1>4. CASE GrabRecorder(t) \/ GrabTimeout(t) \/ ClearRecorder(t) \/ StopBegins(t)
    BY <1>0, <1>4 DEF Idles, TypeOK, GrabRecorder, GrabTimeout, ClearRecorder, StopBegins
  <1>5. CASE ClearTimeout(t)
    <2>1. InCallback(t) /\ pc[t] = "clearTimeout"
      BY <1>5 DEF ClearTimeout, InCallback
    <2>2. \A u \in Callbacks \ {t} : pc[u] \in {"rest", "armed"}
      BY <2>1, MicAt
    <2>3. /\ \A u \in Callbacks \ {t} : pc'[u] \in {"rest", "armed"}
          /\ pc'[t] # "set"
      BY <1>0, <1>5, <2>1, <2>2 DEF ClearTimeout, TypeOK
    <2>4. QED
      BY <1>5, <2>1, <2>2, <2>3 DEF Idles, ClearTimeout
  <1>6. CASE TrayAndReturn(t)
    BY <1>0, <1>6 DEF Idles, TypeOK, TrayAndReturn
  <1>7. ASSUME NEW w \in Workers, TrayAndSend(t, w) \/ TrayAndRecover(t, w) PROVE Idles
    BY <1>0, <1>7 DEF Idles, TypeOK, TrayAndSend, TrayAndRecover, Spawn
  <1>8. QED
    BY <1>1, <1>2, <1>3, <1>4, <1>5, <1>6, <1>7 DEF StopStep, StateStep

(* The device opens, or fails to.                                          *)
LEMMA DiagramStarts ==
  ASSUME Serial, NEW h \in HotkeyThreads
  PROVE  /\ RecorderFails(h) => Lifecycle!MicFails
         /\ \A r \in Recorders : RecorderStarts(h, r) => Lifecycle!OpenMic
  <1> USE DEF Goto, Calls, app, device
  <1>1. SUFFICES ASSUME RecorderFails(h) \/ \E r \in Recorders : RecorderStarts(h, r)
                 PROVE  /\ RecorderFails(h) => Lifecycle!MicFails
                        /\ \A r \in Recorders : RecorderStarts(h, r) => Lifecycle!OpenMic
    OBVIOUS
  <1>2. h \in Callbacks /\ h \in Threads /\ InCallback(h) /\ pc[h] = "start"
    BY <1>1 DEF RecorderStarts, RecorderFails, Callbacks, InCallback
  <1>3. TypeOK /\ CallbackPlace(h) /\ ~MicIsOpen /\ \A u \in Callbacks : ~ShowsFailure(u)
    BY <1>2, AtWork, MicAt DEF ShowsFailure
  <1>4. state = "idle" /\ Mic = "closed"
    BY <1>2, <1>3 DEF CallbackPlace, Stopping, Mic
  <1>5. CASE RecorderFails(h)
    <2>1. ShowsFailure(h)' /\ ~MicIsOpen'
      BY <1>2, <1>3, <1>5 DEF RecorderFails, ShowsFailure, MicIsOpen, TypeOK
    <2>2. Mic' = "failed" /\ state' = state
      BY <1>2, <1>5, <2>1 DEF Mic, RecorderFails
    <2>3. Lifecycle!MicFails
      BY <1>4, <1>5, <2>2 DEF Lifecycle!MicFails, RecorderFails
    <2>4. \A r \in Recorders : ~RecorderStarts(h, r)
      BY <1>2, <1>3, <1>5 DEF RecorderFails, RecorderStarts, TypeOK
    <2>5. QED
      BY <2>3, <2>4
  <1>6. ASSUME NEW r \in Recorders, RecorderStarts(h, r) PROVE Lifecycle!OpenMic
    <2>1. MicIsOpen'
      BY <1>3, <1>6 DEF RecorderStarts, TypeOK, MicIsOpen
    <2>2. Mic' = "open"
      BY <2>1 DEF Mic
    <2>3. QED
      BY <1>4, <1>6, <2>2 DEF Lifecycle!OpenMic, RecorderStarts
  <1>7. QED
    BY <1>5, <1>6

(* The stream is closed, or given up after a failure.                      *)
LEMMA DiagramStops ==
  ASSUME Serial, NEW t \in Callbacks, StopEnds(t)
  PROVE  Lifecycle!CloseMic \/ Lifecycle!MicFails
  <1> USE DEF Goto, Calls, app, device
  <1>1. t \in Threads /\ InCallback(t) /\ pc[t] = "stopStream"
    BY DEF StopEnds, Callbacks, InCallback
  <1>2. /\ TypeOK /\ CallbackPlace(t) /\ rec[t] \in Recorders
        /\ streaming = [r \in Recorders |-> r = rec[t]]
        /\ \A u \in Callbacks \ {t} : pc[u] \in {"rest", "armed"}
    BY <1>1, AtWork, MicAt
  <1>3. state = "recording" /\ state' = state
    BY <1>1, <1>2 DEF CallbackPlace, Starting, StopEnds
  <1>4. \A r \in Recorders : streaming'[r] = FALSE
    BY <1>2 DEF StopEnds
  <1>5. MicIsOpen /\ ~MicIsOpen'
    BY <1>2, <1>4 DEF MicIsOpen
  <1>6. Mic = "open"
    BY <1>5 DEF Mic
  <1>7. \A u \in Callbacks \ {t} : ~ShowsFailure(u)'
    BY <1>1, <1>2 DEF StopEnds, ShowsFailure, TypeOK, Callbacks
  <1>8. CASE target'[t] = "error"
    <2>1. ShowsFailure(t)'
      BY <1>1, <1>2, <1>8 DEF StopEnds, ShowsFailure, TypeOK
    <2>2. Mic' = "failed"
      BY <1>5, <2>1 DEF Mic
    <2>3. unclosed' \in {unclosed, unclosed \/ streaming[rec[t]]}
      BY <1>1, <1>2, <1>8 DEF StopEnds, TypeOK
    <2>4. unclosed' \in {unclosed, TRUE}
      BY <1>2, <2>3
    <2>5. QED
      BY <1>3, <1>6, <2>2, <2>4 DEF Lifecycle!MicFails
  <1>9. CASE target'[t] # "error"
    <2>1. ~ShowsFailure(t)'
      BY <1>9 DEF ShowsFailure
    <2>2. Mic' = "closed"
      BY <1>5, <1>7, <2>1 DEF Mic
    <2>3. unclosed' = unclosed
      BY <1>1, <1>2, <1>9 DEF StopEnds, TypeOK
    <2>4. QED
      BY <1>3, <1>6, <2>2, <2>3 DEF Lifecycle!CloseMic
  <1>10. QED
    BY <1>8, <1>9

(* The state is written.                                                   *)
LEMMA DiagramSets ==
  ASSUME Serial, NEW t \in Threads, SetState(t)
  PROVE  Lifecycle!Next
  <1> USE DEF Goto
  <1>0. TypeOK
    BY DEF Serial
  <1>1. /\ pc[t] = "set" /\ state' = target[t] /\ unclosed' = unclosed
        /\ pc'[t] = "tray" /\ \A u \in Threads \ {t} : ShowsFailure(u)' <=> ShowsFailure(u)
        /\ MicIsOpen' <=> MicIsOpen
    BY <1>0 DEF SetState, device, locals, MicIsOpen, ShowsFailure, TypeOK
  <1>2. CASE t \in Workers
    <2>1. WorkerPlace(t)
      BY <1>2 DEF Serial, Places
    <2>2. \/ state = "processing" /\ state' \in {"idle", "error"}
          \/ state = "error" /\ state' = "idle"
      BY <1>1, <2>1 DEF WorkerPlace
    <2>3. \A u \in Callbacks : u \in Threads /\ u # t
      BY <1>2 DEF Callbacks
    <2>4. Mic' = Mic
      BY <1>1, <2>3 DEF Mic
    <2>5. Lifecycle!EndProcessing \/ Lifecycle!Recover
      BY <1>1, <2>2, <2>4 DEF Lifecycle!EndProcessing, Lifecycle!Recover
    <2>6. QED
      BY <2>5 DEF Lifecycle!Next
  <1>3. CASE t \in Callbacks
    <2>1. InCallback(t)
      BY <1>1 DEF InCallback
    <2>2. /\ CallbackPlace(t) /\ (MicIsOpen <=> target[t] = "recording") /\ target[t] \in States
          /\ \A u \in Callbacks \ {t} : pc[u] \in {"rest", "armed"}
      BY <1>1, <1>3, <2>1, AtWork, MicAt DEF TypeOK
    <2>3. \A u \in Callbacks \ {t} : ~ShowsFailure(u) /\ ~ShowsFailure(u)'
      BY <1>1, <2>2 DEF ShowsFailure, Callbacks
    <2>4. ~ShowsFailure(t)'
      BY <1>1 DEF ShowsFailure
    <2>5. \A u \in Callbacks : ~ShowsFailure(u)'
      BY <2>3, <2>4
    <2>6. CASE target[t] = "recording"
      <3>1. Mic = "open" /\ Mic' = "open"
        BY <1>1, <2>2, <2>6 DEF Mic
      <3>2. state = "idle"
        BY <1>1, <2>2, <2>6 DEF CallbackPlace, Starting, Stopping
      <3>3. Lifecycle!BeginRecording
        BY <1>1, <2>6, <3>1, <3>2 DEF Lifecycle!BeginRecording
      <3>4. QED
        BY <3>3 DEF Lifecycle!Next
    <2>7. CASE target[t] = "error"
      <3>1. ShowsFailure(t)
        BY <1>1, <2>7 DEF ShowsFailure
      <3>2. Mic = "failed" /\ Mic' = "closed"
        BY <1>1, <1>3, <2>2, <2>5, <2>7, <3>1 DEF Mic
      <3>3. Lifecycle!ShowFailure
        BY <1>1, <2>7, <3>2 DEF Lifecycle!ShowFailure
      <3>4. QED
        BY <3>3 DEF Lifecycle!Next
    <2>8. CASE target[t] \in {"idle", "processing"}
      <3>1. ~ShowsFailure(t)
        BY <2>8 DEF ShowsFailure
      <3>2. Mic = "closed" /\ Mic' = "closed"
        BY <1>1, <2>2, <2>3, <2>5, <2>8, <3>1 DEF Mic
      <3>3. state = "recording"
        BY <1>1, <2>2, <2>8 DEF CallbackPlace, Starting, Stopping
      <3>4. Lifecycle!EndRecording
        BY <1>1, <2>8, <3>2, <3>3 DEF Lifecycle!EndRecording
      <3>5. QED
        BY <3>4 DEF Lifecycle!Next
    <2>9. QED
      BY <2>2, <2>6, <2>7, <2>8 DEF States
  <1>4. QED
    BY <1>2, <1>3 DEF Callbacks

(* Every step of the client is a step of the diagram or leaves phase and   *)
(* microphone alone.                                                       *)
LEMMA StepLifecycle ==
  ASSUME Overlap = FALSE, Serial, [Next]_vars
  PROVE  [Lifecycle!Next]_(Lifecycle!vars)
  <1>0. /\ TypeOK
        /\ \A u \in Callbacks : u \in Threads /\ u \notin Workers
    BY DEF Serial, Callbacks
  <1>1. CASE UNCHANGED vars
    BY <1>1, IdlesStutters DEF vars, app, device, locals, Idles, ShowsFailure
  <1>2. ASSUME NEW h \in HotkeyThreads, NEW m \in Modes, HotkeyPressed(h, m)
        PROVE  Idles
    BY <1>0, <1>2 DEF HotkeyPressed, Goto, app, device, Idles, ShowsFailure, TypeOK
  <1>3. ASSUME NEW r \in Recorders, TimerFires(r) PROVE Idles
    BY <1>0, <1>3 DEF TimerFires, Goto, app, device, locals, Idles, ShowsFailure, TypeOK
  <1>4. ASSUME NEW w \in Workers, SendEnds(w) \/ RecoverChecks(w) PROVE Idles
    <2>1. \A u \in Callbacks : u \in Threads /\ u # w
      BY <1>0
    <2>2. \A u \in Callbacks : pc'[u] = pc[u] /\ target'[u] = target[u]
      BY <1>0, <1>4, <2>1 DEF SendEnds, RecoverChecks, Goto, Calls, Return, Forget, TypeOK
    <2>3. QED
      BY <1>4, <2>2 DEF SendEnds, RecoverChecks, app, device, Idles, ShowsFailure
  <1>5. ASSUME NEW w \in Workers, StateStep(w), ~SetState(w) PROVE Idles
    <2>1. CASE TrayAndReturn(w)
      BY <1>0, <2>1 DEF TrayAndReturn, Goto, Return, Forget, app, device, Idles, ShowsFailure, TypeOK
    <2>2. ASSUME NEW v \in Workers, TrayAndSend(w, v) \/ TrayAndRecover(w, v) PROVE Idles
      BY <1>0, <2>2 DEF TrayAndSend, TrayAndRecover, Spawn, app, device, Idles, ShowsFailure, TypeOK
    <2>3. QED
      BY <1>5, <2>1, <2>2 DEF StateStep
  <1>6. ASSUME NEW t \in Threads, Step(t) PROVE Idles \/ Lifecycle!Next
    <2>1. CASE t \in Workers
      BY <1>4, <1>5, <1>6, <2>1, DiagramSets DEF Step, Callbacks
    <2>2. CASE t \in Callbacks
      <3>1. t \notin Workers
        BY <1>0, <2>2
      <3>2. CASE SetState(t)
        BY <3>2, DiagramSets
      <3>3. CASE StopEnds(t)
        BY <2>2, <3>3, DiagramStops DEF Lifecycle!Next
      <3>4. CASE t \in HotkeyThreads /\ (RecorderFails(t) \/ \E r \in Recorders : RecorderStarts(t, r))
        BY <3>4, DiagramStarts DEF Lifecycle!Next
      <3>5. QED
        BY <1>6, <2>2, <3>1, <3>2, <3>3, <3>4, CallbackIdles DEF Step, StartStep
    <2>3. QED
      BY <2>1, <2>2 DEF Callbacks
  <1>7. QED
    BY <1>1, <1>2, <1>3, <1>6, IdlesStutters DEF Next

(* The client follows the documented state diagram, microphone and failing *)
(* driver included, as long as callbacks do not overlap.                   *)
THEOREM FollowsTheDiagram ==
  ASSUME Overlap = FALSE
  PROVE  Spec => Lifecycle!Init /\ [][Lifecycle!Next]_(Lifecycle!vars)
  <1>1. Init => Lifecycle!Init
    BY DEF Init, Lifecycle!Init, Mic, MicIsOpen, ShowsFailure, Callbacks
  <1>2. Serial /\ [Next]_vars => [Lifecycle!Next]_(Lifecycle!vars)
    BY StepLifecycle
  <1>3. QED
    BY <1>1, <1>2, AlwaysSerial, PTL DEF Spec

(***************************************************************************)
(* The settings: ClientSettings.                                           *)
(*                                                                         *)
(* Types.                                                                  *)
(***************************************************************************)
LEMMA SettingsInitType == SettingsInit => SettingsTypeOK
  <1> SUFFICES ASSUME SettingsInit PROVE SettingsTypeOK
    OBVIOUS
  <1>1. Blank \in Forms /\ Untouched \in [AllModes -> KeyEntries \cup {"nothing"}]
    BY SettingsAssumption DEF Blank, Untouched, Forms, UrlEntries, KeyEntries, Entries, Configs
  <1> QED
    BY <1>1, SettingsAssumption DEF SettingsInit, SettingsTypeOK

(* What is loaded, edited and saved, and what the fields hold.             *)
LEMMA SettingsStepType == ASSUME SettingsTypeOK, [SettingsNext]_settings PROVE SettingsTypeOK'
  <1> USE SettingsAssumption DEF SettingsTypeOK
  <1>1. Blank \in Forms /\ Untouched \in [AllModes -> KeyEntries \cup {"nothing"}]
    BY DEF Blank, Untouched, Forms, UrlEntries, KeyEntries, Entries, Configs
  <1>2. CASE Setup
    <2> USE DEF disk, live, view, lists, record
    <2>1. CASE Start
      BY <2>1 DEF Start
    <2>2. CASE DefaultsWritten
      BY <2>2 DEF DefaultsWritten
    <2>3. CASE ReadToken
      BY <2>3 DEF ReadToken
    <2>4. ASSUME NEW u \in Urls, NEW t \in Tokens, DialogSave(u, t) PROVE SettingsTypeOK'
      BY <2>4 DEF DialogSave, Configs
    <2>5. CASE DialogOpensFile
      BY <2>5 DEF DialogOpensFile
    <2>6. CASE DialogWritten
      BY <2>6 DEF DialogWritten
    <2>7. CASE DialogFails
      BY <2>7 DEF DialogFails
    <2> QED
      BY <1>2, <2>1, <2>2, <2>3, <2>4, <2>5, <2>6, <2>7 DEF Setup
  <1>3. CASE End \/ Repair
    <2>1. CASE End
      <3>1. rebuild' = FALSE /\ lost' = FALSE /\ refused' = FALSE /\ mixed' \in BOOLEAN
        BY <2>1 DEF End, Ended, disk
      <3>2. job' \in [Fetchers -> {"idle"}] /\ got' \in [Fetchers -> {{}}]
        BY <2>1 DEF End, Ended, disk
      <3> QED
        BY <1>1, <2>1, <3>1, <3>2 DEF End, Ended, disk
    <2>2. CASE Repair
      BY <2>2 DEF Repair, live, view, lists, record
    <2> QED
      BY <1>3, <2>1, <2>2
  <1>4. CASE MakeRoot \/ EnterMainloop \/ Close
    BY <1>4 DEF MakeRoot, EnterMainloop, Close, disk, live, view, lists, record
  <1>5. CASE BuildTabs
    <2>1. form' \in Forms /\ shown' \in SUBSET AllModes
      BY <1>5 DEF BuildTabs, Forms, UrlEntries, KeyEntries, Configs, ShownModes, Bound, AllModes
    <2>2. rebuild' \in BOOLEAN /\ lost' \in BOOLEAN /\ refused' \in BOOLEAN /\ mixed' \in BOOLEAN
      BY <1>5 DEF BuildTabs, record
    <2> QED
      BY <1>5, <2>1, <2>2 DEF BuildTabs, disk, live, record
  <1>6. CASE EditOther
    <2>1. form' \in Forms
      BY <1>6 DEF EditOther, Edit, Forms
    <2> QED
      BY <1>6, <2>1 DEF EditOther, Edit, disk, live, lists, record
  <1>7. ASSUME NEW m \in AllModes, NEW k \in KeyEntries, EditKey(m, k) PROVE SettingsTypeOK'
    <2>1. form' \in Forms
      BY <1>7 DEF EditKey, Edit, Forms
    <2>2. typed' \in [AllModes -> KeyEntries \cup {"nothing"}]
      BY <1>7 DEF EditKey
    <2> QED
      BY <1>7, <2>1, <2>2 DEF EditKey, Edit, disk, live, lists, record
  <1>8. CASE Rebuild
    <2>1. form' \in Forms /\ shown' \in SUBSET AllModes
      BY <1>8 DEF Rebuild, Forms, KeyEntries, Configs, ShownModes, Bound, AllModes
    <2>2. rebuild' \in BOOLEAN /\ lost' \in BOOLEAN /\ refused' \in BOOLEAN /\ mixed' \in BOOLEAN
      BY <1>8 DEF Rebuild, record
    <2> QED
      BY <1>8, <2>1, <2>2 DEF Rebuild, disk, live, record
  <1>9. CASE Saving
    <2> USE DEF disk, live, lists, record
    <2>1. CASE ClickSave
      BY <2>1 DEF ClickSave, Configs, Forms, UrlEntries
    <2>2. CASE SetToken
      <3>1. mixed' \in BOOLEAN /\ refused' \in BOOLEAN
        BY <2>2 DEF SetToken
      <3>2. keyring' \in Tokens \cup {Unset}
        BY <2>2 DEF SetToken, Forms
      <3> QED
        BY <2>2, <3>1, <3>2 DEF SetToken
    <2>3. CASE SetTokenFails \/ ModesRefused \/ WriteFails
      <3>1. Refuse
        BY <2>3 DEF SetTokenFails, ModesRefused, WriteFails
      <3>2. refused' \in BOOLEAN /\ mixed' \in BOOLEAN
        BY <3>1 DEF Refuse
      <3> QED
        BY <3>1, <3>2 DEF Refuse
    <2>4. CASE ApplyModes
      <3>1. cfg' \in Configs
        BY <2>4 DEF ApplyModes, Acceptable, Configs, Forms, KeyEntries, Entries
      <3> QED
        BY <2>4, <3>1 DEF ApplyModes
    <2>5. CASE OpenFile
      BY <2>5 DEF OpenFile
    <2>6. CASE Written
      BY <2>6 DEF Written
    <2>7. CASE OnSaved
      BY <2>7 DEF OnSaved
    <2> QED
      BY <1>9, <2>1, <2>2, <2>3, <2>4, <2>5, <2>6, <2>7 DEF Saving
  <1>10. ASSUME NEW w \in Fetchers, OpenSettings(w) \/ RefreshAccount(w) PROVE SettingsTypeOK'
    BY <1>10 DEF OpenSettings, Push, RefreshAccount, At, disk, live, view, record
  <1>11. ASSUME NEW w \in Fetchers, Worker(w) PROVE SettingsTypeOK'
    <2> USE DEF At, disk, live, view, record
    <2>1. CASE Fetched(w) \/ FetchFails(w)
      BY <2>1 DEF Fetched, FetchFails
    <2>2. CASE Store(w) \/ ReadModes(w)
      BY <2>2 DEF Store, ReadModes
    <2>3. CASE SetModes(w)
      BY <2>3 DEF SetModes
    <2>4. CASE QueueRebuild(w)
      BY <2>4 DEF QueueRebuild
    <2> QED
      BY <1>11, <2>1, <2>2, <2>3, <2>4 DEF Worker
  <1>12. CASE CatalogChanges
    BY <1>12 DEF CatalogChanges, disk, live, view, record
  <1>13. CASE UNCHANGED settings
    BY <1>13 DEF settings, disk, live, view, lists, record
  <1> QED
    BY <1>2, <1>3, <1>4, <1>5, <1>6, <1>7, <1>8, <1>9, <1>10, <1>11, <1>12, <1>13 DEF SettingsNext

(* Every variable of the settings keeps its type.                          *)
THEOREM SettingsTypeCorrect == SettingsSpec => []SettingsTypeOK
  BY SettingsInitType, SettingsStepType, PTL DEF SettingsSpec

(***************************************************************************)
(* What was last saved, what is typed, and the list of modes.              *)
(***************************************************************************)

(* The window exists while the client runs, and is used in its mainloop.   *)
Staged ==
    /\ phase # "on" => window = "none"
    /\ window # "open" => status = "blank" /\ saving = "no"

(* The file holds what was last saved, or nothing that can be loaded; what *)
(* is in use was loaded from it or written to it.                          *)
FileKept ==
    /\ file \in {Unset, Torn, saved.cfg}
    /\ phase # "off" => file # Unset
    /\ phase = "defaults" => cfg = Defaults /\ saved.cfg = Defaults
    /\ phase = "token" => cfg = file /\ file = saved.cfg
    /\ phase = "on" /\ saving \in {"no", "tell"} /\ ~refused => cfg = file /\ file = saved.cfg

(* So do the keyring and the token in use, with exactly one way out.       *)
TokenKept ==
    /\ ~mixed => keyring = saved.token
    /\ phase \in {"dialogToken", "dialogWrite", "on"} => keyring # Unset
    /\ phase = "on" /\ saving # "tell" /\ ~mixed => token = saved.token

(* A configuration that has taken the fields over.                         *)
HotkeysTaken == \A m \in AllModes : cfg.keys[m] = IF m \in shown THEN form.keys[m] ELSE Unset

(* How far a save has come, and what "saved" means.                        *)
FormSaved ==
    /\ saving \in {"token", "modes", "open", "write"} => cfg.url = form.url
    /\ saving \in {"modes", "open", "write"} => form.token \in {Unset, keyring}
    /\ saving \in {"open", "write"} => cfg.option = form.option /\ HotkeysTaken
    /\ status = "saved" /\ saving \in {"no", "tell"} =>
           /\ cfg = file /\ form.url = cfg.url /\ form.option = cfg.option
           /\ form.token \in {Unset, keyring} /\ HotkeysTaken

(* Every field has what is saved or what was typed.                        *)
FieldsTyped ==
    /\ ~refused /\ saving \in {"token", "modes"} => cfg.keys = saved.cfg.keys
    /\ ~refused /\ window \in {"built", "open"} =>
           \A m \in AllModes : IF m \in shown THEN form.keys[m] \in {saved.cfg.keys[m], typed[m]}
                                              ELSE saved.cfg.keys[m] = Unset

(* The tab is behind its list only while a rebuild is on its way.          *)
TabListed ==
    window \in {"built", "open"} /\ ~rebuild /\ ~lost /\ (\A w \in Fetchers : job[w] # "queue")
        => listed \subseteq shown

SettingsInv ==
    SettingsTypeOK /\ Staged /\ FileKept /\ TokenKept /\ FormSaved /\ FieldsTyped /\ TabListed

(* Threads with lists, and the console, touch nothing that is saved.       *)
LEMMA ListsAreApart ==
    ASSUME (\E w \in Fetchers : RefreshAccount(w) \/ Worker(w)) \/ CatalogChanges
    PROVE  UNCHANGED <<disk, live, view, record, typed>>
  BY DEF RefreshAccount, Worker, Fetched, FetchFails, Store, ReadModes, SetModes, QueueRebuild,
         CatalogChanges

LEMMA SettingsInitInv == SettingsInit => SettingsInv
  BY SettingsInitType, SettingsAssumption
     DEF SettingsInit, SettingsInv, Staged, FileKept, TokenKept, FormSaved, FieldsTyped, TabListed

(* Whatever does not use the window leaves it hidden or ends it.           *)
LEMMA StagedStep == ASSUME SettingsTypeOK, Staged, [SettingsNext]_settings PROVE Staged'
  <1> USE DEF Staged, disk, live, view, lists, record
  <1>1. CASE Setup
    BY <1>1 DEF Setup, Start, DefaultsWritten, ReadToken, DialogSave, DialogOpensFile, DialogWritten,
                DialogFails
  <1>2. CASE End \/ Repair
    BY <1>2 DEF End, Ended, Repair
  <1>3. CASE MakeRoot \/ BuildTabs \/ EnterMainloop
    BY <1>3 DEF MakeRoot, BuildTabs, EnterMainloop
  <1>4. CASE EditOther \/ (\E m \in AllModes, k \in KeyEntries : EditKey(m, k)) \/ Close \/ Rebuild
    BY <1>4 DEF EditOther, EditKey, Edit, Close, Rebuild, Tk
  <1>5. CASE Saving
    BY <1>5 DEF Saving, ClickSave, SetToken, SetTokenFails, ApplyModes, ModesRefused, OpenFile,
                WriteFails, Written, OnSaved, Refuse, Tk
  <1>6. CASE \E w \in Fetchers : OpenSettings(w)
    BY <1>6 DEF OpenSettings
  <1>7. CASE (\E w \in Fetchers : RefreshAccount(w) \/ Worker(w)) \/ CatalogChanges
    BY <1>7, ListsAreApart
  <1>8. CASE UNCHANGED settings
    BY <1>8 DEF settings
  <1> QED
    BY <1>1, <1>2, <1>3, <1>4, <1>5, <1>6, <1>7, <1>8 DEF SettingsNext

LEMMA FileKeptStep ==
    ASSUME SettingsTypeOK, Staged, FileKept, [SettingsNext]_settings
    PROVE  FileKept'
  <1> USE SettingsAssumption DEF FileKept, disk, live, view, lists, record
  <1>1. CASE Setup
    <2>1. CASE Start
      BY <2>1 DEF Start, SettingsTypeOK
    <2>2. CASE DefaultsWritten
      BY <2>2 DEF DefaultsWritten
    <2>3. CASE ReadToken
      BY <2>3 DEF ReadToken
    <2>4. CASE (\E u \in Urls, t \in Tokens : DialogSave(u, t)) \/ DialogOpensFile \/ DialogFails
      BY <2>4 DEF DialogSave, DialogOpensFile, DialogFails
    <2>5. CASE DialogWritten
      BY <2>5 DEF DialogWritten, SettingsTypeOK
    <2> QED
      BY <1>1, <2>1, <2>2, <2>3, <2>4, <2>5 DEF Setup
  <1>2. CASE End \/ Repair
    BY <1>2 DEF End, Ended, Repair
  <1>3. CASE \/ MakeRoot \/ BuildTabs \/ EnterMainloop \/ Close \/ Rebuild
             \/ EditOther \/ (\E m \in AllModes, k \in KeyEntries : EditKey(m, k))
    BY <1>3 DEF MakeRoot, BuildTabs, EnterMainloop, Close, Rebuild, EditOther, EditKey, Edit
  <1>4. CASE Saving
    <2>1. CASE ClickSave \/ SetToken \/ ApplyModes \/ OpenFile
      BY <2>1 DEF ClickSave, SetToken, ApplyModes, OpenFile, Tk, Staged
    <2>2. CASE SetTokenFails \/ ModesRefused \/ WriteFails
      BY <2>2 DEF SetTokenFails, ModesRefused, WriteFails, Refuse
    <2>3. CASE Written
      BY <2>3 DEF Written, SettingsTypeOK
    <2>4. CASE OnSaved
      BY <2>4 DEF OnSaved
    <2> QED
      BY <1>4, <2>1, <2>2, <2>3, <2>4 DEF Saving
  <1>5. CASE \E w \in Fetchers : OpenSettings(w)
    BY <1>5 DEF OpenSettings
  <1>6. CASE (\E w \in Fetchers : RefreshAccount(w) \/ Worker(w)) \/ CatalogChanges
    BY <1>6, ListsAreApart
  <1>7. CASE UNCHANGED settings
    BY <1>7 DEF settings
  <1> QED
    BY <1>1, <1>2, <1>3, <1>4, <1>5, <1>6, <1>7 DEF SettingsNext

LEMMA TokenKeptStep ==
    ASSUME SettingsTypeOK, Staged, TokenKept, [SettingsNext]_settings
    PROVE  TokenKept'
  <1> USE SettingsAssumption DEF TokenKept, disk, live, view, lists, record
  <1>1. CASE Setup
    <2>1. CASE Start \/ DefaultsWritten
      BY <2>1 DEF Start, DefaultsWritten, SettingsTypeOK
    <2>2. CASE ReadToken
      BY <2>2 DEF ReadToken
    <2>3. CASE (\E u \in Urls, t \in Tokens : DialogSave(u, t)) \/ DialogOpensFile \/ DialogFails
      BY <2>3 DEF DialogSave, DialogOpensFile, DialogFails
    <2>4. CASE DialogWritten
      BY <2>4 DEF DialogWritten
    <2> QED
      BY <1>1, <2>1, <2>2, <2>3, <2>4 DEF Setup
  <1>2. CASE End \/ Repair
    BY <1>2 DEF End, Ended, Repair
  <1>3. CASE \/ MakeRoot \/ BuildTabs \/ EnterMainloop \/ Close \/ Rebuild
             \/ EditOther \/ (\E m \in AllModes, k \in KeyEntries : EditKey(m, k))
    BY <1>3 DEF MakeRoot, BuildTabs, EnterMainloop, Close, Rebuild, EditOther, EditKey, Edit
  <1>4. CASE Saving
    <2>1. CASE ClickSave \/ ApplyModes \/ OpenFile
      BY <2>1 DEF ClickSave, ApplyModes, OpenFile, Tk
    <2>2. CASE SetToken
      BY <2>2 DEF SetToken, SettingsTypeOK, Forms
    <2>3. CASE SetTokenFails \/ ModesRefused \/ WriteFails
      BY <2>3 DEF SetTokenFails, ModesRefused, WriteFails, Refuse
    <2>4. CASE Written
      BY <2>4 DEF Written, Staged
    <2>5. CASE OnSaved
      BY <2>5 DEF OnSaved, Staged
    <2> QED
      BY <1>4, <2>1, <2>2, <2>3, <2>4, <2>5 DEF Saving
  <1>5. CASE \E w \in Fetchers : OpenSettings(w)
    BY <1>5 DEF OpenSettings
  <1>6. CASE (\E w \in Fetchers : RefreshAccount(w) \/ Worker(w)) \/ CatalogChanges
    BY <1>6, ListsAreApart
  <1>7. CASE UNCHANGED settings
    BY <1>7 DEF settings
  <1> QED
    BY <1>1, <1>2, <1>3, <1>4, <1>5, <1>6, <1>7 DEF SettingsNext

(* The fields stay as they are while they are saved.                       *)
LEMMA FormSavedStep ==
    ASSUME SettingsTypeOK, Staged, FileKept, FormSaved, [SettingsNext]_settings
    PROVE  FormSaved'
  <1> USE DEF FormSaved, HotkeysTaken, disk, live, view, lists, record
  <1>1. CASE Setup
    BY <1>1 DEF Staged, Setup, Start, DefaultsWritten, ReadToken, DialogSave, DialogOpensFile,
                DialogWritten, DialogFails
  <1>2. CASE End \/ Repair
    BY <1>2 DEF Staged, End, Ended, Repair
  <1>3. CASE MakeRoot \/ BuildTabs \/ EnterMainloop \/ Close
    BY <1>3 DEF Staged, MakeRoot, BuildTabs, EnterMainloop, Close, Tk
  <1>4. CASE EditOther
    BY <1>4 DEF EditOther, Edit, Tk
  <1>5. CASE \E m \in AllModes, k \in KeyEntries : EditKey(m, k)
    BY <1>5 DEF EditKey, Edit, Tk
  <1>6. CASE Rebuild
    <2>1. SUFFICES ASSUME status = "saved"
                   PROVE  /\ cfg = file /\ form'.url = cfg.url /\ form'.option = cfg.option
                          /\ form'.token \in {Unset, keyring} /\ HotkeysTaken'
      BY <1>6 DEF Rebuild, Tk
    <2>2. /\ cfg = file /\ form.url = cfg.url /\ form.option = cfg.option
          /\ form.token \in {Unset, keyring} /\ HotkeysTaken
      BY <1>6, <2>1 DEF Rebuild, Tk
    <2>3. /\ form'.url = form.url /\ form'.option = form.option /\ form'.token = form.token
          /\ \A m \in AllModes : form'.keys[m] = IF m \in shown \cap shown' THEN form.keys[m]
                                                                          ELSE cfg.keys[m]
      BY <1>6 DEF Rebuild, SettingsTypeOK, Forms
    <2>4. \A m \in AllModes \ shown' : cfg.keys[m] = Unset
      BY <1>6 DEF Rebuild, ShownModes, Bound
    <2>5. HotkeysTaken'
      BY <1>6, <2>2, <2>3, <2>4 DEF Rebuild
    <2> QED
      BY <2>2, <2>3, <2>5
  <1>7. CASE Saving
    <2>1. CASE ClickSave
      BY <2>1 DEF ClickSave, Tk, SettingsTypeOK, Configs
    <2>2. CASE SetToken
      BY <2>2 DEF SetToken
    <2>3. CASE SetTokenFails \/ ModesRefused \/ WriteFails
      BY <2>3 DEF SetTokenFails, ModesRefused, WriteFails, Refuse
    <2>4. CASE ApplyModes
      <3>1. /\ cfg'.url = cfg.url /\ cfg'.option = form.option
            /\ \A m \in AllModes : cfg'.keys[m] = IF m \in shown THEN form.keys[m] ELSE Unset
        BY <2>4 DEF ApplyModes, SettingsTypeOK, Configs
      <3> QED
        BY <2>4, <3>1 DEF ApplyModes
    <2>5. CASE OpenFile
      BY <2>5 DEF OpenFile
    <2>6. CASE Written
      BY <2>6 DEF Written
    <2>7. CASE OnSaved
      BY <2>7 DEF OnSaved
    <2> QED
      BY <1>7, <2>1, <2>2, <2>3, <2>4, <2>5, <2>6, <2>7 DEF Saving
  <1>8. CASE \E w \in Fetchers : OpenSettings(w)
    BY <1>8 DEF OpenSettings
  <1>9. CASE (\E w \in Fetchers : RefreshAccount(w) \/ Worker(w)) \/ CatalogChanges
    BY <1>9, ListsAreApart
  <1>10. CASE UNCHANGED settings
    BY <1>10 DEF settings
  <1> QED
    BY <1>1, <1>2, <1>3, <1>4, <1>5, <1>6, <1>7, <1>8, <1>9, <1>10 DEF SettingsNext

(* A field starts with what is saved and changes by typing.                *)
LEMMA FieldsTypedStep ==
    ASSUME SettingsTypeOK, Staged, FileKept, FormSaved, FieldsTyped, [SettingsNext]_settings
    PROVE  FieldsTyped'
  <1> USE DEF FieldsTyped, disk, live, view, lists, record
  <1>1. CASE Setup
    BY <1>1 DEF Staged, Setup, Start, DefaultsWritten, ReadToken, DialogSave, DialogOpensFile,
                DialogWritten, DialogFails
  <1>2. CASE End \/ Repair
    BY <1>2 DEF End, Ended, Repair
  <1>3. CASE MakeRoot \/ EnterMainloop \/ Close
    BY <1>3 DEF MakeRoot, EnterMainloop, Close
  <1>4. CASE BuildTabs
    <2>1. saving = "no" /\ (~refused => cfg.keys = saved.cfg.keys)
      BY <1>4 DEF BuildTabs, Staged, FileKept
    <2>2. \A m \in AllModes : m \notin shown' => cfg.keys[m] = Unset
      BY <1>4 DEF BuildTabs, ShownModes, Bound
    <2> QED
      BY <1>4, <2>1, <2>2 DEF BuildTabs
  <1>5. CASE EditOther
    <2>1. form'.keys = form.keys
      BY <1>5 DEF EditOther, Edit, SettingsTypeOK, Forms
    <2> QED
      BY <1>5, <2>1 DEF EditOther, Edit, Tk
  <1>6. ASSUME NEW n \in AllModes, NEW k \in KeyEntries, EditKey(n, k) PROVE FieldsTyped'
    <2>1. \A m \in AllModes : /\ form'.keys[m] = IF m = n THEN k ELSE form.keys[m]
                              /\ typed'[m] = IF m = n THEN k ELSE typed[m]
      BY <1>6 DEF EditKey, Edit, SettingsTypeOK, Forms
    <2> QED
      BY <1>6, <2>1 DEF EditKey, Edit, Tk
  <1>7. CASE Rebuild
    <2>1. window = "open" /\ saving = "no" /\ (~refused => cfg.keys = saved.cfg.keys)
      BY <1>7 DEF Rebuild, Tk, Staged, FileKept
    <2>2. \A m \in AllModes : form'.keys[m] = IF m \in shown \cap shown' THEN form.keys[m]
                                                                       ELSE cfg.keys[m]
      BY <1>7 DEF Rebuild, SettingsTypeOK, Forms
    <2>3. \A m \in AllModes : m \notin shown' => cfg.keys[m] = Unset
      BY <1>7 DEF Rebuild, ShownModes, Bound
    <2> QED
      BY <1>7, <2>1, <2>2, <2>3 DEF Rebuild
  <1>8. CASE Saving
    <2>1. CASE ClickSave
      <3>1. cfg'.keys = cfg.keys
        BY <2>1 DEF ClickSave, SettingsTypeOK, Configs
      <3> QED
        BY <2>1, <3>1 DEF ClickSave, Tk, Staged, FileKept
    <2>2. CASE SetToken \/ ApplyModes \/ OpenFile \/ OnSaved
      BY <2>2 DEF SetToken, ApplyModes, OpenFile, OnSaved
    <2>3. CASE SetTokenFails \/ ModesRefused \/ WriteFails
      BY <2>3 DEF SetTokenFails, ModesRefused, WriteFails, Refuse
    <2>4. CASE Written
      <3>1. saved'.cfg = cfg /\ HotkeysTaken
        BY <2>4 DEF Written, FormSaved
      <3> QED
        BY <2>4, <3>1 DEF Written, HotkeysTaken
    <2> QED
      BY <1>8, <2>1, <2>2, <2>3, <2>4 DEF Saving
  <1>9. CASE \E w \in Fetchers : OpenSettings(w)
    BY <1>9 DEF OpenSettings
  <1>10. CASE (\E w \in Fetchers : RefreshAccount(w) \/ Worker(w)) \/ CatalogChanges
    BY <1>10, ListsAreApart
  <1>11. CASE UNCHANGED settings
    BY <1>11 DEF settings
  <1> QED
    BY <1>1, <1>2, <1>3, <1>4, <1>5, <1>6, <1>7, <1>8, <1>9, <1>10, <1>11 DEF SettingsNext

(* A list that is news is followed by a rebuild, or is lost.               *)
LEMMA TabListedStep ==
    ASSUME SettingsTypeOK, Staged, TabListed, [SettingsNext]_settings
    PROVE  TabListed'
  <1> USE DEF TabListed, disk, live, view, lists, record
  <1>1. CASE Setup \/ Repair
    BY <1>1 DEF Setup, Start, DefaultsWritten, ReadToken, DialogSave, DialogOpensFile,
                DialogWritten, DialogFails, Repair
  <1>2. CASE End
    BY <1>2 DEF End, Ended
  <1>3. CASE MakeRoot \/ EnterMainloop \/ Close \/ EditOther
             \/ (\E m \in AllModes, k \in KeyEntries : EditKey(m, k))
    BY <1>3 DEF MakeRoot, EnterMainloop, Close, EditOther, EditKey, Edit
  <1>4. CASE BuildTabs \/ Rebuild
    BY <1>4 DEF BuildTabs, Rebuild, ShownModes
  <1>5. CASE Saving
    BY <1>5 DEF Saving, ClickSave, SetToken, SetTokenFails, ApplyModes, ModesRefused, OpenFile,
                WriteFails, Written, OnSaved, Refuse
  <1>6. ASSUME NEW w \in Fetchers, OpenSettings(w) PROVE TabListed'
    BY <1>6 DEF OpenSettings, Push, SettingsTypeOK
  <1>7. ASSUME NEW w \in Fetchers, RefreshAccount(w) \/ Fetched(w) \/ FetchFails(w) \/ Store(w) \/ ReadModes(w)
        PROVE  TabListed'
    BY <1>7 DEF RefreshAccount, Fetched, FetchFails, Store, ReadModes, At, SettingsTypeOK
  <1>8. ASSUME NEW w \in Fetchers, SetModes(w) PROVE TabListed'
    BY <1>8 DEF SetModes, At, SettingsTypeOK
  <1>9. ASSUME NEW w \in Fetchers, QueueRebuild(w) PROVE TabListed'
    BY <1>9 DEF QueueRebuild, At, SettingsTypeOK
  <1>10. CASE CatalogChanges
    BY <1>10 DEF CatalogChanges
  <1>11. CASE UNCHANGED settings
    BY <1>11 DEF settings
  <1> QED
    BY <1>1, <1>2, <1>3, <1>4, <1>5, <1>6, <1>7, <1>8, <1>9, <1>10, <1>11 DEF SettingsNext, Worker

LEMMA SettingsAlways == SettingsSpec => []SettingsInv
  <1>1. SettingsInv /\ [SettingsNext]_settings => SettingsInv'
    BY SettingsStepType, StagedStep, FileKeptStep, TokenKeptStep, FormSavedStep, FieldsTypedStep,
       TabListedStep DEF SettingsInv
  <1> QED
    BY SettingsInitInv, <1>1, PTL DEF SettingsSpec

(* Through refusals, failed writes, crashes and restarts, what was last    *)
(* saved is in force.                                                      *)
THEOREM LastSaveIsAlwaysInForce == SettingsSpec => []LastSaveIsInForce
  <1>1. SettingsInv => LastSaveIsInForce
    BY DEF SettingsInv, LastSaveIsInForce, FileKept, TokenKept
  <1> QED
    BY SettingsAlways, <1>1, PTL

(* Whatever is typed and whatever lists arrive: "Gespeichert." is true.    *)
THEOREM SavedAlwaysShowsTruth == SettingsSpec => []SavedShowsTruth
  <1>1. SettingsInv => SavedShowsTruth
    BY DEF SettingsInv, SavedShowsTruth, FormSaved, HotkeysTaken
  <1> QED
    BY SettingsAlways, <1>1, PTL

(* For every number of threads that hand over lists.                       *)
THEOREM TabAlwaysShowsModes == SettingsSpec => []TabShowsModes
  <1>1. SettingsInv => TabShowsModes
    BY DEF SettingsInv, TabShowsModes, TabListed, Tk
  <1> QED
    BY SettingsAlways, <1>1, PTL

(* A step that saves has the fields in the file.                           *)
LEMMA SavesWhatIsTyped ==
    ASSUME SettingsInv, [SettingsNext]_settings, phase = "on", ~refused,
           NEW m \in AllModes, saved'.cfg.keys[m] # saved.cfg.keys[m]
    PROVE  saved'.cfg.keys[m] = typed[m]
  <1>1. Written
    <2>1. CASE Setup \/ Repair
      BY <2>1 DEF Setup, Start, DefaultsWritten, ReadToken, DialogSave, DialogOpensFile,
                  DialogWritten, DialogFails, Repair, record
    <2>2. CASE \/ End \/ MakeRoot \/ BuildTabs \/ EnterMainloop \/ Close \/ Rebuild \/ EditOther
               \/ (\E n \in AllModes, k \in KeyEntries : EditKey(n, k))
      BY <2>2 DEF End, MakeRoot, BuildTabs, EnterMainloop, Close, Rebuild, EditOther, EditKey, Edit, record
    <2>3. CASE Saving
      BY <2>3 DEF Saving, ClickSave, SetToken, SetTokenFails, ApplyModes, ModesRefused, OpenFile,
                  WriteFails, OnSaved, Refuse, record
    <2>4. CASE \E w \in Fetchers : OpenSettings(w)
      BY <2>4 DEF OpenSettings, record
    <2>5. CASE (\E w \in Fetchers : RefreshAccount(w) \/ Worker(w)) \/ CatalogChanges
      BY <2>5, ListsAreApart DEF record
    <2>6. CASE UNCHANGED settings
      BY <2>6 DEF settings, record
    <2> QED
      BY <2>1, <2>2, <2>3, <2>4, <2>5, <2>6 DEF SettingsNext
  <1>2. window = "open" /\ saved'.cfg = cfg /\ HotkeysTaken
    BY <1>1 DEF Written, SettingsInv, Staged, FormSaved
  <1> QED
    BY <1>2 DEF SettingsInv, FieldsTyped, HotkeysTaken

(* No save removes or changes a hotkey on its own.                         *)
THEOREM HotkeysAlwaysChangeByTyping == SettingsSpec => HotkeysChangeByTyping
  <1>1. SettingsInv /\ [SettingsNext]_settings =>
           [phase = "on" /\ ~refused =>
              \A m \in AllModes : saved'.cfg.keys[m] # saved.cfg.keys[m]
                                    => saved'.cfg.keys[m] = typed[m]]_settings
    BY SavesWhatIsTyped
  <1> QED
    BY SettingsAlways, <1>1, PTL DEF SettingsSpec, HotkeysChangeByTyping

(* No step but typing changes a field that stays.                          *)
LEMMA FieldsStay ==
    ASSUME SettingsInv, [SettingsNext]_settings, window = "open", NEW m \in shown \cap shown'
    PROVE  form'.keys[m] \in {form.keys[m], typed'[m]}
  <1>1. SettingsTypeOK /\ Staged /\ m \in AllModes
    BY DEF SettingsInv, SettingsTypeOK
  <1>2. CASE Setup \/ Repair
    BY <1>2 DEF Setup, Start, DefaultsWritten, ReadToken, DialogSave, DialogOpensFile,
                DialogWritten, DialogFails, Repair, view
  <1>3. CASE End \/ MakeRoot \/ BuildTabs \/ EnterMainloop
    BY <1>3 DEF End, Ended, MakeRoot, BuildTabs, EnterMainloop
  <1>4. CASE EditOther \/ Close
    <2>1. form'.keys = form.keys
      BY <1>1, <1>4 DEF EditOther, Edit, Close, SettingsTypeOK, Forms
    <2> QED
      BY <2>1
  <1>5. ASSUME NEW n \in AllModes, NEW k \in KeyEntries, EditKey(n, k)
        PROVE  form'.keys[m] \in {form.keys[m], typed'[m]}
    BY <1>1, <1>5 DEF EditKey, Edit, SettingsTypeOK, Forms
  <1>6. CASE Rebuild
    BY <1>1, <1>6 DEF Rebuild
  <1>7. CASE Saving
    BY <1>7 DEF Saving, ClickSave, SetToken, SetTokenFails, ApplyModes, ModesRefused, OpenFile,
                WriteFails, Written, OnSaved, Refuse
  <1>8. CASE \E w \in Fetchers : OpenSettings(w)
    BY <1>8 DEF OpenSettings
  <1>9. CASE (\E w \in Fetchers : RefreshAccount(w) \/ Worker(w)) \/ CatalogChanges
    BY <1>9, ListsAreApart DEF view
  <1>10. CASE UNCHANGED settings
    BY <1>10 DEF settings, view
  <1> QED
    BY <1>2, <1>3, <1>4, <1>5, <1>6, <1>7, <1>8, <1>9, <1>10 DEF SettingsNext

(* Whatever list arrives, and whenever.                                    *)
THEOREM TypedIsAlwaysKept == SettingsSpec => TypedIsKept
  <1>1. SettingsInv /\ [SettingsNext]_settings =>
           [window = "open" =>
              \A m \in shown \cap shown' : form'.keys[m] \in {form.keys[m], typed'[m]}]_settings
    BY FieldsStay
  <1> QED
    BY SettingsAlways, <1>1, PTL DEF SettingsSpec, TypedIsKept
=============================================================================
