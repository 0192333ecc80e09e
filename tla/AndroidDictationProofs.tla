------------------------ MODULE AndroidDictationProofs ------------------------
(***************************************************************************)
(* For every number of files and modes and every length of a recording:    *)
(* one dictation at a time, its file there while it is needed and no       *)
(* longer, and the mode the user picked.                                   *)
(***************************************************************************)
EXTENDS AndroidDictation, FiniteSetTheorems, TLAPS

USE AndroidAssumption

(***************************************************************************)
(* Types.  Only the state of the view model needs work: a field that is    *)
(* given a value of its kind leaves it one.                                *)
(***************************************************************************)
States == [screen: Screens, recording: BOOLEAN, elapsedSec: 0..MAX_RECORD_SEC,
           uploading: BOOLEAN, error: BOOLEAN, authError: BOOLEAN,
           enabled: SUBSET Modes, selectedMode: Modes]

Shots == [screen: Screens, recording: BOOLEAN, uploading: BOOLEAN, busy: BOOLEAN]

LEMMA ZeroIs == 0 \in 0..MAX_RECORD_SEC
  OBVIOUS

LEMMA StateChanges ==
  ASSUME NEW x \in States
  PROVE  /\ \A v \in Screens : [x EXCEPT !.screen = v] \in States
         /\ \A v \in BOOLEAN : /\ [x EXCEPT !.recording = v] \in States
                               /\ [x EXCEPT !.uploading = v] \in States
                               /\ [x EXCEPT !.error = v] \in States
                               /\ [x EXCEPT !.authError = v] \in States
         /\ \A v \in 0..MAX_RECORD_SEC : [x EXCEPT !.elapsedSec = v] \in States
         /\ \A v \in SUBSET Modes : [x EXCEPT !.enabled = v] \in States
         /\ \A v \in Modes : [x EXCEPT !.selectedMode = v] \in States
  BY DEF States

(* A recording begins or ends.                                             *)
LEMMA ResetIs ==
  ASSUME NEW x \in States, NEW on \in BOOLEAN
  PROVE  [x EXCEPT !.recording = on, !.elapsedSec = 0] \in States
  <1> DEFINE y == [x EXCEPT !.recording = on]
  <1>1. y \in States
    BY StateChanges
  <1>2. [x EXCEPT !.recording = on, !.elapsedSec = 0] = [y EXCEPT !.elapsedSec = 0]
    BY DEF States
  <1> HIDE DEF y
  <1>3. QED
    BY <1>1, <1>2, ZeroIs, StateChanges

(* The hints of errors are taken away.                                     *)
LEMMA NoErrorIs ==
  ASSUME NEW x \in States
  PROVE  [x EXCEPT !.error = FALSE, !.authError = FALSE] \in States
  <1> DEFINE y == [x EXCEPT !.error = FALSE]
  <1>1. y \in States
    BY StateChanges
  <1>2. [x EXCEPT !.error = FALSE, !.authError = FALSE] = [y EXCEPT !.authError = FALSE]
    BY DEF States
  <1> HIDE DEF y
  <1>3. QED
    BY <1>1, <1>2, StateChanges

LEMMA FreshIs ==
  ASSUME NEW token \in BOOLEAN
  PROVE  /\ Fresh(token) \in States
         /\ Fresh(token).screen \in {"MAIN", "SETUP"}
         /\ ~Fresh(token).recording /\ ~Fresh(token).uploading
  <1>1. (CHOOSE m \in Modes : TRUE) \in Modes
    OBVIOUS
  <1>2. QED
    BY <1>1 DEF Fresh, States, Screens

LEMMA ViewIs == ui \in States => View \in Shots
  <1> SUFFICES ASSUME ui \in States PROVE View \in Shots
    OBVIOUS
  <1>1. (jobs \cap {"probe", "console"} # {}) \in BOOLEAN
    OBVIOUS
  <1>2. QED
    BY <1>1 DEF View, States, Shots

LEMMA InitTypeOK == Init => TypeOK
  <1> SUFFICES ASSUME Init PROVE TypeOK
    OBVIOUS
  <1>1. hasToken \in BOOLEAN /\ ui = Fresh(hasToken) /\ ui \in States
    BY FreshIs DEF Init
  <1>2. shown \in Shots
    BY <1>1, ViewIs DEF Init
  <1>3. picked \in Modes
    BY <1>1 DEF Init, States
  <1>4. QED
    BY <1>1, <1>2, <1>3 DEF Init, TypeOK, States, Shots, Jobs

LEMMA StepUi ==
  ASSUME TypeOK, [Next]_vars
  PROVE  ui' \in States
  <1>1. ui \in States
    BY DEF TypeOK, States
  <1> USE DEF States, Screens
  <1>2. CASE TapStart \/ TapDenied
    <2> DEFINE reset == [ui EXCEPT !.recording = TRUE, !.elapsedSec = 0]
    <2>1. reset \in States
      BY <1>1, ResetIs
    <2>2. \/ ui' = [reset EXCEPT !.error = FALSE, !.authError = FALSE]
          \/ ui' = [ui EXCEPT !.error = TRUE]
      BY <1>1, <1>2 DEF TapStart, TapDenied
    <2> HIDE DEF reset, States
    <2>3. QED
      BY <1>1, <2>1, <2>2, NoErrorIs, StateChanges
  <1>3. CASE StopAndUpload
    <2> DEFINE reset == [ui EXCEPT !.recording = FALSE, !.elapsedSec = 0]
               sent  == [reset EXCEPT !.uploading = TRUE]
    <2>2. \/ ui' = [reset EXCEPT !.error = TRUE]
          \/ ui' = [sent EXCEPT !.error = FALSE, !.authError = FALSE]
      BY <1>1, <1>3 DEF StopAndUpload
    <2> HIDE DEF States
    <2>3. reset \in States
      BY <1>1, ResetIs
    <2> HIDE DEF reset
    <2>4. sent \in States
      BY <2>3, StateChanges
    <2> HIDE DEF sent
    <2>5. QED
      BY <2>2, <2>3, <2>4, NoErrorIs, StateChanges
  <1>4. CASE Second /\ ~StopAndUpload
    <2>1. timers \in 0..1
      BY DEF TypeOK
    <2>2. ui' = ui \/ (ui' = [ui EXCEPT !.elapsedSec = ui.elapsedSec + timers]
                       /\ (ui.elapsedSec + timers < MAX_RECORD_SEC \/ timers = 0))
      BY <1>4, <2>1, <1>1 DEF Second
    <2>3. QED
      BY <1>1, <2>1, <2>2
  <1>5. ASSUME NEW u \in uploads, UploadSucceeds(u)
        PROVE  ui' \in States
    BY <1>1, <1>5 DEF UploadSucceeds
  <1>6. ASSUME NEW u \in uploads, NEW status, NEW code, UploadFails(u, status, code)
        PROVE  ui' \in States
    BY <1>1, <1>6 DEF UploadFails
  <1>7. CASE OpenSettings \/ CloseSettings \/ CloseConsole \/ OpenSettingsFromSnackbar
             \/ ClearError \/ SetupSucceeds \/ ConsoleReady
    BY <1>1, <1>7 DEF OpenSettings, CloseSettings, CloseConsole, Go, OpenSettingsFromSnackbar,
           ClearError, SetupSucceeds, ConsoleReady
  <1>13. CASE NewDictation
    <2> DEFINE main == [ui EXCEPT !.screen = "MAIN"]
               calm == [main EXCEPT !.error = FALSE]
    <2>2. ui' = [calm EXCEPT !.elapsedSec = 0]
      BY <1>1, <1>13 DEF NewDictation
    <2> HIDE DEF States
    <2>3. main \in States
      BY <1>1, StateChanges
    <2> HIDE DEF main
    <2>4. calm \in States
      BY <2>3, StateChanges
    <2> HIDE DEF calm
    <2>5. QED
      BY <2>2, <2>4, ZeroIs, StateChanges
  <1>8. ASSUME NEW m \in Modes, SelectMode(m)
        PROVE  ui' \in States
    BY <1>1, <1>8 DEF SelectMode
  <1>9. ASSUME NEW enabled \in SUBSET Modes, ModesArrive(enabled)
        PROVE  ui' \in States
    <2>1. PICK m \in Selected(ui.selectedMode, enabled) :
             ui' = [ui EXCEPT !.enabled = enabled, !.selectedMode = m]
      BY <1>9 DEF ModesArrive
    <2>2. m \in Modes
      BY <1>1, <2>1 DEF Selected
    <2>3. QED
      BY <1>1, <2>1, <2>2
  <1>10. CASE Over
    BY <1>10, FreshIs DEF Over, TypeOK
  <1>11. CASE UNCHANGED ui
    BY <1>1, <1>11
  <1>12. QED
    BY <1>2, <1>3, <1>4, <1>5, <1>6, <1>7, <1>8, <1>9, <1>10, <1>11, <1>13
       DEF Next, vars, TapStop, OrphanEnds, DeleteFile, Frame, TestConnection, TestSettings,
           OpenConsole, SaveSettings, Ask, NothingMore, Finish, Kill, Open

(* A coroutine that goes on to its finally keeps its file.                 *)
LEMMA ReturnIs ==
  ASSUME NEW u \in uploads, uploads \subseteq Uploads, Returns(u)
  PROVE  \E d \in Uploads : /\ uploads' = (uploads \ {u}) \cup {d}
                            /\ d.file = u.file /\ d.stage = "delete"
  <1> DEFINE d == [u EXCEPT !.stage = "delete"]
  <1>1. d \in Uploads /\ d.file = u.file /\ d.stage = "delete"
    BY DEF Uploads
  <1>2. uploads' = (uploads \ {u}) \cup {d}
    BY DEF Returns
  <1> HIDE DEF d
  <1>3. QED
    BY <1>1, <1>2

(* The end of a view model leaves its calls to themselves.                 *)
LEMMA FinishIs ==
  ASSUME uploads \subseteq Uploads, Finish
  PROVE  /\ uploads' \subseteq Uploads
         /\ \A v \in uploads' : v.stage # "call"
         /\ \A v \in uploads' : \E u \in uploads : u.file = v.file
         /\ \A u \in uploads : \E v \in uploads' : v.file = u.file
         /\ (\A u, v \in uploads : u.file = v.file => u = v) =>
               \A u, v \in uploads' : u.file = v.file => u = v
  <1> DEFINE g(u) == IF u.stage = "call" THEN [u EXCEPT !.stage = "orphan"] ELSE u
  <1>1. \A u \in uploads : g(u) \in Uploads /\ g(u).file = u.file /\ g(u).stage # "call"
    BY DEF Uploads
  <1>2. uploads' = {g(u) : u \in uploads}
    BY DEF Finish
  <1> HIDE DEF g
  <1>3. QED
    BY <1>1, <1>2

(***************************************************************************)
(* Kinds of steps, by what they do to a dictation.                         *)
(***************************************************************************)
Quiet ==
    /\ UNCHANGED <<alive, shown, recorder, timers, uploads, seconds>>
    /\ ui'.recording = ui.recording /\ ui'.uploading = ui.uploading
    /\ ui'.elapsedSec = ui.elapsedSec
    /\ ui'.screen = "RESULT" => ui.screen = "RESULT"

Calm == Quiet /\ UNCHANGED <<files, left>>

\* No MediaRecorder could be made.
Breaks == Quiet /\ \E f \in NewFile : files' = files \cup {f} /\ left' = left \cup {f}

Starts == TapStart /\ ui'.recording

Counts == Second /\ ~(ui.recording /\ StopAndUpload)

Stops == Running /\ ui.recording /\ StopAndUpload

Fails(u) == \E status, code : UploadFails(u, status, code)

LEMMA StepKinds ==
  ASSUME TypeOK, [Next]_vars
  PROVE  \/ Calm \/ Breaks \/ Starts \/ Counts \/ Stops \/ NewDictation \/ Frame
         \/ \E u \in uploads : UploadSucceeds(u) \/ Fails(u) \/ OrphanEnds(u) \/ DeleteFile(u)
         \/ Finish \/ Kill \/ Open
  <1>1. ui \in States
    BY DEF TypeOK, States
  <1>2. CASE TapStart
    <2>1. CASE ui' = [ui EXCEPT !.error = TRUE] /\ UNCHANGED <<recorder, timers, seconds>>
      <3>1. Quiet
        BY <1>1, <1>2, <2>1 DEF TapStart, Quiet, States
      <3>2. \/ \E f \in NewFile : files' = files \cup {f} /\ left' = left \cup {f}
            \/ UNCHANGED <<files, left>>
        <4>1. ~ui.recording
          BY <1>2 DEF TapStart
        <4>2. ui' # [ui EXCEPT !.recording = TRUE, !.elapsedSec = 0,
                               !.error = FALSE, !.authError = FALSE]
          BY <1>1, <2>1, <4>1 DEF States
        <4>3. QED
          BY <1>2, <4>2 DEF TapStart
      <3>3. QED
        BY <3>1, <3>2 DEF Calm, Breaks
    <2>2. CASE ui' = [ui EXCEPT !.recording = TRUE, !.elapsedSec = 0,
                                !.error = FALSE, !.authError = FALSE]
      BY <1>1, <1>2, <2>2 DEF Starts, States
    <2>3. QED
      BY <1>2, <2>1, <2>2 DEF TapStart
  <1>3. CASE TapDenied \/ OpenSettingsFromSnackbar \/ ClearError
    BY <1>1, <1>3 DEF TapDenied, OpenSettingsFromSnackbar, ClearError, Calm, Quiet, States
  <1>4. CASE OpenSettings \/ CloseSettings \/ CloseConsole
    BY <1>1, <1>4 DEF OpenSettings, CloseSettings, CloseConsole, Go, Calm, Quiet, States
  <1>5. CASE SetupSucceeds \/ ConsoleReady
    BY <1>1, <1>5 DEF SetupSucceeds, ConsoleReady, Calm, Quiet, States
  <1>6. ASSUME NEW m \in Modes, SelectMode(m)
        PROVE  Calm
    BY <1>1, <1>6 DEF SelectMode, Calm, Quiet, States
  <1>7. ASSUME NEW enabled \in SUBSET Modes, ModesArrive(enabled)
        PROVE  Calm
    BY <1>1, <1>7 DEF ModesArrive, Calm, Quiet, States
  <1>8. CASE TestConnection \/ TestSettings \/ OpenConsole \/ SaveSettings
    BY <1>8 DEF TestConnection, TestSettings, OpenConsole, SaveSettings, Ask, Calm, Quiet
  <1>9. ASSUME NEW job \in Jobs, NothingMore(job)
        PROVE  Calm
    BY <1>9 DEF NothingMore, Calm, Quiet
  <1>10. CASE UNCHANGED vars
    BY <1>10 DEF vars, Calm, Quiet
  <1>11. CASE TapStop \/ Second
    BY <1>11 DEF TapStop, Second, Stops, Counts
  <1>12. ASSUME NEW u \in uploads,
                \E status \in {0, 401, 500}, code \in {"http_error", "timeout", "auth_failed"} :
                   UploadFails(u, status, code)
         PROVE  Fails(u)
    BY <1>12, Zenon DEF Fails
  <1>13. QED
    BY <1>2, <1>3, <1>4, <1>5, <1>6, <1>7, <1>8, <1>9, <1>10, <1>11, <1>12, Zenon DEF Next

(* What is not of the dictation itself.                                    *)
LEMMA StepRest ==
  ASSUME TypeOK, [Next]_vars
  PROVE  /\ hasToken' \in BOOLEAN /\ jobs' \subseteq Jobs /\ picked' \in Modes \cup {None}
         /\ left' \subseteq Files
  <1> DEFINE P == /\ hasToken' \in BOOLEAN /\ jobs' \subseteq Jobs
                  /\ picked' \in Modes \cup {None}
                  /\ left' \subseteq Files
  <1>1. /\ hasToken \in BOOLEAN /\ jobs \subseteq Jobs /\ picked \in Modes \cup {None}
        /\ left \subseteq Files
    BY DEF TypeOK
  <1>2. CASE UNCHANGED <<jobs, hasToken, left, picked>>
    BY <1>1, <1>2
  <1>3. CASE TapDenied \/ TapStop \/ Second \/ ClearError
    BY <1>2, <1>3 DEF TapDenied, TapStop, Second, StopAndUpload, ClearError
  <1>a. CASE TapStart
    <2>1. left' = left \/ \E f \in Files : left' = left \cup {f}
      BY <1>a DEF TapStart, NewFile
    <2>2. UNCHANGED <<jobs, hasToken, picked>>
      BY <1>a DEF TapStart
    <2>3. QED
      BY <1>1, <2>1, <2>2
  <1>4. ASSUME NEW u \in uploads,
               \/ UploadSucceeds(u)
               \/ \E status \in {0, 401, 500}, code \in {"http_error", "timeout", "auth_failed"} :
                     UploadFails(u, status, code)
               \/ OrphanEnds(u)
               \/ DeleteFile(u)
        PROVE  P
    BY <1>1, <1>4 DEF UploadSucceeds, UploadFails, OrphanEnds, DeleteFile
  <1>5. CASE OpenSettings \/ CloseSettings \/ CloseConsole
    BY <1>1, <1>5 DEF OpenSettings, CloseSettings, CloseConsole, Go
  <1>6. CASE NewDictation \/ OpenSettingsFromSnackbar \/ Frame
    BY <1>1, <1>6 DEF NewDictation, OpenSettingsFromSnackbar, Frame
  <1>7. ASSUME NEW m \in Modes, SelectMode(m)
        PROVE  P
    BY <1>1, <1>7 DEF SelectMode
  <1>8. CASE TestConnection \/ TestSettings \/ OpenConsole \/ SaveSettings
    BY <1>1, <1>8 DEF TestConnection, TestSettings, OpenConsole, SaveSettings, Ask, Jobs
  <1>9. CASE SetupSucceeds \/ ConsoleReady
    BY <1>1, <1>9 DEF SetupSucceeds, ConsoleReady, Jobs
  <1>10. ASSUME NEW enabled \in SUBSET Modes, ModesArrive(enabled)
         PROVE  P
    BY <1>1, <1>10 DEF ModesArrive
  <1>11. ASSUME NEW job \in Jobs, NothingMore(job)
         PROVE  P
    BY <1>1, <1>11 DEF NothingMore
  <1>12. CASE Finish \/ Kill
    <2>1. picked' = Fresh(hasToken).selectedMode /\ jobs' = {} /\ left' = left
          /\ hasToken' = hasToken
      BY <1>12 DEF Finish, Kill, Over
    <2>2. Fresh(hasToken).selectedMode \in Modes
      BY <1>1, FreshIs DEF States
    <2>3. QED
      BY <1>1, <2>1, <2>2
  <1>13. CASE Open
    BY <1>1, <1>13 DEF Open, Jobs
  <1>14. CASE UNCHANGED vars
    BY <1>2, <1>14 DEF vars
  <1>15. QED
    <2>1. CASE Next
      <3> HIDE DEF P
      <3>1. P
        BY <1>a, <1>3, <1>4, <1>5, <1>6, <1>7, <1>8, <1>9, <1>10, <1>11, <1>12, <1>13, <2>1
           DEF Next, P
      <3>2. QED
        BY <3>1 DEF P
    <2>2. QED
      BY <1>14, <2>1

LEMMA StepTypeOK ==
  ASSUME TypeOK, ui.recording <=> recorder # None, [Next]_vars
  PROVE  TypeOK'
  <1>1. ui' \in States
    BY StepUi
  <1>2. shown' \in Shots
    <2>1. shown \in Shots /\ ui \in States
      BY DEF TypeOK, Shots, States
    <2>2. CASE Frame
      BY <2>1, <2>2, ViewIs DEF Frame
    <2>3. CASE Over
      BY <2>3, FreshIs DEF Over, Shots, Screens, TypeOK
    <2>4. CASE UNCHANGED shown
      BY <2>1, <2>4
    <2>5. QED
      BY <2>2, <2>3, <2>4, StepKinds, Zenon DEF Calm, Breaks, Quiet, Starts, TapStart, Counts, Second, Stops,
             StopAndUpload, NewDictation, UploadSucceeds, Fails, UploadFails, OrphanEnds,
             DeleteFile, Finish, Kill, Open
  <1>3. alive' \in {"running", "cleared", "dead"}
    <2>1. alive \in {"running", "cleared", "dead"}
      BY DEF TypeOK
    <2>2. QED
      BY <2>1, StepKinds DEF Calm, Breaks, Quiet, Starts, TapStart, Counts, Second, Stops, StopAndUpload,
             NewDictation, Frame, UploadSucceeds, Fails, UploadFails, OrphanEnds, DeleteFile,
             Finish, Kill, Open
  <1>4. /\ recorder' \in Files \cup {None} /\ files' \subseteq Files
        /\ timers' \in 0..1 /\ seconds' \in 0..MAX_RECORD_SEC + 1
        /\ uploads' \subseteq Uploads
    <2>1. /\ recorder \in Files \cup {None} /\ files \subseteq Files
          /\ timers \in 0..1 /\ seconds \in 0..MAX_RECORD_SEC + 1
          /\ uploads \subseteq Uploads
      BY DEF TypeOK
    <2>2. CASE Calm \/ NewDictation \/ Frame \/ Open
      BY <2>1, <2>2 DEF Calm, Quiet, NewDictation, Frame, Open
    <2>a. CASE Breaks
      BY <2>1, <2>a DEF Breaks, Quiet, NewFile
    <2>3. CASE Starts
      <3>1. PICK f \in Files : /\ recorder' = f /\ files' = files \cup {f}
                               /\ timers' = 1 /\ seconds' = 0 /\ uploads' = uploads
        BY <2>1, <2>3 DEF Starts, TapStart, NewFile, StartTimer, TimersCancelled, TypeOK, States
      <3>2. QED
        BY <2>1, <3>1
    <2>4. CASE Counts
      BY <2>1, <2>4 DEF Counts, Second
    <2>5. CASE Stops
      <3>1. recorder \in Files
        BY <2>1, <2>5 DEF Stops
      <3>2. [file |-> recorder, stage |-> "call"] \in Uploads
        BY <3>1 DEF Uploads
      <3>3. /\ recorder' = None /\ timers' = 0 /\ seconds' = 0
            /\ files' \subseteq files
            /\ uploads' \subseteq uploads \cup {[file |-> recorder, stage |-> "call"]}
        BY <2>5 DEF Stops, StopAndUpload, TimersCancelled
      <3>4. timers' \in 0..1 /\ seconds' \in 0..MAX_RECORD_SEC + 1
        BY <3>3
      <3>5. recorder' \in Files \cup {None} /\ files' \subseteq Files
        BY <2>1, <3>3
      <3>6. uploads' \subseteq Uploads
        BY <2>1, <3>2, <3>3
      <3>7. QED
        BY <3>4, <3>5, <3>6
    <2>6. ASSUME NEW u \in uploads,
                 UploadSucceeds(u) \/ Fails(u) \/ OrphanEnds(u) \/ DeleteFile(u)
          PROVE  /\ uploads' \subseteq Uploads /\ files' \subseteq files
                 /\ UNCHANGED <<recorder, timers, seconds>>
      <3>1. CASE DeleteFile(u)
        BY <2>1, <3>1 DEF DeleteFile
      <3>2. CASE ~DeleteFile(u)
        <4>1. Returns(u) /\ files' = files /\ UNCHANGED <<recorder, timers, seconds>>
          BY <2>6, <3>2 DEF UploadSucceeds, Fails, UploadFails, OrphanEnds
        <4>2. QED
          BY <2>1, <4>1, ReturnIs
      <3>3. QED
        BY <3>1, <3>2
    <2>7. CASE Finish \/ Kill
      <3>1. uploads' \subseteq Uploads
        BY <2>1, <2>7, FinishIs DEF Kill
      <3>2. QED
        BY <2>1, <2>7, <3>1 DEF Finish, Kill, Over
    <2>8. QED
      BY <2>1, <2>2, <2>3, <2>4, <2>5, <2>6, <2>7, <2>a, StepKinds
  <1>5. /\ hasToken' \in BOOLEAN /\ jobs' \subseteq Jobs /\ picked' \in Modes \cup {None}
        /\ left' \subseteq Files
    BY StepRest
  <1>6. QED
    BY <1>1, <1>2, <1>3, <1>4, <1>5 DEF TypeOK, States, Shots

(***************************************************************************)
(* One dictation.  The microphone is open only for a recording with its    *)
(* timer, and never on the screen of a result, from which the counter can  *)
(* be set back.                                                            *)
(***************************************************************************)
OneAtATime ==
    /\ ui.recording <=> recorder # None
    /\ ui.uploading <=> \E u \in uploads : u.stage = "call"
    /\ ~(ui.recording /\ ui.uploading)
    /\ \A u, v \in uploads : u.stage = "call" /\ v.stage = "call" => u = v
    /\ ui.recording => /\ timers = 1
                       /\ ui.elapsedSec = seconds /\ seconds < MAX_RECORD_SEC

NoResult ==
    /\ ui.recording => ui.screen # "RESULT" /\ shown.screen # "RESULT"
    /\ ui.screen = "RESULT" => shown.uploading \/ shown.screen # "MAIN"

Dictating == TypeOK /\ OneAtATime /\ NoResult

(* What a recording's start and end make of it.                            *)
LEMMA StepOneAtATime ==
  ASSUME Dictating, [Next]_vars
  PROVE  OneAtATime'
  <1> USE DEF OneAtATime
  <1>1. /\ ui \in States /\ timers \in 0..1 /\ seconds \in 0..MAX_RECORD_SEC + 1
        /\ uploads \subseteq Uploads
        /\ recorder \in Files \cup {None} /\ hasToken \in BOOLEAN
    BY DEF Dictating, TypeOK, States
  <1>2. OneAtATime /\ NoResult
    BY DEF Dictating
  <1>3. CASE Calm \/ Breaks
    BY <1>2, <1>3 DEF Calm, Breaks, Quiet
  <1>4. CASE Starts
    <2>1. ~ui.recording /\ ~ui.uploading /\ uploads' = uploads
      BY <1>4 DEF Starts, TapStart
    <2>2. ui' # [ui EXCEPT !.error = TRUE]
      BY <1>1, <1>4, <2>1 DEF Starts, States
    <2>3. /\ recorder' \in Files /\ timers' = 1 /\ seconds' = 0
          /\ ui' = [ui EXCEPT !.recording = TRUE, !.elapsedSec = 0,
                              !.error = FALSE, !.authError = FALSE]
      BY <1>4, <2>2 DEF Starts, TapStart, StartTimer, TimersCancelled, NewFile
    <2>4. ui'.recording /\ ui'.elapsedSec = 0 /\ ui'.uploading = ui.uploading
      BY <1>1, <2>3 DEF States
    <2>5. QED
      BY <1>2, <2>1, <2>3, <2>4
  <1>5. CASE Stops
    <2>1. /\ recorder' = None /\ ~ui'.recording /\ ui.recording
          /\ \/ uploads' = uploads /\ ui'.uploading = ui.uploading
             \/ /\ uploads' = uploads \cup {[file |-> recorder, stage |-> "call"]}
                /\ ui'.uploading = TRUE
      BY <1>1, <1>5 DEF Stops, StopAndUpload, States
    <2>2. \A u \in uploads : u.stage # "call"
      BY <1>2, <2>1
    <2>3. CASE uploads' = uploads /\ ui'.uploading = ui.uploading
      BY <1>2, <2>1, <2>2, <2>3
    <2>4. CASE /\ uploads' = uploads \cup {[file |-> recorder, stage |-> "call"]}
               /\ ui'.uploading = TRUE
      <3> DEFINE new == [file |-> recorder, stage |-> "call"]
      <3>1. new.stage = "call" /\ uploads' = uploads \cup {new}
        BY <2>4
      <3> HIDE DEF new
      <3>2. QED
        BY <2>1, <2>2, <2>4, <3>1
    <2>5. QED
      BY <2>1, <2>3, <2>4
  <1>6. CASE Counts
    <2>1. UNCHANGED <<recorder, uploads>>
      BY <1>6 DEF Counts, Second
    <2>2. ui'.recording = ui.recording /\ ui'.uploading = ui.uploading
      BY <1>1, <1>6 DEF Counts, Second, States
    <2>3. ASSUME ui.recording
          PROVE  timers' = 1 /\ ui'.elapsedSec = seconds' /\ seconds' < MAX_RECORD_SEC
      <3>1. timers = 1 /\ ui.elapsedSec = seconds /\ seconds < MAX_RECORD_SEC /\ recorder # None
        BY <1>2, <2>3
      <3>2. ~(ui.elapsedSec + timers >= MAX_RECORD_SEC)
        BY <1>6, <2>3, <3>1 DEF Counts, Second
      <3>3. ui' = [ui EXCEPT !.elapsedSec = ui.elapsedSec + timers] /\ timers' = timers
            /\ seconds' = IF recorder = None \/ seconds > MAX_RECORD_SEC
                          THEN seconds ELSE seconds + 1
        BY <1>6, <2>3, <3>1, <3>2 DEF Counts, Second
      <3>4. ui'.elapsedSec = ui.elapsedSec + 1
        BY <1>1, <3>1, <3>3 DEF States
      <3>5. QED
        BY <1>1, <3>1, <3>2, <3>3, <3>4
    <2>4. QED
      BY <1>2, <2>1, <2>2, <2>3
  <1>7. CASE NewDictation
    <2>1. ui'.recording = ui.recording /\ ui'.uploading = ui.uploading /\ ~ui.recording
      BY <1>1, <1>2, <1>7 DEF NewDictation, NoResult, States
    <2>2. QED
      BY <1>2, <1>7, <2>1 DEF NewDictation
  <1>8. CASE Frame \/ Open
    BY <1>2, <1>8 DEF Frame, Open
  <1>9. ASSUME NEW u \in uploads, UploadSucceeds(u) \/ Fails(u)
        PROVE  OneAtATime'
    <2>1. /\ u.stage = "call" /\ Returns(u) /\ recorder' = recorder
          /\ ~ui'.uploading /\ ui'.recording = ui.recording
      BY <1>1, <1>9 DEF UploadSucceeds, Fails, UploadFails, States
    <2>2. PICK d \in Uploads : uploads' = (uploads \ {u}) \cup {d} /\ d.stage = "delete"
      BY <1>1, <2>1, ReturnIs
    <2>3. ~ui.recording /\ \A v \in uploads' : v.stage # "call"
      BY <1>2, <2>1, <2>2
    <2>4. QED
      BY <1>2, <2>1, <2>3
  <1>10. ASSUME NEW u \in uploads, OrphanEnds(u)
         PROVE  OneAtATime'
    <2>1. /\ u.stage = "orphan" /\ Returns(u)
          /\ UNCHANGED <<recorder, ui, timers, seconds>>
      BY <1>10 DEF OrphanEnds
    <2>2. PICK d \in Uploads : uploads' = (uploads \ {u}) \cup {d} /\ d.stage = "delete"
      BY <1>1, <2>1, ReturnIs
    <2>3. \A v : v \in uploads' /\ v.stage = "call" <=> v \in uploads /\ v.stage = "call"
      BY <2>1, <2>2
    <2>4. QED
      BY <1>2, <2>1, <2>3
  <1>a. ASSUME NEW u \in uploads, DeleteFile(u)
        PROVE  OneAtATime'
    <2>1. \A v : v \in uploads' /\ v.stage = "call" <=> v \in uploads /\ v.stage = "call"
      BY <1>a DEF DeleteFile
    <2>2. UNCHANGED <<recorder, ui, timers, seconds>>
      BY <1>a DEF DeleteFile
    <2>3. QED
      BY <1>2, <2>1, <2>2
  <1>11. CASE Finish \/ Kill
    <2>1. /\ recorder' = None /\ ~ui'.recording /\ ~ui'.uploading
      BY <1>1, <1>11, FreshIs DEF Finish, Kill, Over
    <2>2. \A v \in uploads' : v.stage # "call"
      BY <1>1, <1>11, FinishIs DEF Kill
    <2>3. QED
      BY <2>1, <2>2
  <1>12. QED
    BY <1>3, <1>4, <1>5, <1>6, <1>7, <1>8, <1>9, <1>10, <1>11, <1>a, StepKinds DEF Dictating

LEMMA StepNoResult ==
  ASSUME Dictating, [Next]_vars
  PROVE  NoResult'
  <1> USE DEF NoResult
  <1>1. ui \in States /\ hasToken \in BOOLEAN
    BY DEF Dictating, TypeOK, States
  <1>2. OneAtATime /\ NoResult
    BY DEF Dictating
  <1>3. CASE Calm \/ Breaks
    BY <1>2, <1>3 DEF Calm, Breaks, Quiet
  <1>4. CASE Starts
    BY <1>1, <1>2, <1>4 DEF Starts, TapStart, States
  <1>5. CASE Stops
    <2>1. ~ui'.recording /\ ui'.screen = ui.screen /\ shown' = shown
      BY <1>1, <1>5 DEF Stops, StopAndUpload, States
    <2>2. QED
      BY <1>2, <2>1
  <1>6. CASE Counts
    <2>1. ui'.recording = ui.recording /\ ui'.screen = ui.screen /\ shown' = shown
      BY <1>1, <1>6 DEF Counts, Second, States
    <2>2. QED
      BY <1>2, <2>1
  <1>7. CASE NewDictation
    BY <1>1, <1>2, <1>7 DEF NewDictation, States
  <1>8. CASE Frame
    BY <1>1, <1>2, <1>8 DEF Frame, View
  <1>9. ASSUME NEW u \in uploads, UploadSucceeds(u)
        PROVE  NoResult'
    <2>1. /\ u.stage = "call" /\ shown' = shown /\ shown.uploading = ui.uploading
          /\ ui'.recording = ui.recording
      BY <1>1, <1>9 DEF UploadSucceeds, UpToDate, View, States
    <2>2. ui.uploading /\ ~ui.recording
      BY <1>2, <2>1 DEF OneAtATime
    <2>3. QED
      BY <2>1, <2>2
  <1>10. ASSUME NEW u \in uploads, Fails(u) \/ OrphanEnds(u) \/ DeleteFile(u)
         PROVE  NoResult'
    <2>1. ui'.recording = ui.recording /\ ui'.screen = ui.screen /\ shown' = shown
      BY <1>1, <1>10 DEF Fails, UploadFails, OrphanEnds, DeleteFile, States
    <2>2. QED
      BY <1>2, <2>1
  <1>11. CASE Finish \/ Kill
    BY <1>1, <1>11, FreshIs DEF Finish, Kill, Over
  <1>12. CASE Open
    BY <1>2, <1>12 DEF Open
  <1>13. QED
    BY <1>3, <1>4, <1>5, <1>6, <1>7, <1>8, <1>9, <1>10, <1>11, <1>12, StepKinds DEF Dictating

LEMMA AlwaysDictating == Spec => []Dictating
  <1>1. Init => Dictating
    <2> SUFFICES ASSUME Init PROVE Dictating
      OBVIOUS
    <2>1. TypeOK
      BY InitTypeOK
    <2>2. ui.screen \in {"MAIN", "SETUP"} /\ ~ui.recording /\ ~ui.uploading
      BY FreshIs DEF Init
    <2>3. OneAtATime /\ NoResult
      BY <2>2 DEF Init, OneAtATime, NoResult
    <2>4. QED
      BY <2>1, <2>3 DEF Dictating
  <1>2. Dictating /\ [Next]_vars => Dictating'
    BY StepTypeOK, StepOneAtATime, StepNoResult DEF Dictating, OneAtATime
  <1>3. QED
    BY <1>1, <1>2, PTL DEF Spec

(* Every variable of the client keeps its type.                            *)
THEOREM AndroidTypeCorrect == Spec => []TypeOK
  BY AlwaysDictating, PTL DEF Dictating

(* The microphone, the calls of /full and what the screen says of them     *)
(* agree, and there is one dictation at a time, below its limit.           *)
THEOREM OneDictationAlways == Spec => []OneDictation
  <1>1. Dictating => OneDictation
    <2> SUFFICES ASSUME Dictating PROVE OneDictation
      OBVIOUS
    <2> DEFINE L == {u \in uploads : u.stage = "call"}
    <2>1. L = {} \/ \E u : L = {u}
      BY DEF Dictating, OneAtATime
    <2> HIDE DEF L
    <2>2. Cardinality(L) <= 1
      <3>1. Cardinality({}) = 0
        BY FS_EmptySet
      <3>2. \A u : Cardinality({u}) = 1
        BY FS_Singleton
      <3>3. Cardinality(L) = 0 \/ Cardinality(L) = 1
        BY <2>1, <3>1, <3>2
      <3>4. QED
        BY <3>3
    <2>3. QED
      <3>1. Cardinality({u \in uploads : u.stage = "call"}) <= 1
        BY <2>2 DEF L
      <3>2. QED
        BY <3>1, Zenon DEF Dictating, OneAtATime, OneDictation
  <1>2. QED
    BY <1>1, AlwaysDictating, PTL

(***************************************************************************)
(* Files.                                                                  *)
(***************************************************************************)
(* Every recording has a file of its own, and without a running view model *)
(* nothing is recorded or waited for.                                      *)
Owned ==
    /\ \A u, v \in uploads : u.file = v.file => u = v
    /\ recorder # None => \A u \in uploads : u.file # recorder
    /\ ~Running => recorder = None /\ \A u \in uploads : u.stage # "call"

Filed == Owned /\ FilesAreThere /\ FilesAreTransient

LEMMA StepFiles ==
  ASSUME Dictating, Filed, [Next]_vars
  PROVE  Filed'
  <1> USE DEF Filed, Owned, FilesAreThere, FilesAreTransient
  <1>1. /\ files \subseteq Files /\ recorder \in Files \cup {None}
        /\ uploads \subseteq Uploads /\ None \notin Files
    BY DEF Dictating, TypeOK
  <1>2. CASE Calm \/ NewDictation \/ Frame \/ Counts
    <2>1. UNCHANGED <<alive, recorder, files, uploads, left>>
      BY <1>2 DEF Calm, Quiet, NewDictation, Frame, Counts, Second
    <2>2. QED
      BY <2>1 DEF Running
  <1>a. CASE Breaks
    <2>1. PICK f : /\ files' = files \cup {f} /\ left' = left \cup {f}
                   /\ UNCHANGED <<alive, recorder, uploads>>
      BY <1>a DEF Breaks, Quiet
    <2>2. QED
      BY <2>1 DEF Running
  <1>3. CASE Starts
    <2>1. /\ recorder = None /\ files' = files \cup {recorder'} /\ alive = "running"
          /\ recorder' \in NewFile /\ UNCHANGED <<alive, uploads, left>>
      BY <1>3 DEF Starts, TapStart, Dictating, TypeOK, States, Running
    <2>2. recorder' # None /\ \A u \in uploads : u.file # recorder'
      BY <1>1, <2>1 DEF NewFile
    <2>3. QED
      BY <1>1, <2>1, <2>2 DEF Running
  <1>4. CASE Stops
    <2> DEFINE new == [file |-> recorder, stage |-> "call"]
    <2>1. /\ recorder' = None /\ UNCHANGED <<alive, left>> /\ alive = "running"
          /\ \/ files' = files \ {recorder} /\ uploads' = uploads
             \/ files' = files /\ uploads' = uploads \cup {new}
      BY <1>4 DEF Stops, StopAndUpload, Running
    <2>2. new.file = recorder /\ recorder # None
      BY <1>4 DEF Stops, Dictating, OneAtATime
    <2> HIDE DEF new
    <2>3. QED
      BY <2>1, <2>2 DEF Running
  <1>5. ASSUME NEW u \in uploads, UploadSucceeds(u) \/ Fails(u) \/ OrphanEnds(u)
        PROVE  Filed'
    <2>1. Returns(u) /\ UNCHANGED <<alive, recorder, files, left>>
      BY <1>5 DEF UploadSucceeds, Fails, UploadFails, OrphanEnds
    <2>2. PICK d \in Uploads : /\ uploads' = (uploads \ {u}) \cup {d}
                               /\ d.file = u.file /\ d.stage = "delete"
      BY <1>1, <2>1, ReturnIs
    <2>3. Owned'
      BY <2>1, <2>2 DEF Running
    <2>4. FilesAreThere' /\ FilesAreTransient'
      BY <2>1, <2>2
    <2>5. QED
      BY <2>3, <2>4
  <1>b. ASSUME NEW u \in uploads, DeleteFile(u)
        PROVE  Filed'
    <2>1. /\ uploads' = uploads \ {u} /\ files' = files \ {u.file} /\ u.stage = "delete"
          /\ UNCHANGED <<alive, recorder, left>>
      BY <1>b DEF DeleteFile
    <2>2. QED
      BY <2>1 DEF Running
  <1>6. CASE Finish
    <2>1. /\ alive # "dead" /\ files' = files \ {recorder} /\ recorder' = None
          /\ left' = left /\ alive' = "cleared"
      BY <1>6 DEF Finish, Running, Over
    <2>2. /\ \A v \in uploads' : v.stage # "call"
          /\ \A u \in uploads : \E v \in uploads' : v.file = u.file
          /\ \A u, v \in uploads' : u.file = v.file => u = v
      BY <1>1, <1>6, FinishIs
    <2>3. \A f \in files' : f \in left \/ \E u \in uploads : f = u.file
      BY <2>1
    <2>4. \A f \in files' : f \in left' \/ \E v \in uploads' : f = v.file
      BY <2>1, <2>2, <2>3
    <2>5. QED
      BY <2>1, <2>2, <2>4
  <1>7. CASE Kill
    BY <1>7 DEF Kill, Over, Running
  <1>8. CASE Open
    BY <1>8 DEF Open, Running
  <1>9. QED
    BY <1>2, <1>3, <1>4, <1>5, <1>6, <1>7, <1>8, <1>a, <1>b, StepKinds DEF Dictating

LEMMA AlwaysFiled == Spec => []Filed
  <1>1. Init => Filed
    BY DEF Init, Filed, Owned, FilesAreThere, FilesAreTransient, Running
  <1>2. QED
    BY <1>1, AlwaysDictating, StepFiles, PTL DEF Spec

(* The file of a recording, and of a call that is waited for, is there.    *)
THEOREM FilesAreAlwaysThere == Spec => []FilesAreThere
  BY AlwaysFiled, PTL DEF Filed

(* Every file in the cache is being recorded, sent or deleted, unless the  *)
(* process is dead or no MediaRecorder could be made for it.               *)
THEOREM FilesAreAlwaysTransient == Spec => []FilesAreTransient
  BY AlwaysFiled, PTL DEF Filed

(***************************************************************************)
(* The mode.                                                               *)
(***************************************************************************)
LEMMA StepMode ==
  ASSUME TypeOK, ModeKept, [Next]_vars
  PROVE  ModeKept'
  <1> USE DEF ModeKept
  <1>1. ui \in States /\ picked \in Modes \cup {None}
    BY DEF TypeOK, States
  <1>2. CASE UNCHANGED vars
    BY <1>2 DEF vars
  <1>3. CASE TapStart \/ TapDenied \/ ClearError
    <2>1. ui'.selectedMode = ui.selectedMode /\ picked' = picked
      BY <1>1, <1>3 DEF TapStart, TapDenied, ClearError, States
    <2>2. QED
      BY <2>1
  <1>4. CASE TapStop \/ Second
    <2>1. ui'.selectedMode = ui.selectedMode /\ picked' = picked
      BY <1>1, <1>4 DEF TapStop, Second, StopAndUpload, States
    <2>2. QED
      BY <2>1
  <1>5. ASSUME NEW u \in uploads,
               \/ UploadSucceeds(u)
               \/ \E status \in {0, 401, 500}, code \in {"http_error", "timeout", "auth_failed"} :
                     UploadFails(u, status, code)
               \/ OrphanEnds(u)
               \/ DeleteFile(u)
        PROVE  ModeKept'
    <2>1. CASE UploadSucceeds(u)
      BY <1>1, <2>1 DEF UploadSucceeds, States
    <2>2. ASSUME NEW status, NEW code, UploadFails(u, status, code)
          PROVE  ui'.selectedMode = ui.selectedMode /\ picked' = picked
      BY <1>1, <2>2 DEF UploadFails, States
    <2>3. CASE OrphanEnds(u) \/ DeleteFile(u)
      BY <2>3 DEF OrphanEnds, DeleteFile
    <2>4. QED
      BY <1>5, <2>1, <2>2, <2>3
  <1>6. CASE OpenSettings \/ CloseSettings \/ CloseConsole \/ NewDictation
             \/ OpenSettingsFromSnackbar \/ SetupSucceeds \/ ConsoleReady
    <2>1. ui'.selectedMode = ui.selectedMode /\ picked' = picked
      BY <1>1, <1>6 DEF OpenSettings, CloseSettings, CloseConsole, Go, NewDictation,
             OpenSettingsFromSnackbar, SetupSucceeds, ConsoleReady, States
    <2>2. QED
      BY <2>1
  <1>7. CASE Frame
    BY <1>7 DEF Frame
  <1>8. ASSUME NEW m \in Modes, SelectMode(m)
        PROVE  ModeKept'
    BY <1>1, <1>8 DEF SelectMode, States
  <1>9. CASE TestConnection \/ TestSettings \/ OpenConsole \/ SaveSettings
    BY <1>9 DEF TestConnection, TestSettings, OpenConsole, SaveSettings, Ask
  <1>10. ASSUME NEW enabled \in SUBSET Modes, ModesArrive(enabled)
         PROVE  ModeKept'
    <2>1. PICK m \in Selected(ui.selectedMode, enabled) :
             ui' = [ui EXCEPT !.enabled = enabled, !.selectedMode = m]
      BY <1>10 DEF ModesArrive
    <2>2. ui'.selectedMode = m
      BY <1>1, <2>1 DEF States
    <2>3. picked' = IF picked \in enabled THEN picked ELSE None
      BY <1>10 DEF ModesArrive
    <2>4. picked \in enabled => picked = ui.selectedMode
      BY <1>1
    <2>5. ui.selectedMode \in enabled => m = ui.selectedMode
      BY <2>1 DEF Selected
    <2>6. QED
      BY <2>2, <2>3, <2>4, <2>5
  <1>11. ASSUME NEW job \in Jobs, NothingMore(job)
         PROVE  ModeKept'
    BY <1>11 DEF NothingMore
  <1>12. CASE Finish \/ Kill \/ Open
    BY <1>12 DEF Finish, Kill, Open, Over
  <1> HIDE DEF ModeKept
  <1>13. CASE Next
    BY <1>3, <1>4, <1>5, <1>6, <1>7, <1>8, <1>9, <1>10, <1>11, <1>12, <1>13 DEF Next
  <1>14. QED
    BY <1>2, <1>13

(* The mode that is sent is the one the user picked while it is enabled.   *)
THEOREM ModeIsAlwaysKept == Spec => []ModeKept
  <1>1. Init => ModeKept
    BY DEF Init, ModeKept
  <1>2. QED
    BY <1>1, AndroidTypeCorrect, StepMode, PTL DEF Spec

===============================================================================
