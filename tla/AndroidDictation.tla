-------------------------- MODULE AndroidDictation --------------------------
(***************************************************************************)
(* The Android client: ui/AppViewModel.kt, audio/AudioRecorder.kt and      *)
(* MainActivity.kt with the screens, as far as they decide what is         *)
(* recorded, sent, kept and shown.                                         *)
(*                                                                         *)
(* The view model lives on the main thread: a callback or a coroutine runs *)
(* without interruption up to its next suspension point, and is one step.  *)
(* What the user sees and taps is the last frame composed, so that a tap   *)
(* may belong to a state that is gone.  A frame comes within a second and  *)
(* before a call of /full has been answered: the app is in the foreground. *)
(* Calls to the backend block a thread of Dispatchers.IO: cancelling the   *)
(* scope does not end them, and only when they return does the coroutine   *)
(* notice.  The file is deleted there too, after what the answer changed.  *)
(***************************************************************************)
EXTENDS Integers, FiniteSets

CONSTANTS
    Files,          \* names of recordings
    Modes,          \* keys of modes
    MAX_RECORD_SEC,
    None

ASSUME AndroidAssumption == /\ MAX_RECORD_SEC \in Nat \ {0}
                            /\ Modes # {}
                            /\ None \notin Files \cup Modes

VARIABLES
    alive,      \* "running", "cleared": the activity is finished, "dead"
    ui,         \* AppViewModel._state
    shown,      \* what the last frame was composed of
    recorder,   \* AudioRecorder.outputFile while a MediaRecorder runs
    files,      \* rec_*.m4a in cacheDir
    timers,     \* timer coroutines that are not cancelled
    uploads,    \* [file, stage]: coroutines of upload()
    jobs,       \* other coroutines that wait for the backend
    hasToken,   \* SecureTokenStore
    seconds,    \* history: seconds since the recording began
    left,       \* history: files whose MediaRecorder could not be made
    picked      \* history: the mode the user picked, until it is not enabled

vars == <<alive, ui, shown, recorder, files, timers, uploads, jobs, hasToken,
          seconds, left, picked>>

Screens == {"SETUP", "MAIN", "RESULT", "SETTINGS", "CONSOLE"}
Jobs    == {"setup", "modes", "probe", "console"}

\* The call of /full is under way, for its view model ("call") or after the
\* end of that ("orphan"); it has returned and its file is to be deleted.
Uploads == [file: Files, stage: {"call", "orphan", "delete"}]

\* The composed state; busy is consoleLoading or settingsTesting.
View == [screen |-> ui.screen, recording |-> ui.recording, uploading |-> ui.uploading,
         busy |-> jobs \cap {"probe", "console"} # {}]

TypeOK ==
    /\ alive \in {"running", "cleared", "dead"}
    /\ ui \in [screen: Screens, recording: BOOLEAN, elapsedSec: 0..MAX_RECORD_SEC,
               uploading: BOOLEAN, error: BOOLEAN, authError: BOOLEAN,
               enabled: SUBSET Modes, selectedMode: Modes]
    /\ shown \in [screen: Screens, recording: BOOLEAN, uploading: BOOLEAN, busy: BOOLEAN]
    /\ recorder \in Files \cup {None}
    /\ files \subseteq Files
    /\ timers \in 0..1
    /\ uploads \subseteq Uploads
    /\ jobs \subseteq Jobs
    /\ hasToken \in BOOLEAN
    /\ seconds \in 0..MAX_RECORD_SEC + 1
    /\ left \subseteq Files
    /\ picked \in Modes \cup {None}

(* A view model is made: at the start of the process, or anew after its    *)
(* activity was finished.  AudioRecorder deletes what recordings there are, *)
(* and the modes are asked for when there is a token.                      *)
Fresh(token) ==
    [screen |-> IF token THEN "MAIN" ELSE "SETUP", recording |-> FALSE, elapsedSec |-> 0,
     uploading |-> FALSE, error |-> FALSE, authError |-> FALSE, enabled |-> Modes,
     selectedMode |-> CHOOSE m \in Modes : TRUE]

Init ==
    /\ alive = "running"
    /\ hasToken \in BOOLEAN
    /\ ui = Fresh(hasToken)
    /\ recorder = None
    /\ files = {}
    /\ timers = 0
    /\ uploads = {}
    /\ jobs = IF hasToken THEN {"modes"} ELSE {}
    /\ shown = View
    /\ seconds = 0
    /\ left = {}
    /\ picked = ui.selectedMode

Running == alive = "running"

UpToDate == shown = View

------------------------------------------------------------------------------
(* Recording *)

(* timerJob?.cancel() *)
TimersCancelled(n) == 0

\* Fault: the recording is left to the user to stop
NoTimer(n) == TimersCancelled(n)

StartTimer(n) == TimersCancelled(n) + 1

\* File.createTempFile: a name of its own
NewFile == Files \ (files \cup {u.file : u \in uploads})

(* The button was composed without a recording: permission granted.  The   *)
(* file is there before the MediaRecorder is made; when that fails nobody  *)
(* deletes it, when the microphone is busy it is deleted again.            *)
TapStart ==
    /\ Running
    /\ shown.screen = "MAIN" /\ ~shown.uploading /\ ~shown.recording
    /\ ~ui.recording /\ ~ui.uploading
    /\ \/ \E f \in NewFile :
             /\ recorder = None
             /\ recorder' = f
             /\ files' = files \cup {f}
             /\ ui' = [ui EXCEPT !.recording = TRUE, !.elapsedSec = 0,
                                 !.error = FALSE, !.authError = FALSE]
             /\ timers' = StartTimer(timers)
             /\ seconds' = 0
             /\ UNCHANGED left
       \/ /\ \/ \E f \in NewFile : files' = files \cup {f} /\ left' = left \cup {f}
             \/ UNCHANGED <<files, left>>
          /\ ui' = [ui EXCEPT !.error = TRUE]
          /\ UNCHANGED <<recorder, timers, seconds>>
    /\ UNCHANGED <<alive, shown, uploads, jobs, hasToken, picked>>

\* The permission is denied
TapDenied ==
    /\ Running
    /\ shown.screen = "MAIN" /\ ~shown.uploading /\ ~shown.recording
    /\ ui' = [ui EXCEPT !.error = TRUE]
    /\ UNCHANGED <<alive, shown, recorder, files, timers, uploads, jobs, hasToken,
                   seconds, left, picked>>

\* Fault: the file is deleted around the coroutine, not inside it
StopAndUploadOutside ==
    /\ timers' = TimersCancelled(timers)
    /\ recorder' = None
    /\ files' = files \ {recorder}
    /\ \/ /\ ui' = [ui EXCEPT !.recording = FALSE, !.elapsedSec = 0, !.error = TRUE]
          /\ UNCHANGED uploads
       \/ /\ uploads' = uploads \cup {[file |-> recorder, stage |-> "call"]}
          /\ ui' = [ui EXCEPT !.recording = FALSE, !.elapsedSec = 0, !.uploading = TRUE,
                              !.error = FALSE, !.authError = FALSE]
    /\ seconds' = 0
    /\ UNCHANGED <<alive, shown, jobs, hasToken, left, picked>>

(* stopAndUpload: stop the recorder, then hand the file to a coroutine.    *)
(* MediaRecorder.stop throws for captures that are too short.  There is a  *)
(* token: without one no screen leads to the main screen.                  *)
StopAndUpload ==
    /\ timers' = TimersCancelled(timers)
    /\ recorder' = None
    /\ \/ /\ files' = files \ {recorder}
          /\ ui' = [ui EXCEPT !.recording = FALSE, !.elapsedSec = 0, !.error = TRUE]
          /\ UNCHANGED uploads
       \/ /\ uploads' = uploads \cup {[file |-> recorder, stage |-> "call"]}
          /\ ui' = [ui EXCEPT !.recording = FALSE, !.elapsedSec = 0, !.uploading = TRUE,
                              !.error = FALSE, !.authError = FALSE]
          /\ UNCHANGED files
    /\ seconds' = 0
    /\ UNCHANGED <<alive, shown, jobs, hasToken, left, picked>>

TapStop ==
    /\ Running
    /\ shown.screen = "MAIN" /\ ~shown.uploading /\ shown.recording
    /\ ui.recording
    /\ StopAndUpload

(* A second passes and the timers wake up: the one counts, and stops the   *)
(* recording at the limit.                                                 *)
Second ==
    /\ Running /\ UpToDate
    /\ recorder # None \/ timers > 0
    /\ LET next == ui.elapsedSec + timers
       IN  IF ui.recording /\ next >= MAX_RECORD_SEC /\ timers > 0
           THEN StopAndUpload
           ELSE /\ ui' = IF ui.recording THEN [ui EXCEPT !.elapsedSec = next] ELSE ui
                /\ timers' = IF ui.recording THEN timers ELSE 0
                /\ seconds' = IF recorder = None \/ seconds > MAX_RECORD_SEC
                              THEN seconds ELSE seconds + 1
                /\ UNCHANGED <<alive, shown, recorder, files, uploads, jobs, hasToken,
                               left, picked>>

------------------------------------------------------------------------------
(* Upload *)

\* ErrorMapping.fromResponse: what a status and the code in its body come to
Mapped(status, code) ==
    IF status \in {401, 403} /\ code = "http_error" THEN "auth_failed" ELSE code

(* The coroutine goes on to its finally. *)
Returns(u) == uploads' = (uploads \ {u}) \cup {[u EXCEPT !.stage = "delete"]}

(* The text takes the screen, wherever the user is by now. *)
UploadSucceeds(u) ==
    /\ u.stage = "call" /\ UpToDate
    /\ Returns(u)
    /\ ui' = [ui EXCEPT !.uploading = FALSE, !.screen = "RESULT"]
    /\ UNCHANGED <<alive, shown, recorder, files, timers, jobs, hasToken, seconds, left, picked>>

\* Fault: only the message is set
UploadFailsSpinning(u, status, code) ==
    /\ u.stage = "call" /\ UpToDate
    /\ Returns(u)
    /\ ui' = [ui EXCEPT !.error = TRUE, !.authError = Mapped(status, code) = "auth_failed"]
    /\ UNCHANGED <<alive, shown, recorder, files, timers, jobs, hasToken, seconds, left, picked>>

(* An error of the backend, a lost connection, or the call's 60 seconds *)
UploadFails(u, status, code) ==
    /\ u.stage = "call" /\ UpToDate
    /\ Returns(u)
    /\ ui' = [ui EXCEPT !.uploading = FALSE, !.error = TRUE,
                        !.authError = Mapped(status, code) = "auth_failed"]
    /\ UNCHANGED <<alive, shown, recorder, files, timers, jobs, hasToken, seconds, left, picked>>

(* The call of a cancelled coroutine returns. *)
OrphanEnds(u) ==
    /\ u.stage = "orphan"
    /\ Returns(u)
    /\ UNCHANGED <<alive, ui, shown, recorder, files, timers, jobs, hasToken,
                   seconds, left, picked>>

(* withContext(NonCancellable + Dispatchers.IO) *)
DeleteFile(u) ==
    /\ u.stage = "delete"
    /\ files' = files \ {u.file}
    /\ uploads' = uploads \ {u}
    /\ UNCHANGED <<alive, ui, shown, recorder, timers, jobs, hasToken, seconds, left, picked>>

------------------------------------------------------------------------------
(* Screens.  Go: a tap on a frame of the screen `from`. *)

Go(from, to) ==
    /\ Running
    /\ shown.screen = from
    /\ ui' = [ui EXCEPT !.screen = to]
    /\ UNCHANGED <<alive, shown, recorder, files, timers, uploads, hasToken,
                   seconds, left, picked>>

OpenSettings  == Go("MAIN", "SETTINGS") /\ UNCHANGED jobs
CloseSettings == Go("SETTINGS", "MAIN") /\ UNCHANGED jobs

\* The code is dropped; DELETE /console/session is sent and not waited for.
CloseConsole  == Go("CONSOLE", "SETTINGS") /\ UNCHANGED jobs

NewDictation ==
    /\ Running
    /\ shown.screen = "RESULT"
    /\ ui' = [ui EXCEPT !.screen = "MAIN", !.elapsedSec = 0, !.error = FALSE]
    /\ UNCHANGED <<alive, shown, recorder, files, timers, uploads, jobs, hasToken,
                   seconds, left, picked>>

(* The action of the snackbar that a refused token gets *)
OpenSettingsFromSnackbar ==
    /\ Running
    /\ ui.error /\ ui.authError
    /\ ui' = [ui EXCEPT !.screen = "SETTINGS", !.error = FALSE]
    /\ UNCHANGED <<alive, shown, recorder, files, timers, uploads, jobs, hasToken,
                   seconds, left, picked>>

\* A snackbar has been read: the hint at the token stays for the next error.
ClearError ==
    /\ Running
    /\ ui.error
    /\ ui' = [ui EXCEPT !.error = FALSE]
    /\ UNCHANGED <<alive, shown, recorder, files, timers, uploads, jobs, hasToken,
                   seconds, left, picked>>

(* A chip is enabled when its frame saw no dictation and the mode enabled. *)
(* Lists are no part of `shown`: that of the frame may be an earlier one   *)
(* than ui.enabled, and any mode may be enabled there.                     *)
SelectMode(m) ==
    /\ Running
    /\ shown.screen = "MAIN" /\ ~shown.recording /\ ~shown.uploading
    /\ ui' = [ui EXCEPT !.selectedMode = m]
    /\ picked' = m
    /\ UNCHANGED <<alive, shown, recorder, files, timers, uploads, jobs, hasToken,
                   seconds, left>>

(* A frame: what is shown catches up. *)
Frame ==
    /\ Running
    /\ ~UpToDate
    /\ shown' = View
    /\ UNCHANGED <<alive, ui, recorder, files, timers, uploads, jobs, hasToken,
                   seconds, left, picked>>

------------------------------------------------------------------------------
(* Coroutines that ask the backend for something else *)

Ask(from, job) ==
    /\ Running
    /\ shown.screen = from
    /\ jobs' = jobs \cup {job}
    /\ UNCHANGED <<alive, ui, shown, recorder, files, timers, uploads, hasToken,
                   seconds, left, picked>>

TestConnection == Ask("SETUP", "setup")

TestSettings == ~shown.busy /\ Ask("SETTINGS", "probe")
OpenConsole  == ~shown.busy /\ hasToken /\ Ask("SETTINGS", "console")
SaveSettings == ~shown.busy /\ hasToken /\ Ask("SETTINGS", "modes")

Answer(job) == Running /\ job \in jobs

\* The token was accepted: it is stored, and the modes are asked for.
SetupSucceeds ==
    /\ Answer("setup")
    /\ ui' = [ui EXCEPT !.screen = "MAIN"]
    /\ hasToken' = TRUE
    /\ jobs' = (jobs \ {"setup"}) \cup {"modes"}
    /\ UNCHANGED <<alive, shown, recorder, files, timers, uploads, seconds, left, picked>>

\* The bootstrap URL is there: the console takes the screen.
ConsoleReady ==
    /\ Answer("console")
    /\ ui' = [ui EXCEPT !.screen = "CONSOLE"]
    /\ jobs' = jobs \ {"console"}
    /\ UNCHANGED <<alive, shown, recorder, files, timers, uploads, hasToken, seconds, left, picked>>

\* Fault: the first mode of the answer is selected
SelectFirst(mode, enabled) == IF enabled = {} THEN {mode} ELSE enabled

\* The selected mode when `enabled` are the modes that can be used
Selected(mode, enabled) ==
    IF mode \in enabled \/ enabled = {} THEN {mode} ELSE enabled

(* The list replaces the one before, selecting what it enables.  Lists are *)
(* asked for without cancelling earlier questions: another may be under way. *)
ModesArrive(enabled) ==
    /\ Answer("modes")
    /\ jobs' \in {jobs, jobs \ {"modes"}}
    /\ \E m \in Selected(ui.selectedMode, enabled) :
          ui' = [ui EXCEPT !.enabled = enabled, !.selectedMode = m]
    /\ picked' = IF picked \in enabled THEN picked ELSE None
    /\ UNCHANGED <<alive, shown, recorder, files, timers, uploads, hasToken, seconds, left>>

\* An error, or the answer of a probe: a message on the screen, no more.
NothingMore(job) ==
    /\ Answer(job)
    /\ jobs' = jobs \ {job}
    /\ UNCHANGED <<alive, ui, shown, recorder, files, timers, uploads, hasToken,
                   seconds, left, picked>>

------------------------------------------------------------------------------
(* The end of a view model.  What is left of its state is that of the next. *)

Over ==
    /\ timers' = 0
    /\ jobs' = {}
    /\ recorder' = None
    /\ ui' = Fresh(hasToken)
    /\ shown' = [screen |-> Fresh(hasToken).screen, recording |-> FALSE,
                 uploading |-> FALSE, busy |-> FALSE]
    /\ seconds' = 0
    /\ picked' = Fresh(hasToken).selectedMode
    /\ UNCHANGED hasToken

(* The activity is finished: viewModelScope is cancelled, then onCleared   *)
(* gives up the recording.                                                 *)
Finish ==
    /\ Running
    /\ alive' = "cleared"
    /\ uploads' = {IF u.stage = "call" THEN [u EXCEPT !.stage = "orphan"] ELSE u :
                      u \in uploads}
    /\ files' = files \ {recorder}
    /\ Over
    /\ UNCHANGED left

(* The process is killed: the files stay, until the next one starts. *)
Kill ==
    /\ alive # "dead"
    /\ alive' = "dead"
    /\ uploads' = {}
    /\ Over
    /\ UNCHANGED <<files, left>>

Open ==
    /\ ~Running
    /\ alive' = "running"
    /\ files' = {}
    /\ left' = {}
    /\ jobs' = IF hasToken THEN {"modes"} ELSE {}
    /\ UNCHANGED <<ui, shown, recorder, timers, uploads, hasToken, seconds, picked>>

Next ==
    \/ TapStart \/ TapDenied \/ TapStop \/ Second
    \/ \E u \in uploads :
        \/ UploadSucceeds(u)
        \/ \E status \in {0, 401, 500}, code \in {"http_error", "timeout", "auth_failed"} :
               UploadFails(u, status, code)
        \/ OrphanEnds(u)
        \/ DeleteFile(u)
    \/ OpenSettings \/ CloseSettings \/ CloseConsole \/ NewDictation
    \/ OpenSettingsFromSnackbar \/ ClearError
    \/ \E m \in Modes : SelectMode(m)
    \/ Frame
    \/ TestConnection \/ TestSettings \/ OpenConsole \/ SaveSettings
    \/ SetupSucceeds \/ ConsoleReady
    \/ \E enabled \in SUBSET Modes : ModesArrive(enabled)
    \/ \E job \in Jobs : NothingMore(job)
    \/ Finish \/ Kill \/ Open

UploadEnds ==
    \E u \in uploads :
        \/ UploadSucceeds(u)
        \/ UploadFails(u, 0, "timeout")
        \/ OrphanEnds(u)

FileIsDeleted(f) == \E u \in uploads : u.file = f /\ DeleteFile(u)

(* Frames are composed; time passes, and a call ends by its callTimeout at *)
(* the latest, however often the user changes what is shown (SF: both wait *)
(* for a frame); a thread of Dispatchers.IO takes up what it is given.  No *)
(* fairness is asked of the user or the system.                            *)
Fairness ==
    /\ WF_vars(Frame) /\ SF_vars(Second) /\ SF_vars(UploadEnds)
    /\ \A f \in Files : WF_vars(FileIsDeleted(f))

Spec == Init /\ [][Next]_vars /\ Fairness

------------------------------------------------------------------------------
(* One dictation at a time, and the screen does not lie: the microphone is *)
(* open exactly while the state says so, one call of /full is under way    *)
(* exactly while it says that, and never both.  The timer counts this      *)
(* recording and not the one before, and ends it at the limit below the    *)
(* backend's, wherever the user is by then.  All this whatever a tap on a  *)
(* stale frame, the timer and the answers do in between.                   *)
OneDictation ==
    /\ ui.recording <=> recorder # None
    /\ ui.uploading <=> \E u \in uploads : u.stage = "call"
    /\ ~(ui.recording /\ ui.uploading)
    /\ Cardinality({u \in uploads : u.stage = "call"}) <= 1
    /\ ui.recording => ui.elapsedSec = seconds /\ seconds < MAX_RECORD_SEC

(* What is recorded or sent is there: neither the coroutine of an earlier  *)
(* recording, which deletes its file only now, nor a view model that is    *)
(* made anew and clears the cache, takes the file from a recording or from *)
(* a call that still reads it.                                             *)
FilesAreThere ==
    /\ recorder # None => recorder \in files
    /\ \A u \in uploads : u.stage = "call" => u.file \in files

(* No recording lies about: every file in the cache is being recorded,     *)
(* sent or deleted, also after the activity has gone and after the process *)
(* was killed and started again.  Excepted is the empty file of a start    *)
(* for which no MediaRecorder could be made: it stays until the next view  *)
(* model is.                                                               *)
FilesAreTransient ==
    alive # "dead" => files \subseteq {recorder} \cup {u.file : u \in uploads} \cup left

(* What is sent is dictated in the mode the user picked: lists of modes    *)
(* that arrive, during a recording too, displace it only when they do not  *)
(* allow it.                                                               *)
ModeKept == picked \in {ui.selectedMode, None}

(* Every recording is deleted in the end, without the user's doing, unless *)
(* the process is killed; excepted is again what `left` holds.             *)
FilesAreDeleted ==
    \A f \in Files : f \in files \ left ~> f \notin files \/ alive = "dead"

==============================================================================
