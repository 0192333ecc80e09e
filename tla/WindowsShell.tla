---------------------------- MODULE WindowsShell ----------------------------
(***************************************************************************)
(* What the Windows client does around the recording core: the tray icon   *)
(* with its blinking (tray/icon.py) and the insertion of the text          *)
(* (insertion/, _send_and_insert in app.py).                               *)
(*                                                                         *)
(* Callbacks of hotkey and timer do not overlap here; ClientDictation has  *)
(* the recorder and what happens when they do.  The tray's lock covers the *)
(* state and the image and not the blinking: every access to its fields is *)
(* a step.  The user does not copy in the tenth of a second in which a     *)
(* text is inserted.                                                       *)
(***************************************************************************)
EXTENDS Integers, FiniteSets

CONSTANTS Workers,       \* slots of send and recovery threads (bound)
          BlinkThreads,  \* names of threads that blink (bound on live ones)
          MAX_IN_TRAY,   \* bound on calls of TrayIcon.set_state at the same time
          Callback,      \* the thread that runs a callback
          None

ASSUME ShellAssumption == /\ Callback \notin Workers
                          /\ None \notin Workers \cup BlinkThreads
                          /\ MAX_IN_TRAY \in Nat \ {0}

Threads == Workers \cup {Callback}
States  == {"idle", "recording", "processing", "error"}

VARIABLES
    state,      \* ClientApp._state
    tray,       \* TrayIcon._state
    image,      \* pystray's icon, named for the state it stands for
    blinking,   \* TrayIcon._blinking
    stopBlink,  \* TrayIcon._blink_stop is set
    blinker,    \* TrayIcon._blink_thread
    blinks,     \* where each blink thread is
    pc,         \* where each other thread is
    target,     \* the state a thread sets
    previous,   \* what a worker remembers of the clipboard
    clip,       \* the clipboard: what the user copied, or the text of a worker
    own,        \* history: what the user last copied, or was told to find there;
                \* None: since then the clipboard could not be read or written
    astray,     \* history: a window received what was not the text to insert
    clash       \* history: two calls of TrayIcon.set_state have overlapped

app    == <<state, pc, target>>
icon   == <<tray, image, blinking, stopBlink, blinker, blinks>>
board  == <<previous, clip, own, astray>>
vars   == <<app, icon, board, clash>>

Copied  == {"copied", "blank"}
Setting == {"start", "mark", "clear", "create", "launch",
            "stop", "signal", "unmark", "join", "wait", "forget"}
Inserts == {"save", "copy", "paste", "restore", "giveUp"}

TypeOK ==
    /\ state \in States /\ tray \in States /\ image \in States
    /\ blinking \in BOOLEAN /\ stopBlink \in BOOLEAN
    /\ blinker \in BlinkThreads \cup {None}
    /\ blinks \in [BlinkThreads -> {"none", "new", "check", "show", "reset"}]
    /\ pc \in [Threads -> Setting \cup Inserts \cup {"rest", "set", "tray", "send", "sleep"}]
    /\ target \in [Threads -> States]
    /\ previous \in [Workers -> Copied \cup Workers]
    /\ clip \in Copied \cup Workers /\ own \in Copied \cup Workers \cup {None}
    /\ astray \in BOOLEAN /\ clash \in BOOLEAN

Init ==
    /\ state = "idle" /\ tray = "idle" /\ image = "idle"
    /\ blinking = FALSE /\ stopBlink = FALSE /\ blinker = None
    /\ blinks = [b \in BlinkThreads |-> "none"]
    /\ pc = [t \in Threads |-> "rest"]
    /\ target = [t \in Threads |-> "idle"]
    /\ previous = [w \in Workers |-> "blank"]
    /\ clip = "copied" /\ own = "copied"
    /\ astray = FALSE /\ clash = FALSE

Goto(t, l) == pc' = [pc EXCEPT ![t] = l] /\ UNCHANGED target

\* The thread calls _set_state(s) next.
Calls(t, s) == pc' = [pc EXCEPT ![t] = "set"] /\ target' = [target EXCEPT ![t] = s]

InTray(t)  == pc[t] \in Setting
Inserting  == \E w \in Workers : pc[w] \in Inserts

------------------------------------------------------------------------------
(* The callbacks and what they lead to *)

\* Fault: a press while the text is on its way starts a recording
PressedWhileBusy ==
    /\ pc[Callback] = "rest"
    /\ \/ /\ state \in {"idle", "processing"}
          /\ \E s \in {"recording", "error"} : Calls(Callback, s)
       \/ state = "recording" /\ \E s \in {"processing", "idle", "error"} : Calls(Callback, s)
    /\ UNCHANGED <<state, icon, board, clash>>

(* A start succeeds or finds no microphone; a stop, by key or timer, finds *)
(* speech, silence or a recorder that fails.                               *)
Pressed ==
    /\ pc[Callback] = "rest"
    /\ \/ state = "idle" /\ \E s \in {"recording", "error"} : Calls(Callback, s)
       \/ state = "recording" /\ \E s \in {"processing", "idle", "error"} : Calls(Callback, s)
    /\ UNCHANGED <<state, icon, board, clash>>

SetState(t) ==
    /\ pc[t] = "set"
    /\ state' = target[t]
    /\ Goto(t, "tray")
    /\ UNCHANGED <<icon, board, clash>>

\* _send_and_insert: the backend does not deliver.
SendFails(w) ==
    /\ pc[w] = "send"
    /\ Calls(w, "error")
    /\ UNCHANGED <<state, icon, board, clash>>

\* recover(): 4 s later
Recover(w) ==
    /\ pc[w] = "sleep"
    /\ IF state = "error" THEN Calls(w, "idle") ELSE Goto(w, "rest")
    /\ UNCHANGED <<state, icon, board, clash>>

(* After _set_state a callback starts the thread that sends, or whoever    *)
(* showed an error the one that recovers.                                  *)
Return(t) ==
    LET next == CASE target[t] = "processing" -> "send"
                  [] target[t] = "error" -> "sleep"
                  [] OTHER -> "rest"
    IN  /\ IF t \in Workers \/ next = "rest"
           THEN pc' = [pc EXCEPT ![t] = next]
           ELSE \E w \in Workers : /\ pc[w] = "rest"
                                   /\ pc' = [pc EXCEPT ![t] = "rest", ![w] = next]
        /\ target' = [target EXCEPT ![t] = "idle"]

\* An exception ends the callback or the thread.
Raise(t) == /\ pc' = [pc EXCEPT ![t] = "rest"]
            /\ target' = [target EXCEPT ![t] = "idle"]

------------------------------------------------------------------------------
(* TrayIcon.set_state *)

(* State and image under the lock; after it an error blinks, all else does *)
(* not.                                                                    *)
SetTray(t) ==
    /\ pc[t] = "tray"
    /\ Cardinality({u \in Threads : InTray(u)}) < MAX_IN_TRAY
    /\ tray' = target[t] /\ image' = target[t]
    /\ Goto(t, IF target[t] = "error" THEN "start" ELSE "stop")
    /\ clash' = (clash \/ \E u \in Threads : InTray(u))
    /\ UNCHANGED <<state, blinking, stopBlink, blinker, blinks, board>>

\* A step of _start_blink or _stop_blink that changes no field
Look(t, here, to) ==
    /\ pc[t] = here
    /\ to
    /\ UNCHANGED <<state, icon, board, clash>>

StartBlink(t) == Look(t, "start", IF blinking THEN Return(t) ELSE Goto(t, "mark"))
StopBlink(t)  == Look(t, "stop", IF blinking THEN Goto(t, "signal") ELSE Return(t))

MarkBlinking(t) ==
    /\ \/ pc[t] = "mark" /\ blinking' = TRUE /\ Goto(t, "clear")
       \/ pc[t] = "unmark" /\ blinking' = FALSE /\ Goto(t, "join")
    /\ UNCHANGED <<state, tray, image, stopBlink, blinker, blinks, board, clash>>

SignalBlinker(t) ==
    /\ \/ pc[t] = "clear" /\ stopBlink' = FALSE /\ Goto(t, "create")
       \/ pc[t] = "signal" /\ stopBlink' = TRUE /\ Goto(t, "unmark")
    /\ UNCHANGED <<state, tray, image, blinking, blinker, blinks, board, clash>>

CreateBlinker(t) ==
    /\ pc[t] = "create"
    /\ \E b \in BlinkThreads :
          /\ blinks[b] = "none" /\ blinker # b
          /\ blinker' = b
          /\ blinks' = [blinks EXCEPT ![b] = "new"]
    /\ Goto(t, "launch")
    /\ UNCHANGED <<state, tray, image, blinking, stopBlink, board, clash>>

(* The field is read again: by now it may be empty or hold a thread that   *)
(* somebody else has started.                                              *)
LaunchBlinker(t) ==
    /\ pc[t] = "launch"
    /\ IF blinker # None /\ blinks[blinker] = "new"
       THEN blinks' = [blinks EXCEPT ![blinker] = "check"] /\ Return(t)
       ELSE Raise(t) /\ UNCHANGED blinks
    /\ UNCHANGED <<state, tray, image, blinking, stopBlink, blinker, board, clash>>

(* join() waits a second at most.  It raises when the field was emptied    *)
(* after it had been looked at, and when the thread has not started.       *)
JoinBlinker(t) == Look(t, "join", IF blinker = None THEN Return(t) ELSE Goto(t, "wait"))

WaitForBlinker(t) ==
    Look(t, "wait", IF blinker = None \/ blinks[blinker] = "new"
                    THEN Raise(t) ELSE Goto(t, "forget"))

ForgetBlinker(t) ==
    /\ pc[t] = "forget"
    /\ blinker' = None
    /\ blinks' = [b \in BlinkThreads |->
                    IF b = blinker /\ blinks[b] = "new" THEN "none" ELSE blinks[b]]
    /\ Return(t)
    /\ UNCHANGED <<state, tray, image, blinking, stopBlink, board, clash>>

------------------------------------------------------------------------------
(* _blink_loop *)

\* Fault: the thread ends with the image it has
BlinkEndsAsIs(b) ==
    /\ blinks[b] = "reset"
    /\ blinks' = [blinks EXCEPT ![b] = "none"]
    /\ UNCHANGED <<app, tray, image, blinking, stopBlink, blinker, board, clash>>

BlinkEnds(b) ==
    /\ blinks[b] = "reset"
    /\ image' = tray
    /\ blinks' = [blinks EXCEPT ![b] = "none"]
    /\ UNCHANGED <<app, tray, blinking, stopBlink, blinker, board, clash>>

BlinkChecks(b) ==
    /\ blinks[b] = "check"
    /\ blinks' = [blinks EXCEPT ![b] = IF stopBlink THEN "reset" ELSE "show"]
    /\ UNCHANGED <<app, tray, image, blinking, stopBlink, blinker, board, clash>>

BlinkShows(b) ==
    /\ blinks[b] = "show"
    /\ image' \in {"error", "idle"}
    /\ blinks' = [blinks EXCEPT ![b] = "check"]
    /\ UNCHANGED <<app, tray, blinking, stopBlink, blinker, board, clash>>

------------------------------------------------------------------------------
(* Insertion *)

\* cfg.text_inserter: the keyboard types, the two others paste.
BeginsToInsert(w) ==
    /\ pc[w] = "send"
    /\ Goto(w, "save") \/ Calls(w, "idle") \/ Goto(w, "giveUp")
    /\ UNCHANGED <<state, icon, board, clash>>

(* What cannot be read, and what is not text, is remembered as "blank".    *)
SaveClipboard(w) ==
    /\ pc[w] = "save"
    /\ \/ previous' = [previous EXCEPT ![w] = clip] /\ UNCHANGED own
       \/ previous' = [previous EXCEPT ![w] = "blank"] /\ own' = None
    /\ Goto(w, "copy")
    /\ UNCHANGED <<state, icon, clip, astray, clash>>

CopyText(w) ==
    /\ pc[w] = "copy"
    /\ \/ clip' = w /\ Goto(w, "paste") /\ UNCHANGED previous
       \/ Goto(w, "giveUp") /\ previous' = [previous EXCEPT ![w] = "blank"] /\ UNCHANGED clip
    /\ UNCHANGED <<state, icon, own, astray, clash>>

(* The window in front takes the text before the tenth of a second is      *)
(* over, or does not take the keys at all, which nobody notices;           *)
(* pyautogui may raise.                                                    *)
Paste(w) ==
    /\ pc[w] = "paste"
    /\ astray' \in {astray, astray \/ clip # w}
    /\ Goto(w, "restore")
    /\ UNCHANGED <<state, icon, previous, clip, own, clash>>

\* finally: whether the keys were sent or raised
RestoreClipboard(w) ==
    /\ pc[w] = "restore"
    /\ \/ clip' = previous[w] /\ UNCHANGED own
       \/ own' = None /\ UNCHANGED clip
    /\ previous' = [previous EXCEPT ![w] = "blank"]
    /\ Goto(w, "giveUp") \/ Calls(w, "idle")
    /\ UNCHANGED <<state, icon, astray, clash>>

(* The user is told to find the text in the clipboard, and there it is put *)
(* unless that fails, too.                                                 *)
LeaveText(w) ==
    /\ pc[w] = "giveUp"
    /\ \/ clip' = w /\ own' = w
       \/ own' = None /\ UNCHANGED clip
    /\ Calls(w, "error")
    /\ UNCHANGED <<state, icon, previous, astray, clash>>

UserCopies ==
    /\ ~Inserting
    /\ clip' = "copied" /\ own' = "copied"
    /\ UNCHANGED <<app, icon, previous, astray, clash>>

------------------------------------------------------------------------------
TrayStep(t) ==
    \/ SetState(t) \/ SetTray(t)
    \/ StartBlink(t) \/ StopBlink(t) \/ MarkBlinking(t) \/ SignalBlinker(t)
    \/ CreateBlinker(t) \/ LaunchBlinker(t)
    \/ JoinBlinker(t) \/ WaitForBlinker(t) \/ ForgetBlinker(t)

InsertStep(w) ==
    \/ BeginsToInsert(w) \/ SaveClipboard(w) \/ CopyText(w) \/ Paste(w)
    \/ RestoreClipboard(w) \/ LeaveText(w)

Next ==
    \/ Pressed
    \/ \E t \in Threads : TrayStep(t)
    \/ \E w \in Workers : SendFails(w) \/ Recover(w) \/ InsertStep(w)
    \/ \E b \in BlinkThreads : BlinkChecks(b) \/ BlinkShows(b) \/ BlinkEnds(b)
    \/ UserCopies

Spec == Init /\ [][Next]_vars

------------------------------------------------------------------------------
(* However the threads that set the tray and those that blink overtake     *)
(* each other, the icon at rest is that of the tray's state.  And as long  *)
(* as no two calls of set_state have overlapped, it blinks when an error   *)
(* is shown and at no other time, once the call has returned.              *)
IconIsHonest ==
    /\ (\A b \in BlinkThreads : blinks[b] \in {"none", "new"}) => image = tray
    /\ ~clash /\ (\A t \in Threads : ~InTray(t)) =>
          ((tray = "error") <=> ~stopBlink /\ \E b \in BlinkThreads : blinks[b] # "none")

(* The clipboard is lent: no window ever receives what is not the text,    *)
(* and when nothing is being inserted the clipboard is the user's again,   *)
(* or holds the text he was told to find there; a clipboard that could not *)
(* be read as text or not be written is the exception.                     *)
ClipboardIsLent ==
    /\ ~astray
    /\ ~Inserting /\ own # None => clip = own

==============================================================================
