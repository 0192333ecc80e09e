--------------------------- MODULE HotkeyBackends ---------------------------
(***************************************************************************)
(* The hotkeys of the Windows client (hotkeys/) and how saved settings     *)
(* replace them (_reload_hotkeys in app.py).                               *)
(*                                                                         *)
(* Every reload makes a new backend object.  A Win32HotkeyBackend has a    *)
(* thread that registers the hotkeys, then looks at its stop event and for *)
(* messages in turn, and runs the callbacks itself; stop() waits for it    *)
(* two seconds.  A KeyboardLibHotkeyBackend hands its callbacks to the     *)
(* keyboard library, which runs them in one thread of its own.  What a     *)
(* callback does is ClientDictation.                                       *)
(***************************************************************************)
EXTENDS Integers, FiniteSets

CONSTANTS Modes,
          Combos,    \* combinations of keys
          Backends,  \* names of backend objects (bound on those alive)
          Nothing

ASSUME HotkeysAssumption == Nothing \notin Combos \cup Backends

VARIABLES
    config,   \* ClientApp._cfg: the backend chosen and the combination of each mode
    reload,   \* where run or _reload_hotkeys is
    current,  \* ClientApp._hotkey_backend
    kind,     \* the class of each backend
    wired,    \* register(): the combination of each mode
    todo,     \* modes that start() has still to register
    held,     \* modes that are registered
    at,       \* where each backend is
    stopped,  \* backends whose stop event is set
    failed,   \* backends with an _error
    running,  \* the backend whose callback the library runs
    foreign,  \* combinations that other programs have registered
    overdue,  \* history: backends that stop() has not waited for to the end
    late,     \* history: a callback was under way when the current backend was made
    leaked,   \* history: the library has refused a hotkey after taking others
    told      \* history: a toast has told of an error of the current backend

objects == <<kind, wired, todo, held, at, stopped, failed>>
marks   == <<overdue, late, leaked, told>>
hotkeys == <<config, reload, current, objects, running, foreign, marks>>

Kinds   == {"win32", "keyboard_lib"}
\* No combination: the mode has no hotkey, or one that parse_hotkey does not take.
Keys    == [Modes -> Combos \cup {Nothing}]
Configs == [kind : Kinds, keys : Keys]

HotkeysTypeOK ==
    /\ config \in Configs
    /\ reload \in {"none", "stop", "join", "build", "start", "add", "check"}
    /\ current \in Backends \cup {Nothing}
    /\ kind \in [Backends -> Kinds] /\ wired \in [Backends -> Keys]
    /\ todo \in [Backends -> SUBSET Modes] /\ held \in [Backends -> SUBSET Modes]
    /\ at \in [Backends -> {"free", "made", "register", "check", "peek", "callback", "end",
                            "add", "on", "leaked"}]
    /\ stopped \in SUBSET Backends /\ failed \in SUBSET Backends
    /\ running \in Backends \cup {Nothing}
    /\ foreign \in SUBSET Combos
    /\ overdue \in SUBSET Backends
    /\ late \in BOOLEAN /\ leaked \in BOOLEAN /\ told \in BOOLEAN

HotkeysInit ==
    /\ config \in Configs
    /\ reload = "build" /\ current = Nothing
    /\ kind = [b \in Backends |-> "win32"]
    /\ wired = [b \in Backends |-> [m \in Modes |-> Nothing]]
    /\ todo = [b \in Backends |-> {}] /\ held = [b \in Backends |-> {}]
    /\ at = [b \in Backends |-> "free"]
    /\ stopped = {} /\ failed = {}
    /\ running = Nothing
    /\ foreign \in SUBSET Combos
    /\ overdue = {}
    /\ late = FALSE /\ leaked = FALSE /\ told = FALSE

MoveTo(b, l) == at' = [at EXCEPT ![b] = l]

Alive(b) == at[b] \notin {"free", "leaked"} \/ held[b] # {} \/ running = b

\* Somebody has the combination, so that RegisterHotKey fails.
Taken(k) == k \in foreign \/ \E b \in Backends : \E m \in held[b] : kind[b] = "win32" /\ wired[b][m] = k

------------------------------------------------------------------------------
(* _on_settings_saved and _reload_hotkeys *)

\* At most as many backends as there are names are alive (bound).
Save ==
    /\ reload = "none"
    /\ \E b \in Backends : ~Alive(b)
    /\ config' \in Configs
    /\ reload' = "stop"
    /\ UNCHANGED <<current, objects, running, foreign, marks>>

(* stop(): the Win32 backend sets its event; the other one removes what it *)
(* has added, but only if its start() has come to the end.                 *)
Stop ==
    /\ reload = "stop"
    /\ IF kind[current] = "win32"
       THEN /\ stopped' = stopped \cup {current}
            /\ reload' = "join"
            /\ UNCHANGED <<held, at>>
       ELSE /\ IF at[current] = "on"
               THEN held' = [held EXCEPT ![current] = {}] /\ MoveTo(current, "free")
               ELSE UNCHANGED <<held, at>>
            /\ reload' = "build"
            /\ UNCHANGED stopped
    /\ UNCHANGED <<config, current, kind, wired, todo, failed, running, foreign, marks>>

\* Fault: stop() does not wait for the thread
DoNotJoin ==
    /\ reload = "join"
    /\ reload' = "build"
    /\ UNCHANGED <<config, current, objects, running, foreign, marks>>

(* join(timeout=2): the thread has ended, or is in a callback that takes   *)
(* longer.                                                                 *)
Join ==
    /\ reload = "join"
    /\ at[current] \in {"free", "callback"}
    /\ overdue' = IF at[current] = "free" THEN overdue ELSE overdue \cup {current}
    /\ reload' = "build"
    /\ UNCHANGED <<config, current, objects, running, foreign, late, leaked, told>>

\* _build_hotkey_backend and _wire_hotkeys
Build(b) ==
    /\ reload = "build"
    /\ ~Alive(b)
    /\ current' = b
    /\ kind' = [kind EXCEPT ![b] = config.kind]
    /\ wired' = [wired EXCEPT ![b] = config.keys]
    /\ todo' = [todo EXCEPT ![b] = {m \in Modes : config.keys[m] # Nothing}]
    /\ MoveTo(b, "made")
    /\ stopped' = stopped \ {b} /\ failed' = failed \ {b}
    /\ late' = (running # Nothing \/ overdue # {})
    /\ told' = FALSE
    /\ reload' = "start"
    /\ UNCHANGED <<config, held, running, foreign, overdue, leaked>>

Start ==
    /\ reload = "start"
    /\ IF kind[current] = "win32"
       THEN MoveTo(current, "register") /\ reload' = "check"
       ELSE MoveTo(current, "add") /\ reload' = "add"
    /\ UNCHANGED <<config, current, kind, wired, todo, held, stopped, failed, running, foreign, marks>>

\* _post_hotkey_start_check: reads last_error; a toast if there is one
Check ==
    /\ reload = "check"
    /\ told' = (current \in failed)
    /\ reload' = "none"
    /\ UNCHANGED <<config, current, objects, running, foreign, overdue, late, leaked>>

------------------------------------------------------------------------------
(* KeyboardLibHotkeyBackend *)

AddHotkey(m) ==
    /\ reload = "add" /\ m \in todo[current]
    /\ held' = [held EXCEPT ![current] = @ \cup {m}]
    /\ todo' = [todo EXCEPT ![current] = @ \ {m}]
    /\ UNCHANGED <<config, reload, current, kind, wired, at, stopped, failed, running, foreign, marks>>

Added ==
    /\ reload = "add" /\ todo[current] = {}
    /\ MoveTo(current, "on")
    /\ reload' = "none"
    /\ UNCHANGED <<config, current, kind, wired, todo, held, stopped, failed, running, foreign, marks>>

(* The library does not know a key: start() raises and leaves what it has  *)
(* added; the user is told to restart.  Once (bound).  In the start of the *)
(* program, which it ends, this is no different from a restart.            *)
LibraryRefuses ==
    /\ reload = "add" /\ todo[current] # {} /\ ~leaked
    /\ MoveTo(current, "leaked")
    /\ leaked' = TRUE
    /\ reload' = "none"
    /\ UNCHANGED <<config, current, kind, wired, todo, held, stopped, failed, running, foreign, overdue, late, told>>

\* The library sees the key and runs the callback in its thread.
Fire(b, m) ==
    /\ kind[b] = "keyboard_lib" /\ m \in held[b]
    /\ running = Nothing
    /\ running' = b
    /\ UNCHANGED <<config, reload, current, objects, foreign, marks>>

FireEnds ==
    /\ running # Nothing
    /\ running' = Nothing
    /\ UNCHANGED <<config, reload, current, objects, foreign, marks>>

------------------------------------------------------------------------------
(* Win32HotkeyBackend._loop *)

Register(b, m) ==
    /\ at[b] = "register" /\ m \in todo[b]
    /\ IF Taken(wired[b][m])
       THEN failed' = failed \cup {b} /\ UNCHANGED held
       ELSE held' = [held EXCEPT ![b] = @ \cup {m}] /\ UNCHANGED failed
    /\ todo' = [todo EXCEPT ![b] = @ \ {m}]
    /\ UNCHANGED <<config, reload, current, kind, wired, at, stopped, running, foreign, marks>>

Registered(b) ==
    /\ at[b] = "register" /\ todo[b] = {}
    /\ MoveTo(b, "check")
    /\ UNCHANGED <<config, reload, current, kind, wired, todo, held, stopped, failed, running, foreign, marks>>

\* Fault: the event is looked at only when there is no message
SeeEventSometimes(b) ==
    /\ at[b] = "check"
    /\ \/ MoveTo(b, IF b \in stopped THEN "end" ELSE "peek")
       \/ held[b] # {} /\ MoveTo(b, "peek")
    /\ UNCHANGED <<config, reload, current, kind, wired, todo, held, stopped, failed, running, foreign, marks>>

\* while not self._stop_event.is_set()
SeeEvent(b) ==
    /\ at[b] = "check"
    /\ MoveTo(b, IF b \in stopped THEN "end" ELSE "peek")
    /\ UNCHANGED <<config, reload, current, kind, wired, todo, held, stopped, failed, running, foreign, marks>>

\* PeekMessageW finds nothing, or one of the hotkeys pressed.
Peek(b) ==
    /\ at[b] = "peek"
    /\ \/ MoveTo(b, "check")
       \/ held[b] # {} /\ MoveTo(b, "callback")
    /\ UNCHANGED <<config, reload, current, kind, wired, todo, held, stopped, failed, running, foreign, marks>>

\* Fault: after a callback the thread goes on with the next message
LookForMore(b) ==
    /\ at[b] = "callback"
    /\ MoveTo(b, "peek")
    /\ UNCHANGED <<config, reload, current, kind, wired, todo, held, stopped, failed, running, foreign, marks>>

\* The callback returns; what it raises is swallowed.
CallbackEnds(b) ==
    /\ at[b] = "callback"
    /\ MoveTo(b, "check")
    /\ UNCHANGED <<config, reload, current, kind, wired, todo, held, stopped, failed, running, foreign, marks>>

\* finally: UnregisterHotKey
End(b) ==
    /\ at[b] = "end"
    /\ held' = [held EXCEPT ![b] = {}]
    /\ MoveTo(b, "free")
    /\ overdue' = overdue \ {b}
    /\ UNCHANGED <<config, reload, current, kind, wired, todo, stopped, failed, running, foreign,
                   late, leaked, told>>

\* Another program registers a combination, and keeps it.
OtherProgram(k) ==
    /\ ~Taken(k)
    /\ foreign' = foreign \cup {k}
    /\ UNCHANGED <<config, reload, current, objects, running, marks>>

------------------------------------------------------------------------------
Reload == Stop \/ Join \/ (\E b \in Backends : Build(b)) \/ Start \/ Check
            \/ (\E m \in Modes : AddHotkey(m)) \/ Added \/ LibraryRefuses

Loop(b) == (\E m \in Modes : Register(b, m)) \/ Registered(b) \/ SeeEvent(b) \/ Peek(b) \/ End(b)

HotkeysNext ==
    \/ Save \/ Reload \/ FireEnds
    \/ \E b \in Backends : Loop(b) \/ CallbackEnds(b) \/ \E m \in Modes : Fire(b, m)
    \/ \E k \in Combos : OtherProgram(k)

HotkeysSpec == HotkeysInit /\ [][HotkeysNext]_hotkeys

\* Threads run, and callbacks return.
HotkeysFairness == WF_hotkeys(Reload) /\ WF_hotkeys(FireEnds)
              /\ \A b \in Backends : WF_hotkeys(Loop(b)) /\ WF_hotkeys(CallbackEnds(b))

FairHotkeysSpec == HotkeysSpec /\ HotkeysFairness

------------------------------------------------------------------------------
(* A press of mode m's combination would run a callback of backend b.      *)
Takes(b, m) ==
    /\ m \in held[b]
    /\ kind[b] = "win32" /\ b \in stopped => at[b] = "peek"

(* Once the old backend has been stopped a key does what the settings say: *)
(* only the current backend answers, with the mode that is configured,     *)
(* even if the old thread is still in a callback; and no key answers       *)
(* twice, if it is configured once.  A refusal of the library is the       *)
(* exception, after which a restart is needed.                             *)
KeysFollowConfig ==
    ~leaked /\ reload \notin {"stop", "join"} =>
        \A b \in Backends, m \in Modes :
            Takes(b, m) => b = current /\ wired[b][m] = config.keys[m]

(* A configured key works, unless another program has it, or an older      *)
(* callback would not end: that some keys are taken does not cost others,  *)
(* and the old backend lets go before the new one registers.               *)
ConfiguredKeysWork ==
    reload = "none" /\ ~late /\ at[current] \in {"check", "peek", "callback", "on"} =>
        \A m \in Modes :
            config.keys[m] \notin foreign \cup {Nothing} =>
                \E n \in held[current] : wired[current][n] = config.keys[m]

(* Callbacks of hotkeys do not overlap, unless an old one has outlasted    *)
(* the reload, or the library has hotkeys left: what ClientDictation has   *)
(* only where Overlap is TRUE.                                             *)
CallbacksDoNotOverlap ==
    ~late /\ ~leaked => Cardinality({b \in Backends : at[b] = "callback" \/ running = b}) <= 1

(* docs/architecture.md:365-367, app.py:11-12: after start a conflict is   *)
(* shown as a toast.                                                       *)
ConflictsAreTold ==
    reload = "none" /\ current \in failed /\ at[current] = "peek" => told

Settled == \E b \in Backends : b = current /\ at[b] \in {"check", "peek", "callback", "on", "leaked"}

(* Every reload comes to its end, although it waits for a thread; and when *)
(* no more settings are saved, some backend is left that takes keys, or    *)
(* the library has refused one.                                            *)
HotkeysComeBack ==
    /\ reload # "none" ~> reload = "none"
    /\ <>[](reload = "none") => <>[]Settled
=============================================================================
