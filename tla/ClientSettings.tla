--------------------------- MODULE ClientSettings ---------------------------
(***************************************************************************)
(* The settings of the Windows client: config.json, the token in the       *)
(* keyring, the first-run dialog, the settings window with its tabs, and   *)
(* the list of modes that background threads fetch and hand to the window. *)
(*                                                                         *)
(* Tk runs its callbacks one after the other, but the tabs change the      *)
(* configuration in use, one after the other, before anything is written.  *)
(* What a hotkey does with the settings is HotkeyBackends.                 *)
(***************************************************************************)
EXTENDS FiniteSets

CONSTANTS Urls, Tokens, Options,
          Standard, Dynamic,   \* modes built in, and modes of the backend's catalogue
          Combos,
          Fetchers,            \* threads that fetch the modes (bound on those under way)
          Defaults,            \* ClientConfig()
          Unset,                \* no token, no hotkey, no file
          BadUrls, BadKeys,    \* what the checks refuse
          Torn                 \* config.json while it is written

AllModes == Standard \cup Dynamic
Entries == Combos \cup {Unset}
Configs == [url : Urls, option : Options, keys : [AllModes -> Entries]]

\* What the fields of the tabs can hold.
UrlEntries == Urls \cup BadUrls
KeyEntries == Entries \cup BadKeys
Forms == [url : UrlEntries, token : Tokens \cup {Unset}, option : Options,
          keys : [AllModes -> KeyEntries]]

ASSUME SettingsAssumption ==
    /\ Defaults \in Configs
    /\ Unset \notin Tokens \cup Combos \cup Configs /\ Torn \notin Configs \cup {Unset}
    /\ BadUrls \cap Urls = {} /\ BadKeys \cap Entries = {}

VARIABLES
    file, keyring,
    phase,    \* where run() is
    cfg,      \* ClientApp._cfg, which the window and its tabs change
    token,    \* ClientApp._token
    window,   \* the settings window on its way to its mainloop
    form,     \* what is in the fields
    shown,    \* modes with a field
    status,   \* the line at the foot of the window
    saving,   \* where _on_save is
    catalog,  \* the modes /me/modes would list
    modes,    \* ClientApp._modes
    listed,   \* SettingsWindow._modes
    job, got, \* where each worker is, and the list it has
    pushers,  \* workers that hand the list to the window
    rebuild,  \* a rebuild of the modes tab is in Tk's queue
    saved,    \* history: what the last complete save has saved
    refused,  \* history: since then a save of this process has been given up half way
    mixed,    \* history: since then only the token has been written
    typed,    \* history: what the user last put into the field of each mode
    lost      \* history: a rebuild has not been queued

disk   == <<file, keyring>>
live   == <<phase, cfg, token>>
view   == <<window, form, shown, status, saving>>
lists  == <<catalog, modes, listed, job, got, pushers, rebuild, lost>>
record == <<saved, refused, mixed>>
settings   == <<disk, live, view, lists, record, typed>>

SettingsTypeOK ==
    /\ file \in Configs \cup {Unset, Torn} /\ keyring \in Tokens \cup {Unset}
    /\ phase \in {"off", "defaults", "token", "dialog", "dialogToken", "dialogWrite", "on"}
    /\ cfg \in Configs /\ token \in Tokens \cup {Unset}
    /\ window \in {"none", "made", "root", "built", "open"}
    /\ form \in Forms /\ shown \in SUBSET AllModes
    /\ status \in {"blank", "dirty", "refused", "saved"}
    /\ saving \in {"no", "token", "modes", "open", "write", "tell"}
    /\ catalog \in SUBSET Dynamic /\ modes \in SUBSET Dynamic /\ listed \in SUBSET Dynamic
    /\ job \in [Fetchers -> {"idle", "fetch", "store", "read", "set", "queue"}]
    /\ got \in [Fetchers -> SUBSET Dynamic] /\ pushers \in SUBSET Fetchers
    /\ rebuild \in BOOLEAN /\ lost \in BOOLEAN
    /\ saved \in [cfg : Configs, token : Tokens \cup {Unset}]
    /\ refused \in BOOLEAN /\ mixed \in BOOLEAN
    /\ typed \in [AllModes -> KeyEntries \cup {"nothing"}]

Untouched == [m \in AllModes |-> "nothing"]
Blank     == [url |-> Defaults.url, token |-> Unset, option |-> Defaults.option,
              keys |-> [m \in AllModes |-> Unset]]

\* The process does not run: only what is on the disk is left.
Ended ==
    /\ phase' = "off" /\ cfg' = Defaults /\ token' = Unset
    /\ window' = "none" /\ form' = Blank /\ shown' = {} /\ status' = "blank" /\ saving' = "no"
    /\ modes' = {} /\ listed' = {} /\ rebuild' = FALSE /\ lost' = FALSE
    /\ job' = [w \in Fetchers |-> "idle"] /\ got' = [w \in Fetchers |-> {}] /\ pushers' = {}
    /\ refused' = FALSE
    /\ typed' = Untouched

\* A fresh installation.
SettingsInit ==
    /\ file = Unset /\ keyring = Unset
    /\ phase = "off" /\ cfg = Defaults /\ token = Unset
    /\ window = "none" /\ form = Blank /\ shown = {} /\ status = "blank" /\ saving = "no"
    /\ catalog \in SUBSET Dynamic /\ modes = {} /\ listed = {} /\ rebuild = FALSE /\ lost = FALSE
    /\ job = [w \in Fetchers |-> "idle"] /\ got = [w \in Fetchers |-> {}] /\ pushers = {}
    /\ saved = [cfg |-> Defaults, token |-> Unset] /\ refused = FALSE /\ mixed = FALSE
    /\ typed = Untouched

------------------------------------------------------------------------------
(* run(), load_config() and the first-run dialog *)

\* A file that is there but not whole ends the process here.
Start ==
    /\ phase = "off" /\ file # Torn
    /\ IF file = Unset
       THEN /\ phase' = "defaults" /\ cfg' = Defaults /\ file' = Torn
            /\ saved' = [saved EXCEPT !.cfg = Defaults]
       ELSE phase' = "token" /\ cfg' = file /\ UNCHANGED <<file, saved>>
    /\ UNCHANGED <<keyring, token, view, lists, refused, mixed, typed>>

DefaultsWritten ==
    /\ phase = "defaults"
    /\ file' = Defaults /\ phase' = "token"
    /\ UNCHANGED <<keyring, cfg, token, view, lists, record, typed>>

ReadToken ==
    /\ phase = "token"
    /\ IF keyring = Unset
       THEN phase' = "dialog" /\ UNCHANGED token
       ELSE phase' = "on" /\ token' = keyring
    /\ UNCHANGED <<disk, cfg, view, lists, record, typed>>

\* The dialog writes the defaults with the new address, whatever the file was.
DialogSave(u, t) ==
    /\ phase = "dialog"
    /\ keyring' = t /\ mixed' = TRUE
    /\ cfg' = [Defaults EXCEPT !.url = u]
    /\ phase' = "dialogToken"
    /\ UNCHANGED <<file, token, view, lists, saved, refused, typed>>

DialogOpensFile ==
    /\ phase = "dialogToken"
    /\ file' = Torn /\ phase' = "dialogWrite"
    /\ UNCHANGED <<keyring, cfg, token, view, lists, record, typed>>

DialogWritten ==
    /\ phase = "dialogWrite"
    /\ file' = cfg /\ token' = keyring /\ phase' = "on"
    /\ saved' = [cfg |-> cfg, token |-> keyring] /\ mixed' = FALSE
    /\ UNCHANGED <<keyring, cfg, view, lists, refused, typed>>

\* The file cannot be opened or written: Tk swallows it and the dialog stays.
DialogFails ==
    /\ phase \in {"dialogToken", "dialogWrite"}
    /\ phase' = "dialog"
    /\ UNCHANGED <<disk, cfg, token, view, lists, record, typed>>

\* The process ends: the dialog is cancelled, the client quit, the power fails.
End ==
    /\ phase # "off"
    /\ Ended
    /\ UNCHANGED <<disk, catalog, saved, mixed>>

\* The user removes a file with which the client does not start.
Repair ==
    /\ phase = "off" /\ file = Torn
    /\ file' = Unset
    /\ UNCHANGED <<keyring, live, view, lists, record, typed>>

------------------------------------------------------------------------------
(* The window *)

Bound(c) == {m \in AllModes : c.keys[m] # Unset}

\* Fault: modes that have a hotkey but are not listed have no field
ShownIfListed(c, l) == Standard \cup l

\* _ordered_modes
ShownModes(c, l) == Standard \cup Bound(c) \cup l

\* _refresh_modes_into_settings: a thread fetches the list for the window.
Push(w) ==
    /\ job[w] = "idle"
    /\ job' = [job EXCEPT ![w] = "fetch"] /\ pushers' = pushers \cup {w}

\* _open_settings: a new window, or the one there is
OpenSettings(w) ==
    /\ phase = "on"
    /\ IF window = "none"
       THEN window' = "made" /\ listed' = modes
       ELSE UNCHANGED <<window, listed>>
    /\ Push(w)
    /\ UNCHANGED <<disk, live, form, shown, status, saving, catalog, modes, got, rebuild, lost, record, typed>>

\* run(): ctk.CTk(), then the tabs, then mainloop()
MakeRoot ==
    /\ window = "made"
    /\ window' = "root"
    /\ UNCHANGED <<disk, live, form, shown, status, saving, lists, record, typed>>

BuildTabs ==
    /\ window = "root"
    /\ window' = "built"
    /\ shown' = ShownModes(cfg, listed)
    /\ form' = [url |-> cfg.url, token |-> keyring, option |-> cfg.option, keys |-> cfg.keys]
    /\ lost' = FALSE
    /\ UNCHANGED <<disk, live, status, saving, catalog, modes, listed, job, got, pushers, rebuild, record, typed>>

EnterMainloop ==
    /\ window = "built"
    /\ window' = "open"
    /\ UNCHANGED <<disk, live, form, shown, status, saving, lists, record, typed>>

\* Tk is free for the next event.
Tk == window = "open" /\ saving = "no"

Edit(f) == form' = f /\ UNCHANGED <<disk, live, window, shown, saving, lists, record>>

EditOther ==
    /\ Tk
    /\ status' = "dirty"
    /\ \/ \E u \in UrlEntries : u # form.url /\ Edit([form EXCEPT !.url = u])
       \/ \E t \in Tokens \cup {Unset} : t # form.token /\ Edit([form EXCEPT !.token = t])
       \/ \E o \in Options : o # form.option /\ Edit([form EXCEPT !.option = o])
    /\ UNCHANGED typed

(* The user types a hotkey, takes the defaults, or has one recorded: until *)
(* a key is pressed, and for good if the tab is rebuilt meanwhile, the     *)
(* field holds a prompt that is no hotkey.                                 *)
EditKey(m, k) ==
    /\ Tk /\ m \in shown /\ k # form.keys[m]
    /\ typed' = [typed EXCEPT ![m] = k]
    /\ status' = "dirty"
    /\ Edit([form EXCEPT !.keys[m] = k])

\* _on_close: the window is hidden, with what is in its fields.
Close ==
    /\ Tk
    /\ status' = "blank"
    /\ UNCHANGED <<disk, live, window, form, shown, saving, lists, record, typed>>

\* _rebuild_modes_tab: what was in the fields stays there.
Rebuild ==
    /\ Tk /\ rebuild
    /\ shown' = ShownModes(cfg, listed)
    /\ form' = [form EXCEPT !.keys = [m \in AllModes |-> IF m \in shown \cap shown' THEN form.keys[m]
                                                                                 ELSE cfg.keys[m]]]
    /\ rebuild' = FALSE /\ lost' = FALSE
    /\ UNCHANGED <<disk, live, window, status, saving, catalog, modes, listed, job, got, pushers, record, typed>>

------------------------------------------------------------------------------
(* _on_save *)

Refuse ==
    /\ saving' = "no" /\ status' = "refused" /\ refused' = TRUE
    /\ UNCHANGED <<disk, live, window, form, shown, lists, saved, mixed, typed>>

\* BackendTab.apply: the address is checked and taken over.
ClickSave ==
    /\ Tk
    /\ IF form.url \in BadUrls
       THEN /\ status' = "refused"
            /\ UNCHANGED <<cfg, saving>>
       ELSE /\ cfg' = [cfg EXCEPT !.url = form.url]
            /\ saving' = "token"
            /\ UNCHANGED status
    /\ UNCHANGED <<disk, phase, token, window, form, shown, lists, record, typed>>

SetToken ==
    /\ saving = "token"
    /\ IF form.token = Unset
       THEN UNCHANGED <<keyring, mixed>>
       ELSE keyring' = form.token /\ mixed' = (mixed \/ form.token # saved.token)
    /\ saving' = "modes"
    /\ UNCHANGED <<file, live, window, form, shown, status, lists, saved, refused, typed>>

SetTokenFails == saving = "token" /\ form.token # Unset /\ Refuse

\* No hotkey is malformed, none is there twice.
Acceptable ==
    /\ \A m \in shown : form.keys[m] \notin BadKeys
    /\ \A m, n \in shown : form.keys[m] = form.keys[n] /\ form.keys[m] # Unset => m = n

\* ModesTab.apply and BehaviourTab.apply
ApplyModes ==
    /\ saving = "modes"
    /\ Acceptable
    /\ cfg' = [cfg EXCEPT !.keys = [m \in AllModes |-> IF m \in shown THEN form.keys[m] ELSE Unset],
                          !.option = form.option]
    /\ saving' = "open"
    /\ UNCHANGED <<disk, phase, token, window, form, shown, status, lists, record, typed>>

ModesRefused == saving = "modes" /\ ~Acceptable /\ Refuse

\* save_config: write_text empties the file first.
OpenFile ==
    /\ saving = "open"
    /\ file' = Torn /\ saving' = "write"
    /\ UNCHANGED <<keyring, live, window, form, shown, status, lists, record, typed>>

WriteFails == saving \in {"open", "write"} /\ Refuse

Written ==
    /\ saving = "write"
    /\ file' = cfg /\ status' = "saved" /\ saving' = "tell"
    /\ saved' = [cfg |-> cfg, token |-> keyring] /\ refused' = FALSE /\ mixed' = FALSE
    /\ UNCHANGED <<keyring, live, window, form, shown, lists, typed>>

\* Fault: the token is read at the start only
OnSavedKeepsToken ==
    /\ saving = "tell"
    /\ saving' = "no"
    /\ UNCHANGED <<disk, live, window, form, shown, status, lists, record, typed>>

\* _on_settings_saved: the token is read again.  The hotkeys: HotkeyBackends.
OnSaved ==
    /\ saving = "tell"
    /\ token' = IF keyring = Unset THEN token ELSE keyring
    /\ saving' = "no"
    /\ UNCHANGED <<disk, phase, cfg, window, form, shown, status, lists, record, typed>>

------------------------------------------------------------------------------
(* The list of modes *)

At(w, here, to) == job[w] = here /\ job' = [job EXCEPT ![w] = to]

\* _refresh_account_state: at the start, when the console is closed, at a health check
RefreshAccount(w) ==
    /\ phase = "on"
    /\ At(w, "idle", "fetch")
    /\ UNCHANGED <<disk, live, view, catalog, modes, listed, got, pushers, rebuild, lost, record, typed>>

Fetched(w) ==
    /\ At(w, "fetch", "store")
    /\ got' = [got EXCEPT ![w] = catalog]
    /\ UNCHANGED <<disk, live, view, catalog, modes, listed, pushers, rebuild, lost, record, typed>>

\* Fail-open: the list stays; a worker for the window hands over what there is.
FetchFails(w) ==
    /\ At(w, "fetch", IF w \in pushers THEN "read" ELSE "idle")
    /\ UNCHANGED <<disk, live, view, catalog, modes, listed, got, pushers, rebuild, lost, record, typed>>

\* self._modes = modes
Store(w) ==
    /\ At(w, "store", IF w \in pushers THEN "read" ELSE "idle")
    /\ modes' = got[w] /\ got' = [got EXCEPT ![w] = {}]
    /\ UNCHANGED <<disk, live, view, catalog, listed, pushers, rebuild, lost, record, typed>>

\* window.set_modes(self._modes)
ReadModes(w) ==
    /\ At(w, "read", "set")
    /\ got' = [got EXCEPT ![w] = modes]
    /\ UNCHANGED <<disk, live, view, catalog, modes, listed, pushers, rebuild, lost, record, typed>>

\* set_modes: the list that is there already is no news.
SetModes(w) ==
    /\ IF got[w] = listed
       THEN At(w, "set", "idle") /\ pushers' = pushers \ {w}
       ELSE At(w, "set", "queue") /\ UNCHANGED pushers
    /\ listed' = got[w] /\ got' = [got EXCEPT ![w] = {}]
    /\ UNCHANGED <<disk, live, view, catalog, modes, rebuild, lost, record, typed>>

(* after(0, ...): without a root the tab will be built from the list; with *)
(* a root but no mainloop within a second Tk raises, and nothing is queued. *)
QueueRebuild(w) ==
    /\ At(w, "queue", "idle") /\ pushers' = pushers \ {w}
    /\ rebuild' = (rebuild \/ window = "open")
    /\ lost' = (lost \/ window \in {"root", "built"})
    /\ UNCHANGED <<disk, live, view, catalog, modes, listed, got, record, typed>>

\* Somebody adds or removes modes in the console.
CatalogChanges ==
    /\ catalog' \in SUBSET Dynamic \ {catalog}
    /\ UNCHANGED <<disk, live, view, modes, listed, job, got, pushers, rebuild, lost, record, typed>>

------------------------------------------------------------------------------
Setup == Start \/ DefaultsWritten \/ ReadToken \/ (\E u \in Urls, t \in Tokens : DialogSave(u, t))
           \/ DialogOpensFile \/ DialogWritten \/ DialogFails

Saving == ClickSave \/ SetToken \/ SetTokenFails \/ ApplyModes \/ ModesRefused
            \/ OpenFile \/ WriteFails \/ Written \/ OnSaved

Worker(w) == Fetched(w) \/ FetchFails(w) \/ Store(w) \/ ReadModes(w) \/ SetModes(w) \/ QueueRebuild(w)

SettingsNext ==
    \/ Setup \/ End \/ Repair
    \/ MakeRoot \/ BuildTabs \/ EnterMainloop
    \/ EditOther \/ (\E m \in AllModes, k \in KeyEntries : EditKey(m, k))
    \/ Saving \/ Close \/ Rebuild
    \/ \E w \in Fetchers : OpenSettings(w) \/ RefreshAccount(w) \/ Worker(w)
    \/ CatalogChanges

SettingsSpec == SettingsInit /\ [][SettingsNext]_settings

------------------------------------------------------------------------------
(* At rest what was last saved is in force, in memory, in the file and in  *)
(* the keyring, across restarts.  A save that was given up may have        *)
(* changed what is in use, and a crash between token and file leaves the   *)
(* new token with the old address.                                         *)
LastSaveIsInForce ==
    phase = "on" /\ saving = "no" =>
        /\ file \in {saved.cfg, Torn}
        /\ ~refused => cfg = saved.cfg /\ file = cfg
        /\ ~mixed => keyring = saved.token /\ token = saved.token

(* "Gespeichert." stands under what is in the file and in the keyring: an  *)
(* edit takes it away, and a rebuild of the tab changes neither.           *)
SavedShowsTruth ==
    status = "saved" /\ saving = "no" =>
        /\ form.url = file.url /\ form.option = file.option
        /\ form.token \in {Unset, keyring}
        /\ \A m \in AllModes : file.keys[m] = IF m \in shown THEN form.keys[m] ELSE Unset

(* docs/architecture.md:77-79: while a mode has a field, only the user     *)
(* changes what is in it, whatever list arrives.                           *)
TypedIsKept ==
    [][window = "open" =>
         \A m \in shown \cap shown' : form'.keys[m] \in {form.keys[m], typed'[m]}]_settings

(* docs/architecture.md:77-79: the tab has a field for every mode that the *)
(* window was told of, unless Tk has not taken the rebuild.                *)
TabShowsModes ==
    Tk /\ ~rebuild /\ ~lost /\ (\A w \in Fetchers : job[w] # "queue") => listed \subseteq shown

(* A save changes a hotkey only to what the user has typed: a mode that    *)
(* the backend no longer lists keeps its own.  A save given up half way    *)
(* has changed the configuration in use, which later ones start from.      *)
HotkeysChangeByTyping ==
    [][phase = "on" /\ ~refused =>
         \A m \in AllModes : saved'.cfg.keys[m] # saved.cfg.keys[m] => saved'.cfg.keys[m] = typed[m]]_settings

(* settings_window.py:174-176, of the rebuild: what is typed and not yet   *)
(* saved is taken over.  It is lost with the field of a mode that is no    *)
(* longer listed and has no saved hotkey.                                  *)
NothingTypedIsLost ==
    [][window = "open" /\ window' = "open" =>
         \A m \in shown : form'.keys[m] \in {form.keys[m], typed'[m]}]_settings
=============================================================================
