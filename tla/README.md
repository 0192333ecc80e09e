# Sprichblitz: verification project

Sprichblitz is dictation by hotkey.  A client records, sends the audio to a
backend, and inserts the text that comes back.  The backend transcribes with a
local or a cloud speech-to-text provider (STT), optionally has a language model
(LLM) rework the text, and keeps users, keys and modes in SQLite.  This
directory models its concurrent and failure-prone parts in TLA+, checks them
with TLC and proves the main results with TLAPS.

    tlc -workers 2 -config ClientDictationSerial.cfg MCClientDictation
    tlapm ClientDictationProofs.tla

## Inventory

| Component | State | Operations | Talks to | What is hard |
|---|---|---|---|---|
| Client, recording core (`app.py`, `audio/recorder.py`, `audio/timeout.py`) | `_state`, `_recorder`, `_timeout`, `_active_mode`, the stream and its frames | key press, 59 s timer, stop, send, recovery | microphone, tray, backend client | four kinds of threads share the fields; the lock covers single accesses of `_state` only |
| Client, tray (`tray/icon.py`) | icon, tooltip, blink thread | `set_state`, blinking | recording core | writes of several threads; start/stop of the blink thread is not locked |
| Client, hotkeys (`hotkeys/`, `_reload_hotkeys`) | registrations, message thread, stop event | start, stop, reload | recording core | a reload may leave the old thread running; the new backend registers what the old one has to let go; one of several hotkeys is refused |
| Client, insertion (`insertion/`) | clipboard | save, paste, restore | other programs | every access of the clipboard may fail; the user's content is lent, not owned |
| Client, settings (`ui/settings_window.py`, `ui/tabs/`, `ui/token_dialog.py`, `config.py`, `secrets_store.py`) | `config.json`, the token in the keyring, the configuration in use, the fields, the list of modes | first-run dialog, edit, save, refresh | hotkeys, backend client | a save changes what is in use tab by tab before anything is written; token and file are two writes; lists arrive from threads while the tab is edited |
| Client, console process, autostart, uninstall | process, registry | start, remove | operating system | next to none |
| Gate (`services/local_gate.py`) | semaphore, its waiters | `slot()` | pipeline | a timeout races with a release |
| Dictation pipeline (`services/full_pipeline.py`, `transcription.py`, `post_processing.py`, `routes/full.py`, `transcribe.py`, `process.py`) | one request each: effective mode, call under way | resolve, transcribe, retry, fall back, rework, answer | gate, providers, keys, usage | order of the fallbacks, privacy boundary of local processing, every call may fail in several ways |
| Mode overrides, catalogue (`services/mode_overrides.py`, `mode_definitions.py`, `routes/me.py`, `admin.py`) | rows in SQLite | PUT, DELETE, merge | pipeline | several commits per request, concurrent writers |
| Providers (`providers/`) | HTTP clients | call with retries | cloud and local services | classes of failure |
| Rate limiter (`services/rate_limit.py`) | one bucket per user | `check` | routes | event loop and pool threads; the clock is read outside the lock |
| Console access (`services/console_bootstrap.py`, `console_session.py`, `routes/console.py`, `auth.py`) | codes, signed sessions, tokens | issue, redeem, verify, revoke | accounts | revocation between two steps, single use |
| Accounts (`admin.py`, `routes/admin.py`) | users, tokens | create, disable, delete | everything | last administrator, stale checks, row ids that come back |
| Access keys (`services/cf_access.py`) | cached signing keys | verify, refresh | identity provider | lifetime, throttled refresh |
| Middleware (`middleware/`) | bytes received, scheme, ingress flag | count, cut off, trust | routes | limit reached in mid-stream; headers of peers that are not the tunnel |
| Usage (`services/usage.py`) | counters per day | book, aggregate | pipeline | booking may fail |
| Android client (`ui/AppViewModel.kt`, `audio/AudioRecorder.kt`) | view-model state, recorder, files in the cache | record, send, refresh | backend | coroutines interleave at suspension points; taps on stale frames; calls that outlive their activity |
| Web console (`console_static/app.js`) | the page, calls under way | render, save, revoke | routes | an answer finds its card gone; an answer is lost after the write |
| Storage setup, normaliser, crypto, VAD | - | - | - | data, start-up or operating-system work |

What makes each correct:

- **Recording core**: audio goes out once and in the mode it was recorded in;
  one microphone, left open only by a driver that fails, and then an error is
  shown; no state in which keys are ignored is left for ever; the documented
  state diagram.
- **Gate**: permits are conserved whatever the timing; no lost wake-up; first
  come, first served; at most the configured number of local calls.
- **Pipeline**: local processing never reaches a cloud provider; a chosen STT is
  used; the cloud fallback is the last resort; a slot is held exactly during a
  local call; every request is answered.
- **Rate limiter**: the burst is never withheld; no more than burst and refill.
- **Console access, accounts**: a code works once; a revoked token or disabled
  user ends every session derived from it; an administrator remains.
- **Catalogue**: a row that a reader uses is complete; a deleted mode takes its
  overrides along.
- **Access keys, middleware**: a withdrawn key is used no longer than the cache
  lives, an outage aside, and a new key gets in; no body past the limit reaches
  the application; what the tunnel decides cannot be claimed by a LAN client.
- **Hotkeys**: a key does what the settings say, once; configured keys work; every
  reload ends.
- **Settings**: what was last saved is in use, across crashes and restarts; nothing that
  is typed or saved is changed by a list that arrives.
- **Tray, insertion**: the icon at rest is that of the state and blinks in an error
  only; the clipboard is given back.
- **Android**: one dictation at a time, its mode kept, its file there for as long
  as it is needed and deleted after.
- **Web console**: a section shows what is stored; a token's plaintext does not
  outlast the view of it.

`PROJECT.json` lists every hazard at its line, with the property that covers it
or the reason why none does.

## Modules

| Module | Role |
|---|---|
| `DictationLifecycle` | abstract: the client's documented state diagram with the microphone |
| `ClientDictation` | the recording core, one action per access of a shared field |
| `SlotPool` | abstract: a bounded pool of slots |
| `LocalInferenceGate` | `slot()` over `asyncio.Semaphore`, per event-loop step |
| `DictationPipeline` | requests from route to answer; extends the gate |
| `RateLimiter` | the bucket of one user, several threads |
| `WindowsShell` | tray with its blink threads, and the insertion of the text |
| `HotkeyBackends` | both hotkey backends, their threads, and the reload |
| `ClientSettings` | first-run dialog, configuration, settings window, list of modes |
| `ConsoleAccess` | accounts, tokens, codes and console sessions |
| `ModeCatalog` | definitions, overrides and bookings, commit by commit |
| `HttpEdge` | body limit, ingress, and the cache of Cloudflare's signing keys |
| `AndroidDictation` | the Android client: view model, recorder, activity, process |
| `WebConsole` | the page of the console and the handlers behind it |
| `Tables` | rows of SQLite as functions from the key |
| `MC...` | model values, symmetry, sets of inputs for TLC |
| `...Proofs` | theorems and TLAPS proofs of the modules they extend |

Operators under a comment `Fault:` are deliberately wrong variants of the
definition that follows.  No specification uses them; each replaces that
definition to show that a property notices.

### ClientDictation

The variables are the fields of `ClientApp` (`state`, `tray`, `recorder`,
`timeout`, `activeMode`), of the `Recorder` objects (`streaming`, `frames`) and,
per thread, a program counter and locals (`rec`, `tim`, `mode`, `target`).
`startedWith` is history.  Every access of a shared field in `_on_hotkey`,
`_start_recording`, `_on_timeout`, `_stop_recording_and_send`, `_set_state` and
`_schedule_recovery` is a step.  `_recorder` and `_active_mode` are published in
one step: a reader takes the mode first and the recorder afterwards, so what it
could see between the two writes it also sees before them.  `Recorder.stop` takes
two steps, around the check of `_stream` and the locked removal of the frames.
When `stream.stop()` raises, `close()` is skipped and the reference dropped
(`recorder.py:81-85`), and when `stream.start()` raises, the open stream is dropped with
its `Recorder`: `unclosed` says that this may have left the microphone open.
`streaming` is about streams a recorder still holds.  `DictationLifecycle` has the
same as `stuck`: a failure of the microphone, after which an error is shown before
anything else happens.

A timer carries the name of its recording, and a name is reused when nothing
refers to it.  `TimerFires` assumes that `_start_recording` does not stall for
59 s between two statements.  Presses that change nothing (in `processing` and
`error`, of a disabled mode) are no steps.  `Overlap` says whether a hotkey and
a timer callback may run at the same time: TRUE is what the threads allow, FALSE
the ordinary case, in which stronger properties hold.

### LocalInferenceGate

`permits` and `queue` are the semaphore's counter and waiters, `slot` says where
each caller is: `waiting` (future pending), `granted` (result set, task not yet
run), `expired` and `revoked` (the timeout came before or after the result), `in`
and `out`.  The semaphore itself is external: it follows CPython 3.11 and 3.12,
in which `locked()` looks at the live waiters and a cancelled `acquire` gives its
permit back.  Cancellation of a whole request looks like a timeout to the gate.

### DictationPipeline

A request is a record of what the client and the settings ask for.
`ApplyUserOverride`, `ResolveForLocation`, `BuildEffective` and `Accepted` are
the functions of the same names in the services; `PlanOf` is the effective mode
of the three routes.  After that the request moves from call to call (`stage`):
STT, retry without prompt hint, fallback, LLM.  `GoCall` sends calls of local
providers to the gate; `HangUp` is the end of a call with its `finally`.  A call
ends in text, blank text, `ProviderUnavailable`, `ProviderEmptyResult` or another
`ProviderError`.  The user's key may be missing or unreadable at every call.
Retries with backoff stay inside one call and only lengthen it.
`log` is the history of the calls made and what they gave.  Configured modes
name registered providers, and the providers named in `local_providers` have no
`key_provider`; the code checks the first part of that only
(`validate_local_providers`), so both are assumptions.

### RateLimiter

Tokens are counted in whole fractions, so that one tick refills `Rate`; float
rounding is not modelled.  `ReadClock` and `Check` are two steps because
`time.monotonic()` is called before the lock is taken.

### WindowsShell

The counterpart of `ClientDictation`: there the recorder is detailed and the tray
one variable, here the recorder is a choice of outcomes and the tray and the
insertion are detailed.  `tray`, `image`, `blinking`, `stopBlink` and `blinker` are
the fields of `TrayIcon`; `_start_blink` and `_stop_blink` run after its lock is
released, so that each access of a field is a step, the second reading of
`_blink_thread` in `start()` and `join()` included.  A blink thread checks the
event, shows one of two images, and at its end shows the image of `_state`.
`join(timeout=1)` may return early, hence blink threads outlive their call.
Insertion saves the clipboard, copies the text, pastes and restores in steps of
their own; each access may fail, and the handlers of `clipboard_sendinput.py` and
`_send_and_insert` decide what becomes of it.  What cannot be read as text is
remembered as the empty string.

### HotkeyBackends

`current` is `ClientApp._hotkey_backend`; each backend object has its class (`kind`), what
`register()` gave it (`wired`), what it has registered (`held`), its stop event and
`_error`.  `Save`, `Stop`, `Join`, `Build`, `Start` and `Check` are `_on_settings_saved`
and `_reload_hotkeys`; the start of the client is the reload without the stop.
`Register` to `End` are `Win32HotkeyBackend._loop` in its thread: one `RegisterHotKey`
each, then stop event and messages in turn, the callback in the same thread, and the
release at the end.  `Join` gives up only on a thread that is in a callback (two seconds).
The keyboard library runs callbacks of its own, one at a time (`Fire`).  Other programs
keep what they take.

A combination stands for all spellings of itself; `ClientSettings` knows the check that
refuses a spelling used twice.  `parse_hotkey` refuses to wire what it cannot read, which
is the mode without a combination.  A refusal of the library in the start of the client
ends the process.

### ClientSettings

`cfg` is `ClientApp._cfg`, the object that the window and its tabs change in place,
`file` is `config.json` (`Torn` between the truncation and the end of `write_text`),
`form` the fields, `shown` the modes that have one.  The start is `load_config`, the token,
and the first-run dialog with its own writes.  `ClickSave` to `OnSaved` are `_on_save`:
the address, the token in the keyring, hotkeys and options, the file, and the
callback, with the refusal or failure of each.  `End` may strike between any two of them.
A thread that refreshes the modes fetches, stores and, for the window, reads the list
again, compares and stores it, and asks Tk for a rebuild of the tab.  Tk runs one callback
at a time, so nothing else of the window happens during a save.

The address and one option stand for all settings besides hotkeys; a configuration that
cannot be read ends the start.  `saved`, `refused`, `mixed` and `typed` are history.  What
saved hotkeys do is `HotkeyBackends`.

### ConsoleAccess

`users` and `tokens` are the tables, `codes` the dictionary of
`BootstrapCodeStore`, `cookies` the signed cookies browsers hold.  A request is
admitted in one step and acts in a later one, as FastAPI resolves the principal in
a dependency and runs handlers in threads; issuing a token has a further step
between reading the user and inserting the row.  A code is popped under the lock
whatever follows; the cookie is signed from the grant, without another look at the
tables.  `NextId` is SQLite's rule for row ids: the id of a deleted row at the
end of the table is handed out again.  Restart forgets codes and requests; cookies survive,
since the key they are signed with is derived from a configured secret.

### ModeCatalog

Every statement on the database is a step.  `PutDefinition`, `GetDefinition`,
`CommitDefinition`, `RedoDefinition` and `ReplyDefinition` are one PUT: validation, the
row read by `upsert_definition`, the commit, after a lost INSERT the rollback with
another SELECT and then another commit, and the answer.  SQLAlchemy's identity map
matters: the second SELECT of a session keeps the values first read, and an UPDATE
writes the columns that differ from them (`WriteChanged`).  A DELETE removes the
definition and the overrides in two commits.  A dictation looks the mode up, books
(`Book`), and answers (`ReplyText`); `Crash` may come between any two steps.
`orphan`, `raced`, `answered` and `cut` are history.

### HttpEdge

`Arrive`, `Receive` and `Parse` are the body limit: header first, then the messages
as they come, the one that crosses the limit replaced by an empty last one.
`Authenticate` is the decision about tunnel, scheme and JWT, taken from the raw peer.
`Hit`, `Throttled`, `Fetch`, `FetchOk` and `FetchFails` are `_key_for_kid` under its
lock, and `Rotate` is Cloudflare, which changes its keys at will.  Time is counted in
ages up to the longer of the two intervals; an older age is not told apart by any guard.

### AndroidDictation

A callback or a coroutine runs without interruption up to its next suspension, and is
one step.  `shown` is what the last frame was composed of: a tap needs a frame on
which its control could be tapped, and meets whatever state there is by then.
`uploads` are the coroutines of `upload()`: the call of `/full` is awaited
(`call`), or its scope was cancelled and it goes on until it returns (`orphan`); then
the `finally` has the file to delete, a step of its own on a thread of
`Dispatchers.IO` (`DeleteFile`), which the state on the screen does not wait for.
`File.createTempFile` comes before the `MediaRecorder` is made, outside the `try`
(`AudioRecorder.kt:35-36`): when that fails the empty file stays (`left`) until the next
view model clears the cache.  `Finish` is the end of the activity, `Kill` that of the
process, `Open` the next start.

### WebConsole

A card is one rendering of a section; a call under way remembers the card it belongs
to, which may have left the page.  The server serves, refuses, or serves and is cut
off before the answer.  What a card shows is reduced to one value: the location,
whether a key is configured, whether a mode is enabled.  The select of the location
and the switch of a user's mode are inputs: `ChangeLocation` and `TickMode` change what
they show before anything is saved.  A refused save sets the select back, and leaves
the switch as it is (`app.js:274-291`); so `Told`, what a card tells of the tables, is for
the form of a mode what it was made of.  A user's card has the box with the tokens, in
which the plaintext of a new token appears.

## Runs

| Run | Instance | Shows |
|---|---|---|
| `client_overlap` | 1 hotkey thread, 2 recordings, 2 workers, 1 mode | with all interleavings: a recording is sent once, no busy state is abandoned |
| `client_serial` | the same, 2 modes, callbacks one at a time | one guarded microphone, mode kept, refinement of `DictationLifecycle` with liveness, failing drivers included |
| `pipeline_inputs` | 1 request, 3240 combinations of mode, override, location and parameters | where audio and text may go |
| `pipeline_gate` | 2 requests, 1 permit | slots, pool, every request answered |
| `limits` | gate: 4 callers, 2 permits; bucket: 3 threads, burst 2, half a token per tick, 5 ticks | wake-ups, order, service; burst available, bounded excess |
| `shell` | 1 callback thread, 2 workers, 2 blink threads, 2 in `set_state`; 2 modes, 1 combination, 2 hotkey backends | icon at rest, blinking exactly in an error, clipboard given back; keys follow the settings, configured keys work, every reload ends |
| `settings` | 1 listed mode, 1 combination, 2 tokens, 1 thread with lists, an address and a hotkey that are refused | what was saved is in force, only typing changes hotkeys |
| `console_access` | 2 requests, 1 code, 2 users, 2 tokens | single use, earned scope and time, revocation that lasts, an administrator who remains |
| `mode_catalog` | 2 requests, 1 configured and 1 own mode, 2 bookings | complete rows, a PUT changes what it names only, no inherited override |
| `http_edge` | 2 requests, 1 key and an unknown one, intervals of 2 | body limit, withdrawn keys go and new ones come |
| `android` | 2 files, 2 modes, cut after 2 s | one dictation, mode kept, files there as long as needed and deleted after |
| `web_console` | 2 calls, 3 renderings | plaintext only in sight, page tells what is stored |

The type invariants (`TypeOK` and its namesakes) and nine more properties are not part
of these runs: they are theorems (see Proofs).

`limits` and `shell` each check two modules that share no state.  A variable of the MC
module (`moving`) says which of the two a behaviour is about; the other stays in an
initial state.  Liveness is asked of one of the two (the gate, the hotkeys) and holds
trivially in behaviours about the other.  `shell` has liveness and symmetry
at once: the permuted names are those of modes, which the fairness does not tell
apart, and of tray and insertion, which do not move where liveness is at stake.

**Bounds.**  Two recordings are what it takes for a late stop to meet the next
recording; two workers for a send and a recovery at once; a third of either only
repeats the roles.  `client_overlap` leaves `tray`, `mode` and the history out of
the fingerprint (`MCView`): no guard reads the tray, and with one mode the others
are constant once set.  Four callers on two permits let two wait while two
leave, so that a timeout can hit either.  The pipeline's two requests on one slot
produce every pairing of a holder and a waiter; the routing is a matter of one
request and is run with all inputs.  `MaxClock` bounds the bucket's clock.

In `shell`, `BlinkThreads` bounds the blink threads alive at a time (one that has not
noticed its end, and the next) and `MAX_IN_TRAY` the calls of `TrayIcon.set_state` that
overlap.  In the hotkeys two backends are the one that is replaced and the next; a
third would need two callbacks that outlast reloads.  The library refuses once, after
which the user is told to restart.  Two modes with one combination let it pass from one to the
other.  The settings need one mode whose list entry comes and goes, and two tokens, of
which one is old; larger instances (two addresses, a built-in mode with a hotkey,
two threads whose lists cross) take TLC longer than a run should and found nothing else.
In `console_access`, `MaxUsers` and `MaxTokens` bound row ids, which come back
after deletions, so that histories are not bounded; one code is minted, expires and is
asked for again; `CodeTTL` 1, `UserTTL` 2 and `AdminTTL` 1 give a code that can expire
and a scope whose session ends first.  In `mode_catalog` two requests are a PUT and the
PUT or DELETE that overtakes it; `MaxBookings` lets two dictations overlap.  In
`http_edge` two requests let one wait for the lock while the other fetches; `TTL` =
`MinRefetch` = 2, since with a throttle longer than the lifetime the withdrawn key lasts
for the throttle (`Horizon`).  In `android` two files are the recording and the upload of
an activity that is gone, or of the coroutine that has not deleted its file yet; two
seconds separate the limit from the first second, and a longer limit takes TLC longer
than a run should.  In `web_console` two calls are an answer and the one it is overtaken by.

**Fairness.**  Threads that can run do (`WF` of each thread's step), which the
operating system guarantees; an armed timer fires (`SF`, because key presses can
disable it by occupying the callback for a while); requests end because httpx has
timeouts of 60 s and 10 s (`backend/client.py`), and provider calls likewise.
Key presses, arriving requests and the gate's own timeout are never assumed.
In `HttpEdge` time passes, a thread that can keep the lock to fetch takes it, every
fetch ends (`http_timeout_s`), and an endpoint asked again and again answers at
some time (`SF` of `FetchOk`): without the last a new key need never get in.  In
`AndroidDictation` frames are composed (`WF`), seconds pass and calls end by their
timeout (`SF`, since both wait for a frame that the user can keep changing), and a
thread of `Dispatchers.IO` takes up the deletion it is given (`WF` for each file).
In `HotkeyBackends` the reload and the message threads run, and callbacks return:
they start threads, and do not wait for more than the driver of the microphone.
The other modules are checked for safety only and state no fairness.

Every run checks for deadlock.

### Disagreements between code and documentation

Six definitions state what a document, docstring, comment or test says of the program; the
code does not keep them, and no run checks them.  TLC finds a counterexample to each
with the constants of `client_serial`, `client_overlap` (with `FairSpec`),
`pipeline_inputs`, `limits`, `shell` and `settings`, in this order.

- `TrayShowsState` (`ClientDictation`): `_set_state` writes the state under the lock
  and the tray after it.  A recovery thread between the two when a new error is shown
  overwrites the icon with grey.
- `HardTimeoutCuts` (`ClientDictation`): the timer thread is between two statements of
  `_stop_recording_and_send` when the key is pressed; the hotkey thread stops the
  recording and, on another press, starts the next one; the timer thread goes on
  and clears the new `_recorder` and `_timeout`.  The microphone stays open, and
  the state allows the next press to open another.  It takes a thread that is held
  up between two statements for the time between two presses: rare, and final.
- `NoHardErrorAfterBlank` (`DictationPipeline`): `except ProviderError` does not catch
  the missing key (412), the unreadable key (422) or the busy gate (503).
- `NoOverissue` (`RateLimiter`): two threads take the lock in the other order than they
  read the clock, `last` moves back, and the ticks between are refilled twice.  The
  excess is what `OverissueBounded` allows: the rate times the delay.
- `ConflictsAreTold` (`HotkeyBackends`): `_post_hotkey_start_check` reads `last_error` when
  the message thread has been started, which may still be registering.  A refusal that
  comes later is logged and not shown, though `docs/architecture.md:365-367` has a toast.
- `NothingTypedIsLost` (`ClientSettings`): a rebuilt tab has fields for built-in, bound and
  listed modes.  What was typed for another goes with its field, though
  `settings_window.py:174-176` has a refresh discard no input.

Two more were met in `WindowsShell`:

- The docstring of `tray/icon.py` has the blinking end with the next `set_state`.  When
  two calls overlap, the blink thread may go on in another state, until the next
  error ends.  `IconIsHonest` therefore speaks of calls that have not overlapped.
- `tests/manual/README.md:34` has the icon grey again after about four seconds.  When a
  recovery and the next error meet in the tray, `_stop_blink` of the one may empty
  `_blink_thread` between its creation and `start()` by the other: an exception, after
  which nobody recovers, and the state stays `error`.

What the properties exclude on purpose, because the code allows it:

- `RevokedForGood`: a deleted token's row id may be handed out again, and a cookie
  names its token by id.
- `AdminRemains`: two administrators who demote each other at the same time leave none
  (`raced`); the command line is the way back.
- `CompleteRows`, `NoInheritance`: a DELETE between the check of a PUT and its commit
  leaves a row without description or STT, for which `_mode_info` has nothing to show, or
  overrides without a mode (`raced`).
- `StaleKeyNeedsOutage`: while the endpoint cannot be reached a withdrawn key is taken
  without limit; the configuration does not compel `jwks_min_refetch_interval_s` to be
  below the lifetime.
- `BodyWithinLimit`: what came before the limit may be parsed and acted upon if it
  parses, although the answer is 413.
- `BookedOnce` (a theorem): when the booking fails the text is lost; when the process
  dies between booking and answer the dictation is counted and was not answered (`cut`).
- `FieldsKept`: a PUT's value that equals the one it has read is not written.  When
  another PUT has changed the row in between, that one has the last word on the column,
  although it has committed first; the property asks of a PUT that all it names is set
  only when the row is the one it read.
- `OneMicrophone`, `ImplementsLifecycle`: a stream that a failing driver kept the client
  from closing may stay open beside the next recording's (`unclosed`, `stuck`).
- `FilesAreTransient`, `FilesAreDeleted`: the empty file of a start whose `MediaRecorder`
  could not be made stays until the next view model (`left`).
- `FilesAreThere`: a new view model clears the cache and may take the file of a call
  that the one before it no longer awaits.
- `KeysFollowConfig`, `CallbacksDoNotOverlap`: after a refusal of the library the hotkeys
  it took before answer until the restart (`leaked`); a callback that outlasts the two
  seconds overlaps with those of the next backend (`late`), and what its thread holds
  the next one may not get (`ConfiguredKeysWork`).
- `LastSaveIsInForce`, `HotkeysChangeByTyping`: a save that is refused, or whose file cannot
  be written, has already changed the configuration in use (`refused`), and the next save
  or rebuild starts from it; a crash between the two writes leaves the new token with
  the old file (`mixed`); a torn file keeps the client from starting (`Repair`).
- `TabShowsModes`: Tk refuses a rebuild between the creation of the root and its mainloop
  (`lost`).
- `ClipboardIsLent`: an image or a file list in the clipboard does not come back, and
  keys that the window does not take are lost without notice.
- `PageIsHonest`: a double click on a tab appends two renderings; answers of two key
  refreshes in the other order leave the older one; saving the form of a global mode
  sends its switch as it was rendered, and may enable again what another disabled;
  after a failed second reading the location goes back to what it was at first; the
  switch of a mode's form, and whatever is typed in any form, shows what the user wants
  until it is saved, and also after a save was refused or its answer lost (`Told`).
- `RecordingIsGuarded`, `AutoStopKeepsMode`: a stop or another recording in between, which
  takes callbacks that overlap.
- `ModeKept`: mode lists that arrive in the other order leave the older list, but not
  another choice than the user's while it is allowed.

## Proofs

Every safety property of the runs is a theorem, for all values of the constants.  Nine
more properties are theorems only: `PermitsConserved` and `ImplementsPool` of the gate,
`BookedOnce`, `EdgeIsEnforced`, `FilesAreTransient`, `CallbacksDoNotOverlap`,
`SavedShowsTruth`, `TypedIsKept` and `TabShowsModes`; TLC has checked each on small instances.
Assumptions are the named `ASSUME`s of the modules: disjoint kinds of threads, finite
callers, integer limits, registered providers, at least one mode, and a `None` that is
no name of anything.  The serial client's theorems assume `Overlap = FALSE` besides, as
their run does; with `Overlap` they are false (see Disagreements).

- **ClientDictationProofs.**  `TypeCorrect`.  `AudioIsSentOnce`: a recording has
  its frames or a single carrier, and a carrier is made only by the step that
  takes the frames out.  `BusyStatesAreLeft`: in `processing` and `error` some
  thread will leave the state.  The invariant is strengthened by
  `StartedTimerWaits` (a timer about to be started is not in a callback):
  otherwise starting it could take away the thread the state depends on.
  Then, for callbacks that do not overlap, `Serial`: at most one thread is in a callback
  (`Alone`), and its program counter tells which recorder streams, which timer is armed
  and what the shared fields hold (`Places`), while sends and recoveries run beside it and
  may touch the state only (`Stages`).  From it `MicrophoneIsOwned`,
  `RecordingsAreGuarded`, `AutoStopsKeepTheirMode`, and, one step of the code at a time,
  `FollowsTheDiagram`: each is a step of `DictationLifecycle` or a stutter, so that a
  microphone that may have stayed open is one whose failure is shown next.

  Then `ClientSettings`, by `SettingsInv`.  `FileKept` and `TokenKept` follow what was
  last saved through file, keyring and memory, each with the moments at which they may
  differ: `LastSaveIsAlwaysInForce`.  `FormSaved` tells how far a save has taken the fields
  over: without it nothing ties the file to what was on the screen when the last
  step writes it.  From it `SavedAlwaysShowsTruth`, and with `FieldsTyped`, by which every
  field has what is saved or what was typed, `HotkeysAlwaysChangeByTyping`.
  `TabAlwaysShowsModes` by `TabListed`; `TypedIsAlwaysKept` action by action.
- **DictationPipelineProofs.**  First the gate.  `PermitsAreConserved` by counting the
  holders; `GateTypeCorrect`; `WakeupsAreNotLost`; `GateIsBoundedPool`: a caller inside
  holds a permit, permits are conserved and never negative, so a `Take` of the pool is
  allowed whenever the gate lets someone in.  `QueueIsAlwaysExact`: who waits is in the
  queue, once.  No step inserts anywhere but at its end, whence `NobodyIsOvertaken`.
  Then the pipeline.  Every step of it is a step of the gate or leaves it alone (`PipelineUsesGate`), so the gate's results hold in the
  pipeline.  What the effective mode can be: `LocalPlan` and `ChosenPlan`
  follow a request's mode through override, location and parameters.  The
  invariant `Course` ties a request under way to its plan: the plan is the one
  computed from the request, each stage has the calls behind it that lead there,
  each call made was one the request allows, and the slot is held during local
  calls only.  Without the plan nothing is known of the next provider, without the
  calls behind it, and what they gave, nothing of what came before a fallback.  From it follow
  `LocalStaysLocalAlways`, `ChosenSttIsAlwaysUsed`, `FallbackIsAlwaysLast`,
  `OneSlotPerLocalCall` and `PipelineTypeCorrect`; since the local calls are the
  callers inside the gate, `LocalCallsAreBounded` is `GateIsBoundedPool` again.
- **WindowsShellProofs.**  `ShellTypeCorrect`.  `ClipboardIsAlwaysLent`: at most one
  thread drives the state at a time (`OneDriver`), so that two insertions never meet;
  `Lent` says at each place of the one insertion what is on the clipboard and what
  will be given back.  `IconIsAlwaysHonest`: a blink thread that has drawn will draw
  the state's image before it ends (`Resting`); and while no two calls of `set_state`
  have overlapped, the place of the one call tells how far it has brought the thread
  and its fields (`Progress`), which is lost as soon as there are two.

  Then `HotkeyBackends`.  A backend that has been replaced is stopped and only finishes
  (`Ages`), so that it takes no key any more; the place of the current one tells how far
  the reload is (`Stages`), and it was made from the settings (`Wired`): `KeysAlwaysFollowConfig`.
  A key that is configured and not held is still to be registered or taken by another
  program (`Covered`): `ConfiguredKeysAlwaysWork`.  Without a late callback the backend before
  has gone when the next is made (`Serial`): `CallbacksNeverOverlap`.
- **ConsoleAccessProofs.**  `AccessTypeCorrect`, with the lemma that the id of a new row
  is free (`MaxExists`, by the well-foundedness of the numbers).  `SessionsAreEarned`:
  what is left of a code or cookie and its age add up to what was granted, whoever
  holds it (`Sessions`).  `CodesWorkOnce`: a code has one place (`Placed`).
  `AnAdministratorRemains`: who acts without a race is an administrator, and no
  operation takes that from him who runs it.  `TokensKeepTheirOwners` and, from it,
  `RevocationLasts`: a row that stays keeps its owner and its revocation, and a token
  whose owner is gone is gone too, so that a user's reused id revives nothing.
- **HttpEdgeProofs.**  `EdgeTypeCorrect`, `BodyIsWithinLimit` and `EdgeIsAlwaysEnforced`
  from what the record of a request tells of its way (`Good`).  `StaleKeysNeedOutage`
  from `Ages`: a key in the cache has been gone for no longer than the cache is old, and
  unless a fetch is under way or the last one failed, the cache is as old as the last
  attempt; so the throttle does not lengthen a withdrawn key's life.  The rate limiter's
  `BucketTypeCorrect`, `BurstIsNeverLost` and `OverissueIsBounded` follow from one
  invariant, `Balance`: the tokens left and those handed out cover the burst and never
  exceed burst plus refill up to `last`, plus the ticks by which `last` was moved back.
- **ModeCatalogProofs.**  `CatalogTypeCorrect`.  `RowsAreComplete`: `CompleteRows` is not
  inductive, since the commit of a PUT that names no fields relies on the row it has read;
  `Promised` says that such a row is still there unless someone deleted it meanwhile, and
  `Kept` the same of an override under way.  `NothingIsInherited` by the rows a sweep is
  still to remove.  `FieldsAreKept`: the row read by a session need not be the row it
  commits over, but its required fields stay and a switch it does not name is not written;
  and where it is the same row, all that is named is set (`CommitIs`, `RepliesCommit`).
  `DictationsAreBookedOnce`: a request between booking and answer is counted with
  the bookings, and a crash moves it to `cut`.
- **AndroidDictationProofs.**  Every step is calm or of one of thirteen kinds (`StepKinds`).
  `AndroidTypeCorrect` and `OneDictationAlways` by one invariant, `Dictating`: the last
  of its parts, `NoResult`, keeps a recording off the screen of a result, where a late
  tap on "new dictation" would set the counter back and lengthen the recording.  Then
  `FilesAreAlwaysThere`, by which file each coroutine owns (`Owned`: a new recording gets
  a name that no coroutine is still to delete), `FilesAreAlwaysTransient` (`Filed`) and
  `ModeIsAlwaysKept`.
- **WebConsoleProofs.**  `PageTypeCorrect`.  `SecretsAreOnlyInSight` from `Tied`: a call
  whose card is still in the page belongs to the section in view, so that an answer cannot
  bring a plaintext elsewhere.  `PageIsAlwaysHonest` from `Orderly`: until something
  disturbs the page, its section has one card and one call, and the stage of the call
  tells whether the card is ahead of the server, behind it or equal (`Unsettled`); a tick
  in a mode's form changes what the card shows and not what it tells.

Only model-checked is liveness, which needs fairness and `ENABLED` and is out of the
prover's reach: `WaitersServed`, `EveryRequestAnswered`, `NewKeyGetsIn`, `FilesAreDeleted`, `HotkeysComeBack`,
and the fairness of `DictationLifecycle` in `ImplementsLifecycle`.

## Not modelled, and why

The console's window, autostart, uninstall, start and shutdown, migrations, encryption, the normaliser
and the voice detection are sequential work on data, files or the operating
system.  Of the modelled parts:

- Windows client: tooltips and balloons, push-to-talk (not implemented by the client
  either), failures inside pystray.  In `WindowsShell` callbacks of hotkey and timer
  do not overlap, the window in front takes the text within the tenth of a second the
  code waits, and the user does not copy during it.
- Backend: signatures and hashes are taken as unforgeable; wording, metrics and names
  are left out; the statistics are one SELECT.
- Android: the set-up form, the web view with its cookies, the app in the background,
  the system's permission dialog, and `cancelRecording` and `setLocaleOverride`, which
  no screen calls.  A frame comes within a second and before a call of `/full` is
  answered.  A text can be taken from the screen by another answer before anybody
  has seen it; no property is about that.
- Web console: layout and the single fields of forms.
- Settings: the trimming and normalising of what is typed; a field's value is one that
  these leave as it is.
- Body limit: that one response is sent is part of the model of `Receive`, not checked.

## Plan

What is left, in this order:

1. A console session as an abstract "valid while its token is", refined by
   `ConsoleAccess`.
2. The providers' clients and their retries (`providers/`), now one call with an outcome
   in `DictationPipeline`, as a module of their own that implements that call.
3. The hazards without a property in `PROJECT.json`: late stops, an exception in the tray,
   and the second failure behind a blank result need the failures of `WindowsShell` and
   `DictationPipeline` in more detail.
