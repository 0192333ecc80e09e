----------------------------- MODULE ModeCatalog -----------------------------
(***************************************************************************)
(* The modes of the backend: config.yml below the administrators'          *)
(* definitions below the overrides of a user, with the booking of usage    *)
(* (mode_definitions.py, mode_overrides.py, usage.py, routes/admin.py and  *)
(* routes/me.py).                                                          *)
(*                                                                         *)
(* Handlers run in a pool of threads; each statement that SQLite executes  *)
(* on its own is a step of its own.  A session remembers the row that it   *)
(* has read (SQLAlchemy's identity map): a second SELECT finds out whether *)
(* the row is still there but keeps the values first read, and the UPDATE  *)
(* names the columns that differ from them.                                *)
(***************************************************************************)
EXTENDS Tables, FiniteSets

CONSTANTS
    Keys,          \* mode keys
    Config,        \* those of config.yml
    Requests,      \* threads that serve requests
    MaxBookings,   \* bound on the dictations of a behaviour
    None           \* no row

\* full: description and stt are set, without which there is no ModeConfig
Definition == [full: BOOLEAN, enabled: BOOLEAN]

ASSUME KeysAssumption ==
    Config \subseteq Keys /\ MaxBookings \in Nat /\ None \notin Definition

VARIABLES
    definitions,   \* table mode_definitions: key -> [full, enabled]
    overrides,     \* table mode_overrides of one user: key -> [orphan]
    booked,        \* table usage_daily: successful runs
    answered,      \* history: dictations answered with a text
    cut,           \* history: booked dictations whose answer a crash cut off
    req,           \* request -> where it is and what it has read
    raced          \* history: keys deleted while somebody was writing them

usage == <<booked, answered, cut>>
vars  == <<definitions, overrides, usage, req, raced>>

\* orphan is history: the definition it was made for has been deleted
Override   == [orphan: BOOLEAN]
\* The fields a PUT names: both required ones or neither, and the switch
Body       == [full: BOOLEAN, enabled: {"on", "off", "unset"}]
Idle       == [stage |-> "idle"]

TypeOK ==
    /\ definitions \in TablesOf(Keys, Definition)
    /\ overrides \in TablesOf(Keys, Override)
    /\ booked \in 0..MaxBookings
    /\ answered \in 0..MaxBookings
    /\ cut \in 0..MaxBookings
    /\ \A r \in Requests :
          \/ req[r] = Idle
          \/ req[r].key \in Keys
             /\ req[r].stage \in {"get", "commit", "redo", "reply", "sweep", "override",
                                 "dictate", "booked"}
    /\ raced \subseteq Keys

Init ==
    /\ definitions = Empty
    /\ overrides = Empty
    /\ booked = 0
    /\ answered = 0
    /\ cut = 0
    /\ req = [r \in Requests |-> Idle]
    /\ raced = {}

Become(r, record) == req' = [req EXCEPT ![r] = record]

On(k, stages) == {r \in Requests : req[r].stage \in stages /\ req[r].key = k}

------------------------------------------------------------------------------
(* Rows and effective modes *)

DefinitionOf(k) == IF k \in DOMAIN definitions THEN definitions[k] ELSE None

Switch(enabled, old) == IF enabled = "unset" THEN old ELSE enabled = "on"

\* Columns of a new row that are not named take their defaults.
Apply(row, body) ==
    LET old == IF row = None THEN [full |-> FALSE, enabled |-> TRUE] ELSE row
    IN  [full |-> body.full \/ old.full, enabled |-> Switch(body.enabled, old.enabled)]

\* Fault: the whole row goes back as it was read
WriteAllColumns(current, seen, body) == Apply(seen, body)

(* The UPDATE of a row of which `seen` was read *)
WriteChanged(current, seen, body) ==
    LET new == Apply(seen, body)
    IN  [full |-> IF new.full # seen.full THEN new.full ELSE current.full,
         enabled |-> IF new.enabled # seen.enabled THEN new.enabled ELSE current.enabled]

Complete(k, row) == k \in Config \/ (row # None /\ row.full)

\* effective_modes: what every other route takes for the modes
Effective(k) ==
    LET row == DefinitionOf(k)
    IN  IF row = None THEN k \in Config ELSE row.enabled /\ Complete(k, row)

------------------------------------------------------------------------------
(* PUT /admin/modes/{key} *)

\* Fault: the required fields are looked for in the row only when none is sent
PutDefinitionUnchecked(r, k, body) ==
    /\ req[r] = Idle
    /\ Become(r, [stage |-> "get", key |-> k, body |-> body, seen |-> DefinitionOf(k)])
    /\ UNCHANGED <<definitions, overrides, usage, raced>>

(* The required fields are checked in the state after the request, with a  *)
(* row that is read for this (only then, when the key is not configured).  *)
PutDefinition(r, k, body) ==
    /\ req[r] = Idle
    /\ Complete(k, Apply(DefinitionOf(k), body))
    /\ Become(r, [stage |-> "get", key |-> k, body |-> body,
                  seen |-> IF k \in Config THEN None ELSE DefinitionOf(k)])
    /\ UNCHANGED <<definitions, overrides, usage, raced>>

(* upsert_definition reads again: gone, still there as first seen, or new. *)
GetDefinition(r) ==
    /\ req[r].stage = "get"
    /\ LET k == req[r].key
           row == IF DefinitionOf(k) # None /\ req[r].seen # None THEN req[r].seen
                                                                  ELSE DefinitionOf(k)
       IN  Become(r, [req[r] EXCEPT !.stage = "commit", !.seen = row])
    /\ UNCHANGED <<definitions, overrides, usage, raced>>

RacedBy(k, stages) == raced' = IF On(k, stages) = {} THEN raced ELSE raced \cup {k}

(* UPDATE or INSERT.  An UPDATE that finds no row is a StaleDataError and  *)
(* the request fails; an INSERT that finds one is an IntegrityError.       *)
CommitDefinition(r) ==
    LET k == req[r].key
        seen == req[r].seen
        Reply == Become(r, [stage |-> "reply", key |-> k])
    IN  /\ req[r].stage = "commit"
        /\ \/ /\ seen # None /\ DefinitionOf(k) # None
              /\ definitions' = [definitions EXCEPT ![k] = WriteChanged(@, seen, req[r].body)]
              /\ Reply
           \/ /\ seen # None /\ DefinitionOf(k) = None
              /\ Become(r, Idle)
              /\ UNCHANGED definitions
           \/ /\ seen = None /\ DefinitionOf(k) = None
              /\ definitions' = With(definitions, k, Apply(None, req[r].body))
              /\ Reply
           \/ /\ seen = None /\ DefinitionOf(k) # None
              /\ Become(r, [req[r] EXCEPT !.stage = "redo"])
              /\ UNCHANGED definitions
        /\ RacedBy(k, {"sweep"})
        /\ UNCHANGED <<overrides, usage>>

(* After the rollback the row is read afresh and the fields are committed  *)
(* as an UPDATE of it; when a DELETE has removed it once more there is     *)
(* nothing to apply them to and the request fails.                         *)
RedoDefinition(r) ==
    /\ req[r].stage = "redo"
    /\ LET row == DefinitionOf(req[r].key)
       IN  \/ row = None /\ Become(r, Idle)
           \/ row # None /\ Become(r, [req[r] EXCEPT !.stage = "commit", !.seen = row])
    /\ UNCHANGED <<definitions, overrides, usage, raced>>

(* The row and the modes are read once more for the answer. *)
ReplyDefinition(r) ==
    /\ req[r].stage = "reply"
    /\ Become(r, Idle)
    /\ UNCHANGED <<definitions, overrides, usage, raced>>

------------------------------------------------------------------------------
(* DELETE /admin/modes/{key}: the definition and the overrides of all users *)
(* go in two commits.                                                       *)
DeleteDefinition(r, k) ==
    /\ req[r] = Idle
    /\ k \notin Config
    /\ k \in DOMAIN definitions
    /\ definitions' = Without(definitions, {k})
    /\ overrides' = [j \in DOMAIN overrides |->
                        IF j = k THEN [orphan |-> TRUE] ELSE overrides[j]]
    /\ Become(r, [stage |-> "sweep", key |-> k])
    /\ RacedBy(k, {"get", "commit", "redo", "override", "sweep"})
    /\ UNCHANGED usage

\* Fault: the overrides stay
SweepNothing(r) ==
    /\ req[r].stage = "sweep"
    /\ Become(r, Idle)
    /\ UNCHANGED <<definitions, overrides, usage, raced>>

SweepOverrides(r) ==
    /\ req[r].stage = "sweep"
    /\ overrides' = Without(overrides, {req[r].key})
    /\ Become(r, Idle)
    /\ UNCHANGED <<definitions, usage, raced>>

------------------------------------------------------------------------------
(* PUT and DELETE /me/modes/{key} *)

PutOverride(r, k) ==
    /\ req[r] = Idle
    /\ Effective(k)
    /\ Become(r, [stage |-> "override", key |-> k])
    /\ UNCHANGED <<definitions, overrides, usage, raced>>

\* One INSERT ... ON CONFLICT DO UPDATE of all fields
UpsertOverride(r) ==
    LET k == req[r].key
    IN  /\ req[r].stage = "override"
        /\ overrides' = With(overrides, k, [orphan |-> k \notin Config /\ DefinitionOf(k) = None])
        /\ Become(r, Idle)
        /\ RacedBy(k, {"sweep"})
        /\ UNCHANGED <<definitions, usage>>

DeleteOverride(k) ==
    /\ Effective(k)
    /\ k \in DOMAIN overrides
    /\ overrides' = Without(overrides, {k})
    /\ UNCHANGED <<definitions, usage, req, raced>>

------------------------------------------------------------------------------
(* A dictation: the mode is looked up, and when its text is there the run  *)
(* is booked before it is answered.  When the booking fails the text is    *)
(* lost; when the mode has gone meanwhile it is booked all the same.       *)
Running == {r \in Requests : req[r].stage = "dictate"}

\* Booked, and not answered yet
Unanswered == {r \in Requests : req[r].stage = "booked"}

Dictate(r, k) ==
    /\ req[r] = Idle
    /\ Effective(k)
    /\ booked + Cardinality(Running) < MaxBookings
    /\ Become(r, [stage |-> "dictate", key |-> k])
    /\ UNCHANGED <<definitions, overrides, usage, raced>>

\* One INSERT ... ON CONFLICT DO UPDATE SET count = count + 1
Book(r) ==
    /\ req[r].stage = "dictate"
    /\ booked' = booked + 1
    /\ Become(r, [stage |-> "booked", key |-> req[r].key])
    /\ UNCHANGED <<definitions, overrides, answered, cut, raced>>

BookingFails(r) ==
    /\ req[r].stage = "dictate"
    /\ Become(r, Idle)
    /\ UNCHANGED <<definitions, overrides, usage, raced>>

ReplyText(r) ==
    /\ req[r].stage = "booked"
    /\ answered' = answered + 1
    /\ Become(r, Idle)
    /\ UNCHANGED <<definitions, overrides, booked, cut, raced>>

(* The process dies between two steps; the tables stay. *)
Crash ==
    /\ req' = [r \in Requests |-> Idle]
    /\ cut' = cut + Cardinality(Unanswered)
    /\ raced' = raced \cup {req[r].key : r \in {x \in Requests : req[x].stage = "sweep"}}
    /\ UNCHANGED <<definitions, overrides, booked, answered>>

Next ==
    \/ \E r \in Requests, k \in Keys :
        \/ \E body \in Body : PutDefinition(r, k, body)
        \/ DeleteDefinition(r, k)
        \/ PutOverride(r, k)
        \/ Dictate(r, k)
    \/ \E r \in Requests :
        \/ GetDefinition(r)
        \/ CommitDefinition(r)
        \/ RedoDefinition(r)
        \/ ReplyDefinition(r)
        \/ SweepOverrides(r)
        \/ UpsertOverride(r)
        \/ Book(r)
        \/ BookingFails(r)
        \/ ReplyText(r)
    \/ \E k \in Keys : DeleteOverride(k)
    \/ Crash

Spec == Init /\ [][Next]_vars

------------------------------------------------------------------------------
(* A mode that config.yml does not know has its description and its STT,   *)
(* although a PUT may name neither: as long as nobody deletes the key      *)
(* between the check of a PUT and its commit, however PUTs overlap.        *)
CompleteRows ==
    \A k \in DOMAIN definitions : Complete(k, definitions[k]) \/ k \in raced

(* A mode that is created under the key of a deleted one does not inherit  *)
(* the overrides users had made for the old one: unless somebody writes    *)
(* the key between the two commits of the DELETE, or across the first, or  *)
(* the process dies there.                                                 *)
NoInheritance ==
    \A k \in DOMAIN overrides :
        overrides[k].orphan => k \in raced \/ On(k, {"sweep"}) # {}

(* What changes in a row that stays is what a PUT that commits names: of   *)
(* two PUTs that overlap neither takes back what the other wrote, although *)
(* both have read the row before and a lost INSERT is repeated as an       *)
(* UPDATE.  And a PUT that commits has set all it names, unless the row is *)
(* no longer the one it read: a value that equals the one read is not      *)
(* written, and the PUT that came in between has the last word on it.      *)
FieldsKept ==
    [][ \A k \in DOMAIN definitions' :
          LET new      == definitions'[k]
              Commits  == {r \in On(k, {"commit"}) : req'[r].stage = "reply"}
          IN  /\ k \in DOMAIN definitions =>
                    /\ definitions[k].full => new.full
                    /\ definitions[k].enabled # new.enabled =>
                          \E r \in Commits :
                             req[r].body.enabled = (IF new.enabled THEN "on" ELSE "off")
              /\ \A r \in Commits :
                    req[r].seen = DefinitionOf(k) => Apply(new, req[r].body) = new
      ]_vars

(* Every text that is answered has been booked before, once, however       *)
(* dictations overlap; a booking without an answer is one whose answer is  *)
(* under way or was cut off by a crash in between.                         *)
BookedOnce == booked = answered + Cardinality(Unanswered) + cut

==============================================================================
