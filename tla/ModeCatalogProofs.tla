-------------------------- MODULE ModeCatalogProofs --------------------------
(***************************************************************************)
(* For every number of requests and modes: a mode of the database is       *)
(* complete, a deleted mode leaves no overrides to its successor, PUTs     *)
(* that overlap keep each other's fields, and what was answered is booked. *)
(*                                                                         *)
(* What makes the first two inductive is what a request may rely on        *)
(* between its steps, for as long as nobody has deleted the key: that      *)
(* there is a row wherever a PUT leaves the required fields out (Promised),*)
(* and that an override under way has a mode (Kept).                       *)
(***************************************************************************)
EXTENDS ModeCatalog, FiniteSetTheorems, TLAPS

USE KeysAssumption

(***************************************************************************)
(* Tables and rows.                                                        *)
(***************************************************************************)
(* A table is a function from some of the keys to rows.                    *)
LEMMA TableIs ==
  ASSUME NEW Ids, NEW Row, NEW rows
  PROVE  rows \in TablesOf(Ids, Row) <=>
            DOMAIN rows \subseteq Ids /\ rows \in [DOMAIN rows -> Row]
  BY DEF TablesOf

(* Writing and deleting rows leaves a table.                               *)
LEMMA TableChanges ==
  ASSUME NEW Ids, NEW Row, NEW rows \in TablesOf(Ids, Row)
  PROVE  /\ \A id \in Ids, row \in Row : With(rows, id, row) \in TablesOf(Ids, Row)
         /\ \A ids : Without(rows, ids) \in TablesOf(Ids, Row)
         /\ \A id \in DOMAIN rows, row \in Row :
               [rows EXCEPT ![id] = row] \in TablesOf(Ids, Row)
  <1>1. DOMAIN rows \subseteq Ids /\ rows \in [DOMAIN rows -> Row]
    BY TableIs
  <1>2. ASSUME NEW id \in Ids, NEW row \in Row
        PROVE  With(rows, id, row) \in TablesOf(Ids, Row)
    <2>1. With(rows, id, row) \in [DOMAIN rows \cup {id} -> Row]
      BY <1>1 DEF With
    <2>2. QED
      BY <1>1, <2>1 DEF TablesOf
  <1>3. ASSUME NEW ids
        PROVE  Without(rows, ids) \in TablesOf(Ids, Row)
    <2>1. Without(rows, ids) \in [DOMAIN rows \ ids -> Row]
      BY <1>1 DEF Without
    <2>2. QED
      BY <1>1, <2>1 DEF TablesOf
  <1>4. ASSUME NEW id \in DOMAIN rows, NEW row \in Row
        PROVE  [rows EXCEPT ![id] = row] \in TablesOf(Ids, Row)
    <2>1. [rows EXCEPT ![id] = row] \in [DOMAIN rows -> Row]
      BY <1>1
    <2>2. QED
      BY <1>1, <2>1 DEF TablesOf
  <1>5. QED
    BY <1>2, <1>3, <1>4

(* A PUT takes neither required field away; it writes both or none.        *)
LEMMA ApplyIs ==
  ASSUME NEW row \in Definition \cup {None}, NEW body \in Body
  PROVE  /\ Apply(row, body) \in Definition
         /\ Apply(row, body).full <=> body.full \/ (row # None /\ row.full)
         /\ row # None /\ Apply(row, body).enabled # row.enabled =>
               body.enabled = (IF row.enabled THEN "off" ELSE "on")
  <1> DEFINE old == IF row = None THEN [full |-> FALSE, enabled |-> TRUE] ELSE row
  <1>1. old \in Definition
    BY DEF Definition
  <1>2. body.full \in BOOLEAN /\ body.enabled \in {"on", "off", "unset"}
    BY DEF Body
  <1>3. /\ Switch(body.enabled, old.enabled) \in BOOLEAN
        /\ Switch(body.enabled, old.enabled) # old.enabled =>
              body.enabled = (IF old.enabled THEN "off" ELSE "on")
    <2>1. old.enabled \in BOOLEAN
      BY <1>1 DEF Definition
    <2>2. CASE body.enabled = "unset"
      BY <2>1, <2>2 DEF Switch
    <2>3. CASE body.enabled = "on"
      BY <2>1, <2>3 DEF Switch
    <2>4. CASE body.enabled = "off"
      BY <2>1, <2>4 DEF Switch
    <2>5. QED
      BY <1>2, <2>2, <2>3, <2>4
  <1>4. Apply(row, body) = [full |-> body.full \/ old.full,
                            enabled |-> Switch(body.enabled, old.enabled)]
    BY DEF Apply
  <1>5. old.full <=> row # None /\ row.full
    OBVIOUS
  <1>6. row # None => old = row
    OBVIOUS
  <1> HIDE DEF old
  <1>7. Apply(row, body) \in Definition
    BY <1>1, <1>2, <1>3, <1>4 DEF Definition
  <1>8. Apply(row, body).full <=> body.full \/ (row # None /\ row.full)
    <2>1. Apply(row, body).full = (body.full \/ old.full)
      BY <1>4
    <2>2. QED
      BY <1>5, <2>1, Zenon
  <1>9. Apply(row, body).enabled = Switch(body.enabled, old.enabled)
    BY <1>4
  <1>10. QED
    BY <1>3, <1>6, <1>7, <1>8, <1>9

(* Applying the same request again changes nothing.                        *)
LEMMA ApplyTwice ==
  ASSUME NEW row \in Definition \cup {None}, NEW body \in Body
  PROVE  Apply(Apply(row, body), body) = Apply(row, body)
  <1> DEFINE new == Apply(row, body)
             old == IF row = None THEN [full |-> FALSE, enabled |-> TRUE] ELSE row
  <1>1. new \in Definition /\ new # None
    BY ApplyIs
  <1>2. /\ new = [full |-> body.full \/ old.full, enabled |-> Switch(body.enabled, old.enabled)]
        /\ Apply(new, body) = [full |-> body.full \/ new.full,
                               enabled |-> Switch(body.enabled, new.enabled)]
    BY <1>1 DEF Apply
  <1> HIDE DEF new, old
  <1>3. body.full \/ new.full <=> new.full
    <2>1. new.full = (body.full \/ old.full)
      BY <1>2
    <2>2. QED
      BY <2>1, Zenon
  <1>4. Switch(body.enabled, new.enabled) = new.enabled
    BY <1>2 DEF Switch
  <1>5. body.full \in BOOLEAN /\ new.full \in BOOLEAN
    BY <1>1 DEF Body, Definition
  <1>6. Apply(new, body).full = new.full /\ Apply(new, body).enabled = new.enabled
    BY <1>2, <1>3, <1>4, <1>5
  <1>7. Apply(new, body) \in Definition
    BY <1>1, ApplyIs
  <1>8. Apply(new, body) = new
    BY <1>1, <1>6, <1>7 DEF Definition
  <1>9. QED
    BY <1>8 DEF new

(* The UPDATE changes the switch only to what the request says, and all it *)
(* names when the row is still the one it was read as.                     *)
LEMMA WriteIs ==
  ASSUME NEW current \in Definition, NEW seen \in Definition, NEW body \in Body
  PROVE  /\ WriteChanged(current, seen, body) \in Definition
         /\ current.full => WriteChanged(current, seen, body).full
         /\ WriteChanged(current, seen, body).enabled # current.enabled =>
               body.enabled = (IF current.enabled THEN "off" ELSE "on")
         /\ seen = current => WriteChanged(current, seen, body) = Apply(current, body)
  <1> DEFINE new == Apply(seen, body)
  <1>1. seen # None
    OBVIOUS
  <1>2. /\ new \in Definition
        /\ new.full <=> body.full \/ seen.full
        /\ new.enabled # seen.enabled =>
              body.enabled = (IF seen.enabled THEN "off" ELSE "on")
    BY <1>1, ApplyIs
  <1>3. WriteChanged(current, seen, body) =
          [full |-> IF new.full # seen.full THEN new.full ELSE current.full,
           enabled |-> IF new.enabled # seen.enabled THEN new.enabled ELSE current.enabled]
    BY DEF WriteChanged
  <1>4. new = Apply(seen, body)
    OBVIOUS
  <1> HIDE DEF new
  <1>5. seen = current => WriteChanged(current, seen, body) = new
    BY <1>2, <1>3 DEF Definition
  <1>6. QED
    BY <1>2, <1>3, <1>4, <1>5 DEF Definition

(***************************************************************************)
(* Types.                                                                  *)
(***************************************************************************)
Puts       == [stage: {"get", "commit", "redo"}, key: Keys, body: Body,
               seen: Definition \cup {None}]
Others     == [stage: {"reply", "sweep", "override", "dictate", "booked"}, key: Keys]
Records    == {Idle} \cup Puts \cup Others

Types ==
    /\ definitions \in TablesOf(Keys, Definition)
    /\ overrides \in TablesOf(Keys, Override)
    /\ booked \in 0..MaxBookings
    /\ answered \in 0..MaxBookings
    /\ cut \in 0..MaxBookings
    /\ req \in [Requests -> Records]
    /\ raced \subseteq Keys

(* Every dictation under way still has room in the bound, and every        *)
(* booking has its answer, its request or its crash.                       *)
Room ==
    /\ IsFiniteSet(Running)
    /\ IsFiniteSet(Unanswered)
    /\ booked + Cardinality(Running) <= MaxBookings
    /\ booked = answered + Cardinality(Unanswered) + cut

(* A request's record tells its stage, and what it carries there.          *)
LEMMA RecordIs ==
  ASSUME Types, NEW r \in Requests
  PROVE  /\ req[r].stage \in {"get", "commit", "redo"} => req[r] \in Puts
         /\ req[r].stage \in {"reply", "sweep", "override", "dictate", "booked"} =>
               req[r] \in Others
         /\ req[r] # Idle => req[r].key \in Keys
         /\ req[r] = Idle <=> req[r].stage = "idle"
         /\ req[r].stage \in {"idle", "get", "commit", "redo", "reply", "sweep", "override",
                              "dictate", "booked"}
  BY DEF Types, Records, Puts, Others, Idle

(* The row of a key is a row or there is none.                             *)
LEMMA RowIs ==
  ASSUME Types, NEW k
  PROVE  /\ DefinitionOf(k) \in Definition \cup {None}
         /\ DefinitionOf(k) = None <=> k \notin DOMAIN definitions
         /\ k \in DOMAIN definitions =>
               DefinitionOf(k) = definitions[k] /\ definitions[k] \in Definition
  BY TableIs DEF Types, DefinitionOf

(* A request goes on with one of the records.                              *)
LEMMA BecomeIs ==
  ASSUME Types, NEW r \in Requests, NEW x \in Records, Become(r, x)
  PROVE  /\ req' \in [Requests -> Records]
         /\ req'[r] = x
         /\ \A q \in Requests : q # r => req'[q] = req[q]
  BY DEF Types, Become

(* Types hold of the empty tables and idle requests.                       *)
LEMMA InitTypes == Init => Types /\ Room
  <1> SUFFICES ASSUME Init PROVE Types /\ Room
    OBVIOUS
  <1>1. \A Row : Empty \in TablesOf(Keys, Row)
    BY TableIs DEF Empty
  <1>2. Running = {} /\ Unanswered = {}
    BY DEF Init, Running, Unanswered, Idle
  <1>3. IsFiniteSet({}) /\ Cardinality({}) = 0
    BY FS_EmptySet
  <1>4. Room
    BY <1>2, <1>3 DEF Init, Room
  <1>5. QED
    BY <1>1, <1>4 DEF Init, Types, Records

(* What a step does to the request that takes it.                          *)
LEMMA StepRequest ==
  ASSUME Types, NEW r \in Requests
  PROVE  /\ Idle \in Records
         /\ \A k \in Keys, body \in Body : PutDefinition(r, k, body) =>
               \E x \in Puts : Become(r, x) /\ x.stage = "get" /\ x.key = k /\ x.body = body
         /\ GetDefinition(r) =>
               \E x \in Puts : /\ Become(r, x) /\ x.stage = "commit"
                               /\ x.key = req[r].key /\ x.body = req[r].body
         /\ req[r].stage = "commit" =>
               [req[r] EXCEPT !.stage = "redo"] \in Puts
         /\ CommitDefinition(r) =>
               [stage |-> "reply", key |-> req[r].key] \in Others
         /\ RedoDefinition(r) =>
               \/ Become(r, Idle)
               \/ /\ req[r].key \in DOMAIN definitions
                  /\ \E x \in Puts : Become(r, x) /\ x.stage = "commit"
                                   /\ x.key = req[r].key /\ x.body = req[r].body
         /\ \A k \in Keys : DeleteDefinition(r, k) =>
               \E x \in Others : Become(r, x) /\ x.stage = "sweep" /\ x.key = k
         /\ \A k \in Keys : PutOverride(r, k) =>
               \E x \in Others : Become(r, x) /\ x.stage = "override" /\ x.key = k
         /\ \A k \in Keys : Dictate(r, k) =>
               \E x \in Others : Become(r, x) /\ x.stage = "dictate" /\ x.key = k
         /\ Book(r) =>
               \E x \in Others : Become(r, x) /\ x.stage = "booked"
  <1>1. ASSUME NEW k \in Keys, NEW body \in Body, PutDefinition(r, k, body)
        PROVE  \E x \in Puts : Become(r, x) /\ x.stage = "get" /\ x.key = k /\ x.body = body
    <2> DEFINE x == [stage |-> "get", key |-> k, body |-> body,
                     seen |-> IF k \in Config THEN None ELSE DefinitionOf(k)]
    <2>1. x \in Puts
      BY RowIs DEF Puts
    <2>2. QED
      BY <1>1, <2>1 DEF PutDefinition
  <1>2. ASSUME GetDefinition(r)
        PROVE  \E x \in Puts : /\ Become(r, x) /\ x.stage = "commit"
                               /\ x.key = req[r].key /\ x.body = req[r].body
    <2> DEFINE row == IF DefinitionOf(req[r].key) # None /\ req[r].seen # None
                      THEN req[r].seen ELSE DefinitionOf(req[r].key)
               x == [req[r] EXCEPT !.stage = "commit", !.seen = row]
    <2>1. req[r] \in Puts
      BY <1>2, RecordIs DEF GetDefinition
    <2>2. DefinitionOf(req[r].key) \in Definition \cup {None}
      BY RowIs
    <2>3. req[r].seen \in Definition \cup {None}
      BY <2>1 DEF Puts
    <2>4. row \in Definition \cup {None}
      BY <2>2, <2>3
    <2>5. Become(r, x)
      BY <1>2 DEF GetDefinition
    <2> HIDE DEF row
    <2>6. x \in Puts /\ x.stage = "commit" /\ x.key = req[r].key /\ x.body = req[r].body
      BY <2>1, <2>4 DEF Puts
    <2> HIDE DEF x
    <2>7. QED
      BY <2>5, <2>6
  <1>3. ASSUME req[r].stage = "commit"
        PROVE  [req[r] EXCEPT !.stage = "redo"] \in Puts
    <2>1. req[r] \in Puts
      BY <1>3, RecordIs
    <2>2. QED
      BY <2>1 DEF Puts
  <1>4. ASSUME NEW k \in Keys, DeleteDefinition(r, k)
        PROVE  \E x \in Others : Become(r, x) /\ x.stage = "sweep" /\ x.key = k
    BY <1>4 DEF DeleteDefinition, Others
  <1>5. ASSUME NEW k \in Keys, PutOverride(r, k)
        PROVE  \E x \in Others : Become(r, x) /\ x.stage = "override" /\ x.key = k
    BY <1>5 DEF PutOverride, Others
  <1>6. ASSUME NEW k \in Keys, Dictate(r, k)
        PROVE  \E x \in Others : Become(r, x) /\ x.stage = "dictate" /\ x.key = k
    BY <1>6 DEF Dictate, Others
  <1>7. Idle \in Records
    BY DEF Records
  <1>8. ASSUME CommitDefinition(r)
        PROVE  [stage |-> "reply", key |-> req[r].key] \in Others
    BY <1>8, RecordIs DEF CommitDefinition, Puts, Others
  <1>9. ASSUME Book(r)
        PROVE  \E x \in Others : Become(r, x) /\ x.stage = "booked"
    BY <1>9, RecordIs DEF Book, Others
  <1>10. ASSUME RedoDefinition(r), ~Become(r, Idle)
         PROVE  /\ req[r].key \in DOMAIN definitions
                /\ \E x \in Puts : Become(r, x) /\ x.stage = "commit"
                                 /\ x.key = req[r].key /\ x.body = req[r].body
    <2> DEFINE row == DefinitionOf(req[r].key)
               x == [req[r] EXCEPT !.stage = "commit", !.seen = row]
    <2>1. req[r] \in Puts
      BY <1>10, RecordIs DEF RedoDefinition
    <2>2. row \in Definition \cup {None} /\ (row # None => req[r].key \in DOMAIN definitions)
      BY RowIs
    <2>3. row # None /\ Become(r, x)
      BY <1>10 DEF RedoDefinition
    <2> HIDE DEF row
    <2>4. x \in Puts /\ x.stage = "commit" /\ x.key = req[r].key /\ x.body = req[r].body
      BY <2>1, <2>2 DEF Puts
    <2> HIDE DEF x
    <2>5. QED
      BY <2>2, <2>3, <2>4
  <1>11. QED
    BY <1>1, <1>2, <1>3, <1>4, <1>5, <1>6, <1>7, <1>8, <1>9, <1>10

(* Tables and requests stay what they are meant to hold, whatever the      *)
(* requests do to each other.                                              *)
LEMMA StepTypes == ASSUME Types, Room, [Next]_vars PROVE Types'
  <1> DEFINE Tabled == /\ definitions' \in TablesOf(Keys, Definition)
                       /\ overrides' \in TablesOf(Keys, Override)
                       /\ raced' \subseteq Keys
             Served == req' \in [Requests -> Records]
             Counted == /\ booked' \in 0..MaxBookings /\ answered' \in 0..MaxBookings
                        /\ cut' \in 0..MaxBookings
  <1>0. /\ definitions \in TablesOf(Keys, Definition) /\ overrides \in TablesOf(Keys, Override)
        /\ raced \subseteq Keys /\ req \in [Requests -> Records]
        /\ booked \in 0..MaxBookings /\ answered \in 0..MaxBookings /\ cut \in 0..MaxBookings
        /\ Puts \subseteq Records /\ Others \subseteq Records
        /\ Idle \in Records
    BY DEF Types, Records
  <1>a. /\ Cardinality(Running) \in Nat /\ Cardinality(Unanswered) \in Nat
        /\ booked + Cardinality(Running) <= MaxBookings
        /\ booked = answered + Cardinality(Unanswered) + cut /\ MaxBookings \in Nat
    BY FS_CardinalityType DEF Room
  <1>1. ASSUME NEW r \in Requests, NEW k \in Keys, NEW body \in Body, PutDefinition(r, k, body)
        PROVE  Tabled /\ Served /\ Counted
    BY <1>0, <1>1, StepRequest, BecomeIs DEF PutDefinition, usage
  <1>2. ASSUME NEW r \in Requests, NEW k \in Keys, DeleteDefinition(r, k)
        PROVE  Tabled /\ Served /\ Counted
    <2>1. Served
      BY <1>0, <1>2, StepRequest, BecomeIs
    <2>2. definitions' \in TablesOf(Keys, Definition)
      BY <1>0, <1>2, TableChanges DEF DeleteDefinition
    <2>3. DOMAIN overrides \subseteq Keys /\ overrides \in [DOMAIN overrides -> Override]
      BY <1>0, TableIs
    <2>4. overrides' \in [DOMAIN overrides -> Override] /\ DOMAIN overrides' = DOMAIN overrides
      BY <1>2, <2>3 DEF DeleteDefinition, Override
    <2>5. overrides' \in TablesOf(Keys, Override)
      BY <2>3, <2>4, TableIs
    <2>6. raced' \subseteq Keys /\ Counted
      BY <1>0, <1>2 DEF DeleteDefinition, RacedBy, usage
    <2>7. QED
      BY <2>1, <2>2, <2>5, <2>6
  <1>3. ASSUME NEW r \in Requests, NEW k \in Keys, PutOverride(r, k)
        PROVE  Tabled /\ Served /\ Counted
    BY <1>0, <1>3, StepRequest, BecomeIs DEF PutOverride, usage
  <1>4. ASSUME NEW r \in Requests, NEW k \in Keys, Dictate(r, k)
        PROVE  Tabled /\ Served /\ Counted
    BY <1>0, <1>4, StepRequest, BecomeIs DEF Dictate, usage
  <1>5. ASSUME NEW r \in Requests, GetDefinition(r)
        PROVE  Tabled /\ Served /\ Counted
    BY <1>0, <1>5, StepRequest, BecomeIs DEF GetDefinition, usage
  <1>6. ASSUME NEW r \in Requests, CommitDefinition(r)
        PROVE  Tabled /\ Served /\ Counted
    <2>1. PICK k \in Keys : k = req[r].key
      BY <1>6, RecordIs DEF CommitDefinition, Puts
    <2>2. /\ req[r] \in Puts /\ req[r].body \in Body /\ req[r].seen \in Definition \cup {None}
          /\ [req[r] EXCEPT !.stage = "redo"] \in Puts
      BY <1>6, RecordIs, StepRequest DEF CommitDefinition, Puts
    <2>3. Served
      <3>1. \A x \in Records : Become(r, x) => Served
        BY BecomeIs
      <3>2. [stage |-> "reply", key |-> req[r].key] \in Records
        BY <1>0, <1>6, StepRequest
      <3>3. \/ Become(r, [stage |-> "reply", key |-> req[r].key])
            \/ Become(r, Idle)
            \/ Become(r, [req[r] EXCEPT !.stage = "redo"])
        BY <1>6 DEF CommitDefinition
      <3>4. QED
        BY <1>0, <2>2, <3>1, <3>2, <3>3
    <2>4. definitions' \in TablesOf(Keys, Definition)
      <3>1. CASE req[r].seen # None /\ k \in DOMAIN definitions
        <4>1. definitions[k] \in Definition
          BY <3>1, RowIs
        <4>2. WriteChanged(definitions[k], req[r].seen, req[r].body) \in Definition
          BY <2>2, <3>1, <4>1, WriteIs
        <4>3. definitions' = [definitions EXCEPT
                               ![k] = WriteChanged(definitions[k], req[r].seen, req[r].body)]
          BY <1>6, <2>1, <3>1, RowIs DEF CommitDefinition
        <4>4. QED
          BY <1>0, <3>1, <4>2, <4>3, TableChanges
      <3>2. CASE req[r].seen = None /\ k \notin DOMAIN definitions
        <4>1. Apply(None, req[r].body) \in Definition
          BY <2>2, ApplyIs
        <4>2. definitions' = With(definitions, k, Apply(None, req[r].body))
          BY <1>6, <2>1, <3>2, RowIs DEF CommitDefinition
        <4>3. QED
          BY <1>0, <4>1, <4>2, TableChanges
      <3>3. CASE ~(req[r].seen # None <=> k \in DOMAIN definitions)
        BY <1>0, <1>6, <2>1, <3>3, RowIs DEF CommitDefinition
      <3>4. QED
        BY <3>1, <3>2, <3>3
    <2>5. overrides' = overrides /\ Counted /\ raced' \subseteq Keys
      BY <1>0, <1>6, <2>1 DEF CommitDefinition, RacedBy, usage
    <2>6. QED
      BY <1>0, <2>3, <2>4, <2>5
  <1>7. ASSUME NEW r \in Requests, RedoDefinition(r)
        PROVE  Tabled /\ Served /\ Counted
    <2>1. Served
      BY <1>0, <1>7, StepRequest, BecomeIs
    <2>2. QED
      BY <1>0, <1>7, <2>1 DEF RedoDefinition, usage
  <1>8. ASSUME NEW r \in Requests, SweepOverrides(r)
        PROVE  Tabled /\ Served /\ Counted
    BY <1>0, <1>8, BecomeIs, TableChanges DEF SweepOverrides, usage
  <1>9. ASSUME NEW r \in Requests, UpsertOverride(r)
        PROVE  Tabled /\ Served /\ Counted
    <2>1. PICK k \in Keys : k = req[r].key
      BY <1>9, RecordIs DEF UpsertOverride, Others
    <2>2. [orphan |-> k \notin Config /\ DefinitionOf(k) = None] \in Override
      BY DEF Override
    <2>3. overrides' \in TablesOf(Keys, Override)
      BY <1>0, <1>9, <2>1, <2>2, TableChanges DEF UpsertOverride
    <2>4. raced' \subseteq Keys
      BY <1>0, <1>9, <2>1 DEF UpsertOverride, RacedBy
    <2>5. QED
      BY <1>0, <1>9, <2>3, <2>4, BecomeIs DEF UpsertOverride, usage
  <1>10. ASSUME NEW r \in Requests, Book(r)
         PROVE  Tabled /\ Served /\ Counted
    <2>1. r \in Running
      BY <1>10 DEF Book, Running
    <2>2. Cardinality(Running) # 0
      BY <2>1, FS_EmptySet DEF Room
    <2>3. Counted
      BY <1>0, <1>a, <1>10, <2>2 DEF Book
    <2>4. Served
      BY <1>0, <1>10, StepRequest, BecomeIs
    <2>5. QED
      BY <1>0, <1>10, <2>3, <2>4 DEF Book
  <1>11. ASSUME NEW r \in Requests, BookingFails(r)
         PROVE  Tabled /\ Served /\ Counted
    BY <1>0, <1>11, BecomeIs DEF BookingFails, usage
  <1>b. ASSUME NEW r \in Requests, ReplyDefinition(r)
        PROVE  Tabled /\ Served /\ Counted
    BY <1>0, <1>b, BecomeIs DEF ReplyDefinition, usage
  <1>c. ASSUME NEW r \in Requests, ReplyText(r)
        PROVE  Tabled /\ Served /\ Counted
    <2>1. r \in Unanswered
      BY <1>c DEF ReplyText, Unanswered
    <2>2. Cardinality(Unanswered) # 0
      BY <2>1, FS_EmptySet DEF Room
    <2>3. Counted
      BY <1>0, <1>a, <1>c, <2>2 DEF ReplyText
    <2>4. QED
      BY <1>0, <1>c, <2>3, BecomeIs DEF ReplyText
  <1>12. ASSUME NEW k \in Keys, DeleteOverride(k)
         PROVE  Tabled /\ Served /\ Counted
    BY <1>0, <1>12, TableChanges DEF DeleteOverride, usage
  <1>13. ASSUME Crash
         PROVE  Tabled /\ Served /\ Counted
    <2>1. \A r \in Requests : req[r].stage = "sweep" => req[r].key \in Keys
      BY RecordIs DEF Others
    <2>2. raced' \subseteq Keys
      BY <1>0, <1>13, <2>1 DEF Crash
    <2>3. Counted
      BY <1>0, <1>a, <1>13 DEF Crash
    <2>4. QED
      BY <1>0, <1>13, <2>2, <2>3 DEF Crash
  <1>14. ASSUME UNCHANGED vars
         PROVE  Tabled /\ Served /\ Counted
    BY <1>0, <1>14 DEF vars, usage
  <1>15. Tabled /\ Served /\ Counted => Types'
    BY DEF Types
  <1> HIDE DEF Tabled, Served, Counted
  <1>16. QED
    BY <1>1, <1>2, <1>3, <1>4, <1>5, <1>6, <1>7, <1>8, <1>9, <1>10, <1>11, <1>12, <1>13,
       <1>14, <1>b, <1>c, <1>15 DEF Next

(***************************************************************************)
(* Bookings.                                                               *)
(***************************************************************************)
(* A dictation is counted among those under way until it is booked or      *)
(* lost, and its booking until it is answered or cut off.                  *)
LEMMA StepRoom == ASSUME Types, Room, [Next]_vars PROVE Room'
  <1>0. /\ IsFiniteSet(Running) /\ Cardinality(Running) \in Nat
        /\ IsFiniteSet(Unanswered) /\ Cardinality(Unanswered) \in Nat
        /\ answered \in Nat /\ booked \in Nat /\ cut \in Nat /\ MaxBookings \in Nat
        /\ booked + Cardinality(Running) <= MaxBookings
        /\ booked = answered + Cardinality(Unanswered) + cut
    BY FS_CardinalityType DEF Room, Types
  <1>s. Idle \in Records /\ Puts \subseteq Records /\ Others \subseteq Records
    BY DEF Records
  <1>a. ASSUME NEW r \in Requests, NEW x \in Records, Become(r, x)
        PROVE  /\ Running' = IF x.stage = "dictate" THEN Running \cup {r} ELSE Running \ {r}
               /\ Unanswered' = IF x.stage = "booked" THEN Unanswered \cup {r}
                                                     ELSE Unanswered \ {r}
               /\ r \in Running <=> req[r].stage = "dictate"
               /\ r \in Unanswered <=> req[r].stage = "booked"
    BY <1>a, BecomeIs DEF Running, Unanswered
  <1>1. ASSUME NEW r \in Requests, NEW k \in Keys, Dictate(r, k) PROVE Room'
    <2>1. PICK x \in Others : Become(r, x) /\ x.stage = "dictate"
      <3>1. \E x \in Others : Become(r, x) /\ x.stage = "dictate" /\ x.key = k
        BY <1>1, StepRequest, Zenon
      <3>2. QED
        BY <3>1
    <2>2. req[r].stage = "idle"
      BY <1>1 DEF Dictate, Idle
    <2>3. /\ Running' = Running \cup {r} /\ r \notin Running
          /\ Unanswered' = Unanswered \ {r} /\ r \notin Unanswered
      BY <1>a, <1>s, <2>1, <2>2
    <2>4. IsFiniteSet(Running') /\ Cardinality(Running') = Cardinality(Running) + 1
      BY <1>0, <2>3, FS_AddElement
    <2>5. Unanswered' = Unanswered
      BY <2>3
    <2>6. /\ answered' = answered /\ booked' = booked /\ cut' = cut
          /\ booked + Cardinality(Running) < MaxBookings
      BY <1>1 DEF Dictate, usage
    <2>7. QED
      BY <1>0, <2>4, <2>5, <2>6 DEF Room
  <1>2. ASSUME NEW r \in Requests, Book(r) PROVE Room'
    <2>1. PICK x \in Others : Become(r, x) /\ x.stage = "booked"
      BY <1>2, StepRequest
    <2>2. req[r].stage = "dictate"
      BY <1>2 DEF Book
    <2>3. /\ Running' = Running \ {r} /\ r \in Running
          /\ Unanswered' = Unanswered \cup {r} /\ r \notin Unanswered
      BY <1>a, <1>s, <2>1, <2>2
    <2>4. IsFiniteSet(Running') /\ Cardinality(Running') = Cardinality(Running) - 1
      BY <1>0, <2>3, FS_RemoveElement
    <2>5. IsFiniteSet(Unanswered') /\ Cardinality(Unanswered') = Cardinality(Unanswered) + 1
      BY <1>0, <2>3, FS_AddElement
    <2>6. booked' = booked + 1 /\ answered' = answered /\ cut' = cut
      BY <1>2 DEF Book
    <2>7. QED
      BY <1>0, <2>4, <2>5, <2>6 DEF Room
  <1>3. ASSUME NEW r \in Requests, BookingFails(r) PROVE Room'
    <2>1. Become(r, Idle) /\ req[r].stage = "dictate" /\ Idle.stage = "idle"
      BY <1>3 DEF BookingFails, Idle
    <2>2. /\ Running' = Running \ {r} /\ r \in Running
          /\ Unanswered' = Unanswered \ {r} /\ r \notin Unanswered
      BY <1>a, <1>s, <2>1
    <2>3. IsFiniteSet(Running') /\ Cardinality(Running') = Cardinality(Running) - 1
      BY <1>0, <2>2, FS_RemoveElement
    <2>4. Unanswered' = Unanswered
      BY <2>2
    <2>5. answered' = answered /\ booked' = booked /\ cut' = cut
      BY <1>3 DEF BookingFails, usage
    <2>6. QED
      BY <1>0, <2>3, <2>4, <2>5 DEF Room
  <1>4. ASSUME NEW r \in Requests, ReplyText(r) PROVE Room'
    <2>1. Become(r, Idle) /\ req[r].stage = "booked" /\ Idle.stage = "idle"
      BY <1>4 DEF ReplyText, Idle
    <2>2. /\ Running' = Running \ {r} /\ r \notin Running
          /\ Unanswered' = Unanswered \ {r} /\ r \in Unanswered
      BY <1>a, <1>s, <2>1
    <2>3. IsFiniteSet(Unanswered') /\ Cardinality(Unanswered') = Cardinality(Unanswered) - 1
      BY <1>0, <2>2, FS_RemoveElement
    <2>4. Running' = Running
      BY <2>2
    <2>5. answered' = answered + 1 /\ booked' = booked /\ cut' = cut
      BY <1>4 DEF ReplyText
    <2>6. QED
      BY <1>0, <2>3, <2>4, <2>5 DEF Room
  <1>5. ASSUME Running' = Running, Unanswered' = Unanswered, usage' = usage PROVE Room'
    BY <1>5 DEF Room, usage
  <1>6. ASSUME NEW r \in Requests, NEW x \in Records, Become(r, x), usage' = usage,
               req[r].stage \notin {"dictate", "booked"}, x.stage \notin {"dictate", "booked"}
        PROVE  Room'
    <2>1. Running' = Running /\ Unanswered' = Unanswered
      BY <1>6, <1>a
    <2>2. QED
      BY <1>5, <1>6, <2>1
  <1>7. ASSUME NEW r \in Requests, NEW k \in Keys,
               \/ \E body \in Body : PutDefinition(r, k, body)
               \/ DeleteDefinition(r, k)
               \/ PutOverride(r, k)
        PROVE  Room'
    <2>1. req[r] = Idle /\ usage' = usage
      BY <1>7, Zenon DEF PutDefinition, DeleteDefinition, PutOverride
    <2>2. req[r].stage = "idle"
      BY <2>1 DEF Idle
    <2>3. PICK x \in Puts \cup Others : Become(r, x) /\ x.stage \in {"get", "sweep", "override"}
      <3>1. CASE \E body \in Body : PutDefinition(r, k, body)
        <4>1. PICK b \in Body : PutDefinition(r, k, b)
          BY <3>1
        <4>2. \E x \in Puts : Become(r, x) /\ x.stage = "get" /\ x.key = k /\ x.body = b
          <5>1. \A j \in Keys, c \in Body : PutDefinition(r, j, c) =>
                   \E x \in Puts : Become(r, x) /\ x.stage = "get" /\ x.key = j /\ x.body = c
            BY StepRequest, Zenon
          <5>2. QED
            BY <4>1, <5>1
        <4>3. QED
          BY <4>2
      <3>2. CASE DeleteDefinition(r, k)
        <4>1. \E x \in Others : Become(r, x) /\ x.stage = "sweep" /\ x.key = k
          BY <3>2, StepRequest, Zenon
        <4>2. QED
          BY <4>1
      <3>3. CASE PutOverride(r, k)
        <4>1. \E x \in Others : Become(r, x) /\ x.stage = "override" /\ x.key = k
          BY <3>3, StepRequest, Zenon
        <4>2. QED
          BY <4>1
      <3>4. QED
        BY <1>7, <3>1, <3>2, <3>3
    <2>4. QED
      BY <1>6, <1>s, <2>1, <2>2, <2>3
  <1>8. ASSUME NEW r \in Requests,
               \/ GetDefinition(r) \/ CommitDefinition(r) \/ RedoDefinition(r)
               \/ ReplyDefinition(r) \/ SweepOverrides(r) \/ UpsertOverride(r)
        PROVE  Room'
    <2>1. req[r].stage \notin {"dictate", "booked"} /\ usage' = usage
      BY <1>8 DEF GetDefinition, CommitDefinition, RedoDefinition, ReplyDefinition,
                  SweepOverrides, UpsertOverride
    <2>2. PICK x \in Records : Become(r, x) /\ x.stage \notin {"dictate", "booked"}
      <3>1. Idle.stage = "idle" /\ [stage |-> "reply", key |-> req[r].key].stage = "reply"
        BY DEF Idle
      <3>2. [req[r] EXCEPT !.stage = "redo"] \in Puts => [req[r] EXCEPT !.stage = "redo"].stage = "redo"
        BY DEF Puts
      <3>3. CASE CommitDefinition(r)
        BY <1>s, <3>1, <3>2, <3>3, StepRequest DEF CommitDefinition
      <3>4. CASE GetDefinition(r) \/ RedoDefinition(r)
        BY <1>s, <3>1, <3>4, StepRequest
      <3>5. CASE ReplyDefinition(r) \/ SweepOverrides(r) \/ UpsertOverride(r)
        BY <1>s, <3>1, <3>5 DEF ReplyDefinition, SweepOverrides, UpsertOverride
      <3>6. QED
        BY <1>8, <3>3, <3>4, <3>5
    <2>3. QED
      BY <1>6, <2>1, <2>2
  <1>9. ASSUME NEW k \in Keys, DeleteOverride(k) PROVE Room'
    BY <1>5, <1>9 DEF DeleteOverride, Running, Unanswered
  <1>10. CASE Crash
    <2>1. Running' = {} /\ Unanswered' = {}
      BY <1>10 DEF Crash, Running, Unanswered, Idle
    <2>2. /\ IsFiniteSet(Running') /\ Cardinality(Running') = 0
          /\ IsFiniteSet(Unanswered') /\ Cardinality(Unanswered') = 0
      BY <2>1, FS_EmptySet
    <2>3. answered' = answered /\ booked' = booked /\ cut' = cut + Cardinality(Unanswered)
      BY <1>10 DEF Crash
    <2>4. QED
      BY <1>0, <2>2, <2>3 DEF Room
  <1>11. CASE UNCHANGED vars
    BY <1>5, <1>11 DEF vars, Running, Unanswered
  <1> HIDE DEF Room
  <1>12. QED
    BY <1>1, <1>2, <1>3, <1>4, <1>7, <1>8, <1>9, <1>10, <1>11 DEF Next

(***************************************************************************)
(* Definitions.                                                            *)
(***************************************************************************)
(* A PUT under way brings the required fields or finds them in the row.    *)
Promised ==
    \A r \in Requests :
        req[r].stage \in {"get", "commit", "redo"} /\ req[r].key \notin Config \cup raced =>
            req[r].body.full \/ req[r].key \in DOMAIN definitions

(* An override under way has its mode.                                     *)
Kept ==
    \A r \in Requests :
        req[r].stage = "override" /\ req[r].key \notin Config \cup raced =>
            req[r].key \in DOMAIN definitions

Rows == CompleteRows /\ Promised /\ Kept

(* What a request may rely on at stage x.                                  *)
MayRely(x, rows, lost) ==
    /\ x.stage \in {"get", "commit", "redo"} /\ x.key \notin Config \cup lost =>
          x.body.full \/ x.key \in DOMAIN rows
    /\ x.stage = "override" /\ x.key \notin Config \cup lost => x.key \in DOMAIN rows

(* A step takes a row away from others only if it is noted in raced.       *)
LEMMA ReliedOn ==
  ASSUME Types, Promised, Kept, NEW r \in Requests, NEW x \in Records, Become(r, x),
         raced \subseteq raced',
         \A q \in Requests \ {r} :
            /\ req[q].stage \in {"get", "commit", "redo", "override"}
            /\ req[q].key \in DOMAIN definitions
            => req[q].key \in DOMAIN definitions' \cup raced',
         MayRely(x, definitions', raced')
  PROVE  Promised' /\ Kept'
  <1>1. ASSUME NEW q \in Requests
        PROVE  MayRely(req'[q], definitions', raced')
    <2>1. CASE q = r
      BY <2>1, BecomeIs
    <2>2. CASE q # r
      BY <2>2, BecomeIs DEF MayRely, Promised, Kept
    <2>3. QED
      BY <2>1, <2>2
  <1>2. QED
    BY <1>1 DEF MayRely, Promised, Kept

(* A row that is the same, complete, or noted in raced keeps the table so. *)
LEMMA CompleteIs ==
  ASSUME Types, CompleteRows, raced \subseteq raced', NEW k,
         \A j \in DOMAIN definitions' \ {k} :
            j \in DOMAIN definitions /\ definitions'[j] = definitions[j],
         k \in DOMAIN definitions' =>
            k \in Config \cup raced' \/ definitions'[k].full,
         k \in DOMAIN definitions' => definitions'[k] # None
  PROVE  CompleteRows'
  BY DEF CompleteRows, Complete

(* No order of PUTs and DELETEs leaves a row incomplete unnoticed.         *)
LEMMA StepRows == ASSUME Types, Types', Rows, [Next]_vars PROVE Rows'
  <1>0. CompleteRows /\ Promised /\ Kept
    BY DEF Rows
  <1>1. ASSUME NEW r \in Requests, NEW x \in Records, Become(r, x),
               definitions' = definitions, raced \subseteq raced',
               MayRely(x, definitions, raced')
        PROVE  Rows'
    <2>1. Promised' /\ Kept'
      BY <1>0, <1>1, ReliedOn
    <2>2. CompleteRows'
      BY <1>0, <1>1 DEF CompleteRows, Complete
    <2>3. QED
      BY <2>1, <2>2 DEF Rows
  <1>2. \A lost : MayRely(Idle, definitions, lost) /\ MayRely(Idle, definitions', lost)
    BY DEF MayRely, Idle
  <1>3. Idle \in Records /\ Puts \subseteq Records /\ Others \subseteq Records
    BY DEF Records
  <1>4. ASSUME NEW r \in Requests, NEW k \in Keys, NEW body \in Body, PutDefinition(r, k, body)
        PROVE  Rows'
    <2>1. PICK x \in Puts : Become(r, x) /\ x.stage = "get" /\ x.key = k /\ x.body = body
      <3>1. \A j \in Keys, b \in Body : PutDefinition(r, j, b) =>
               \E x \in Puts : Become(r, x) /\ x.stage = "get" /\ x.key = j /\ x.body = b
        BY StepRequest, Zenon
      <3>2. QED
        BY <1>4, <3>1
    <2>2. k \notin Config => body.full \/ k \in DOMAIN definitions
      <3>1. k \notin Config => Apply(DefinitionOf(k), body).full
        BY <1>4 DEF PutDefinition, Complete
      <3>2. QED
        BY <3>1, RowIs, ApplyIs
    <2>3. MayRely(x, definitions, raced')
      BY <2>1, <2>2 DEF MayRely
    <2>4. QED
      BY <1>1, <1>3, <1>4, <2>1, <2>3 DEF PutDefinition
  <1>5. ASSUME NEW r \in Requests, GetDefinition(r)
        PROVE  Rows'
    <2>1. PICK x \in Puts : /\ Become(r, x) /\ x.stage = "commit"
                            /\ x.key = req[r].key /\ x.body = req[r].body
      BY <1>5, StepRequest
    <2>2. MayRely(x, definitions, raced)
      BY <1>0, <1>5, <2>1 DEF MayRely, GetDefinition, Promised
    <2>3. QED
      BY <1>1, <1>3, <1>5, <2>1, <2>2 DEF GetDefinition
  <1>6. ASSUME NEW r \in Requests, CommitDefinition(r)
        PROVE  Rows'
    <2>1. PICK k \in Keys : k = req[r].key
      BY <1>6, RecordIs DEF CommitDefinition, Puts
    <2>2. /\ req[r] \in Puts /\ req[r].body \in Body /\ req[r].seen \in Definition \cup {None}
          /\ [req[r] EXCEPT !.stage = "redo"] \in Puts
      BY <1>6, RecordIs, StepRequest DEF CommitDefinition, Puts
    <2>3. raced \subseteq raced'
      BY <1>6, <2>1 DEF CommitDefinition, RacedBy
    <2> DEFINE reply == [stage |-> "reply", key |-> k]
    <2>a. reply \in Records /\ MayRely(reply, definitions', raced')
      BY <1>3, <1>6, <2>1, StepRequest DEF MayRely
    <2>4. CASE req[r].seen # None /\ k \in DOMAIN definitions
      <3> DEFINE new == WriteChanged(definitions[k], req[r].seen, req[r].body)
      <3>1. definitions' = [definitions EXCEPT ![k] = new] /\ Become(r, reply)
        BY <1>6, <2>1, <2>4, RowIs DEF CommitDefinition
      <3>2. definitions[k] \in Definition
        BY <2>4, RowIs
      <3>3. new \in Definition /\ (definitions[k].full => new.full)
        BY <2>2, <2>4, <3>2, WriteIs
      <3> HIDE DEF new, reply
      <3>4. new # None
        BY <3>3
      <3>5. k \in Config \cup raced \/ definitions[k].full
        BY <1>0, <2>4 DEF CompleteRows, Complete
      <3>6. CompleteRows'
        BY <1>0, <2>3, <2>4, <3>1, <3>3, <3>4, <3>5, CompleteIs
      <3>7. Promised' /\ Kept'
        BY <1>0, <2>3, <2>a, <3>1, ReliedOn
      <3>8. QED
        BY <3>6, <3>7 DEF Rows
    <2>5. CASE req[r].seen = None /\ k \notin DOMAIN definitions
      <3> DEFINE new == Apply(None, req[r].body)
      <3>1. definitions' = With(definitions, k, new) /\ Become(r, reply)
        BY <1>6, <2>1, <2>5, RowIs DEF CommitDefinition
      <3>2. new \in Definition /\ (req[r].body.full => new.full)
        BY <2>2, ApplyIs
      <3> HIDE DEF new, reply
      <3>3. k \in Config \cup raced \/ req[r].body.full
        BY <1>0, <1>6, <2>1, <2>5 DEF CommitDefinition, Promised
      <3>4. /\ DOMAIN definitions' = DOMAIN definitions \cup {k} /\ definitions'[k] = new
            /\ \A j \in DOMAIN definitions : j # k => definitions'[j] = definitions[j]
        BY <3>1 DEF With
      <3>5. CompleteRows'
        BY <1>0, <2>3, <3>2, <3>3, <3>4, CompleteIs
      <3>6. Promised' /\ Kept'
        BY <1>0, <2>3, <2>a, <3>1, <3>4, ReliedOn
      <3>7. QED
        BY <3>5, <3>6 DEF Rows
    <2>6. CASE req[r].seen # None /\ k \notin DOMAIN definitions
      <3>1. definitions' = definitions /\ Become(r, Idle)
        BY <1>6, <2>1, <2>6, RowIs DEF CommitDefinition
      <3>2. QED
        BY <1>1, <1>2, <1>3, <2>3, <3>1
    <2>7. CASE req[r].seen = None /\ k \in DOMAIN definitions
      <3> DEFINE x == [req[r] EXCEPT !.stage = "redo"]
      <3>1. definitions' = definitions /\ Become(r, x)
        BY <1>6, <2>1, <2>7, RowIs DEF CommitDefinition
      <3>2. x \in Puts /\ x.stage = "redo" /\ x.key = req[r].key /\ x.body = req[r].body
        BY <2>2 DEF Puts
      <3> HIDE DEF x
      <3>3. MayRely(x, definitions, raced')
        BY <2>1, <2>7, <3>2 DEF MayRely
      <3>4. QED
        BY <1>1, <1>3, <2>3, <3>1, <3>2, <3>3
    <2>8. QED
      BY <2>4, <2>5, <2>6, <2>7
  <1>7. ASSUME NEW r \in Requests, RedoDefinition(r)
        PROVE  Rows'
    <2>1. definitions' = definitions /\ raced' = raced
      BY <1>7 DEF RedoDefinition
    <2>2. CASE Become(r, Idle)
      BY <1>1, <1>2, <1>3, <2>1, <2>2
    <2>3. CASE ~Become(r, Idle)
      <3>1. PICK x \in Puts : /\ Become(r, x) /\ x.stage = "commit" /\ x.key = req[r].key
                              /\ req[r].key \in DOMAIN definitions
        BY <1>7, <2>3, StepRequest
      <3>2. MayRely(x, definitions, raced)
        BY <3>1 DEF MayRely
      <3>3. QED
        BY <1>1, <1>3, <2>1, <3>1, <3>2
    <2>4. QED
      BY <2>2, <2>3
  <1>8. ASSUME NEW r \in Requests, NEW k \in Keys, DeleteDefinition(r, k)
        PROVE  Rows'
    <2>1. PICK x \in Others : Become(r, x) /\ x.stage = "sweep" /\ x.key = k
      BY <1>8, StepRequest
    <2>2. /\ DOMAIN definitions' = DOMAIN definitions \ {k}
          /\ \A j \in DOMAIN definitions' : definitions'[j] = definitions[j]
      BY <1>8 DEF DeleteDefinition, Without
    <2>3. raced \subseteq raced'
      BY <1>8 DEF DeleteDefinition, RacedBy
    <2>4. ASSUME NEW q \in Requests \ {r}, req[q].stage \in {"get", "commit", "redo", "override"},
                 req[q].key = k
          PROVE  k \in raced'
      BY <1>8, <2>4 DEF DeleteDefinition, RacedBy, On
    <2>5. MayRely(x, definitions', raced')
      BY <2>1 DEF MayRely
    <2>6. Promised' /\ Kept'
      BY <1>0, <1>3, <2>1, <2>2, <2>3, <2>4, <2>5, ReliedOn
    <2>7. CompleteRows'
      BY <1>0, <2>2, <2>3, CompleteIs
    <2>8. QED
      BY <2>6, <2>7 DEF Rows
  <1>9. ASSUME NEW r \in Requests, NEW k \in Keys, PutOverride(r, k)
        PROVE  Rows'
    <2>1. PICK x \in Others : Become(r, x) /\ x.stage = "override" /\ x.key = k
      BY <1>9, StepRequest
    <2>2. k \in Config \/ k \in DOMAIN definitions
      BY <1>9, RowIs DEF PutOverride, Effective
    <2>3. MayRely(x, definitions, raced)
      BY <2>1, <2>2 DEF MayRely
    <2>4. QED
      BY <1>1, <1>3, <1>9, <2>1, <2>3 DEF PutOverride
  <1>10. ASSUME NEW r \in Requests, NEW k \in Keys, Dictate(r, k)
         PROVE  Rows'
    <2>1. PICK x \in Others : Become(r, x) /\ x.stage = "dictate"
      <3>1. \E x \in Others : Become(r, x) /\ x.stage = "dictate" /\ x.key = k
        BY <1>10, StepRequest, Zenon
      <3>2. QED
        BY <3>1
    <2>2. MayRely(x, definitions, raced)
      BY <2>1 DEF MayRely
    <2>3. QED
      BY <1>1, <1>3, <1>10, <2>1, <2>2 DEF Dictate
  <1>11. ASSUME NEW r \in Requests,
                \/ ReplyDefinition(r) \/ SweepOverrides(r) \/ UpsertOverride(r)
                \/ BookingFails(r) \/ ReplyText(r)
         PROVE  Rows'
    <2>1. /\ Become(r, Idle) /\ definitions' = definitions
          /\ raced \subseteq raced'
      BY <1>11 DEF ReplyDefinition, SweepOverrides, UpsertOverride, BookingFails, ReplyText, RacedBy
    <2>2. QED
      BY <1>1, <1>2, <1>3, <2>1
  <1>a. ASSUME NEW r \in Requests, Book(r)
        PROVE  Rows'
    <2>1. PICK x \in Others : Become(r, x) /\ x.stage = "booked"
      BY <1>a, StepRequest
    <2>2. MayRely(x, definitions, raced)
      BY <2>1 DEF MayRely
    <2>3. QED
      BY <1>1, <1>3, <1>a, <2>1, <2>2 DEF Book
  <1>12. ASSUME NEW k \in Keys, DeleteOverride(k)
         PROVE  Rows'
    BY <1>0, <1>12 DEF DeleteOverride, Rows, CompleteRows, Complete, Promised, Kept
  <1>13. CASE Crash
    <2>1. \A r \in Requests : req'[r].stage = "idle"
      BY <1>13 DEF Crash, Idle
    <2>2. raced \subseteq raced' /\ definitions' = definitions
      BY <1>13 DEF Crash
    <2>3. QED
      BY <1>0, <2>1, <2>2 DEF Rows, CompleteRows, Complete, Promised, Kept
  <1>14. CASE UNCHANGED vars
    BY <1>0, <1>14 DEF vars, Rows, CompleteRows, Complete, Promised, Kept
  <1> HIDE DEF Rows
  <1>15. QED
    BY <1>4, <1>5, <1>6, <1>7, <1>8, <1>9, <1>10, <1>11, <1>12, <1>13, <1>14,
       <1>a DEF Next

(***************************************************************************)
(* Overrides of a mode that has been deleted.                              *)
(***************************************************************************)
(* No override of a deleted mode is left behind unnoticed.                 *)
LEMMA StepOrphans ==
  ASSUME Types, Kept, NoInheritance, [Next]_vars PROVE NoInheritance'
  <1>1. ASSUME overrides' = overrides, raced \subseteq raced',
               \A q \in Requests : req[q].stage = "sweep" =>
                  req'[q] = req[q] \/ req[q].key \in raced'
        PROVE  NoInheritance'
    <2>1. ASSUME NEW k \in DOMAIN overrides, overrides[k].orphan
          PROVE  k \in raced' \/ On(k, {"sweep"})' # {}
      <3>1. CASE k \in raced
        BY <1>1, <3>1
      <3>2. CASE k \notin raced
        <4>1. PICK q \in Requests : req[q].stage = "sweep" /\ req[q].key = k
          BY <2>1, <3>2 DEF NoInheritance, On
        <4>2. QED
          BY <1>1, <4>1 DEF On
      <3>3. QED
        BY <3>1, <3>2
    <2>2. QED
      BY <1>1, <2>1 DEF NoInheritance
  <1>2. ASSUME NEW r \in Requests, NEW x \in Records, Become(r, x), req[r].stage # "sweep"
        PROVE  \A q \in Requests : req[q].stage = "sweep" => req'[q] = req[q]
    BY <1>2, BecomeIs
  <1>3. Idle \in Records /\ Puts \subseteq Records /\ Others \subseteq Records
    BY DEF Records
  <1>4. ASSUME NEW r \in Requests, NEW k \in Keys,
               \/ \E body \in Body : PutDefinition(r, k, body)
               \/ PutOverride(r, k)
               \/ Dictate(r, k)
        PROVE  NoInheritance'
    <2>1. req[r] = Idle /\ overrides' = overrides /\ raced' = raced
      BY <1>4 DEF PutDefinition, PutOverride, Dictate
    <2>2. req[r].stage # "sweep"
      BY <2>1 DEF Idle
    <2>3. PICK x \in Puts \cup Others : Become(r, x)
      BY <1>4, StepRequest
    <2>4. x \in Records
      BY <1>3
    <2>5. QED
      BY <1>1, <1>2, <2>1, <2>2, <2>3, <2>4
  <1>5. ASSUME NEW r \in Requests,
               \/ GetDefinition(r) \/ CommitDefinition(r) \/ RedoDefinition(r)
               \/ ReplyDefinition(r) \/ Book(r) \/ BookingFails(r) \/ ReplyText(r)
        PROVE  NoInheritance'
    <2>1. req[r].stage # "sweep" /\ overrides' = overrides /\ raced \subseteq raced'
      BY <1>5 DEF GetDefinition, CommitDefinition, RedoDefinition, ReplyDefinition, Book,
                  BookingFails, ReplyText, RacedBy
    <2>2. PICK x \in Records : Become(r, x)
      <3>1. CASE CommitDefinition(r)
        BY <1>3, <3>1, StepRequest DEF CommitDefinition
      <3>2. CASE GetDefinition(r) \/ RedoDefinition(r) \/ Book(r)
        BY <1>3, <3>2, StepRequest
      <3>3. CASE ReplyDefinition(r) \/ BookingFails(r) \/ ReplyText(r)
        BY <1>3, <3>3 DEF ReplyDefinition, BookingFails, ReplyText
      <3>4. QED
        BY <1>5, <3>1, <3>2, <3>3
    <2>3. QED
      BY <1>1, <1>2, <2>1, <2>2
  <1>6. ASSUME NEW r \in Requests, NEW k \in Keys, DeleteDefinition(r, k)
        PROVE  NoInheritance'
    <2>1. PICK x \in Others : Become(r, x) /\ x.stage = "sweep" /\ x.key = k
      BY <1>6, StepRequest
    <2>2. req'[r].stage = "sweep" /\ req'[r].key = k
      BY <1>3, <2>1, BecomeIs
    <2>3. r \in On(k, {"sweep"})'
      BY <2>2 DEF On
    <2>4. req[r].stage # "sweep"
      BY <1>6 DEF DeleteDefinition, Idle
    <2>5. \A q \in Requests : req[q].stage = "sweep" => req'[q] = req[q]
      BY <1>2, <1>3, <2>1, <2>4
    <2>6. /\ DOMAIN overrides' = DOMAIN overrides /\ raced \subseteq raced'
          /\ \A j \in DOMAIN overrides : j # k => overrides'[j] = overrides[j]
      BY <1>6 DEF DeleteDefinition, RacedBy
    <2>7. ASSUME NEW j \in DOMAIN overrides', j # k, overrides'[j].orphan
          PROVE  j \in raced' \/ On(j, {"sweep"})' # {}
      <3>1. j \in raced \/ On(j, {"sweep"}) # {}
        BY <2>6, <2>7 DEF NoInheritance
      <3>2. QED
        BY <2>5, <2>6, <3>1 DEF On
    <2>8. QED
      BY <2>3, <2>7 DEF NoInheritance
  <1>7. ASSUME NEW r \in Requests, SweepOverrides(r)
        PROVE  NoInheritance'
    <2>1. PICK k \in Keys : k = req[r].key
      BY <1>7, RecordIs DEF SweepOverrides, Others
    <2>2. /\ DOMAIN overrides' = DOMAIN overrides \ {k} /\ raced' = raced
          /\ \A j \in DOMAIN overrides' : overrides'[j] = overrides[j]
      BY <1>7, <2>1 DEF SweepOverrides, Without
    <2>3. \A q \in Requests : q # r => req'[q] = req[q]
      BY <1>3, <1>7, BecomeIs DEF SweepOverrides
    <2>4. ASSUME NEW j \in DOMAIN overrides', overrides'[j].orphan
          PROVE  j \in raced' \/ On(j, {"sweep"})' # {}
      <3>1. CASE j \in raced
        BY <2>2, <3>1
      <3>2. CASE j \notin raced
        <4>1. PICK q \in Requests : req[q].stage = "sweep" /\ req[q].key = j
          BY <2>2, <2>4, <3>2 DEF NoInheritance, On
        <4>2. q # r
          BY <2>1, <2>2, <2>4, <4>1
        <4>3. QED
          BY <2>3, <4>1, <4>2 DEF On
      <3>3. QED
        BY <3>1, <3>2
    <2>5. QED
      BY <2>4 DEF NoInheritance
  <1>8. ASSUME NEW r \in Requests, UpsertOverride(r)
        PROVE  NoInheritance'
    <2>1. PICK k \in Keys : k = req[r].key
      BY <1>8, RecordIs DEF UpsertOverride, Others
    <2>2. /\ \A j \in DOMAIN overrides' : j # k =>
                 j \in DOMAIN overrides /\ overrides'[j] = overrides[j]
          /\ overrides'[k].orphan = (k \notin Config /\ DefinitionOf(k) = None)
          /\ raced \subseteq raced'
      BY <1>8, <2>1 DEF UpsertOverride, With, RacedBy
    <2>3. req[r].stage # "sweep" /\ Become(r, Idle)
      BY <1>8 DEF UpsertOverride
    <2>4. \A q \in Requests : req[q].stage = "sweep" => req'[q] = req[q]
      BY <1>2, <1>3, <2>3
    <2>5. k \notin Config /\ DefinitionOf(k) = None => k \in raced
      BY <1>8, <2>1, RowIs DEF UpsertOverride, Kept
    <2>6. ASSUME NEW j \in DOMAIN overrides', j # k, overrides'[j].orphan
          PROVE  j \in raced' \/ On(j, {"sweep"})' # {}
      <3>1. j \in raced \/ On(j, {"sweep"}) # {}
        BY <2>2, <2>6 DEF NoInheritance
      <3>2. QED
        BY <2>2, <2>4, <3>1 DEF On
    <2>7. overrides'[k].orphan => k \in raced'
      BY <2>2, <2>5
    <2>8. QED
      BY <2>6, <2>7 DEF NoInheritance
  <1>9. ASSUME NEW k \in Keys, DeleteOverride(k)
        PROVE  NoInheritance'
    <2>1. /\ \A j \in DOMAIN overrides' : j \in DOMAIN overrides /\ overrides'[j] = overrides[j]
          /\ raced' = raced /\ req' = req
      BY <1>9 DEF DeleteOverride, Without
    <2>2. QED
      BY <2>1 DEF NoInheritance, On
  <1>10. CASE Crash
    <2>1. overrides' = overrides /\ raced \subseteq raced'
          /\ \A q \in Requests : req[q].stage = "sweep" => req[q].key \in raced'
      BY <1>10 DEF Crash
    <2>2. QED
      BY <1>1, <2>1
  <1>11. CASE UNCHANGED vars
    BY <1>1, <1>11 DEF vars
  <1>12. QED
    BY <1>4, <1>5, <1>6, <1>7, <1>8, <1>9, <1>10, <1>11 DEF Next

(***************************************************************************)
(* The theorems.                                                           *)
(***************************************************************************)
IInv == Types /\ Room /\ Rows /\ NoInheritance

LEMMA Always == Spec => []IInv
  <1>1. Init => IInv
    <2> SUFFICES ASSUME Init PROVE IInv
      OBVIOUS
    <2>1. \A r \in Requests : req[r].stage = "idle"
      BY DEF Init, Idle
    <2>2. DOMAIN definitions = {} /\ DOMAIN overrides = {}
      BY DEF Init, Empty
    <2>3. QED
      BY <2>1, <2>2, InitTypes DEF IInv, Rows, CompleteRows, Promised, Kept, NoInheritance
  <1>2. IInv /\ [Next]_vars => IInv'
    <2> SUFFICES ASSUME IInv, [Next]_vars PROVE IInv'
      OBVIOUS
    <2>1. Types' /\ Room'
      BY StepTypes, StepRoom DEF IInv
    <2>2. Rows'
      BY <2>1, StepRows DEF IInv
    <2>3. NoInheritance'
      BY StepOrphans DEF IInv, Rows
    <2>4. QED
      BY <2>1, <2>2, <2>3 DEF IInv
  <1>3. QED
    BY <1>1, <1>2, PTL DEF Spec

(* Tables hold rows and requests hold keys.                                *)
THEOREM CatalogTypeCorrect == Spec => []TypeOK
  <1>1. IInv => TypeOK
    <2> SUFFICES ASSUME IInv PROVE TypeOK
      OBVIOUS
    <2>1. Types
      BY DEF IInv
    <2>2. ASSUME NEW r \in Requests
          PROVE  \/ req[r] = Idle
                 \/ req[r].key \in Keys
                    /\ req[r].stage \in {"get", "commit", "redo", "reply", "sweep", "override",
                                        "dictate", "booked"}
      BY <2>1, RecordIs
    <2>3. QED
      BY <2>1, <2>2 DEF Types, TypeOK
  <1>2. QED
    BY <1>1, Always, PTL

(* A mode that is only in the database has its required fields, although a *)
(* PUT may leave them out, unless the key was deleted while it was written.*)
THEOREM RowsAreComplete == Spec => []CompleteRows
  <1>1. IInv => CompleteRows
    BY DEF IInv, Rows
  <1>2. QED
    BY <1>1, Always, PTL

(* A mode created anew has none of the overrides of its predecessor,       *)
(* unless the key was written between the commits of the DELETE, or the    *)
(* process died there.                                                     *)
THEOREM NothingIsInherited == Spec => []NoInheritance
  <1>1. IInv => NoInheritance
    BY DEF IInv
  <1>2. QED
    BY <1>1, Always, PTL

(* Every answered text was booked before, once; what is booked without an  *)
(* answer waits for it or lost it to a crash, however many are under way.  *)
THEOREM DictationsAreBookedOnce == Spec => []BookedOnce
  <1>1. IInv => BookedOnce
    BY DEF IInv, Room, BookedOnce
  <1>2. QED
    BY <1>1, Always, PTL

(* A PUT that commits, and what it commits.                                *)
LEMMA CommitIs ==
  ASSUME Types, NEW r \in Requests, CommitDefinition(r), req'[r].stage = "reply"
  PROVE  LET k    == req[r].key
             seen == req[r].seen
             body == req[r].body
         IN  /\ body \in Body /\ seen \in Definition \cup {None}
             /\ seen = None <=> k \notin DOMAIN definitions
             /\ DOMAIN definitions' = DOMAIN definitions \cup {k}
             /\ \A j \in DOMAIN definitions : j # k => definitions'[j] = definitions[j]
             /\ definitions'[k] = IF seen = None THEN Apply(None, body)
                                  ELSE WriteChanged(definitions[k], seen, body)
  <1> DEFINE k == req[r].key
             seen == req[r].seen
             body == req[r].body
  <1>1. req[r] \in Puts
    BY RecordIs DEF CommitDefinition
  <1>2. body \in Body /\ seen \in Definition \cup {None}
    BY <1>1 DEF Puts
  <1>3. ~Become(r, Idle)
    <2>1. ASSUME Become(r, Idle) PROVE FALSE
      <3>1. Idle \in Records /\ Idle.stage = "idle"
        BY DEF Records, Idle
      <3>2. QED
        BY <2>1, <3>1, BecomeIs
    <2>2. QED
      BY <2>1
  <1>4. ~Become(r, [req[r] EXCEPT !.stage = "redo"])
    <2>1. ASSUME Become(r, [req[r] EXCEPT !.stage = "redo"]) PROVE FALSE
      <3> DEFINE x == [req[r] EXCEPT !.stage = "redo"]
      <3>1. x \in Records /\ x.stage = "redo"
        BY <1>1 DEF Records, Puts
      <3>2. Become(r, x)
        BY <2>1
      <3> HIDE DEF x
      <3>3. QED
        BY <3>1, <3>2, BecomeIs
    <2>2. QED
      BY <2>1
  <1>5. \/ /\ seen # None /\ DefinitionOf(k) # None
           /\ definitions' = [definitions EXCEPT ![k] = WriteChanged(definitions[k], seen, body)]
        \/ /\ seen = None /\ DefinitionOf(k) = None
           /\ definitions' = With(definitions, k, Apply(None, body))
    BY <1>3, <1>4 DEF CommitDefinition
  <1>6. DefinitionOf(k) = None <=> k \notin DOMAIN definitions
    BY RowIs
  <1> HIDE DEF k, seen, body
  <1>7. CASE seen # None /\ DefinitionOf(k) # None
    <2>1. definitions' = [definitions EXCEPT ![k] = WriteChanged(definitions[k], seen, body)]
      BY <1>5, <1>7
    <2>2. k \in DOMAIN definitions
      BY <1>6, <1>7
    <2>3. QED
      BY <1>2, <1>7, <2>1, <2>2 DEF k, seen, body
  <1>8. CASE seen = None /\ DefinitionOf(k) = None
    <2>1. definitions' = With(definitions, k, Apply(None, body))
      BY <1>5, <1>8
    <2>2. k \notin DOMAIN definitions
      BY <1>6, <1>8
    <2>3. /\ DOMAIN definitions' = DOMAIN definitions \cup {k}
          /\ definitions'[k] = Apply(None, body)
          /\ \A j \in DOMAIN definitions : j # k => definitions'[j] = definitions[j]
      BY <2>1, <2>2 DEF With
    <2>4. QED
      BY <1>2, <1>8, <2>2, <2>3 DEF k, seen, body
  <1>9. QED
    BY <1>5, <1>7, <1>8

(* Only a PUT that commits changes a row that stays.                       *)
LEMMA RowStays ==
  ASSUME Types, [Next]_vars, NEW k \in DOMAIN definitions \cap DOMAIN definitions',
         definitions'[k] # definitions[k]
  PROVE  \E r \in On(k, {"commit"}) : CommitDefinition(r) /\ req'[r].stage = "reply"
  <1>1. definitions' # definitions
    OBVIOUS
  <1>2. ASSUME NEW r \in Requests, NEW j \in Keys, DeleteDefinition(r, j) PROVE FALSE
    BY <1>2 DEF DeleteDefinition, Without
  <1>3. PICK r \in Requests : CommitDefinition(r)
    BY <1>1, <1>2
       DEF Next, vars, PutDefinition, PutOverride, Dictate, GetDefinition, RedoDefinition,
           ReplyDefinition, SweepOverrides, UpsertOverride, Book, BookingFails, ReplyText,
           DeleteOverride, Crash
  <1> DEFINE reply == [stage |-> "reply", key |-> req[r].key]
  <1>4. Become(r, reply)
    BY <1>1, <1>3 DEF CommitDefinition
  <1>5. reply \in Records /\ reply.stage = "reply"
    BY <1>3, StepRequest DEF Records
  <1> HIDE DEF reply
  <1>6. req'[r].stage = "reply"
    BY <1>4, <1>5, BecomeIs
  <1>7. req[r].key = k
    BY <1>3, <1>6, CommitIs
  <1>8. QED
    BY <1>3, <1>6, <1>7 DEF On, CommitDefinition

(* Whoever gets to the answer of a PUT has committed it.                   *)
LEMMA RepliesCommit ==
  ASSUME Types, [Next]_vars, NEW r \in Requests, req[r].stage = "commit",
         req'[r].stage = "reply"
  PROVE  CommitDefinition(r)
  <1>1. req'[r] # req[r]
    OBVIOUS
  <1>2. Idle.stage = "idle" /\ Idle \in Records /\ Puts \subseteq Records /\ Others \subseteq Records
    BY DEF Idle, Records
  <1>3. ASSUME NEW q \in Requests, NEW x \in Records, Become(q, x),
               req[q].stage # "commit" \/ x.stage # "reply"
        PROVE  FALSE
    BY <1>1, <1>3, BecomeIs
  <1>4. ASSUME NEW q \in Requests, NEW j \in Keys,
               \/ \E body \in Body : PutDefinition(q, j, body)
               \/ DeleteDefinition(q, j) \/ PutOverride(q, j) \/ Dictate(q, j)
        PROVE  FALSE
    <2>1. req[q].stage = "idle"
      BY <1>2, <1>4 DEF PutDefinition, DeleteDefinition, PutOverride, Dictate
    <2>2. PICK x \in Records : Become(q, x)
      BY <1>2, <1>4, StepRequest
    <2>3. QED
      BY <1>3, <2>1, <2>2
  <1>5. ASSUME NEW q \in Requests,
               GetDefinition(q) \/ RedoDefinition(q) \/ Book(q)
        PROVE  FALSE
    <2>1. req[q].stage # "commit"
      BY <1>5 DEF GetDefinition, RedoDefinition, Book
    <2>2. PICK x \in Records : Become(q, x)
      BY <1>2, <1>5, StepRequest
    <2>3. QED
      BY <1>3, <2>1, <2>2
  <1>6. ASSUME NEW q \in Requests,
               \/ ReplyDefinition(q) \/ SweepOverrides(q) \/ UpsertOverride(q)
               \/ BookingFails(q) \/ ReplyText(q)
        PROVE  FALSE
    BY <1>2, <1>3, <1>6 DEF ReplyDefinition, SweepOverrides, UpsertOverride, BookingFails, ReplyText
  <1>7. ASSUME NEW q \in Requests, CommitDefinition(q)
        PROVE  CommitDefinition(r)
    <2>1. PICK x \in Records : Become(q, x)
      BY <1>2, <1>7, StepRequest DEF CommitDefinition
    <2>2. q = r
      BY <1>1, <2>1, BecomeIs
    <2>3. QED
      BY <1>7, <2>2
  <1>8. ASSUME Crash PROVE FALSE
    BY <1>2, <1>8 DEF Crash
  <1>9. ASSUME NEW k \in Keys, DeleteOverride(k) PROVE FALSE
    BY <1>1, <1>9 DEF DeleteOverride
  <1>10. ASSUME UNCHANGED vars PROVE FALSE
    BY <1>1, <1>10 DEF vars
  <1>11. QED
    BY <1>4, <1>5, <1>6, <1>7, <1>8, <1>9, <1>10 DEF Next

(* What changes in a row that stays is what a committing PUT names; and a  *)
(* PUT commits all it names, unless another one came in between.           *)
THEOREM FieldsAreKept == Spec => FieldsKept
  <1> DEFINE Committed(k) == {r \in On(k, {"commit"}) : req'[r].stage = "reply"}
             Changed(k) == k \in DOMAIN definitions =>
                /\ definitions[k].full => definitions'[k].full
                /\ definitions[k].enabled # definitions'[k].enabled =>
                      \E r \in Committed(k) :
                         req[r].body.enabled = (IF definitions'[k].enabled THEN "on" ELSE "off")
             Written(k) == \A r \in Committed(k) :
                req[r].seen = DefinitionOf(k) =>
                   Apply(definitions'[k], req[r].body) = definitions'[k]
  <1>1. ASSUME Types, Types', [Next]_vars, NEW k \in DOMAIN definitions' PROVE Changed(k)
    <2>1. CASE k \notin DOMAIN definitions \/ definitions'[k] = definitions[k]
      BY <2>1
    <2>2. CASE k \in DOMAIN definitions /\ definitions'[k] # definitions[k]
      <3>1. PICK r \in On(k, {"commit"}) : CommitDefinition(r) /\ req'[r].stage = "reply"
        BY <1>1, <2>2, RowStays
      <3>2. r \in Committed(k) /\ r \in Requests /\ req[r].key = k
        BY <3>1 DEF On
      <3>3. /\ req[r].body \in Body /\ req[r].seen \in Definition
            /\ definitions'[k] = WriteChanged(definitions[k], req[r].seen, req[r].body)
        BY <1>1, <2>2, <3>1, <3>2, CommitIs
      <3>4. definitions[k] \in Definition
        BY <1>1, <2>2, RowIs
      <3>5. /\ definitions'[k] \in Definition
            /\ definitions[k].full => definitions'[k].full
            /\ definitions'[k].enabled # definitions[k].enabled =>
                  req[r].body.enabled = (IF definitions[k].enabled THEN "off" ELSE "on")
        <4>1. PICK c \in Definition, s \in Definition, b \in Body :
                 c = definitions[k] /\ s = req[r].seen /\ b = req[r].body
          BY <3>3, <3>4
        <4>2. /\ WriteChanged(c, s, b) \in Definition
              /\ c.full => WriteChanged(c, s, b).full
              /\ WriteChanged(c, s, b).enabled # c.enabled =>
                    b.enabled = (IF c.enabled THEN "off" ELSE "on")
          BY WriteIs
        <4>3. QED
          BY <3>3, <4>1, <4>2
      <3>6. definitions'[k].enabled \in BOOLEAN /\ definitions[k].enabled \in BOOLEAN
        BY <3>4, <3>5 DEF Definition
      <3>7. definitions'[k].enabled # definitions[k].enabled =>
               req[r].body.enabled = (IF definitions'[k].enabled THEN "on" ELSE "off")
        BY <3>5, <3>6
      <3> HIDE DEF Committed
      <3>8. QED
        BY <3>2, <3>5, <3>7
    <2>3. QED
      BY <2>1, <2>2
  <1>2. ASSUME Types, [Next]_vars, NEW k \in DOMAIN definitions' PROVE Written(k)
    <2> SUFFICES ASSUME NEW r \in Committed(k), req[r].seen = DefinitionOf(k)
                 PROVE  Apply(definitions'[k], req[r].body) = definitions'[k]
      OBVIOUS
    <2>1. r \in Requests /\ req[r].stage = "commit" /\ req[r].key = k /\ req'[r].stage = "reply"
      BY DEF On
    <2> HIDE DEF Committed
    <2>2. CommitDefinition(r)
      BY <1>2, <2>1, RepliesCommit
    <2>3. /\ req[r].body \in Body /\ req[r].seen \in Definition \cup {None}
          /\ definitions'[k] = IF req[r].seen = None THEN Apply(None, req[r].body)
                               ELSE WriteChanged(definitions[k], req[r].seen, req[r].body)
      BY <1>2, <2>1, <2>2, CommitIs
    <2>4. definitions'[k] = Apply(req[r].seen, req[r].body)
      <3>1. CASE req[r].seen = None
        BY <2>3, <3>1
      <3>2. CASE req[r].seen # None
        <4>1. definitions[k] = req[r].seen /\ req[r].seen \in Definition
          BY <1>2, <2>3, <3>2, RowIs
        <4>2. WriteChanged(req[r].seen, req[r].seen, req[r].body)
                 = Apply(req[r].seen, req[r].body)
          BY <2>3, <4>1, WriteIs
        <4>3. QED
          BY <2>3, <3>2, <4>1, <4>2
      <3>3. QED
        BY <3>1, <3>2
    <2>5. QED
      BY <2>3, <2>4, ApplyTwice
  <1>3. IInv => Types
    BY DEF IInv
  <1>4. ASSUME Types, Types', [Next]_vars
        PROVE  [\A k \in DOMAIN definitions' : Changed(k) /\ Written(k)]_vars
    BY <1>1, <1>2, <1>4
  <1> HIDE DEF Changed, Written
  <1>5. ASSUME Types, Types', [Next]_vars
        PROVE  [ \A k \in DOMAIN definitions' :
          LET new     == definitions'[k]
              Commits == {r \in On(k, {"commit"}) : req'[r].stage = "reply"}
          IN  /\ k \in DOMAIN definitions =>
                    /\ definitions[k].full => new.full
                    /\ definitions[k].enabled # new.enabled =>
                          \E r \in Commits :
                             req[r].body.enabled = (IF new.enabled THEN "on" ELSE "off")
              /\ \A r \in Commits :
                    req[r].seen = DefinitionOf(k) => Apply(new, req[r].body) = new ]_vars
    BY <1>4, <1>5 DEF Changed, Written
  <1>6. QED
    BY <1>3, <1>5, Always, PTL DEF Spec, FieldsKept
==============================================================================
