-------------------------- MODULE WebConsoleProofs --------------------------
(***************************************************************************)
(* For every number of cards and of calls under way: the plaintext of a    *)
(* token is only in the section that is shown, and a section that waits    *)
(* for nothing tells what is stored.                                       *)
(*                                                                         *)
(* The first is inductive with Tied: a call whose card is still in the     *)
(* page belongs to the section that is shown, because whoever leaves a     *)
(* section empties it.  The second needs to know what a call on its way    *)
(* does to its card, place by place: Orderly says that, as long as the     *)
(* calls of the section did not overlap and none of its answers was lost.  *)
(***************************************************************************)
EXTENDS WebConsole, TLAPS

USE NamesAssumption

(***************************************************************************)
(* The invariant.                                                          *)
(***************************************************************************)
(* All that cards show and rows hold.                                      *)
AllValues == UNION {Values[s] : s \in Sections}

CallRows == [do: Reads \cup Writes, on: Cards \cup {None}, section: Sections,
             value: AllValues, at: {"sent", "done"} \cup Failed]

(* The calls a section makes; "render" is made for all of them.            *)
CallsOf(s) ==
    CASE s = "settings"   -> {"render", "write", "reread"}
      [] s = "keys"       -> {"render", "write", "refresh"}
      [] s = "modes"      -> {"render", "submit"}
      [] s = "adminModes" -> {"render", "submit", "write"}
      [] s = "adminUsers" -> {"render", "submit", "write", "issue", "revoke", "list", "secret"}
      [] OTHER            -> {"render"}

Types ==
    /\ section \in Sections
    /\ page \in TablesOf(Cards, CardRows)
    /\ calls \in TablesOf(Calls, CallRows)
    /\ stored \in [Sections -> AllValues]
    /\ disturbed \in BOOLEAN

(* Rows, cards and calls hold values of their section only.                *)
OfTheirSection ==
    /\ \A s \in Sections : stored[s] \in Values[s]
    /\ \A k \in DOMAIN page : {page[k].shown, page[k].first} \subseteq Values[page[k].section]
    /\ \A c \in DOMAIN calls :
          /\ calls[c].do \in CallsOf(calls[c].section)
          /\ calls[c].do = "render" <=> calls[c].on = None
          /\ \/ calls[c].do = "render" /\ calls[c].at # "done"
             \/ calls[c].value \in Values[calls[c].section]

(* A call whose card is still in the page belongs to the section shown.    *)
Tied ==
    \A c \in DOMAIN calls :
        calls[c].on \in DOMAIN page =>
            calls[c].section = section /\ page[calls[c].on].section = section

Current(c) == c \in DOMAIN calls /\ calls[c].section = section
Shown(k)   == k \in DOMAIN page /\ page[k].section = section

(* Call c leaves its card telling something else than what is stored until *)
(* it is followed by another one.                                          *)
Unsettled(c) ==
    \/ calls[c].do \in {"reread", "refresh"}
    \/ calls[c].do = "write" /\ calls[c].section = "settings" /\ calls[c].at # "done"
    \/ calls[c].do = "write" /\ calls[c].section = "keys" /\ calls[c].at \in {"done", "cut"}
    \/ calls[c].do = "submit" /\ calls[c].at \in {"done", "cut"}

(* One at a time, the calls of the section keep its card in order.         *)
Orderly ==
    /\ \A c, d \in Calls : Current(c) /\ Current(d) => c = d
    /\ \A j, k \in Cards : Shown(j) /\ Shown(k) => j = k
    /\ \A c \in Calls, k \in Cards : Current(c) /\ Shown(k) => k = calls[c].on
    /\ \A k \in Cards :
          Shown(k) /\ (\A c \in Calls : Current(c) => ~Unsettled(c)) =>
              Told(page[k]) = stored[section]
    /\ \A c \in Calls : Current(c) =>
          /\ calls[c].do \in {"render", "reread", "refresh"} /\ calls[c].at = "done" =>
                calls[c].value = stored[section]
          /\ calls[c].do = "write" /\ calls[c].section # "keys" /\ calls[c].at = "sent" =>
                \A k \in Cards : Shown(k) => Told(page[k]) = calls[c].value

Coherent == Types /\ OfTheirSection /\ Tied /\ SecretOnlyInSight /\ (~disturbed => Orderly)

(***************************************************************************)
(* Tables, values and rows.                                                *)
(***************************************************************************)
(* A table is a function from some of the keys to rows.                    *)
LEMMA TableIs ==
  ASSUME NEW Ids, NEW Row, NEW rows
  PROVE  rows \in TablesOf(Ids, Row) <=>
            DOMAIN rows \subseteq Ids /\ rows \in [DOMAIN rows -> Row]
  BY DEF TablesOf

(* Writing, replacing and deleting rows leaves a table, and touches no     *)
(* other row.                                                              *)
LEMMA TableChanges ==
  ASSUME NEW Ids, NEW Row, NEW rows \in TablesOf(Ids, Row)
  PROVE  /\ \A id \in Ids, row \in Row : With(rows, id, row) \in TablesOf(Ids, Row)
         /\ \A ids : Without(rows, ids) \in TablesOf(Ids, Row)
         /\ \A id \in DOMAIN rows, row \in Row :
               [rows EXCEPT ![id] = row] \in TablesOf(Ids, Row)
  <1>1. DOMAIN rows \subseteq Ids /\ rows \in [DOMAIN rows -> Row]
    BY TableIs
  <1>2. ASSUME NEW id \in Ids, NEW row \in Row
        PROVE  With(rows, id, row) \in TablesOf(Ids, Row)
    <2>1. With(rows, id, row) \in [DOMAIN rows \cup {id} -> Row]
      BY <1>1 DEF With
    <2>2. QED
      BY <1>1, <2>1 DEF TablesOf
  <1>3. ASSUME NEW ids
        PROVE  Without(rows, ids) \in TablesOf(Ids, Row)
    <2>1. Without(rows, ids) \in [DOMAIN rows \ ids -> Row]
      BY <1>1 DEF Without
    <2>2. QED
      BY <1>1, <2>1 DEF TablesOf
  <1>4. ASSUME NEW id \in DOMAIN rows, NEW row \in Row
        PROVE  [rows EXCEPT ![id] = row] \in TablesOf(Ids, Row)
    <2>1. [rows EXCEPT ![id] = row] \in [DOMAIN rows -> Row]
      BY <1>1
    <2>2. QED
      BY <1>1, <2>1 DEF TablesOf
  <1>5. QED
    BY <1>2, <1>3, <1>4

(* The sections of the page, and what their cards may show.                *)
LEMMA SectionsAre ==
  Sections = {"overview", "settings", "keys", "modes", "adminModes", "adminUsers"}
  BY DEF Sections, Values

LEMMA ValuesAre ==
  /\ Values["overview"] = {"-"}
  /\ Values["settings"] = {"online", "local"}
  /\ Values["keys"] = {"set", "none"}
  /\ Values["modes"] = {"on", "off"}
  /\ Values["adminModes"] = {"on", "off"}
  /\ Values["adminUsers"] = {"-"}
  /\ \A s \in Sections : Values[s] \subseteq AllValues
  /\ "-" \in AllValues
  <1>1. /\ Values["overview"] = {"-"}
        /\ Values["settings"] = {"online", "local"}
        /\ Values["keys"] = {"set", "none"}
        /\ Values["modes"] = {"on", "off"}
        /\ Values["adminModes"] = {"on", "off"}
        /\ Values["adminUsers"] = {"-"}
    BY DEF Values
  <1>2. \A s \in Sections : Values[s] \subseteq AllValues
    BY DEF AllValues
  <1>3. "-" \in AllValues
    BY <1>1, <1>2, SectionsAre
  <1>4. QED
    BY <1>1, <1>2, <1>3

(* What Call makes, field by field.                                        *)
LEMMA CallIs ==
  ASSUME NEW do \in Reads \cup Writes, NEW card \in Cards \cup {None},
         NEW s \in Sections, NEW value \in AllValues
  PROVE  LET call == Call(do, card, s, value)
         IN  /\ call \in CallRows
             /\ call.do = do /\ call.on = card /\ call.section = s
             /\ call.value = value /\ call.at = "sent"
  BY DEF Call, CallRows

(* The fields of a call under way, ...                                     *)
LEMMA RowIs ==
  ASSUME NEW row \in CallRows
  PROVE  /\ row.do \in Reads \cup Writes /\ row.on \in Cards \cup {None}
         /\ row.section \in Sections /\ row.value \in AllValues
         /\ row.at \in {"sent", "done", "refused", "cut"}
  BY DEF CallRows, Failed

(* ... and of a card.                                                      *)
LEMMA CardIs ==
  ASSUME NEW row \in CardRows
  PROVE  /\ row.section \in Sections /\ row.shown \in AllValues /\ row.first \in AllValues
         /\ row.secret \in BOOLEAN
  BY DEF CardRows, AllValues

(* What each statement of a handler does to the calls under way, ...       *)
LEMMA SendIs ==
  ASSUME Types, NEW call \in CallRows, Send(call)
  PROVE  \E c \in Calls \ DOMAIN calls :
            /\ calls' \in TablesOf(Calls, CallRows)
            /\ DOMAIN calls' = DOMAIN calls \cup {c} /\ calls'[c] = call
            /\ \A d \in DOMAIN calls : calls'[d] = calls[d]
  <1>1. PICK c \in Calls \ DOMAIN calls : calls' = With(calls, c, call)
    BY DEF Send
  <1>2. calls' \in TablesOf(Calls, CallRows)
    BY <1>1, TableChanges DEF Types
  <1>3. QED
    BY <1>1, <1>2 DEF With

(* (the call ends)                                                         *)
LEMMA EndIs ==
  ASSUME Types, NEW c \in DOMAIN calls, End(c)
  PROVE  /\ calls' \in TablesOf(Calls, CallRows)
         /\ DOMAIN calls' = DOMAIN calls \ {c}
         /\ \A d \in DOMAIN calls \ {c} : calls'[d] = calls[d]
  <1>1. calls' = Without(calls, {c})
    BY DEF End
  <1>2. calls' \in TablesOf(Calls, CallRows)
    BY <1>1, TableChanges DEF Types
  <1>3. QED
    BY <1>1, <1>2 DEF Without

(* (another call takes its place)                                          *)
LEMMA ReplaceIs ==
  ASSUME Types, NEW c \in DOMAIN calls, NEW call \in CallRows,
         calls' = [calls EXCEPT ![c] = call]
  PROVE  /\ calls' \in TablesOf(Calls, CallRows)
         /\ DOMAIN calls' = DOMAIN calls /\ calls'[c] = call
         /\ \A d \in DOMAIN calls \ {c} : calls'[d] = calls[d]
  <1>1. calls' \in TablesOf(Calls, CallRows)
    BY TableChanges DEF Types
  <1>2. calls \in [DOMAIN calls -> CallRows]
    BY TableIs DEF Types
  <1>3. QED
    BY <1>1, <1>2

(* ... and to the page.                                                    *)
LEMMA UpdateIs ==
  ASSUME Types, NEW card, NEW row, card \in DOMAIN page => row \in CardRows,
         Update(card, row)
  PROVE  /\ page' \in TablesOf(Cards, CardRows)
         /\ DOMAIN page' = DOMAIN page
         /\ card \in DOMAIN page => page'[card] = row
         /\ \A k \in DOMAIN page \ {card} : page'[k] = page[k]
  <1>1. page \in [DOMAIN page -> CardRows]
    BY TableIs DEF Types
  <1>2. CASE card \in DOMAIN page
    <2>1. page' = [page EXCEPT ![card] = row]
      BY <1>2 DEF Update
    <2>2. page' \in TablesOf(Cards, CardRows)
      BY <1>2, <2>1, TableChanges DEF Types
    <2>3. QED
      BY <1>1, <1>2, <2>1, <2>2
  <1>3. CASE card \notin DOMAIN page
    BY <1>3 DEF Update, Types
  <1>4. QED
    BY <1>2, <1>3

(* The calls under way and the cards in the page are rows of their kind.   *)
LEMMA TableRows ==
  ASSUME Types
  PROVE  /\ DOMAIN calls \subseteq Calls /\ \A c \in DOMAIN calls : calls[c] \in CallRows
         /\ DOMAIN page \subseteq Cards /\ \A k \in DOMAIN page : page[k] \in CardRows
  <1>1. /\ DOMAIN calls \subseteq Calls /\ calls \in [DOMAIN calls -> CallRows]
        /\ DOMAIN page \subseteq Cards /\ page \in [DOMAIN page -> CardRows]
    BY TableIs DEF Types
  <1>2. QED
    BY <1>1

(***************************************************************************)
(* Two kinds of steps: the user asks something of a card, and a handler    *)
(* goes on with an answer.                                                 *)
(***************************************************************************)
(* A row that shows what it did, in the section it was in.                 *)
SameCard(k) == page'[k].section = page[k].section /\ page'[k].first = page[k].first

(* The user acts on card k of section s, and a call for it is sent.        *)
LEMMA AskedStep ==
  ASSUME Coherent, NEW k \in DOMAIN page, NEW s \in Sections, Visible(k, s),
         NEW do \in Reads \cup Writes,
         do \in CallsOf(s) \ {"render", "reread", "refresh"},
         NEW v \in Values[s], Send(Call(do, k, s, v)),
         page' \in TablesOf(Cards, CardRows), DOMAIN page' = DOMAIN page,
         \A j \in DOMAIN page \ {k} : page'[j] = page[j],
         SameCard(k), page'[k].secret => page[k].secret,
         page'[k].shown = IF s = "settings" THEN v ELSE page[k].shown,
         do = "write" /\ s \in {"adminModes", "adminUsers"} => v = page[k].shown,
         disturbed' = Overlap(s), UNCHANGED <<section, stored>>
  PROVE  Coherent'
  <1> DEFINE call == Call(do, k, s, v)
  <1>0. /\ Types /\ OfTheirSection /\ Tied /\ SecretOnlyInSight
        /\ s = section /\ page[k].section = section
        /\ v \in AllValues /\ k \in Cards /\ k # None
    <2>1. v \in AllValues
      BY ValuesAre
    <2>2. k \in Cards
      BY TableRows DEF Coherent
    <2>3. QED
      BY <2>1, <2>2 DEF Coherent, Visible
  <1>1. /\ call \in CallRows
        /\ call.do = do /\ call.on = k /\ call.section = s
        /\ call.value = v /\ call.at = "sent"
    BY <1>0, CallIs
  <1> HIDE DEF call
  <1>2. PICK c \in Calls \ DOMAIN calls :
            /\ calls' \in TablesOf(Calls, CallRows)
            /\ DOMAIN calls' = DOMAIN calls \cup {c} /\ calls'[c] = call
            /\ \A d \in DOMAIN calls : calls'[d] = calls[d]
    <2>1. Send(call)
      BY DEF call
    <2>2. QED
      BY <1>0, <1>1, <2>1, SendIs
  <1>3. /\ DOMAIN calls \subseteq Calls /\ DOMAIN page \subseteq Cards
        /\ disturbed' \in BOOLEAN
        /\ ~disturbed' => ~disturbed /\ \A d \in DOMAIN calls : calls[d].section # section
    BY <1>0, TableRows DEF Types, Overlap, InFlight
  <1>4. Types'
    BY <1>0, <1>2, <1>3 DEF Types
  <1>5. OfTheirSection'
    BY <1>0, <1>1, <1>2 DEF OfTheirSection, SameCard
  <1>6. Tied'
    BY <1>0, <1>1, <1>2 DEF Tied, SameCard
  <1>7. SecretOnlyInSight'
    BY <1>0 DEF SecretOnlyInSight, SameCard
  <1>8. ASSUME ~disturbed' PROVE Orderly'
    <2>1. Orderly /\ \A d \in DOMAIN calls : calls[d].section # section
      BY <1>3, <1>8 DEF Coherent
    <2>2. \A d \in Calls : Current(d)' <=> d = c
      BY <1>0, <1>1, <1>2, <1>3, <2>1 DEF Current
    <2>3. \A j \in Cards : Shown(j)' <=> Shown(j)
      BY DEF Shown, SameCard
    <2>4. Shown(k) /\ \A j \in Cards : Shown(j) => j = k
      BY <1>0, <2>1 DEF Orderly, Shown
    <2>5. Told(page[k]) = stored[section]
      BY <1>0, <2>1, <2>4 DEF Orderly, Current
    <2>6. calls'[c].do = do /\ calls'[c].on = k /\ calls'[c].section = section
          /\ calls'[c].value = v /\ calls'[c].at = "sent"
      BY <1>0, <1>1, <1>2
    <2>7. do # "render" /\ do # "reread" /\ do # "refresh"
      OBVIOUS
    <2>8. ~Unsettled(c)' => s # "settings"
      <3>1. s = "settings" => do = "write"
        BY DEF CallsOf
      <3>2. QED
        BY <1>0, <2>6, <3>1 DEF Unsettled
    <2>9. Told(page'[k]) = stored'[section'] \/ Unsettled(c)'
      <3>1. s # "settings" => Told(page'[k]) = Told(page[k])
        BY DEF SameCard, Told
      <3>2. QED
        BY <1>0, <2>5, <2>8, <3>1
    <2>10. do = "write" /\ section # "keys" => Told(page'[k]) = v
      BY <1>0 DEF CallsOf, SameCard, Told
    <2>11. QED
      BY <2>2, <2>3, <2>4, <2>6, <2>7, <2>9, <2>10 DEF Orderly
  <1>9. QED
    BY <1>4, <1>5, <1>6, <1>7, <1>8 DEF Coherent

(* The handler of call c goes on with its answer: the call ends or is      *)
(* followed by another one on the same card, and no other card changes. If *)
(* it ends, or the next one settles nothing, the card has to tell what is  *)
(* stored, unless the history says otherwise.                              *)
LEMMA AnsweredStep ==
  ASSUME Coherent, NEW c \in DOMAIN calls, calls[c].do # "render",
         calls' \in TablesOf(Calls, CallRows),
         DOMAIN calls' \subseteq DOMAIN calls,
         \A d \in DOMAIN calls \ {c} : d \in DOMAIN calls' /\ calls'[d] = calls[d],
         c \in DOMAIN calls' =>
            /\ calls'[c].on = calls[c].on /\ calls'[c].section = calls[c].section
            /\ calls'[c].value = calls[c].value /\ calls'[c].at = "sent"
            /\ calls'[c].do \in CallsOf(calls[c].section) \ {"render", "write"},
         page' \in TablesOf(Cards, CardRows), DOMAIN page' = DOMAIN page,
         \A k \in DOMAIN page \ {calls[c].on} : page'[k] = page[k],
         \A k \in DOMAIN page : k = calls[c].on =>
            SameCard(k) /\ page'[k].shown \in Values[page[k].section],
         disturbed' \in BOOLEAN, disturbed => disturbed',
         ~disturbed' /\ Current(c) /\ (c \notin DOMAIN calls' \/ ~Unsettled(c)') =>
            \A k \in DOMAIN page : Shown(k) => Told(page'[k]) = stored[section],
         UNCHANGED <<section, stored>>
  PROVE  Coherent'
  <1>0. /\ Types /\ OfTheirSection /\ Tied /\ SecretOnlyInSight
        /\ DOMAIN calls \subseteq Calls /\ DOMAIN page \subseteq Cards
    BY TableRows DEF Coherent
  <1>1. Types'
    BY <1>0 DEF Types
  <1>2. \A k \in DOMAIN page : SameCard(k)
    BY DEF SameCard
  <1>3. OfTheirSection'
    <2>1. \A s \in Sections : stored'[s] \in Values[s]
      BY <1>0 DEF OfTheirSection
    <2>2. \A k \in DOMAIN page' :
             {page'[k].shown, page'[k].first} \subseteq Values[page'[k].section]
      BY <1>0, <1>2 DEF OfTheirSection, SameCard
    <2>3. ASSUME NEW d \in DOMAIN calls'
          PROVE  /\ calls'[d].do \in CallsOf(calls'[d].section)
                 /\ calls'[d].do = "render" <=> calls'[d].on = None
                 /\ \/ calls'[d].do = "render" /\ calls'[d].at # "done"
                    \/ calls'[d].value \in Values[calls'[d].section]
      <3>1. CASE d = c
        BY <1>0, <3>1 DEF OfTheirSection
      <3>2. CASE d # c
        BY <1>0, <3>2 DEF OfTheirSection
      <3>3. QED
        BY <3>1, <3>2
    <2>4. QED
      BY <2>1, <2>2, <2>3 DEF OfTheirSection
  <1>4. \A d \in DOMAIN calls' : /\ d \in DOMAIN calls /\ calls'[d].on = calls[d].on
                                 /\ calls'[d].section = calls[d].section
    OBVIOUS
  <1>5. Tied'
    BY <1>0, <1>2, <1>4 DEF Tied, SameCard
  <1>6. SecretOnlyInSight'
    <2>1. ASSUME NEW k \in DOMAIN page, k = calls[c].on PROVE page[k].section = section
      BY <1>0, <2>1 DEF Tied
    <2>2. QED
      BY <1>0, <1>2, <2>1 DEF SecretOnlyInSight, SameCard
  <1>7. ASSUME ~disturbed' PROVE Orderly'
    <2>1. Orderly
      BY <1>7 DEF Coherent
    <2>2. \A d \in Calls : Current(d)' => Current(d)
      BY <1>4 DEF Current
    <2>3. \A k \in Cards : Shown(k)' <=> Shown(k)
      BY <1>2 DEF Shown, SameCard
    <2>4. ASSUME NEW d \in Calls, NEW k \in Cards, Current(d)', Shown(k)'
          PROVE  k = calls'[d].on
      BY <1>4, <2>1, <2>2, <2>3, <2>4 DEF Orderly, Current
    <2>5. CASE Current(c)
      <3>1. \A d \in Calls : Current(d)' => d = c
        BY <1>0, <2>1, <2>2, <2>5 DEF Orderly
      <3>2. c \in DOMAIN calls' => Current(c)'
        BY <1>4, <2>5 DEF Current
      <3>3. ASSUME NEW k \in Cards, Shown(k)', \A d \in Calls : Current(d)' => ~Unsettled(d)'
            PROVE  Told(page'[k]) = stored'[section']
        BY <1>0, <1>7, <2>3, <2>5, <3>2, <3>3 DEF Shown
      <3>4. ASSUME NEW d \in Calls, Current(d)'
            PROVE  /\ calls'[d].do # "write"
                   /\ ~(calls'[d].do \in {"render", "reread", "refresh"} /\ calls'[d].at = "done")
        BY <3>1, <3>4 DEF Current
      <3>5. QED
        BY <2>1, <2>2, <2>3, <2>4, <3>3, <3>4 DEF Orderly
    <2>6. CASE ~Current(c)
      <3>1. \A d \in Calls : Current(d)' => d # c
        BY <2>2, <2>6
      <3>2. \A k \in Cards : Shown(k) => k # calls[c].on
        BY <1>0, <2>6 DEF Tied, Shown, Current
      <3>3. \A d \in Calls : /\ Current(d)' <=> Current(d)
                             /\ Current(d) => calls'[d] = calls[d] /\ d \in DOMAIN calls'
        BY <1>0, <2>2, <2>6, <3>1 DEF Current
      <3>4. \A d \in Calls : Current(d) => (Unsettled(d)' <=> Unsettled(d))
        BY <3>3 DEF Unsettled
      <3>5. \A k \in Cards : Shown(k) => page'[k] = page[k]
        BY <3>2 DEF Shown
      <3>6. ASSUME NEW k \in Cards, Shown(k)', \A d \in Calls : Current(d)' => ~Unsettled(d)'
            PROVE  Told(page'[k]) = stored'[section']
        BY <2>1, <2>3, <3>3, <3>4, <3>5, <3>6 DEF Orderly
      <3>7. ASSUME NEW d \in Calls, Current(d)'
            PROVE  /\ calls'[d].do \in {"render", "reread", "refresh"} /\ calls'[d].at = "done" =>
                        calls'[d].value = stored'[section']
                   /\ calls'[d].do = "write" /\ calls'[d].section # "keys"
                      /\ calls'[d].at = "sent" =>
                        \A k \in Cards : Shown(k)' => Told(page'[k]) = calls'[d].value
        <4>1. Current(d) /\ calls'[d] = calls[d]
          BY <3>3, <3>7
        <4>2. QED
          BY <2>1, <2>3, <3>5, <4>1 DEF Orderly
      <3>8. QED
        BY <2>1, <2>2, <2>3, <2>4, <3>6, <3>7 DEF Orderly
    <2>7. QED
      BY <2>5, <2>6
  <1>8. QED
    BY <1>1, <1>3, <1>5, <1>6, <1>7 DEF Coherent

(* The card of the user's action stays what it is, where nothing is written. *)
LEMMA CardStays ==
  ASSUME Types, NEW k \in DOMAIN page, page' = page
  PROVE  /\ page' \in TablesOf(Cards, CardRows) /\ DOMAIN page' = DOMAIN page
         /\ \A j \in DOMAIN page \ {k} : page'[j] = page[j]
         /\ SameCard(k) /\ page'[k].secret = page[k].secret /\ page'[k].shown = page[k].shown
  BY DEF Types, SameCard

(* The calls the user causes belong to their sections.                     *)
LEMMA CallsAre ==
  /\ "write" \in CallsOf("settings") /\ "write" \in CallsOf("keys")
  /\ "submit" \in CallsOf("modes") /\ "submit" \in CallsOf("adminModes")
  /\ "write" \in CallsOf("adminModes")
  /\ {"submit", "write", "issue", "revoke", "list", "secret"} \subseteq CallsOf("adminUsers")
  /\ {"write", "submit", "issue", "revoke", "list", "secret"} \subseteq Reads \cup Writes
  BY DEF CallsOf, Reads, Writes

(* Whatever the user does on a card, Coherent holds after it.              *)
LEMMA UserStep ==
  ASSUME Coherent, NEW k \in DOMAIN page,
         \/ \E v \in Values["settings"] : ChangeLocation(k, v)
         \/ \E v \in Values["keys"] : ChangeKey(k, v)
         \/ TickMode(k) \/ SaveMode(k) \/ ResetMode(k)
         \/ ToggleGlobalMode(k) \/ SaveGlobalMode(k)
         \/ ChangeUsers(k) \/ SaveUser(k)
         \/ ToggleTokens(k) \/ IssueToken(k) \/ RevokeToken(k)
  PROVE  Coherent'
  <1>0. /\ Types /\ OfTheirSection /\ Tied /\ SecretOnlyInSight
        /\ page[k] \in CardRows
    BY TableRows DEF Coherent
  <1>1. ASSUME NEW v \in Values["settings"], ChangeLocation(k, v) PROVE Coherent'
    <2> DEFINE row == [page[k] EXCEPT !.shown = v]
    <2>1. v \in AllValues
      BY SectionsAre, ValuesAre
    <2>2. /\ row \in CardRows /\ row.section = page[k].section /\ row.first = page[k].first
          /\ row.secret = page[k].secret /\ row.shown = v
      BY <1>0, <2>1 DEF CardRows, AllValues
    <2> HIDE DEF row
    <2>3. /\ page' \in TablesOf(Cards, CardRows)
          /\ DOMAIN page' = DOMAIN page /\ page'[k] = row
          /\ \A j \in DOMAIN page \ {k} : page'[j] = page[j]
      <3>1. Update(k, row)
        BY <1>1 DEF ChangeLocation, row
      <3>2. QED
        BY <1>0, <2>2, <3>1, UpdateIs
    <2>4. /\ Visible(k, "settings") /\ Send(Call("write", k, "settings", v))
          /\ disturbed' = Overlap("settings") /\ UNCHANGED <<section, stored>>
      BY <1>1 DEF ChangeLocation
    <2>5. QED
      BY <2>2, <2>3, <2>4, AskedStep, SectionsAre, CallsAre DEF SameCard
  <1>2. ASSUME NEW s \in {"keys", "modes", "adminModes", "adminUsers"},
               NEW do \in {"write", "submit", "issue", "revoke"}, do \in CallsOf(s),
               NEW v \in Values[s],
               do = "write" /\ s \in {"adminModes", "adminUsers"} => v = page[k].shown,
               Visible(k, s), Send(Call(do, k, s, v)), disturbed' = Overlap(s),
               UNCHANGED <<section, page, stored>>
        PROVE  Coherent'
    <2>1. s \in Sections /\ s # "settings" /\ do \in CallsOf(s) \ {"render", "reread", "refresh"}
          /\ do \in Reads \cup Writes
      BY <1>2, SectionsAre, CallsAre
    <2>2. QED
      BY <1>0, <1>2, <2>1, AskedStep, CardStays
  <1>3. ASSUME NEW v \in Values["keys"], ChangeKey(k, v) PROVE Coherent'
    BY <1>2, <1>3, CallsAre DEF ChangeKey
  <1>4. ASSUME NEW s \in {"modes", "adminModes", "adminUsers"}, NEW v \in Values[s],
               Submit(k, s, v)
        PROVE  Coherent'
    <2>1. "submit" \in CallsOf(s)
      BY CallsAre
    <2>2. QED
      BY <1>2, <1>4, <2>1 DEF Submit
  <1>5. CASE SaveGlobalMode(k)
    <2>1. page[k].shown \in Values["adminModes"]
      BY <1>0, <1>5 DEF SaveGlobalMode, Visible, OfTheirSection
    <2>2. QED
      BY <1>2, <1>5, <2>1, CallsAre DEF SaveGlobalMode
  <1>6. CASE SaveUser(k)
    <2>1. page[k].shown = "-" /\ "-" \in Values["adminUsers"]
      BY <1>0, <1>6, ValuesAre DEF SaveUser, Visible, OfTheirSection
    <2>2. QED
      BY <1>2, <1>6, <2>1, CallsAre DEF SaveUser
  <1>7. ASSUME NEW do \in {"issue", "revoke"}, AskTokens(k, do) PROVE Coherent'
    <2>1. do \in CallsOf("adminUsers") /\ "-" \in Values["adminUsers"] /\ do # "write"
      BY CallsAre, ValuesAre
    <2>2. QED
      BY <1>2, <1>7, <2>1 DEF AskTokens
  <1>8. CASE ToggleTokens(k)
    <2>1. CASE page[k].box = "closed"
      <3> DEFINE row == [page[k] EXCEPT !.box = "loading"]
      <3>1. /\ row \in CardRows /\ row.section = page[k].section /\ row.first = page[k].first
            /\ row.secret = page[k].secret /\ row.shown = page[k].shown
        BY <1>0 DEF CardRows
      <3>2. Update(k, row) /\ Send(Call("list", k, "adminUsers", "-"))
            /\ Visible(k, "adminUsers")
            /\ disturbed' = Overlap("adminUsers") /\ UNCHANGED <<section, stored>>
        BY <1>8, <2>1 DEF ToggleTokens
      <3> HIDE DEF row
      <3>3. /\ page' \in TablesOf(Cards, CardRows)
            /\ DOMAIN page' = DOMAIN page /\ page'[k] = row
            /\ \A j \in DOMAIN page \ {k} : page'[j] = page[j]
        BY <1>0, <3>1, <3>2, UpdateIs
      <3>4. "-" \in Values["adminUsers"] /\ "adminUsers" \in Sections
            /\ "list" \in CallsOf("adminUsers") \ {"render", "reread", "refresh"}
            /\ "list" \in Reads \cup Writes
        BY SectionsAre, ValuesAre, CallsAre
      <3>5. QED
        BY <3>1, <3>2, <3>3, <3>4, AskedStep DEF SameCard
    <2>2. CASE page[k].box # "closed"
      <3> DEFINE row == [page[k] EXCEPT !.box = "closed", !.secret = FALSE]
      <3>1. /\ row \in CardRows /\ row.section = page[k].section /\ row.first = page[k].first
            /\ row.secret = FALSE /\ row.shown = page[k].shown
        BY <1>0 DEF CardRows
      <3>2. Update(k, row) /\ calls' = calls
            /\ disturbed' = Overlap("adminUsers") /\ UNCHANGED <<section, stored>>
        BY <1>8, <2>2 DEF ToggleTokens
      <3> HIDE DEF row
      <3>3. /\ page' \in TablesOf(Cards, CardRows)
            /\ DOMAIN page' = DOMAIN page /\ page'[k] = row
            /\ \A j \in DOMAIN page \ {k} : page'[j] = page[j]
        BY <1>0, <3>1, <3>2, UpdateIs
      <3>4. \A j \in DOMAIN page : /\ page'[j].section = page[j].section
                                   /\ page'[j].shown = page[j].shown
                                   /\ page'[j].first = page[j].first
                                   /\ page'[j].secret => page[j].secret
        BY <3>1, <3>3
      <3>5. Types' /\ OfTheirSection' /\ Tied' /\ SecretOnlyInSight'
        BY <1>0, <3>2, <3>3, <3>4
           DEF Types, OfTheirSection, Tied, SecretOnlyInSight, Overlap, InFlight
      <3>6. ASSUME ~disturbed' PROVE Orderly'
        <4>1. Orderly
          BY <3>2, <3>6 DEF Coherent, Overlap
        <4>2. /\ \A d : (Current(d)' <=> Current(d)) /\ (Unsettled(d)' <=> Unsettled(d))
              /\ \A j : Shown(j)' <=> Shown(j)
              /\ \A j : Shown(j) => Told(page'[j]) = Told(page[j])
          BY <3>2, <3>3, <3>4 DEF Current, Unsettled, Shown, Told
        <4>3. QED
          BY <3>2, <4>1, <4>2 DEF Orderly
      <3>7. QED
        BY <3>5, <3>6 DEF Coherent
    <2>3. QED
      BY <2>1, <2>2
  <1>9. CASE ToggleGlobalMode(k)
    BY <1>4, <1>9 DEF ToggleGlobalMode
  <1>10. CASE ChangeUsers(k)
    <2>1. "-" \in Values["adminUsers"]
      BY ValuesAre
    <2>2. QED
      BY <1>4, <1>10, <2>1 DEF ChangeUsers
  <1>11. CASE SaveMode(k)
    <2>1. page[k].shown \in Values["modes"]
      BY <1>0, <1>11 DEF SaveMode, Submit, Visible, OfTheirSection
    <2>2. QED
      BY <1>4, <1>11, <2>1 DEF SaveMode
  <1>14. CASE ResetMode(k)
    <2>1. "on" \in Values["modes"]
      BY ValuesAre
    <2>2. QED
      BY <1>4, <1>14, <2>1 DEF ResetMode
  <1>15. CASE TickMode(k)
    <2>1. PICK v \in Values["modes"] :
             /\ Update(k, [page[k] EXCEPT !.shown = v])
             /\ page[k].section = "modes"
             /\ UNCHANGED <<section, calls, stored, disturbed>>
      BY <1>15 DEF TickMode, Visible
    <2> DEFINE row == [page[k] EXCEPT !.shown = v]
    <2>2. v \in AllValues
      BY SectionsAre, ValuesAre
    <2>3. /\ row \in CardRows /\ row.section = page[k].section /\ row.first = page[k].first
          /\ row.secret = page[k].secret /\ row.shown = v
      BY <1>0, <2>2 DEF CardRows, AllValues
    <2>4. Update(k, row)
      BY <2>1
    <2> HIDE DEF row
    <2>5. /\ page' \in TablesOf(Cards, CardRows)
          /\ DOMAIN page' = DOMAIN page /\ page'[k] = row
          /\ \A j \in DOMAIN page \ {k} : page'[j] = page[j]
      BY <1>0, <2>3, <2>4, UpdateIs
    <2>6. \A j \in DOMAIN page : /\ page'[j].section = page[j].section
                                 /\ page'[j].first = page[j].first
                                 /\ page'[j].secret = page[j].secret
                                 /\ page'[j].shown \in Values[page[j].section]
                                 /\ Told(page'[j]) = Told(page[j])
      <3>1. ASSUME NEW j \in DOMAIN page, j # k
            PROVE  page'[j] = page[j] /\ page[j].shown \in Values[page[j].section]
        BY <1>0, <2>5, <3>1 DEF OfTheirSection
      <3>2. Told(page'[k]) = Told(page[k])
        BY <2>1, <2>3, <2>5 DEF Told
      <3>3. QED
        BY <2>1, <2>3, <2>5, <3>1, <3>2
    <2>7. Types' /\ OfTheirSection' /\ Tied' /\ SecretOnlyInSight'
      BY <1>0, <2>1, <2>5, <2>6 DEF Types, OfTheirSection, Tied, SecretOnlyInSight
    <2>8. ASSUME ~disturbed' PROVE Orderly'
      <3>1. Orderly
        BY <2>1, <2>8 DEF Coherent
      <3>2. /\ \A d : (Current(d)' <=> Current(d)) /\ (Unsettled(d)' <=> Unsettled(d))
            /\ \A j : Shown(j)' <=> Shown(j)
            /\ \A j : Shown(j) => Told(page'[j]) = Told(page[j])
        BY <2>1, <2>5, <2>6 DEF Current, Unsettled, Shown
      <3>3. QED
        BY <2>1, <3>1, <3>2 DEF Orderly
    <2>9. QED
      BY <2>7, <2>8 DEF Coherent
  <1>12. CASE IssueToken(k) \/ RevokeToken(k)
    BY <1>7, <1>12 DEF IssueToken, RevokeToken
  <1>13. QED
    BY <1>1, <1>3, <1>5, <1>6, <1>8, <1>9, <1>10, <1>11, <1>12, <1>14, <1>15

(* The call is the only one of the section, and it has settled its card.   *)
LEMMA SettledShows ==
  ASSUME Coherent, ~disturbed, NEW c, Current(c), ~Unsettled(c), NEW k, Shown(k)
  PROVE  Told(page[k]) = stored[section]
  <1>1. Orderly /\ c \in Calls /\ k \in Cards
    BY TableRows DEF Coherent, Current, Shown
  <1>2. \A d \in Calls : Current(d) => d = c
    BY <1>1 DEF Orderly
  <1>3. QED
    BY <1>1, <1>2 DEF Orderly

(* A call ends, and the page is left alone.                                *)
LEMMA EndedStep ==
  ASSUME Coherent, NEW c \in DOMAIN calls, calls[c].do # "render", End(c), page' = page,
         disturbed' \in BOOLEAN, disturbed => disturbed',
         ~disturbed' /\ Current(c) => ~Unsettled(c),
         UNCHANGED <<section, stored>>
  PROVE  Coherent'
  <1>1. Types /\ OfTheirSection
    BY DEF Coherent
  <1>2. /\ calls' \in TablesOf(Calls, CallRows)
        /\ DOMAIN calls' = DOMAIN calls \ {c}
        /\ \A d \in DOMAIN calls \ {c} : calls'[d] = calls[d]
    BY <1>1, EndIs
  <1>3. /\ page' \in TablesOf(Cards, CardRows)
        /\ \A k \in DOMAIN page : SameCard(k) /\ page'[k].shown \in Values[page[k].section]
    BY <1>1 DEF Types, OfTheirSection, SameCard
  <1>4. ~disturbed' /\ Current(c) =>
            \A k \in DOMAIN page : Shown(k) => Told(page'[k]) = stored[section]
    BY SettledShows
  <1>5. QED
    BY <1>2, <1>3, <1>4, AnsweredStep

(* A call is followed by another one on the same card.                     *)
LEMMA GoOnIs ==
  ASSUME Coherent, NEW c \in DOMAIN calls, NEW do \in Reads \cup Writes, GoOn(c, do)
  PROVE  /\ calls' \in TablesOf(Calls, CallRows)
         /\ DOMAIN calls' = DOMAIN calls
         /\ \A d \in DOMAIN calls \ {c} : calls'[d] = calls[d]
         /\ calls'[c].on = calls[c].on /\ calls'[c].section = calls[c].section
         /\ calls'[c].value = calls[c].value /\ calls'[c].at = "sent"
         /\ calls'[c].do = do
  <1>1. Types /\ calls[c] \in CallRows
    BY TableRows DEF Coherent
  <1>2. PICK on \in Cards \cup {None}, s \in Sections, v \in AllValues :
           on = calls[c].on /\ s = calls[c].section /\ v = calls[c].value
    BY <1>1, RowIs
  <1> DEFINE call == Call(do, on, s, v)
  <1>3. /\ call \in CallRows
        /\ call.do = do /\ call.on = on /\ call.section = s
        /\ call.value = v /\ call.at = "sent"
    BY CallIs
  <1>4. calls' = [calls EXCEPT ![c] = call]
    BY <1>2 DEF GoOn
  <1> HIDE DEF call
  <1>5. QED
    BY <1>1, <1>2, <1>3, <1>4, ReplaceIs

(* Whatever is answered, Coherent holds after the handler has gone on.     *)
LEMMA AnswerStep ==
  ASSUME Coherent, NEW c \in DOMAIN calls,
         \/ LocationSaved(c) \/ LocationReread(c)
         \/ KeyChanged(c) \/ ConfiguredRefreshed(c)
         \/ FormSaved(c) \/ TokenIssued(c) \/ TokenRevoked(c) \/ TokensListed(c)
  PROVE  Coherent'
  <1>0. /\ Types /\ OfTheirSection /\ Tied /\ disturbed \in BOOLEAN
        /\ calls[c].do \in CallsOf(calls[c].section)
        /\ calls[c].at \in {"sent", "done", "refused", "cut"}
        /\ calls[c].section \in Sections
        /\ calls[c].do # "render" => calls[c].value \in Values[calls[c].section]
        /\ \A k \in DOMAIN page : page[k] \in CardRows
    BY TableRows, RowIs DEF Coherent, Types, OfTheirSection
  <1>1. /\ \A k \in DOMAIN page : {page[k].shown, page[k].first} \subseteq Values[page[k].section]
        /\ page' = page => /\ page' \in TablesOf(Cards, CardRows)
                           /\ \A k \in DOMAIN page : SameCard(k) /\ page'[k].shown = page[k].shown
    BY <1>0 DEF Types, OfTheirSection, SameCard
  <1>2. \A k \in DOMAIN page : k = calls[c].on =>
           page[k].section = section /\ calls[c].section = section
    BY <1>0 DEF Tied
  <1>3. calls[c].section = section <=> Current(c)
    BY DEF Current
  <1>4. CASE LocationSaved(c)
    <2>1. /\ calls[c].do = "write" /\ calls[c].section = "settings"
          /\ UNCHANGED <<section, page, stored, disturbed>>
          /\ \/ calls[c].at = "done" /\ End(c)
             \/ GoOn(c, "reread")
      BY <1>4 DEF LocationSaved
    <2>2. CASE calls[c].at = "done" /\ End(c)
      BY <1>0, <2>1, <2>2, EndedStep DEF Unsettled
    <2>3. CASE GoOn(c, "reread")
      <3>1. "reread" \in Reads \cup Writes /\ "reread" \in CallsOf("settings")
        BY DEF Reads, CallsOf
      <3>2. /\ calls' \in TablesOf(Calls, CallRows)
            /\ DOMAIN calls' = DOMAIN calls
            /\ \A d \in DOMAIN calls \ {c} : calls'[d] = calls[d]
            /\ calls'[c].on = calls[c].on /\ calls'[c].section = calls[c].section
            /\ calls'[c].value = calls[c].value /\ calls'[c].at = "sent"
            /\ calls'[c].do = "reread"
        BY <2>3, <3>1, GoOnIs
      <3>3. Unsettled(c)'
        BY <3>2 DEF Unsettled
      <3>4. QED
        BY <1>0, <1>1, <2>1, <3>1, <3>2, <3>3, AnsweredStep
    <2>4. QED
      BY <2>1, <2>2, <2>3
  <1>5. ASSUME NEW value, NEW k, k = calls[c].on,
               k \in DOMAIN page => value \in Values[page[k].section],
               calls[c].do \in {"reread", "refresh"},
               Update(k, [page[k] EXCEPT !.shown = value]), End(c),
               disturbed' \in BOOLEAN, disturbed => disturbed',
               ~disturbed' /\ Current(c) => value = stored[section],
               UNCHANGED <<section, stored>>
        PROVE  Coherent'
    <2> DEFINE row == [page[k] EXCEPT !.shown = value]
    <2>1. k \in DOMAIN page => value \in AllValues
      BY <1>0, <1>5, ValuesAre, CardIs
    <2>2. k \in DOMAIN page =>
            /\ row \in CardRows /\ row.section = page[k].section /\ row.first = page[k].first
            /\ row.shown = value
      BY <1>0, <2>1 DEF CardRows, AllValues
    <2>3. Update(k, row)
      BY <1>5
    <2> HIDE DEF row
    <2>4. /\ page' \in TablesOf(Cards, CardRows) /\ DOMAIN page' = DOMAIN page
          /\ k \in DOMAIN page => page'[k] = row
          /\ \A j \in DOMAIN page \ {k} : page'[j] = page[j]
      BY <1>0, <2>2, <2>3, UpdateIs
    <2>5. /\ calls' \in TablesOf(Calls, CallRows)
          /\ DOMAIN calls' = DOMAIN calls \ {c}
          /\ \A d \in DOMAIN calls \ {c} : calls'[d] = calls[d]
      BY <1>0, <1>5, EndIs
    <2>6. \A j \in DOMAIN page : j = k =>
             /\ SameCard(j) /\ page'[j].shown = value /\ value \in Values[page[j].section]
             /\ Told(page'[j]) = value
      <3>1. k \in DOMAIN page => page[k].section # "modes"
        BY <1>0, <1>2, <1>5, SectionsAre DEF CallsOf
      <3>2. QED
        BY <1>5, <2>2, <2>4, <3>1 DEF SameCard, Told
    <2>7. ~disturbed' /\ Current(c) =>
             \A j \in DOMAIN page : Shown(j) => j = k
      BY <1>5, TableRows DEF Coherent, Orderly, Current
    <2>8. ~disturbed' /\ Current(c) =>
             \A j \in DOMAIN page : Shown(j) => Told(page'[j]) = stored[section]
      BY <1>5, <2>6, <2>7
    <2>9. QED
      BY <1>5, <2>4, <2>5, <2>6, <2>8, AnsweredStep
  <1>6. ASSUME calls[c].do \in {"reread", "refresh"}, calls[c].at = "done",
               Update(calls[c].on, [page[calls[c].on] EXCEPT !.shown = calls[c].value]), End(c),
               UNCHANGED <<section, stored, disturbed>>
        PROVE  Coherent'
    <2>1. ~disturbed /\ Current(c) => calls[c].value = stored[section]
      BY <1>6, TableRows DEF Coherent, Orderly, Current
    <2>2. calls[c].on \in DOMAIN page => calls[c].value \in Values[page[calls[c].on].section]
      BY <1>0, <1>2, <1>6
    <2>3. QED
      BY <1>0, <1>5, <1>6, <2>1, <2>2
  <1>7. CASE LocationReread(c)
    <2>1. CASE calls[c].at = "done"
      BY <1>6, <1>7, <2>1 DEF LocationReread, Failed
    <2>2. CASE calls[c].at \in Failed
      <3>1. /\ disturbed' = (disturbed \/ calls[c].section = section)
            /\ calls[c].do = "reread" /\ End(c)
            /\ Update(calls[c].on,
                      [page[calls[c].on] EXCEPT !.shown = page[calls[c].on].first])
            /\ UNCHANGED <<section, stored>>
        BY <1>7, <2>2 DEF LocationReread, Failed, Lost
      <3>2. disturbed' \in BOOLEAN /\ (disturbed => disturbed') /\ (Current(c) => disturbed')
        BY <1>0, <1>3, <3>1
      <3>3. calls[c].on \in DOMAIN page =>
               page[calls[c].on].first \in Values[page[calls[c].on].section]
        BY <1>1
      <3>4. QED
        BY <1>5, <3>1, <3>2, <3>3
    <2>3. QED
      BY <1>7, <2>1, <2>2 DEF LocationReread
  <1>8. CASE KeyChanged(c)
    <2>1. calls[c].do = "write" /\ calls[c].section = "keys" /\ UNCHANGED <<section, page, stored>>
      BY <1>8 DEF KeyChanged
    <2>2. CASE calls[c].at = "done" /\ GoOn(c, "refresh") /\ UNCHANGED disturbed
      <3>1. "refresh" \in Reads \cup Writes /\ "refresh" \in CallsOf("keys")
        BY DEF Reads, CallsOf
      <3>2. /\ calls' \in TablesOf(Calls, CallRows)
            /\ DOMAIN calls' = DOMAIN calls
            /\ \A d \in DOMAIN calls \ {c} : calls'[d] = calls[d]
            /\ calls'[c].on = calls[c].on /\ calls'[c].section = calls[c].section
            /\ calls'[c].value = calls[c].value /\ calls'[c].at = "sent"
            /\ calls'[c].do = "refresh"
        BY <2>2, <3>1, GoOnIs
      <3>3. Unsettled(c)'
        BY <3>2 DEF Unsettled
      <3>4. QED
        BY <1>0, <1>1, <2>1, <2>2, <3>1, <3>2, <3>3, AnsweredStep
    <2>3. CASE /\ calls[c].at \in Failed /\ End(c)
               /\ disturbed' = IF calls[c].at = "cut" THEN Lost(c) ELSE disturbed
      <3>1. disturbed' \in BOOLEAN /\ (disturbed => disturbed')
            /\ (~disturbed' /\ Current(c) => calls[c].at = "refused")
        BY <1>0, <1>3, <2>3 DEF Lost, Failed
      <3>2. ~disturbed' /\ Current(c) => ~Unsettled(c)
        BY <2>1, <3>1 DEF Unsettled
      <3>3. QED
        BY <2>1, <2>3, <3>1, <3>2, EndedStep
    <2>4. QED
      BY <1>8, <2>2, <2>3 DEF KeyChanged
  <1>9. CASE ConfiguredRefreshed(c)
    <2>1. CASE calls[c].at = "done"
      BY <1>6, <1>9, <2>1 DEF ConfiguredRefreshed, Failed
    <2>2. CASE calls[c].at \in Failed
      <3>1. /\ disturbed' = (disturbed \/ calls[c].section = section)
            /\ calls[c].do = "refresh" /\ End(c)
            /\ UNCHANGED <<section, stored, page>>
        BY <1>9, <2>2 DEF ConfiguredRefreshed, Failed, Lost
      <3>2. disturbed' \in BOOLEAN /\ (disturbed => disturbed') /\ (Current(c) => disturbed')
        BY <1>0, <1>3, <3>1
      <3>3. QED
        BY <3>1, <3>2, EndedStep
    <2>3. QED
      BY <1>9, <2>1, <2>2 DEF ConfiguredRefreshed
  <1>10. CASE FormSaved(c)
    <2>1. /\ calls[c].do = "write" /\ calls[c].section \in {"adminModes", "adminUsers"}
          /\ End(c) /\ UNCHANGED <<section, page, stored, disturbed>>
      BY <1>10 DEF FormSaved
    <2>2. ~Unsettled(c)
      BY <2>1 DEF Unsettled
    <2>3. QED
      BY <1>0, <2>1, <2>2, EndedStep
  <1>11. ASSUME NEW do \in {"issue", "revoke"}, NEW next \in {"secret", "list"},
                TokensChanged(c, do, next)
         PROVE  Coherent'
    <2>1. calls[c].do = do /\ ~Unsettled(c) /\ UNCHANGED <<section, stored, disturbed>>
      BY <1>11 DEF TokensChanged, Unsettled
    <2>2. CASE calls[c].at \in Failed /\ End(c) /\ page' = page
      BY <1>0, <2>1, <2>2, EndedStep
    <2>3. CASE Update(calls[c].on, [page[calls[c].on] EXCEPT !.box = "loading", !.secret = FALSE])
               /\ GoOn(c, next)
      <3> DEFINE k == calls[c].on
                 row == [page[k] EXCEPT !.box = "loading", !.secret = FALSE]
      <3>1. k \in DOMAIN page =>
              /\ row \in CardRows /\ row.section = page[k].section /\ row.first = page[k].first
              /\ row.shown = page[k].shown
        BY <1>0 DEF CardRows
      <3>2. Update(k, row)
        BY <2>3
      <3> HIDE DEF row
      <3>3. /\ page' \in TablesOf(Cards, CardRows) /\ DOMAIN page' = DOMAIN page
            /\ k \in DOMAIN page => page'[k] = row
            /\ \A j \in DOMAIN page \ {k} : page'[j] = page[j]
        BY <1>0, <3>1, <3>2, UpdateIs
      <3>4. calls[c].section = "adminUsers"
        BY <1>0, <2>1, SectionsAre DEF CallsOf
      <3>5. next \in Reads \cup Writes /\ next \in CallsOf(calls[c].section) \ {"render", "write"}
        BY <3>4, CallsAre
      <3>6. /\ calls' \in TablesOf(Calls, CallRows)
            /\ DOMAIN calls' = DOMAIN calls
            /\ \A d \in DOMAIN calls \ {c} : calls'[d] = calls[d]
            /\ calls'[c].on = calls[c].on /\ calls'[c].section = calls[c].section
            /\ calls'[c].value = calls[c].value /\ calls'[c].at = "sent"
            /\ calls'[c].do = next
        BY <2>3, <3>5, GoOnIs
      <3>7. \A j \in DOMAIN page : j = calls[c].on =>
               SameCard(j) /\ page'[j].shown \in Values[page[j].section]
        BY <1>1, <3>1, <3>3 DEF SameCard
      <3>8. \A j \in DOMAIN page : Told(page'[j]) = Told(page[j])
        BY <3>1, <3>3 DEF Told
      <3>9. ~disturbed' /\ Current(c) =>
               \A j \in DOMAIN page : Shown(j) => Told(page'[j]) = stored[section]
        BY <2>1, <3>8, SettledShows
      <3>10. QED
        BY <1>0, <2>1, <3>3, <3>5, <3>6, <3>7, <3>9, AnsweredStep
    <2>4. QED
      BY <1>11, <2>2, <2>3 DEF TokensChanged
  <1>12. CASE TokenIssued(c) \/ TokenRevoked(c)
    BY <1>11, <1>12 DEF TokenIssued, TokenRevoked
  <1>13. CASE TokensListed(c)
    <2> DEFINE k == calls[c].on
               row == [page[k] EXCEPT !.box = "listed",
                                      !.secret = @ \/ calls[c].do = "secret"]
    <2>1. /\ calls[c].do \in {"list", "secret"} /\ ~Unsettled(c) /\ End(c)
          /\ UNCHANGED <<section, stored, disturbed>>
      BY <1>13 DEF TokensListed, Unsettled
    <2>2. Update(k, row)
      BY <1>13 DEF TokensListed
    <2>3. k \in DOMAIN page =>
            /\ row \in CardRows /\ row.section = page[k].section /\ row.first = page[k].first
            /\ row.shown = page[k].shown
      BY <1>0 DEF CardRows
    <2> HIDE DEF row
    <2>4. /\ page' \in TablesOf(Cards, CardRows) /\ DOMAIN page' = DOMAIN page
          /\ k \in DOMAIN page => page'[k] = row
          /\ \A j \in DOMAIN page \ {k} : page'[j] = page[j]
      BY <1>0, <2>2, <2>3, UpdateIs
    <2>5. /\ calls' \in TablesOf(Calls, CallRows)
          /\ DOMAIN calls' = DOMAIN calls \ {c}
          /\ \A d \in DOMAIN calls \ {c} : calls'[d] = calls[d]
      BY <1>0, <2>1, EndIs
    <2>6. \A j \in DOMAIN page : j = calls[c].on =>
             SameCard(j) /\ page'[j].shown \in Values[page[j].section]
      BY <1>1, <2>3, <2>4 DEF SameCard
    <2>7. \A j \in DOMAIN page : Told(page'[j]) = Told(page[j])
      BY <2>3, <2>4 DEF Told
    <2>8. ~disturbed' /\ Current(c) =>
             \A j \in DOMAIN page : Shown(j) => Told(page'[j]) = stored[section]
      BY <2>1, <2>7, SettledShows
    <2>9. QED
      BY <1>0, <2>1, <2>4, <2>5, <2>6, <2>8, AnsweredStep
  <1>14. QED
    BY <1>4, <1>7, <1>8, <1>9, <1>10, <1>12, <1>13

(***************************************************************************)
(* The server.                                                             *)
(***************************************************************************)
(* A call is served: its answer may differ from what was sent, the page is *)
(* left alone.                                                             *)
LEMMA ServedStep ==
  ASSUME Coherent, NEW c \in DOMAIN calls, calls[c].at = "sent",
         NEW row \in CallRows, calls' = [calls EXCEPT ![c] = row],
         row.do = calls[c].do, row.on = calls[c].on, row.section = calls[c].section,
         stored' \in [Sections -> AllValues],
         \A s \in Sections : stored'[s] \in Values[s],
         \A s \in Sections : s # calls[c].section => stored'[s] = stored[s],
         \/ row.do = "render" /\ row.at # "done"
         \/ row.value \in Values[row.section],
         ~disturbed /\ Current(c) =>
            /\ ~Unsettled(c)' => \A k \in DOMAIN page : Shown(k) => Told(page[k]) = stored'[section]
            /\ row.do \in {"render", "reread", "refresh"} /\ row.at = "done" =>
                  row.value = stored'[section]
            /\ row.at # "sent",
         UNCHANGED <<section, page, disturbed>>
  PROVE  Coherent'
  <1>0. Types /\ OfTheirSection /\ Tied /\ SecretOnlyInSight /\ section \in Sections
    BY DEF Coherent, Types
  <1>1. /\ calls' \in TablesOf(Calls, CallRows)
        /\ DOMAIN calls' = DOMAIN calls /\ calls'[c] = row
        /\ \A d \in DOMAIN calls \ {c} : calls'[d] = calls[d]
    BY <1>0, ReplaceIs
  <1>2. Types'
    BY <1>0, <1>1 DEF Types
  <1>3. OfTheirSection'
    <2>1. ASSUME NEW d \in DOMAIN calls
          PROVE  /\ calls'[d].do \in CallsOf(calls'[d].section)
                 /\ calls'[d].do = "render" <=> calls'[d].on = None
                 /\ \/ calls'[d].do = "render" /\ calls'[d].at # "done"
                    \/ calls'[d].value \in Values[calls'[d].section]
      BY <1>0, <1>1 DEF OfTheirSection
    <2>2. QED
      BY <1>0, <1>1, <2>1 DEF OfTheirSection
  <1>4. \A d \in DOMAIN calls : /\ calls'[d].do = calls[d].do /\ calls'[d].on = calls[d].on
                                /\ calls'[d].section = calls[d].section
    BY <1>1
  <1>5. Tied' /\ SecretOnlyInSight'
    BY <1>0, <1>1, <1>4 DEF Tied, SecretOnlyInSight
  <1>6. ASSUME ~disturbed PROVE Orderly'
    <2>1. Orderly
      BY <1>6 DEF Coherent
    <2>2. /\ \A d \in Calls : Current(d)' <=> Current(d)
          /\ \A k \in Cards : Shown(k)' <=> Shown(k)
      BY <1>1, <1>4 DEF Current, Shown
    <2>3. \A d \in Calls, k \in Cards : Current(d)' /\ Shown(k)' => k = calls'[d].on
      BY <1>1, <1>4, <2>1, <2>2 DEF Orderly, Current
    <2>4. DOMAIN calls \subseteq Calls /\ DOMAIN page \subseteq Cards
      BY <1>0, TableRows
    <2>5. CASE Current(c)
      <3>1. \A d \in Calls : Current(d) <=> d = c
        BY <2>1, <2>4, <2>5 DEF Orderly, Current
      <3>2. ASSUME NEW k \in Cards, Shown(k)', \A d \in Calls : Current(d)' => ~Unsettled(d)'
            PROVE  Told(page'[k]) = stored'[section']
        BY <1>6, <2>2, <2>4, <2>5, <3>1, <3>2 DEF Shown
      <3>3. ASSUME NEW d \in Calls, Current(d)'
            PROVE  /\ calls'[d].do \in {"render", "reread", "refresh"} /\ calls'[d].at = "done" =>
                        calls'[d].value = stored'[section']
                   /\ calls'[d].at # "sent"
        BY <1>1, <1>6, <2>2, <2>5, <3>1, <3>3
      <3>4. QED
        BY <2>1, <2>2, <2>3, <3>2, <3>3 DEF Orderly
    <2>6. CASE ~Current(c)
      <3>1. stored'[section] = stored[section]
        BY <1>0, <2>6 DEF Current
      <3>2. \A d \in Calls : Current(d) => calls'[d] = calls[d]
        BY <1>1, <2>6 DEF Current
      <3>3. \A d \in Calls : Current(d) => (Unsettled(d)' <=> Unsettled(d))
        BY <3>2 DEF Unsettled
      <3>4. ASSUME NEW k \in Cards, Shown(k)', \A d \in Calls : Current(d)' => ~Unsettled(d)'
            PROVE  Told(page'[k]) = stored'[section']
        BY <2>1, <2>2, <3>1, <3>3, <3>4 DEF Orderly
      <3>5. ASSUME NEW d \in Calls, Current(d)'
            PROVE  /\ calls'[d].do \in {"render", "reread", "refresh"} /\ calls'[d].at = "done" =>
                        calls'[d].value = stored'[section']
                   /\ calls'[d].do = "write" /\ calls'[d].section # "keys"
                      /\ calls'[d].at = "sent" =>
                        \A k \in Cards : Shown(k)' => Told(page'[k]) = calls'[d].value
        <4>1. Current(d) /\ calls'[d] = calls[d]
          BY <2>2, <3>2, <3>5
        <4>2. QED
          BY <2>1, <2>2, <3>1, <4>1 DEF Orderly
      <3>6. QED
        BY <2>1, <2>2, <2>3, <3>4, <3>5 DEF Orderly
    <2>7. QED
      BY <2>5, <2>6
  <1>7. QED
    BY <1>2, <1>3, <1>5, <1>6 DEF Coherent

(* Whatever the server does with a call, Coherent holds after it.          *)
LEMMA ServerStep ==
  ASSUME Coherent, NEW c \in DOMAIN calls, ServeRead(c) \/ ServeWrite(c) \/ Refuse(c)
  PROVE  Coherent'
  <1>0. /\ Types /\ OfTheirSection /\ calls[c] \in CallRows /\ section \in Sections
        /\ DOMAIN page \subseteq Cards /\ c \in Calls
        /\ calls[c].do \in CallsOf(calls[c].section) /\ calls[c].section \in Sections
        /\ calls[c].at = "sent" /\ UNCHANGED <<section, page, disturbed>>
    BY TableRows, RowIs DEF Coherent, OfTheirSection, Types, ServeRead, ServeWrite, Refuse
  <1>1. stored \in [Sections -> AllValues] /\ \A s \in Sections : stored[s] \in Values[s]
    BY <1>0 DEF Types, OfTheirSection
  <1>2. calls[c].do # "render" => calls[c].value \in Values[calls[c].section]
    BY <1>0 DEF OfTheirSection
  <1>3. CASE ServeRead(c)
    <2> DEFINE row == [calls[c] EXCEPT !.value = stored[calls[c].section], !.at = "done"]
    <2>1. /\ row \in CallRows /\ row.do = calls[c].do /\ row.on = calls[c].on
          /\ row.section = calls[c].section /\ row.at = "done"
          /\ row.value = stored[calls[c].section]
      BY <1>0, <1>1 DEF CallRows
    <2>2. calls' = [calls EXCEPT ![c] = row] /\ stored' = stored /\ calls[c].do \in Reads
      BY <1>3 DEF ServeRead
    <2> HIDE DEF row
    <2>3. calls'[c] = row
      BY <1>0, <2>1, <2>2, ReplaceIs
    <2>4. Unsettled(c) => Unsettled(c)'
      BY <2>1, <2>2, <2>3 DEF Unsettled, Reads
    <2>5. ~disturbed /\ Current(c) /\ ~Unsettled(c)' =>
             \A k \in DOMAIN page : Shown(k) => Told(page[k]) = stored[section]
      BY <2>4, SettledShows
    <2>6. Current(c) => row.value = stored[section]
      BY <2>1 DEF Current
    <2>7. QED
      BY <1>0, <1>1, <2>1, <2>2, <2>5, <2>6, ServedStep
  <1>4. CASE Refuse(c)
    <2> DEFINE row == [calls[c] EXCEPT !.at = "refused"]
    <2>1. /\ row \in CallRows /\ row.do = calls[c].do /\ row.on = calls[c].on
          /\ row.section = calls[c].section /\ row.at = "refused"
          /\ row.value = calls[c].value
      BY <1>0 DEF CallRows, Failed
    <2>2. calls' = [calls EXCEPT ![c] = row] /\ stored' = stored
      BY <1>4 DEF Refuse
    <2> HIDE DEF row
    <2>3. calls'[c] = row
      BY <1>0, <2>1, <2>2, ReplaceIs
    <2>4. Unsettled(c) => Unsettled(c)'
      BY <1>0, <2>1, <2>3 DEF Unsettled
    <2>5. ~disturbed /\ Current(c) /\ ~Unsettled(c)' =>
             \A k \in DOMAIN page : Shown(k) => Told(page[k]) = stored[section]
      BY <2>4, SettledShows
    <2>6. QED
      BY <1>0, <1>1, <1>2, <2>1, <2>2, <2>5, ServedStep
  <1>5. CASE ServeWrite(c)
    <2>1. PICK at \in {"done", "cut"} : calls' = [calls EXCEPT ![c].at = at]
      BY <1>5 DEF ServeWrite
    <2> DEFINE row == [calls[c] EXCEPT !.at = at]
    <2>2. /\ row \in CallRows /\ row.do = calls[c].do /\ row.on = calls[c].on
          /\ row.section = calls[c].section /\ row.at = at
          /\ row.value = calls[c].value
      BY <1>0 DEF CallRows, Failed
    <2>3. /\ calls' = [calls EXCEPT ![c] = row] /\ calls[c].do \in Writes
          /\ stored' = [stored EXCEPT ![calls[c].section] = calls[c].value]
      BY <1>5, <2>1 DEF ServeWrite
    <2> HIDE DEF row
    <2>4. calls[c].value \in Values[calls[c].section] /\ calls[c].do # "render"
      BY <1>2, <2>3 DEF Writes
    <2>5. calls[c].value \in AllValues
      BY <1>0, <2>4, ValuesAre
    <2>6. /\ stored' \in [Sections -> AllValues] /\ stored'[calls[c].section] = calls[c].value
          /\ \A s \in Sections : s # calls[c].section => stored'[s] = stored[s]
      BY <1>0, <1>1, <2>3, <2>5
    <2>7. \A s \in Sections : stored'[s] \in Values[s]
      BY <1>1, <2>4, <2>6
    <2>8. calls'[c] = row
      BY <1>0, <2>2, <2>3, ReplaceIs
    <2>9. ASSUME ~disturbed, Current(c), ~Unsettled(c)', NEW k \in DOMAIN page, Shown(k)
          PROVE  Told(page[k]) = stored'[section]
      <3>1. stored'[section] = calls[c].value /\ calls[c].section = section
        BY <2>6, <2>9 DEF Current
      <3>2. /\ calls[c].do # "submit"
            /\ ~(calls[c].do = "write" /\ calls[c].section = "keys")
        BY <2>2, <2>8, <2>9 DEF Unsettled
      <3>3. CASE calls[c].do = "write"
        BY <1>0, <2>9, <3>1, <3>2, <3>3 DEF Coherent, Orderly, Shown
      <3>4. CASE calls[c].do \in {"issue", "revoke"}
        <4>1. section = "adminUsers"
          BY <1>0, <3>1, <3>4, SectionsAre DEF CallsOf
        <4>2. Told(page[k]) = "-" /\ calls[c].value = "-"
          BY <1>0, <2>4, <2>9, <3>1, <4>1, ValuesAre DEF OfTheirSection, Shown, Told
        <4>3. QED
          BY <3>1, <4>2
      <3>5. QED
        BY <2>3, <3>2, <3>3, <3>4 DEF Writes
    <2>10. row.at # "sent" /\ row.do \notin {"render", "reread", "refresh"}
      BY <2>2, <2>3 DEF Writes
    <2>11. ~disturbed /\ Current(c) =>
              (~Unsettled(c)' => \A k \in DOMAIN page : Shown(k) => Told(page[k]) = stored'[section])
      BY <2>9
    <2>12. row.value \in Values[row.section]
      BY <2>2, <2>4
    <2>13. QED
      BY <1>0, <2>2, <2>3, <2>6, <2>7, <2>10, <2>11, <2>12, ServedStep
  <1>6. QED
    BY <1>3, <1>4, <1>5

(***************************************************************************)
(* Renderings.                                                             *)
(***************************************************************************)
(* A new card enters the page, for the section its call was made for.      *)
LEMMA RenderedStep == ASSUME Coherent, NEW c \in DOMAIN calls, Rendered(c) PROVE Coherent'
  <1>0. /\ Types /\ OfTheirSection /\ Tied /\ SecretOnlyInSight /\ section \in Sections
        /\ DOMAIN calls \subseteq Calls /\ DOMAIN page \subseteq Cards /\ calls[c] \in CallRows
        /\ calls[c].do = "render" /\ calls[c].on = None /\ calls[c].section \in Sections
    BY TableRows, RowIs DEF Coherent, Types, OfTheirSection, Rendered
  <1>1. End(c) /\ UNCHANGED <<section, stored, disturbed>>
    BY DEF Rendered
  <1>2. /\ calls' \in TablesOf(Calls, CallRows)
        /\ DOMAIN calls' = DOMAIN calls \ {c}
        /\ \A d \in DOMAIN calls \ {c} : calls'[d] = calls[d]
    BY <1>0, <1>1, EndIs
  <1>3. \A d \in Calls : /\ Current(d)' => Current(d) /\ d # c
                         /\ Current(d) /\ d # c => Current(d)' /\ calls'[d] = calls[d]
    BY <1>1, <1>2 DEF Current
  <1>4. \A d \in Calls : Current(d)' => (Unsettled(d)' <=> Unsettled(d)) /\ calls'[d] = calls[d]
    BY <1>3 DEF Unsettled
  <1>5. ~disturbed /\ Current(c) => /\ \A d \in Calls : ~Current(d)'
                                    /\ \A k \in Cards : ~Shown(k)
    BY <1>0, <1>3 DEF Coherent, Orderly, Current
  <1>6. CASE page' = page
    <2>1. Types' /\ OfTheirSection' /\ Tied' /\ SecretOnlyInSight'
      BY <1>0, <1>1, <1>2, <1>6 DEF Types, OfTheirSection, Tied, SecretOnlyInSight
    <2>2. ASSUME ~disturbed PROVE Orderly'
      <3>1. Orderly /\ \A k \in Cards : Shown(k)' <=> Shown(k)
        BY <1>1, <1>6, <2>2 DEF Coherent, Shown
      <3>2. CASE Current(c)
        BY <1>5, <2>2, <3>1, <3>2 DEF Orderly
      <3>3. CASE ~Current(c)
        <4>1. \A d \in Calls : Current(d)' <=> Current(d)
          BY <1>3, <3>3
        <4>2. QED
          BY <1>1, <1>4, <1>6, <3>1, <4>1 DEF Orderly
      <3>4. QED
        BY <3>2, <3>3
    <2>3. QED
      BY <1>1, <2>1, <2>2 DEF Coherent
  <1>7. ASSUME calls[c].at = "done",
               NEW k \in Cards \ (DOMAIN page \cup {calls[d].on : d \in DOMAIN calls}),
               page' = With(page, k, [section |-> calls[c].section, shown |-> calls[c].value,
                                      first |-> calls[c].value, box |-> "closed",
                                      secret |-> FALSE])
        PROVE  Coherent'
    <2> DEFINE row == [section |-> calls[c].section, shown |-> calls[c].value,
                       first |-> calls[c].value, box |-> "closed", secret |-> FALSE]
    <2>1. calls[c].value \in Values[calls[c].section]
      BY <1>0, <1>7 DEF OfTheirSection
    <2>2. calls[c].value \in AllValues
      BY <1>0, <2>1, ValuesAre
    <2>3. /\ row \in CardRows /\ row.section = calls[c].section /\ row.shown = calls[c].value
          /\ row.first = calls[c].value /\ row.secret = FALSE
      BY <1>0, <2>2 DEF CardRows, AllValues
    <2>4. page' = With(page, k, row)
      BY <1>7
    <2> HIDE DEF row
    <2>5. page' \in TablesOf(Cards, CardRows)
      BY <1>0, <2>3, <2>4, TableChanges DEF Types
    <2>6. /\ DOMAIN page' = DOMAIN page \cup {k} /\ page'[k] = row
          /\ \A j \in DOMAIN page : page'[j] = page[j]
      BY <1>7, <2>4 DEF With
    <2>7. Types' /\ OfTheirSection'
      BY <1>0, <1>1, <1>2, <2>1, <2>3, <2>5, <2>6 DEF Types, OfTheirSection
    <2>8. \A d \in DOMAIN calls : calls[d].on # k
      BY <1>7
    <2>9. Tied' /\ SecretOnlyInSight'
      BY <1>0, <1>1, <1>2, <2>3, <2>6, <2>8 DEF Tied, SecretOnlyInSight
    <2>10. ASSUME ~disturbed PROVE Orderly'
      <3>1. Orderly
        BY <2>10 DEF Coherent
      <3>2. CASE Current(c)
        <4>1. \A j \in Cards : Shown(j)' <=> j = k
          BY <1>1, <1>5, <2>3, <2>6, <2>10, <3>2 DEF Shown, Current
        <4>2. calls[c].value = stored[section]
          BY <1>0, <1>7, <3>1, <3>2 DEF Orderly
        <4>3. Told(page'[k]) = stored'[section']
          BY <1>1, <2>3, <2>6, <4>2 DEF Told
        <4>4. QED
          BY <1>5, <2>10, <3>2, <4>1, <4>3 DEF Orderly
      <3>3. CASE ~Current(c)
        <4>1. \A d \in Calls : Current(d)' <=> Current(d)
          BY <1>3, <3>3
        <4>2. \A j \in Cards : /\ Shown(j)' <=> Shown(j)
                               /\ Shown(j) => page'[j] = page[j]
          BY <1>0, <1>1, <1>7, <2>3, <2>6, <3>3 DEF Shown, Current
        <4>3. QED
          BY <1>1, <1>4, <3>1, <4>1, <4>2 DEF Orderly
      <3>4. QED
        BY <3>2, <3>3
    <2>11. QED
      BY <1>1, <2>7, <2>9, <2>10 DEF Coherent
  <1>8. QED
    BY <1>6, <1>7 DEF Rendered

(* After a success the section is emptied and asked for again.             *)
LEMMA SubmittedStep == ASSUME Coherent, NEW c \in DOMAIN calls, Submitted(c) PROVE Coherent'
  <1>0. /\ Types /\ OfTheirSection /\ Tied /\ SecretOnlyInSight /\ section \in Sections
        /\ DOMAIN calls \subseteq Calls /\ DOMAIN page \subseteq Cards /\ calls[c] \in CallRows
        /\ calls[c].do = "submit" /\ calls[c].section \in Sections /\ disturbed \in BOOLEAN
        /\ UNCHANGED <<section, stored>>
    BY TableRows, RowIs DEF Coherent, Types, Submitted
  <1>1. CASE /\ calls[c].at \in Failed /\ End(c) /\ page' = page
             /\ disturbed' = IF calls[c].at = "cut" THEN Lost(c) ELSE disturbed
    <2>1. disturbed' \in BOOLEAN /\ (disturbed => disturbed')
          /\ (~disturbed' /\ Current(c) => calls[c].at = "refused")
      BY <1>0, <1>1 DEF Lost, Failed, Current
    <2>2. ~disturbed' /\ Current(c) => ~Unsettled(c)
      BY <1>0, <2>1 DEF Unsettled
    <2>3. QED
      BY <1>0, <1>1, <2>1, <2>2, EndedStep
  <1>2. CASE /\ page' = Without(page, {k \in DOMAIN page : page[k].section = calls[c].section})
             /\ calls' = [calls EXCEPT ![c] = Call("render", None, @.section, "-")]
             /\ UNCHANGED disturbed
    <2>0. PICK s \in Sections : s = calls[c].section
      BY <1>0
    <2> DEFINE call == Call("render", None, s, "-")
    <2>1. /\ call \in CallRows
          /\ call.do = "render" /\ call.on = None /\ call.section = s
          /\ call.value = "-" /\ call.at = "sent"
      BY CallIs, ValuesAre DEF Reads
    <2>2. calls' = [calls EXCEPT ![c] = call]
      BY <1>2, <2>0
    <2> HIDE DEF call
    <2>3. /\ calls' \in TablesOf(Calls, CallRows)
          /\ DOMAIN calls' = DOMAIN calls /\ calls'[c] = call
          /\ \A d \in DOMAIN calls \ {c} : calls'[d] = calls[d]
      BY <1>0, <2>1, <2>2, ReplaceIs
    <2>4. /\ page' \in TablesOf(Cards, CardRows)
          /\ \A k \in DOMAIN page' : /\ k \in DOMAIN page /\ page'[k] = page[k]
                                     /\ page[k].section # s
          /\ \A k \in DOMAIN page : page[k].section # s => k \in DOMAIN page'
      <3>1. page' \in TablesOf(Cards, CardRows)
        BY <1>0, <1>2, TableChanges DEF Types
      <3>2. QED
        BY <1>2, <2>0, <3>1 DEF Without
    <2>5. Types'
      BY <1>0, <1>2, <2>3, <2>4 DEF Types
    <2>6. "render" \in CallsOf(s)
      BY SectionsAre DEF CallsOf
    <2>7. OfTheirSection'
      <3>1. ASSUME NEW d \in DOMAIN calls'
            PROVE  /\ calls'[d].do \in CallsOf(calls'[d].section)
                   /\ calls'[d].do = "render" <=> calls'[d].on = None
                   /\ \/ calls'[d].do = "render" /\ calls'[d].at # "done"
                      \/ calls'[d].value \in Values[calls'[d].section]
        BY <1>0, <2>1, <2>3, <2>6 DEF OfTheirSection
      <3>2. QED
        BY <1>0, <2>4, <3>1 DEF OfTheirSection
    <2>8. None \notin DOMAIN page'
      BY <1>0, <2>4
    <2>9. Tied' /\ SecretOnlyInSight'
      BY <1>0, <2>1, <2>3, <2>4, <2>8 DEF Tied, SecretOnlyInSight
    <2>10. ASSUME ~disturbed PROVE Orderly'
      <3>1. Orderly
        BY <2>10 DEF Coherent
      <3>2. \A d \in Calls : Current(d)' <=> Current(d)
        BY <1>0, <2>0, <2>1, <2>3 DEF Current
      <3>3. CASE Current(c)
        <4>1. \A k \in Cards : ~Shown(k)'
          BY <1>0, <2>0, <2>4, <3>3 DEF Shown, Current
        <4>2. \A d \in Calls : Current(d)' => d = c
          BY <1>0, <3>1, <3>2, <3>3 DEF Orderly
        <4>3. QED
          BY <2>1, <2>3, <3>1, <3>2, <4>1, <4>2 DEF Orderly
      <3>4. CASE ~Current(c)
        <4>1. \A k \in Cards : /\ Shown(k)' <=> Shown(k)
                               /\ Shown(k) => page'[k] = page[k]
          BY <1>0, <2>0, <2>4, <3>4 DEF Shown, Current
        <4>2. \A d \in Calls : Current(d) => calls'[d] = calls[d]
          BY <2>3, <3>4 DEF Current
        <4>3. \A d \in Calls : Current(d) => (Unsettled(d)' <=> Unsettled(d))
          BY <4>2 DEF Unsettled
        <4>4. QED
          BY <1>0, <3>1, <3>2, <4>1, <4>2, <4>3 DEF Orderly
      <3>5. QED
        BY <3>3, <3>4
    <2>11. QED
      BY <1>2, <2>5, <2>7, <2>9, <2>10 DEF Coherent
  <1>3. QED
    BY <1>1, <1>2 DEF Submitted

(* The empty page is a table of cards.                                     *)
LEMMA EmptyIs ==
  /\ Empty \in TablesOf(Cards, CardRows) /\ DOMAIN Empty = {}
  <1>1. DOMAIN Empty = {} /\ Empty \in [{} -> CardRows]
    BY DEF Empty
  <1>2. QED
    BY <1>1, TableIs

(* A section that is opened is empty, and waits for its rendering.         *)
LEMMA ShowSectionStep == ASSUME Coherent, NEW s \in Sections, ShowSection(s) PROVE Coherent'
  <1>0. /\ Types /\ OfTheirSection /\ DOMAIN calls \subseteq Calls
        /\ section' = s /\ page' = Empty /\ Send(Call("render", None, s, "-"))
        /\ disturbed' = InFlight(s) /\ UNCHANGED stored
    BY TableRows DEF Coherent, ShowSection
  <1> DEFINE call == Call("render", None, s, "-")
  <1>1. /\ call \in CallRows
        /\ call.do = "render" /\ call.on = None /\ call.section = s
        /\ call.value = "-" /\ call.at = "sent"
    BY CallIs, ValuesAre DEF Reads
  <1> HIDE DEF call
  <1>2. PICK c \in Calls \ DOMAIN calls :
            /\ calls' \in TablesOf(Calls, CallRows)
            /\ DOMAIN calls' = DOMAIN calls \cup {c} /\ calls'[c] = call
            /\ \A d \in DOMAIN calls : calls'[d] = calls[d]
    <2>1. Send(call)
      BY <1>0 DEF call
    <2>2. QED
      BY <1>0, <1>1, <2>1, SendIs
  <1>3. DOMAIN page' = {} /\ page' \in TablesOf(Cards, CardRows)
    BY <1>0, EmptyIs
  <1>4. disturbed' \in BOOLEAN
    BY <1>0 DEF InFlight
  <1>5. Types'
    BY <1>0, <1>2, <1>3, <1>4 DEF Types
  <1>6. "render" \in CallsOf(s)
    BY SectionsAre DEF CallsOf
  <1>7. OfTheirSection'
    BY <1>0, <1>1, <1>2, <1>3, <1>6 DEF OfTheirSection
  <1>8. Tied' /\ SecretOnlyInSight'
    BY <1>3 DEF Tied, SecretOnlyInSight
  <1>9. ASSUME ~disturbed' PROVE Orderly'
    <2>1. \A d \in Calls : Current(d)' => d = c
      BY <1>0, <1>2, <1>9 DEF Current, InFlight
    <2>2. \A k \in Cards : ~Shown(k)'
      BY <1>3 DEF Shown
    <2>3. QED
      BY <1>1, <1>2, <2>1, <2>2 DEF Orderly
  <1>10. QED
    BY <1>5, <1>7, <1>8, <1>9 DEF Coherent

(* At first the page waits for the overview.                               *)
LEMMA InitCoherent == Init => Coherent
  <1> SUFFICES ASSUME Init PROVE Coherent
    OBVIOUS
  <1> DEFINE call == Call("render", None, "overview", "-")
  <1>1. /\ call \in CallRows
        /\ call.do = "render" /\ call.on = None /\ call.section = "overview"
        /\ call.value = "-" /\ call.at = "sent"
    BY CallIs, ValuesAre, SectionsAre DEF Reads
  <1>2. PICK c \in Calls : calls = [i \in {c} |-> call]
    BY DEF Init
  <1> HIDE DEF call
  <1>3. calls \in TablesOf(Calls, CallRows) /\ DOMAIN calls = {c} /\ calls[c] = call
    <2>1. calls \in [{c} -> CallRows] /\ DOMAIN calls = {c} /\ calls[c] = call
      BY <1>1, <1>2
    <2>2. QED
      BY <2>1, TableIs
  <1>4. page \in TablesOf(Cards, CardRows) /\ DOMAIN page = {}
    BY EmptyIs DEF Init
  <1>5. Types
    BY <1>3, <1>4, SectionsAre DEF Init, Types, AllValues
  <1>6. "render" \in CallsOf("overview")
    BY DEF CallsOf
  <1>7. OfTheirSection
    BY <1>1, <1>3, <1>4, <1>6 DEF Init, OfTheirSection
  <1>8. Tied /\ SecretOnlyInSight
    BY <1>4 DEF Tied, SecretOnlyInSight
  <1>9. Orderly
    <2>1. \A d \in Calls : Current(d) => d = c
      BY <1>3 DEF Current
    <2>2. \A k \in Cards : ~Shown(k)
      BY <1>4 DEF Shown
    <2>3. QED
      BY <1>1, <1>3, <2>1, <2>2 DEF Orderly
  <1>10. QED
    BY <1>5, <1>7, <1>8, <1>9 DEF Coherent

(* Every step of the page and of the server keeps Coherent.                *)
LEMMA StepCoherent == ASSUME Coherent, [Next]_vars PROVE Coherent'
  <1>1. CASE UNCHANGED vars
    <2>1. UNCHANGED <<section, page, calls, stored, disturbed>>
      BY <1>1 DEF vars
    <2>2. /\ \A d : (Current(d)' <=> Current(d)) /\ (Unsettled(d)' <=> Unsettled(d))
          /\ \A k : Shown(k)' <=> Shown(k)
      BY <2>1 DEF Current, Unsettled, Shown
    <2>3. Orderly => Orderly'
      BY <2>1, <2>2 DEF Orderly
    <2>4. Types' /\ OfTheirSection' /\ Tied' /\ SecretOnlyInSight'
      BY <2>1 DEF Coherent, Types, OfTheirSection, Tied, SecretOnlyInSight
    <2>5. QED
      BY <2>1, <2>3, <2>4 DEF Coherent
  <1>2. CASE Next
    BY <1>2, ShowSectionStep, UserStep, ServerStep, RenderedStep, AnswerStep, SubmittedStep
       DEF Next
  <1>3. QED
    BY <1>1, <1>2

(* Coherent is an invariant.                                               *)
LEMMA AlwaysCoherent == Spec => []Coherent
  BY InitCoherent, StepCoherent, PTL DEF Spec

(* Sections, cards, calls and rows keep their types.                       *)
THEOREM PageTypeCorrect == Spec => []TypeOK
  <1>1. ASSUME Coherent PROVE TypeOK
    <2>1. Types /\ OfTheirSection
      BY <1>1 DEF Coherent
    <2>2. /\ DOMAIN calls \subseteq Calls /\ \A c \in DOMAIN calls : calls[c] \in CallRows
          /\ DOMAIN page \subseteq Cards /\ \A k \in DOMAIN page : page[k] \in CardRows
      BY <2>1, TableRows
    <2>3. QED
      BY <2>1, <2>2, RowIs DEF Types, OfTheirSection, TypeOK, Failed
  <1>2. QED
    BY <1>1, AlwaysCoherent, PTL

(* The plaintext of a token is in the page only while its section is shown,*)
(* whatever answers come late.                                             *)
THEOREM SecretsAreOnlyInSight == Spec => []SecretOnlyInSight
  <1>1. Coherent => SecretOnlyInSight
    BY DEF Coherent
  <1>2. QED
    BY <1>1, AlwaysCoherent, PTL

(* A section that is not waiting for anything tells what is stored, as far *)
(* as it tells: what a user typed or ticked in a form is not part of that. *)
THEOREM PageIsAlwaysHonest == Spec => []PageIsHonest
  <1>1. ASSUME Coherent PROVE PageIsHonest
    <2>1. SUFFICES ASSUME ~disturbed, ~InFlight(section), NEW k \in DOMAIN page,
                          page[k].section = section
                   PROVE  /\ Told(page[k]) = stored[section]
                          /\ \A j \in DOMAIN page : page[j].section = section => j = k
      BY DEF PageIsHonest
    <2>2. Orderly /\ DOMAIN page \subseteq Cards /\ Shown(k)
      BY <1>1, <2>1, TableRows DEF Coherent, Shown
    <2>3. \A c \in Calls : ~Current(c)
      BY <2>1 DEF Current, InFlight
    <2>4. QED
      BY <2>2, <2>3 DEF Orderly, Shown
  <1>2. QED
    BY <1>1, AlwaysCoherent, PTL
=============================================================================
