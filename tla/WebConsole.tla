----------------------------- MODULE WebConsole -----------------------------
(***************************************************************************)
(* The page of the web console, console_static/app.js, and the handlers    *)
(* behind it that read and write what its sections show.                   *)
(*                                                                         *)
(* A handler of the page runs without interruption up to its next await;   *)
(* what it goes on with is in its closure: the card it belongs to, which   *)
(* may have left the page by then.  The server may serve calls in any      *)
(* order, refuse them, or serve them and be cut off before the answer.     *)
(*                                                                         *)
(* A card is one rendering of a section.  What it shows is one value: the  *)
(* location, whether a key is configured, whether a mode is enabled.       *)
(***************************************************************************)
EXTENDS Tables, FiniteSets

CONSTANTS
    Cards,      \* names of renderings
    Calls,      \* names of calls under way: their number is the bound
    None

ASSUME NamesAssumption == None \notin Cards

VARIABLES
    section,    \* the section that is not hidden
    page,       \* cards in the document, hidden sections included
    calls,      \* calls of api() under way, and what is awaited with them
    stored,     \* the tables' rows of the user, or of the global modes
    disturbed   \* history: calls of the section overlapped, or an answer was lost

vars == <<section, page, calls, stored, disturbed>>

\* "overview" stands for the statistics too.
Values == [overview |-> {"-"}, settings |-> {"online", "local"}, keys |-> {"set", "none"},
           modes |-> {"on", "off"}, adminModes |-> {"on", "off"}, adminUsers |-> {"-"}]

Sections == DOMAIN Values

\* shown: what the user sees, in an input or as a text;
\* first: what the rendering was made of; box: the tokens of a user;
\* secret: the plaintext of a token is in that box.
CardRows == [section: Sections, shown: UNION {Values[s] : s \in Sections},
             first: UNION {Values[s] : s \in Sections},
             box: {"closed", "loading", "listed"}, secret: BOOLEAN]

Reads  == {"render", "reread", "refresh", "list", "secret"}
Writes == {"write", "submit", "issue", "revoke"}
Failed == {"refused", "cut"}

TypeOK ==
    /\ section \in Sections
    /\ DOMAIN page \subseteq Cards
    /\ \A k \in DOMAIN page : page[k] \in CardRows
    /\ DOMAIN calls \subseteq Calls
    /\ \A c \in DOMAIN calls :
           /\ calls[c].do \in Reads \cup Writes
           /\ calls[c].on \in Cards \cup {None}
           /\ calls[c].section \in Sections
           /\ calls[c].at \in {"sent", "done"} \cup Failed
    /\ \A s \in Sections : stored[s] \in Values[s]
    /\ disturbed \in BOOLEAN

Call(do, card, s, value) ==
    [do |-> do, on |-> card, section |-> s, value |-> value, at |-> "sent"]

InFlight(s) == \E c \in DOMAIN calls : calls[c].section = s

\* The first await of a handler
Send(call) == \E c \in Calls \ DOMAIN calls : calls' = With(calls, c, call)

\* What goes on in the call's handler: another await, or nothing
GoOn(c, do) ==
    calls' = [calls EXCEPT ![c] = Call(do, @.on, @.section, @.value)]

End(c) == calls' = Without(calls, {c})

\* A card that was replaced is changed all the same; nobody sees it.
Update(card, row) ==
    page' = IF card \in DOMAIN page THEN [page EXCEPT ![card] = row] ELSE page

\* What a user does in section s, or the loss of an answer there, and the history
Overlap(s) == disturbed \/ InFlight(s)
Lost(c)    == disturbed \/ calls[c].section = section

(* init(): the greeting is there, and the overview is asked for. *)
Init ==
    /\ section = "overview"
    /\ page = Empty
    /\ stored \in [Sections -> UNION {Values[s] : s \in Sections}]
    /\ \A s \in Sections : stored[s] \in Values[s]
    /\ \E c \in Calls : calls = [i \in {c} |-> Call("render", None, "overview", "-")]
    /\ disturbed = FALSE

------------------------------------------------------------------------------
(* Sections *)

\* Fault: only what is to be rendered is emptied
ShowSectionOnly(s) ==
    /\ section' = s
    /\ page' = Without(page, {k \in DOMAIN page : page[k].section = s})
    /\ Send(Call("render", None, s, "-"))
    /\ disturbed' = InFlight(s)
    /\ UNCHANGED stored

(* The sections that are left are emptied, and so is the one to render. *)
ShowSection(s) ==
    /\ section' = s
    /\ page' = Empty
    /\ Send(Call("render", None, s, "-"))
    /\ disturbed' = InFlight(s)
    /\ UNCHANGED stored

(* The answer is appended to the section, shown or not, whatever it holds. *)
Rendered(c) ==
    /\ calls[c].do = "render"
    /\ \/ /\ calls[c].at = "done"
          /\ \E k \in Cards \ (DOMAIN page \cup {calls[d].on : d \in DOMAIN calls}) :
                page' = With(page, k, [section |-> calls[c].section, shown |-> calls[c].value,
                                       first |-> calls[c].value, box |-> "closed",
                                       secret |-> FALSE])
       \/ calls[c].at \in Failed /\ UNCHANGED page
    /\ End(c)
    /\ UNCHANGED <<section, stored, disturbed>>

\* The user can act on a card of the section that is shown.
Visible(card, s) == card \in DOMAIN page /\ page[card].section = s /\ section = s

------------------------------------------------------------------------------
(* Settings: the select saves at once, and reverts to what the backend has *)

ChangeLocation(card, value) ==
    /\ Visible(card, "settings")
    /\ value # page[card].shown
    /\ Update(card, [page[card] EXCEPT !.shown = value])
    /\ Send(Call("write", card, "settings", value))
    /\ disturbed' = Overlap("settings")
    /\ UNCHANGED <<section, stored>>

\* Fault: an error is reported, and the select left alone
LocationSavedOrNot(c) ==
    /\ calls[c].do = "write" /\ calls[c].section = "settings"
    /\ calls[c].at # "sent"
    /\ End(c)
    /\ UNCHANGED <<section, page, stored, disturbed>>

LocationSaved(c) ==
    /\ calls[c].do = "write" /\ calls[c].section = "settings"
    /\ \/ calls[c].at = "done" /\ End(c)
       \/ calls[c].at \in Failed /\ GoOn(c, "reread")
    /\ UNCHANGED <<section, page, stored, disturbed>>

(* Without an answer again, the value the card was made of has to do. *)
LocationReread(c) ==
    /\ calls[c].do = "reread"
    /\ \/ /\ calls[c].at = "done"
          /\ Update(calls[c].on, [page[calls[c].on] EXCEPT !.shown = calls[c].value])
          /\ UNCHANGED disturbed
       \/ /\ calls[c].at \in Failed
          /\ Update(calls[c].on, [page[calls[c].on] EXCEPT !.shown = page[calls[c].on].first])
          /\ disturbed' = Lost(c)
    /\ End(c)
    /\ UNCHANGED <<section, stored>>

------------------------------------------------------------------------------
(* Keys: saved or removed, and then whether one is configured is asked for *)

ChangeKey(card, value) ==
    /\ Visible(card, "keys")
    /\ Send(Call("write", card, "keys", value))
    /\ disturbed' = Overlap("keys")
    /\ UNCHANGED <<section, page, stored>>

KeyChanged(c) ==
    /\ calls[c].do = "write" /\ calls[c].section = "keys"
    /\ \/ calls[c].at = "done" /\ GoOn(c, "refresh") /\ UNCHANGED disturbed
       \/ /\ calls[c].at \in Failed /\ End(c)
          /\ disturbed' = IF calls[c].at = "cut" THEN Lost(c) ELSE disturbed
    /\ UNCHANGED <<section, page, stored>>

ConfiguredRefreshed(c) ==
    /\ calls[c].do = "refresh"
    /\ \/ /\ calls[c].at = "done"
          /\ Update(calls[c].on, [page[calls[c].on] EXCEPT !.shown = calls[c].value])
          /\ UNCHANGED disturbed
       \/ /\ calls[c].at \in Failed
          /\ disturbed' = Lost(c)
          /\ UNCHANGED page
    /\ End(c)
    /\ UNCHANGED <<section, stored>>

------------------------------------------------------------------------------
(* Forms: modes of the user, global modes, users *)

Submit(card, s, value) ==
    /\ Visible(card, s)
    /\ Send(Call("submit", card, s, value))
    /\ disturbed' = Overlap(s)
    /\ UNCHANGED <<section, page, stored>>

(* The switch of a mode's form is an input: it shows what the user wants,  *)
(* and goes on showing it when the PUT is refused.                         *)
TickMode(card) ==
    /\ Visible(card, "modes")
    /\ \E value \in Values["modes"] \ {page[card].shown} :
          Update(card, [page[card] EXCEPT !.shown = value])
    /\ UNCHANGED <<section, calls, stored, disturbed>>

\* The whole form, as it is by now; without an override a mode is enabled.
SaveMode(card)  == Submit(card, "modes", page[card].shown)
ResetMode(card) == Submit(card, "modes", "on")

\* The button says what it does by what the card was made of.
ToggleGlobalMode(card) ==
    \E value \in Values["adminModes"] \ {page[card].shown} : Submit(card, "adminModes", value)

ChangeUsers(card) == Submit(card, "adminUsers", "-")

(* The form of a global mode sends the switch along, as it was rendered. *)
SaveGlobalMode(card) ==
    /\ Visible(card, "adminModes")
    /\ Send(Call("write", card, "adminModes", page[card].shown))
    /\ disturbed' = Overlap("adminModes")
    /\ UNCHANGED <<section, page, stored>>

(* The form of a user sends all it shows, too. *)
SaveUser(card) ==
    /\ Visible(card, "adminUsers")
    /\ Send(Call("write", card, "adminUsers", "-"))
    /\ disturbed' = Overlap("adminUsers")
    /\ UNCHANGED <<section, page, stored>>

(* These cards stay as they are, with a word on how it went. *)
FormSaved(c) ==
    /\ calls[c].do = "write" /\ calls[c].section \in {"adminModes", "adminUsers"}
    /\ calls[c].at # "sent"
    /\ End(c)
    /\ UNCHANGED <<section, page, stored, disturbed>>

(* After a success the section is rendered anew, wherever the user is. *)
Submitted(c) ==
    /\ calls[c].do = "submit"
    /\ \/ /\ calls[c].at = "done"
          /\ page' = Without(page, {k \in DOMAIN page : page[k].section = calls[c].section})
          /\ calls' = [calls EXCEPT ![c] = Call("render", None, @.section, "-")]
          /\ UNCHANGED disturbed
       \/ /\ calls[c].at \in Failed /\ End(c)
          /\ disturbed' = IF calls[c].at = "cut" THEN Lost(c) ELSE disturbed
          /\ UNCHANGED page
    /\ UNCHANGED <<section, stored>>

------------------------------------------------------------------------------
(* Tokens of a user *)

ToggleTokens(card) ==
    /\ Visible(card, "adminUsers")
    /\ \/ /\ page[card].box = "closed"
          /\ Update(card, [page[card] EXCEPT !.box = "loading"])
          /\ Send(Call("list", card, "adminUsers", "-"))
       \/ /\ page[card].box # "closed"
          /\ Update(card, [page[card] EXCEPT !.box = "closed", !.secret = FALSE])
          /\ UNCHANGED calls
    /\ disturbed' = Overlap("adminUsers")
    /\ UNCHANGED <<section, stored>>

AskTokens(card, do) ==
    /\ Visible(card, "adminUsers")
    /\ page[card].box = "listed"
    /\ Send(Call(do, card, "adminUsers", "-"))
    /\ disturbed' = Overlap("adminUsers")
    /\ UNCHANGED <<section, page, stored>>

IssueToken(card)  == AskTokens(card, "issue")
RevokeToken(card) == AskTokens(card, "revoke")

\* renderTokens() empties the box before it asks.
TokensChanged(c, do, next) ==
    /\ calls[c].do = do
    /\ \/ /\ calls[c].at = "done"
          /\ Update(calls[c].on, [page[calls[c].on] EXCEPT !.box = "loading", !.secret = FALSE])
          /\ GoOn(c, next)
       \/ /\ calls[c].at \in Failed
          /\ End(c)
          /\ UNCHANGED page
    /\ UNCHANGED <<section, stored, disturbed>>

TokenIssued(c)  == TokensChanged(c, "issue", "secret")
TokenRevoked(c) == TokensChanged(c, "revoke", "list")

(* The list, or its error, is appended; then the plaintext of the token. *)
TokensListed(c) ==
    /\ calls[c].do \in {"list", "secret"}
    /\ calls[c].at # "sent"
    /\ Update(calls[c].on, [page[calls[c].on] EXCEPT !.box = "listed",
                                                    !.secret = @ \/ calls[c].do = "secret"])
    /\ End(c)
    /\ UNCHANGED <<section, stored, disturbed>>

------------------------------------------------------------------------------
(* The server *)

ServeRead(c) ==
    /\ calls[c].do \in Reads /\ calls[c].at = "sent"
    /\ calls' = [calls EXCEPT ![c].value = stored[calls[c].section], ![c].at = "done"]
    /\ UNCHANGED <<section, page, stored, disturbed>>

(* One upsert or one transaction; the answer may not arrive. *)
ServeWrite(c) ==
    /\ calls[c].do \in Writes /\ calls[c].at = "sent"
    /\ stored' = [stored EXCEPT ![calls[c].section] = calls[c].value]
    /\ \E at \in {"done", "cut"} : calls' = [calls EXCEPT ![c].at = at]
    /\ UNCHANGED <<section, page, disturbed>>

\* An error status, a session that has ended, no connection
Refuse(c) ==
    /\ calls[c].at = "sent"
    /\ calls' = [calls EXCEPT ![c].at = "refused"]
    /\ UNCHANGED <<section, page, stored, disturbed>>

Next ==
    \/ \E s \in Sections : ShowSection(s)
    \/ \E k \in DOMAIN page :
        \/ \E v \in Values["settings"] : ChangeLocation(k, v)
        \/ \E v \in Values["keys"] : ChangeKey(k, v)
        \/ TickMode(k) \/ SaveMode(k) \/ ResetMode(k)
        \/ ToggleGlobalMode(k) \/ SaveGlobalMode(k)
        \/ ChangeUsers(k) \/ SaveUser(k)
        \/ ToggleTokens(k) \/ IssueToken(k) \/ RevokeToken(k)
    \/ \E c \in DOMAIN calls :
        \/ ServeRead(c) \/ ServeWrite(c) \/ Refuse(c)
        \/ Rendered(c)
        \/ LocationSaved(c) \/ LocationReread(c)
        \/ KeyChanged(c) \/ ConfiguredRefreshed(c)
        \/ Submitted(c) \/ FormSaved(c)
        \/ TokenIssued(c) \/ TokenRevoked(c) \/ TokensListed(c)

Spec == Init /\ [][Next]_vars

------------------------------------------------------------------------------
(* The plaintext of a token is nowhere in the page but in the section that *)
(* is shown: what is left is emptied, and what arrives for a card that has *)
(* gone is not put anywhere else, whatever answers are still to come.      *)
SecretOnlyInSight ==
    \A k \in DOMAIN page : page[k].secret => page[k].section = section

(* What a card tells of the tables.  The switch of a mode's form tells what *)
(* its user wants, saved or not: there it is what the form was made of.    *)
Told(row) == IF row.section = "modes" THEN row.first ELSE row.shown

(* Once its calls have been answered, a section shows one rendering, and   *)
(* that tells what is stored: also after refused and, for the location,    *)
(* after lost answers.  Overlapping calls of one section, a lost answer of *)
(* another one and a failed second reading are what it does not survive,   *)
(* until the section is opened again; and a mode's switch that was changed *)
(* and never saved, or refused, is no claim about the table (app.js:274).  *)
PageIsHonest ==
    ~disturbed /\ ~InFlight(section) =>
        \A k \in DOMAIN page :
            page[k].section = section =>
                /\ Told(page[k]) = stored[section]
                /\ \A j \in DOMAIN page : page[j].section = section => j = k

==============================================================================
