---------------------------- MODULE ConsoleAccess ----------------------------
(***************************************************************************)
(* Accounts, bearer tokens and console sessions of the backend: auth.py,   *)
(* admin.py, routes/admin.py, routes/console.py and the services           *)
(* console_bootstrap.py and console_session.py.                            *)
(*                                                                         *)
(* A request is authenticated in one step and acts in a later one: FastAPI *)
(* resolves the principal in a dependency, and requests run in a pool of   *)
(* threads.  Row ids are SQLite's: one above the largest id in the table,  *)
(* so that the id of a deleted row can come back.  Time is what is left of *)
(* a code or a cookie, and its age since a bearer was last shown.          *)
(***************************************************************************)
EXTENDS Tables, FiniteSets

CONSTANTS
    Requests,                     \* threads that serve requests or the CLI
    Codes,                        \* names of bootstrap codes
    MaxUsers, MaxTokens,          \* bounds on row ids
    CodeTTL, UserTTL, AdminTTL    \* DEFAULT_TTL_S of codes and sessions, ADMIN_TTL_S

ASSUME LifetimesAssumption ==
    /\ {CodeTTL, UserTTL, AdminTTL} \subseteq Nat \ {0}
    /\ {MaxUsers, MaxTokens} \subseteq Nat \ {0}
    /\ AdminTTL <= UserTTL

VARIABLES
    users,      \* table users: id -> [admin, disabled]
    tokens,     \* table api_tokens: id -> [user, revoked]
    codes,      \* BootstrapCodeStore._codes: code -> grant
    cookies,    \* signed session cookies that browsers hold
    req,        \* request -> where it is and what it has read
    raced       \* history: a right was used after it was lost, or the CLI was used

vars == <<users, tokens, codes, cookies, req, raced>>

CLI   == 0      \* the principal of the command line: nobody's id
Idle  == [stage |-> "idle"]
Scopes == {"user", "admin"}

UserRows  == [admin: BOOLEAN, disabled: BOOLEAN]
TokenRows == [user: 1..MaxUsers, revoked: BOOLEAN]
\* What a code grants and a cookie claims; asAdmin is history: the role of
\* the bearer's owner when the code was asked for.
Claims == [user: 1..MaxUsers, token: 1..MaxTokens, scope: Scopes,
           left: Int, since: Nat, code: Codes, asAdmin: BOOLEAN]

TypeOK ==
    /\ users \in TablesOf(1..MaxUsers, UserRows)
    /\ tokens \in TablesOf(1..MaxTokens, TokenRows)
    /\ DOMAIN codes \subseteq Codes
    /\ \A c \in DOMAIN codes : codes[c] \in Claims /\ codes[c].left \in -1..CodeTTL
    /\ cookies \subseteq Claims
    /\ \A c \in cookies : c.left \in 1..UserTTL
    /\ \A r \in Requests : req[r].stage \in {"idle", "mint", "act", "insert"}
    /\ raced \in BOOLEAN

(* The first administrator with the token of the single-user days *)
Init ==
    /\ users = [u \in {1} |-> [admin |-> TRUE, disabled |-> FALSE]]
    /\ tokens = [t \in {1} |-> [user |-> 1, revoked |-> FALSE]]
    /\ codes = Empty
    /\ cookies = {}
    /\ req = [r \in Requests |-> Idle]
    /\ raced = FALSE

------------------------------------------------------------------------------
(* Who may *)

Enabled(u) == u \in DOMAIN users /\ ~users[u].disabled

Administrators == {u \in DOMAIN users : users[u].admin /\ ~users[u].disabled}

BearerAccepted(t) == /\ t \in DOMAIN tokens
                     /\ ~tokens[t].revoked
                     /\ Enabled(tokens[t].user)

CookieAccepted(c) ==
    /\ c.left > 0
    /\ c.token \in DOMAIN tokens
    /\ ~tokens[c.token].revoked
    /\ tokens[c.token].user = c.user
    /\ Enabled(c.user)

HasAdminScope(c) == users[c.user].admin /\ c.scope = "admin"

Become(r, record) == req' = [req EXCEPT ![r] = record]

(* A request to /admin/... passes its guard; or a command line starts. *)
AdminByBearer(r, t) ==
    /\ req[r] = Idle
    /\ BearerAccepted(t)
    /\ users[tokens[t].user].admin
    /\ Become(r, [stage |-> "act", user |-> tokens[t].user])
    /\ UNCHANGED <<users, tokens, codes, cookies, raced>>

AdminByCookie(r, c) ==
    /\ req[r] = Idle
    /\ CookieAccepted(c)
    /\ HasAdminScope(c)
    /\ Become(r, [stage |-> "act", user |-> c.user])
    /\ UNCHANGED <<users, tokens, codes, cookies, raced>>

StartCli(r) ==
    /\ req[r] = Idle
    /\ Become(r, [stage |-> "act", user |-> CLI])
    /\ UNCHANGED <<users, tokens, codes, cookies, raced>>

------------------------------------------------------------------------------
(* What administrators do.  Every operation ends the request, except the   *)
(* issuing of a token, which reads the user before it inserts the row.     *)

Acts(r) ==
    /\ req[r].stage = "act"
    /\ Become(r, Idle)
    /\ raced' = (raced \/ req[r].user \notin Administrators)
    /\ UNCHANGED <<codes, cookies>>

CreateUser(r, isAdmin) ==
    /\ Acts(r)
    /\ NextId(users) <= MaxUsers
    /\ users' = With(users, NextId(users), [admin |-> isAdmin, disabled |-> FALSE])
    /\ UNCHANGED tokens

\* Fault: only deactivating oneself is refused
PatchUserSelfDemotes(r, u, field, value) ==
    /\ Acts(r)
    /\ u \in DOMAIN users
    /\ ~(u = req[r].user /\ field = "disabled" /\ value)
    /\ users' = [users EXCEPT ![u] = [@ EXCEPT ![field] = value]]
    /\ UNCHANGED tokens

PatchUser(r, u, field, value) ==
    /\ Acts(r)
    /\ u \in DOMAIN users
    /\ ~(u = req[r].user /\ field = "disabled" /\ value)
    /\ ~(u = req[r].user /\ field = "admin" /\ ~value)
    /\ users' = [users EXCEPT ![u] = [@ EXCEPT ![field] = value]]
    /\ UNCHANGED tokens

(* One transaction: the tokens and the other rows of the user, then the user *)
DeleteUser(r, u) ==
    /\ Acts(r)
    /\ u \in DOMAIN users
    /\ u # req[r].user
    /\ users' = Without(users, {u})
    /\ tokens' = Without(tokens, {t \in DOMAIN tokens : tokens[t].user = u})

\* Fault: the switch in the console toggles
RevokeTokenToggles(r, t) ==
    /\ Acts(r)
    /\ t \in DOMAIN tokens
    /\ tokens' = [tokens EXCEPT ![t].revoked = ~@]
    /\ UNCHANGED users

RevokeToken(r, t) ==
    /\ Acts(r)
    /\ t \in DOMAIN tokens
    /\ tokens' = [tokens EXCEPT ![t].revoked = TRUE]
    /\ UNCHANGED users

IssueToken(r, u) ==
    /\ req[r].stage = "act"
    /\ u \in DOMAIN users
    /\ Become(r, [stage |-> "insert", user |-> req[r].user, owner |-> u])
    /\ UNCHANGED <<users, tokens, codes, cookies, raced>>

(* PRAGMA foreign_keys=ON: the INSERT fails when the user is gone. *)
InsertToken(r) ==
    /\ req[r].stage = "insert"
    /\ NextId(tokens) <= MaxTokens
    /\ tokens' = IF req[r].owner \in DOMAIN users
                 THEN With(tokens, NextId(tokens), [user |-> req[r].owner, revoked |-> FALSE])
                 ELSE tokens
    /\ Become(r, Idle)
    /\ UNCHANGED <<users, codes, cookies, raced>>

------------------------------------------------------------------------------
(* Console sessions: bearer -> code -> cookie *)

\* Fault: whoever asks for the admin scope gets it
MayAskAny(scope, isAdmin) == scope \in Scopes

MayAsk(scope, isAdmin) == scope = "admin" => isAdmin

InUse == DOMAIN codes \cup {c.code : c \in cookies}
         \cup {req[r].code : r \in {x \in Requests : req[x].stage = "mint"}}

(* POST /console/session: bearer, scope, issue(), which purges expired     *)
(* codes.  Without a scope in the body the role decides, which is one of   *)
(* the two choices here.  A right that is lost between the check of the    *)
(* bearer and issue() is one that is lost while the code waits.            *)
AskForCode(t, scope, c) ==
    /\ BearerAccepted(t)
    /\ MayAsk(scope, users[tokens[t].user].admin)
    /\ c \in Codes \ InUse
    /\ codes' = With(Without(codes, {d \in DOMAIN codes : codes[d].left < 0}), c,
                     [user |-> tokens[t].user, token |-> t, scope |-> scope,
                      left |-> CodeTTL, since |-> 0, code |-> c,
                      asAdmin |-> users[tokens[t].user].admin])
    /\ UNCHANGED <<users, tokens, cookies, req, raced>>

\* Fault: the code is read now and removed by whoever finishes
RedeemWithoutPop(r, c) ==
    /\ req[r] = Idle
    /\ c \in DOMAIN codes
    /\ codes[c].left >= 0
    /\ Become(r, [stage |-> "mint", code |-> c, grant |-> codes[c]])
    /\ UNCHANGED <<users, tokens, codes, cookies, raced>>

(* GET /console/bootstrap: redeem() pops the code under its lock, whatever *)
(* follows.  An expired code grants nothing, nor does one whose nonce the  *)
(* browser does not have.                                                  *)
Redeem(r, c) ==
    /\ req[r] = Idle
    /\ c \in DOMAIN codes
    /\ codes' = Without(codes, {c})
    /\ \/ /\ codes[c].left >= 0
          /\ Become(r, [stage |-> "mint", code |-> c, grant |-> codes[c]])
       \/ UNCHANGED req
    /\ UNCHANGED <<users, tokens, cookies, raced>>

TtlFor(scope) == IF scope = "admin" THEN AdminTTL ELSE UserTTL

(* The cookie is signed from the grant; the tables are not looked at. *)
Mint(r) ==
    /\ req[r].stage = "mint"
    /\ cookies' = cookies \cup
           {[req[r].grant EXCEPT !.left = TtlFor(req[r].grant.scope)]}
    /\ Become(r, Idle)
    /\ UNCHANGED <<users, tokens, codes, raced>>

Logout(c) ==
    /\ c \in cookies
    /\ cookies' = cookies \ {c}
    /\ UNCHANGED <<users, tokens, codes, req, raced>>

------------------------------------------------------------------------------
(* Time passes between requests: a handler takes milliseconds, a tick is   *)
(* of the order of the lifetime of a code.                                 *)
Older(c) == [c EXCEPT !.left = @ - 1, !.since = @ + 1]

Tick ==
    /\ \A r \in Requests : req[r].stage # "mint"
    /\ DOMAIN codes # {} \/ cookies # {}
    /\ codes' = [c \in DOMAIN codes |-> IF codes[c].left < 0 THEN codes[c] ELSE Older(codes[c])]
    /\ cookies' = {d \in {Older(c) : c \in cookies} : d.left > 0}
    /\ UNCHANGED <<users, tokens, req, raced>>

(* Codes live in the process; cookies are signed with a key derived from   *)
(* SPRICHBLITZ_SECRET_KEY and survive, as do the tables.                   *)
Restart ==
    /\ codes' = Without(codes, Codes)
    /\ req' = [r \in Requests |-> Idle]
    /\ UNCHANGED <<users, tokens, cookies, raced>>

Next ==
    \/ \E r \in Requests :
        \/ StartCli(r)
        \/ \E t \in DOMAIN tokens : AdminByBearer(r, t)
        \/ \E c \in cookies : AdminByCookie(r, c)
        \/ \E isAdmin \in BOOLEAN : CreateUser(r, isAdmin)
        \/ \E u \in DOMAIN users : \/ DeleteUser(r, u)
                                   \/ IssueToken(r, u)
        \/ \E u \in DOMAIN users, field \in {"admin", "disabled"}, value \in BOOLEAN :
               PatchUser(r, u, field, value)
        \/ InsertToken(r)
        \/ \E t \in DOMAIN tokens : RevokeToken(r, t)
        \/ \E c \in DOMAIN codes : Redeem(r, c)
        \/ Mint(r)
    \/ \E t \in DOMAIN tokens, scope \in Scopes, c \in Codes : AskForCode(t, scope, c)
    \/ \E c \in cookies : Logout(c)
    \/ Tick
    \/ Restart

Spec == Init /\ [][Next]_vars

------------------------------------------------------------------------------
(* Every token belongs to a user that exists, although a user can be       *)
(* deleted between the two steps that issue a token: the rows go in one    *)
(* transaction and the foreign key is enforced.                            *)
TokensHaveOwners ==
    \A t \in DOMAIN tokens : tokens[t].user \in DOMAIN users

(* A code is in the store, or in the hands of one request, or has become   *)
(* one cookie; however two redemptions race, never two of these.           *)
CodeWorksOnce ==
    \A c \in Codes :
        (IF c \in DOMAIN codes THEN 1 ELSE 0)
        + Cardinality({r \in Requests : req[r].stage = "mint" /\ req[r].code = c})
        + Cardinality({k \in cookies : k.code = c}) <= 1

(* What was cut off stays cut off: a bearer or a session that is refused is *)
(* accepted again only when an administrator enables the account again, or  *)
(* when its row was deleted and SQLite has handed out the id anew; never    *)
(* because of a second revocation, a role, a restart or the age of a code.  *)
RevokedForGood ==
    [][ /\ \A t \in 1..MaxTokens :
             BearerAccepted(t)' =>
                 \/ BearerAccepted(t)
                 \/ t \notin DOMAIN tokens
                 \/ ~tokens[t].revoked /\ users[tokens[t].user].disabled
        /\ \A c \in cookies \cap cookies' :
             CookieAccepted(c)' =>
                 \/ CookieAccepted(c)
                 \/ c.token \notin DOMAIN tokens
                 \/ ~tokens[c.token].revoked /\ users[c.user].disabled ]_vars

(* A session has the scope and the time that its bearer has earned.  It    *)
(* ends at the latest a code's and a session's lifetime after the bearer   *)
(* was shown, an administration session earlier than a self-service        *)
(* session, and no path renews it.  The administration scope goes back to  *)
(* a bearer whose owner was an administrator then; no cookie promotes      *)
(* itself, before or after a restart.                                      *)
SessionIsEarned ==
    \A c \in cookies :
        /\ c.since < CodeTTL + (IF c.scope = "admin" THEN AdminTTL ELSE UserTTL)
        /\ c.scope = "admin" => c.asAdmin

(* As long as no administrator acts on a right that was withdrawn in the   *)
(* meantime and the command line is not used, an administrator remains who *)
(* is enabled: nobody can lock everybody out.                              *)
AdminRemains == raced \/ Administrators # {}

==============================================================================
