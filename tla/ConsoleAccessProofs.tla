------------------------ MODULE ConsoleAccessProofs ------------------------
(***************************************************************************)
(* For every number of requests, codes, users and tokens and for all       *)
(* lifetimes: an administrator remains, a revocation lasts, a session has  *)
(* the scope and the time its bearer earned, and a code works once.        *)
(***************************************************************************)
EXTENDS ConsoleAccess, FiniteSetTheorems, WellFoundedInduction, TLAPS

(***************************************************************************)
(* Tables.                                                                 *)
(***************************************************************************)

(* A set of numbers with a bound has a maximum.                            *)
LEMMA MaxExists ==
  ASSUME NEW n \in Nat, NEW S, S \subseteq 0..n, S # {}
  PROVE  Max(S) \in S /\ \A y \in S : Max(S) >= y
  <1> DEFINE T == {n - x : x \in S}
  <1>1. T \subseteq Nat /\ T # {}
    <2>1. \A x \in S : n - x \in Nat
      OBVIOUS
    <2>2. QED
      BY <2>1
  <1>2. IsWellFoundedOn(OpToRel(<, Nat), Nat)
    BY NatLessThanWellFounded
  <1> HIDE DEF T
  <1>3. PICK m \in T : \A y \in T : ~(<<y, m>> \in OpToRel(<, Nat))
    BY <1>1, <1>2, WFMin
  <1>4. \A y \in T : m <= y
    <2> SUFFICES ASSUME NEW y \in T PROVE m <= y
      OBVIOUS
    <2>1. m \in Nat /\ y \in Nat
      BY <1>1
    <2>2. ~(y < m)
      BY <1>3, <2>1 DEF OpToRel
    <2>3. QED
      BY <2>1, <2>2
  <1> USE DEF T
  <1>5. PICK x \in S : m = n - x
    OBVIOUS
  <1>6. \A y \in S : x >= y
    BY <1>4, <1>5
  <1>7. QED
    BY <1>6 DEF Max

(* The id of a new row is not that of another.                             *)
LEMMA NextIdIsFree ==
  ASSUME NEW n \in Nat, NEW rows, DOMAIN rows \subseteq 1..n
  PROVE  NextId(rows) \in Nat \ {0} /\ NextId(rows) \notin DOMAIN rows
  <1>1. {0} \cup DOMAIN rows \subseteq 0..n /\ {0} \cup DOMAIN rows # {}
    OBVIOUS
  <1> DEFINE m == Max({0} \cup DOMAIN rows)
  <1>2. m \in {0} \cup DOMAIN rows /\ \A y \in {0} \cup DOMAIN rows : m >= y
    BY <1>1, MaxExists
  <1>3. m \in Nat
    BY <1>1, <1>2
  <1>4. NextId(rows) = m + 1
    BY <1>3 DEF NextId
  <1>5. \A y \in DOMAIN rows : y \in Nat /\ m >= y
    BY <1>2
  <1> HIDE DEF m
  <1>6. QED
    BY <1>3, <1>4, <1>5

LEMMA TableIs ==
  ASSUME NEW Ids, NEW Row, NEW rows
  PROVE  rows \in TablesOf(Ids, Row) <=>
            DOMAIN rows \subseteq Ids /\ rows \in [DOMAIN rows -> Row]
  BY DEF TablesOf

LEMMA WithIs ==
  ASSUME NEW rows, NEW id, NEW row
  PROVE  /\ DOMAIN With(rows, id, row) = DOMAIN rows \cup {id}
         /\ With(rows, id, row)[id] = row
         /\ \A i \in DOMAIN rows : i # id => With(rows, id, row)[i] = rows[i]
  BY DEF With

LEMMA WithoutIs ==
  ASSUME NEW rows, NEW ids
  PROVE  /\ DOMAIN Without(rows, ids) = DOMAIN rows \ ids
         /\ \A i \in DOMAIN rows \ ids : Without(rows, ids)[i] = rows[i]
  BY DEF Without

LEMMA TableChanges ==
  ASSUME NEW Ids, NEW Row, NEW rows \in TablesOf(Ids, Row)
  PROVE  /\ \A id \in Ids, row \in Row : With(rows, id, row) \in TablesOf(Ids, Row)
         /\ \A ids : Without(rows, ids) \in TablesOf(Ids, Row)
         /\ \A id \in DOMAIN rows, row \in Row :
               [rows EXCEPT ![id] = row] \in TablesOf(Ids, Row)
  <1>1. DOMAIN rows \subseteq Ids /\ rows \in [DOMAIN rows -> Row]
    BY TableIs
  <1>2. ASSUME NEW id \in Ids, NEW row \in Row
        PROVE  With(rows, id, row) \in TablesOf(Ids, Row)
    <2>1. With(rows, id, row) \in [DOMAIN rows \cup {id} -> Row]
      BY <1>1 DEF With
    <2>2. QED
      BY <1>1, <2>1 DEF TablesOf
  <1>3. ASSUME NEW ids
        PROVE  Without(rows, ids) \in TablesOf(Ids, Row)
    <2>1. Without(rows, ids) \in [DOMAIN rows \ ids -> Row]
      BY <1>1 DEF Without
    <2>2. QED
      BY <1>1, <2>1 DEF TablesOf
  <1>4. ASSUME NEW id \in DOMAIN rows, NEW row \in Row
        PROVE  [rows EXCEPT ![id] = row] \in TablesOf(Ids, Row)
    <2>1. [rows EXCEPT ![id] = row] \in [DOMAIN rows -> Row]
      BY <1>1
    <2>2. QED
      BY <1>1, <2>1 DEF TablesOf
  <1>5. QED
    BY <1>2, <1>3, <1>4

(***************************************************************************)
(* Types, and what codes and sessions have earned.  A code in the hands of *)
(* a request is like one in the store; what is left of a code or cookie    *)
(* and its age add up to what it was given, at most.                       *)
(***************************************************************************)
Accounts ==
    /\ users \in TablesOf(1..MaxUsers, UserRows)
    /\ tokens \in TablesOf(1..MaxTokens, TokenRows)

Earned(c) == c \in Claims /\ (c.scope = "admin" => c.asAdmin)

Sessions ==
    /\ DOMAIN codes \subseteq Codes
    /\ \A c \in DOMAIN codes : /\ Earned(codes[c])
                               /\ codes[c].left \in -1..CodeTTL
                               /\ codes[c].left + codes[c].since = CodeTTL
                               /\ codes[c].code = c
    /\ \A r \in Requests : req[r].stage = "mint" =>
          /\ Earned(req[r].grant)
          /\ req[r].grant.since <= CodeTTL
          /\ req[r].code \in Codes /\ req[r].grant.code = req[r].code
    /\ \A c \in cookies : /\ Earned(c)
                          /\ c.left \in 1..TtlFor(c.scope)
                          /\ c.left + c.since <= CodeTTL + TtlFor(c.scope)

Stages ==
    /\ DOMAIN req = Requests
    /\ \A r \in Requests : req[r].stage \in {"idle", "mint", "act", "insert"}
    /\ raced \in BOOLEAN

IInv == Accounts /\ Sessions /\ Stages

LEMMA TypesFollow == IInv => TypeOK
  <1> SUFFICES ASSUME IInv PROVE TypeOK
    OBVIOUS
  <1>1. \A c \in cookies : c \in Claims /\ c.left \in 1..UserTTL
    BY LifetimesAssumption DEF IInv, Sessions, Earned, TtlFor
  <1>2. QED
    BY <1>1 DEF IInv, Accounts, Sessions, Stages, Earned, TypeOK

LEMMA InitIInv == Init => IInv
  <1> SUFFICES ASSUME Init PROVE IInv
    OBVIOUS
  <1>1. users \in [{1} -> UserRows] /\ tokens \in [{1} -> TokenRows]
    BY LifetimesAssumption DEF Init, UserRows, TokenRows
  <1>2. Accounts
    <2>1. {1} \subseteq 1..MaxUsers /\ {1} \subseteq 1..MaxTokens
      BY LifetimesAssumption
    <2>2. QED
      BY <1>1, <2>1 DEF Accounts, TablesOf
  <1>3. Sessions
    BY DEF Init, Sessions, Empty, Idle
  <1>4. Stages
    BY DEF Init, Stages, Idle
  <1>5. QED
    BY <1>2, <1>3, <1>4 DEF IInv

(* Whoever may do something is known by rows of the right kind.            *)
LEMMA RowsAre ==
  ASSUME Accounts
  PROVE  /\ DOMAIN users \subseteq 1..MaxUsers /\ DOMAIN tokens \subseteq 1..MaxTokens
         /\ \A u \in DOMAIN users : users[u] \in UserRows
         /\ \A t \in DOMAIN tokens : tokens[t] \in TokenRows
         /\ NextId(users) \in Nat \ {0} /\ NextId(users) \notin DOMAIN users
         /\ NextId(tokens) \in Nat \ {0} /\ NextId(tokens) \notin DOMAIN tokens
  <1>1. /\ DOMAIN users \subseteq 1..MaxUsers /\ users \in [DOMAIN users -> UserRows]
        /\ DOMAIN tokens \subseteq 1..MaxTokens /\ tokens \in [DOMAIN tokens -> TokenRows]
    BY TableIs DEF Accounts
  <1>2. MaxUsers \in Nat /\ MaxTokens \in Nat
    BY LifetimesAssumption
  <1>3. NextId(users) \in Nat \ {0} /\ NextId(users) \notin DOMAIN users
    BY <1>1, <1>2, NextIdIsFree
  <1>4. NextId(tokens) \in Nat \ {0} /\ NextId(tokens) \notin DOMAIN tokens
    BY <1>1, <1>2, NextIdIsFree
  <1>5. QED
    BY <1>1, <1>3, <1>4

LEMMA StepAccounts ==
  ASSUME Accounts, [Next]_vars
  PROVE  Accounts'
  <1>1. CASE UNCHANGED <<users, tokens>>
    BY <1>1 DEF Accounts
  <1>2. ASSUME NEW r \in Requests, NEW isAdmin \in BOOLEAN, CreateUser(r, isAdmin)
        PROVE  Accounts'
    <2>1. [admin |-> isAdmin, disabled |-> FALSE] \in UserRows
      BY DEF UserRows
    <2>2. NextId(users) \in 1..MaxUsers
      BY <1>2, RowsAre, LifetimesAssumption DEF CreateUser
    <2>3. QED
      BY <1>2, <2>1, <2>2, TableChanges DEF CreateUser, Accounts
  <1>3. ASSUME NEW r \in Requests, NEW u \in DOMAIN users, NEW field \in {"admin", "disabled"},
               NEW value \in BOOLEAN, PatchUser(r, u, field, value)
        PROVE  Accounts'
    <2>1. [users[u] EXCEPT ![field] = value] \in UserRows
      BY <1>3, RowsAre DEF UserRows
    <2>2. users' = [users EXCEPT ![u] = [users[u] EXCEPT ![field] = value]]
      BY <1>3 DEF PatchUser
    <2>3. PICK row \in UserRows : users' = [users EXCEPT ![u] = row]
      BY <2>1, <2>2
    <2>4. tokens' = tokens
      BY <1>3 DEF PatchUser
    <2>5. QED
      BY <2>3, <2>4, TableChanges DEF Accounts
  <1>4. ASSUME NEW r \in Requests, NEW u \in DOMAIN users, DeleteUser(r, u)
        PROVE  Accounts'
    BY <1>4, TableChanges DEF DeleteUser, Accounts
  <1>5. ASSUME NEW r \in Requests, NEW t \in DOMAIN tokens, RevokeToken(r, t)
        PROVE  Accounts'
    <2>1. [tokens[t] EXCEPT !.revoked = TRUE] \in TokenRows
      BY <1>5, RowsAre DEF TokenRows
    <2>2. tokens' = [tokens EXCEPT ![t] = [tokens[t] EXCEPT !.revoked = TRUE]]
      BY <1>5 DEF RevokeToken
    <2>3. PICK row \in TokenRows : tokens' = [tokens EXCEPT ![t] = row]
      BY <2>1, <2>2
    <2>4. users' = users
      BY <1>5 DEF RevokeToken
    <2>5. QED
      BY <2>3, <2>4, TableChanges DEF Accounts
  <1>6. ASSUME NEW r \in Requests, InsertToken(r)
        PROVE  Accounts'
    <2>1. CASE req[r].owner \in DOMAIN users
      <3>1. [user |-> req[r].owner, revoked |-> FALSE] \in TokenRows
        BY <2>1, RowsAre DEF TokenRows
      <3>2. NextId(tokens) \in 1..MaxTokens
        BY <1>6, RowsAre, LifetimesAssumption DEF InsertToken
      <3>3. QED
        BY <1>6, <2>1, <3>1, <3>2, TableChanges DEF InsertToken, Accounts
    <2>2. CASE req[r].owner \notin DOMAIN users
      BY <1>1, <1>6, <2>2 DEF InsertToken
    <2>3. QED
      BY <2>1, <2>2
  <1>7. QED
    BY <1>1, <1>2, <1>3, <1>4, <1>5, <1>6
       DEF Next, vars, StartCli, AdminByBearer, AdminByCookie, IssueToken, Redeem, Mint,
           AskForCode, Logout, Tick, Restart

(* A step of one request leaves those of the others where they are.        *)
LEMMA StepStages ==
  ASSUME Stages, [Next]_vars
  PROVE  Stages'
  <1>1. DOMAIN req' = Requests
    BY DEF Stages, Next, vars, StartCli, AdminByBearer, AdminByCookie, IssueToken, Redeem, Mint,
           AskForCode, Logout, Tick, Restart, CreateUser, PatchUser, DeleteUser, RevokeToken,
           InsertToken, Acts, Become
  <1>2. raced' \in BOOLEAN
    BY Zenon DEF Stages, Next, vars, StartCli, AdminByBearer, AdminByCookie, IssueToken, Redeem,
           Mint, AskForCode, Logout, Tick, Restart, CreateUser, PatchUser, DeleteUser,
           RevokeToken, InsertToken, Acts, Become
  <1>3. \/ UNCHANGED req
        \/ req' = [r \in Requests |-> Idle]
        \/ \E r \in Requests : \E record :
              /\ req' = [req EXCEPT ![r] = record]
              /\ record.stage \in {"idle", "mint", "act", "insert"}
    <2>1. UNCHANGED req \/ req' = [r \in Requests |-> Idle] \/ \E r \in Requests :
             \/ StartCli(r) \/ InsertToken(r) \/ Mint(r) \/ Acts(r)
             \/ \E t : AdminByBearer(r, t)
             \/ \E c : AdminByCookie(r, c)
             \/ \E u : IssueToken(r, u)
             \/ \E c : Redeem(r, c)
      BY Zenon DEF Next, vars, AskForCode, Logout, Tick, Restart, CreateUser, PatchUser,
             DeleteUser, RevokeToken
    <2>2. ASSUME NEW r \in Requests,
                 \/ StartCli(r) \/ InsertToken(r) \/ Mint(r) \/ Acts(r)
                 \/ \E t : AdminByBearer(r, t)
                 \/ \E c : AdminByCookie(r, c)
                 \/ \E u : IssueToken(r, u)
                 \/ \E c : Redeem(r, c)
          PROVE  \/ UNCHANGED req
                 \/ \E record : /\ req' = [req EXCEPT ![r] = record]
                                /\ record.stage \in {"idle", "mint", "act", "insert"}
      <3>1. CASE StartCli(r) \/ InsertToken(r) \/ Mint(r) \/ Acts(r)
        BY <3>1 DEF StartCli, InsertToken, Mint, Acts, Become, Idle
      <3>2. CASE \E t : AdminByBearer(r, t)
        <4>1. PICK t : AdminByBearer(r, t)
          BY <3>2
        <4> DEFINE new == [stage |-> "act", user |-> tokens[t].user]
        <4>2. req' = [req EXCEPT ![r] = new] /\ new.stage = "act"
          BY <4>1 DEF AdminByBearer, Become
        <4> HIDE DEF new
        <4>3. QED
          BY <4>2
      <3>3. CASE \E c : AdminByCookie(r, c)
        <4>1. PICK c : AdminByCookie(r, c)
          BY <3>3
        <4> DEFINE new == [stage |-> "act", user |-> c.user]
        <4>2. req' = [req EXCEPT ![r] = new] /\ new.stage = "act"
          BY <4>1 DEF AdminByCookie, Become
        <4> HIDE DEF new
        <4>3. QED
          BY <4>2
      <3>4. CASE \E u : IssueToken(r, u)
        BY <3>4 DEF IssueToken, Become
      <3>5. CASE \E c : Redeem(r, c)
        <4>1. PICK c : Redeem(r, c)
          BY <3>5
        <4> DEFINE new == [stage |-> "mint", code |-> c, grant |-> codes[c]]
        <4>2. UNCHANGED req \/ (req' = [req EXCEPT ![r] = new] /\ new.stage = "mint")
          BY <4>1 DEF Redeem, Become
        <4> HIDE DEF new
        <4>3. QED
          BY <4>2
      <3>6. QED
        BY <2>2, <3>1, <3>2, <3>3, <3>4, <3>5
    <2>3. QED
      BY <2>1, <2>2
  <1>4. \A r \in Requests : req'[r].stage \in {"idle", "mint", "act", "insert"}
    BY <1>3 DEF Stages, Idle
  <1>5. QED
    BY <1>1, <1>2, <1>4 DEF Stages

(* Only asking, redeeming, minting and time make or change claims.         *)
LEMMA StepSessions ==
  ASSUME Accounts, Sessions, Stages, [Next]_vars
  PROVE  Sessions'
  <1> USE LifetimesAssumption
  <1>1. ASSUME UNCHANGED <<codes, cookies>>,
               \A r \in Requests : req'[r].stage = "mint" => req'[r] = req[r]
        PROVE  Sessions'
    BY <1>1 DEF Sessions
  <1>2. ASSUME NEW r \in Requests, NEW record, record.stage # "mint", Become(r, record),
               UNCHANGED <<codes, cookies>>
        PROVE  Sessions'
    BY <1>1, <1>2 DEF Become, Stages
  <1>3. ASSUME NEW t \in DOMAIN tokens, NEW scope \in Scopes, NEW c \in Codes,
               AskForCode(t, scope, c)
        PROVE  Sessions'
    <2> DEFINE claim == [user |-> tokens[t].user, token |-> t, scope |-> scope,
                         left |-> CodeTTL, since |-> 0, code |-> c,
                         asAdmin |-> users[tokens[t].user].admin]
               kept  == Without(codes, {d \in DOMAIN codes : codes[d].left < 0})
    <2>1. Earned(claim)
      BY <1>3, RowsAre DEF AskForCode, BearerAccepted, Enabled, MayAsk, Earned, Claims,
                           UserRows, TokenRows
    <2>2. DOMAIN kept \subseteq DOMAIN codes /\ \A d \in DOMAIN kept : kept[d] = codes[d]
      BY WithoutIs
    <2>3. /\ DOMAIN codes' = DOMAIN kept \cup {c} /\ codes'[c] = claim
          /\ \A d \in DOMAIN kept : d # c => codes'[d] = kept[d]
      <3>1. codes' = With(kept, c, claim)
        BY <1>3 DEF AskForCode
      <3> HIDE DEF claim, kept
      <3>2. QED
        BY <3>1 DEF With
    <2>4. UNCHANGED <<cookies, req>>
      BY <1>3 DEF AskForCode
    <2>5. claim.left = CodeTTL /\ claim.since = 0 /\ claim.code = c
      OBVIOUS
    <2> HIDE DEF claim, kept
    <2>6. QED
      BY <2>1, <2>2, <2>3, <2>4, <2>5 DEF Sessions
  <1>4. ASSUME NEW r \in Requests, NEW c \in DOMAIN codes, Redeem(r, c)
        PROVE  Sessions'
    <2>1. /\ DOMAIN codes' = DOMAIN codes \ {c}
          /\ \A d \in DOMAIN codes' : codes'[d] = codes[d]
      <3>1. codes' = Without(codes, {c})
        BY <1>4 DEF Redeem
      <3>2. QED
        BY <3>1 DEF Without
    <2>2. UNCHANGED cookies
      BY <1>4 DEF Redeem
    <2>3. CASE UNCHANGED req
      BY <2>1, <2>2, <2>3 DEF Sessions
    <2>4. CASE codes[c].left >= 0 /\ Become(r, [stage |-> "mint", code |-> c, grant |-> codes[c]])
      <3>1. /\ \A x \in Requests \ {r} : req'[x] = req[x]
            /\ req'[r].grant = codes[c] /\ req'[r].code = c
        BY <2>4 DEF Become, Stages
      <3>2. codes[c].since <= CodeTTL
        BY <2>4 DEF Sessions, Earned, Claims
      <3>3. QED
        BY <2>1, <2>2, <3>1, <3>2 DEF Sessions
    <2>5. QED
      BY <1>4, <2>3, <2>4 DEF Redeem
  <1>5. ASSUME NEW r \in Requests, Mint(r)
        PROVE  Sessions'
    <2> DEFINE grant == req[r].grant
               cookie == [grant EXCEPT !.left = TtlFor(grant.scope)]
    <2>1. Earned(grant) /\ grant.since <= CodeTTL
      BY <1>5 DEF Mint, Sessions
    <2>2. TtlFor(grant.scope) \in Nat \ {0}
      BY DEF TtlFor
    <2>3. /\ cookie \in Claims /\ cookie.scope = grant.scope /\ cookie.asAdmin = grant.asAdmin
          /\ cookie.left = TtlFor(grant.scope) /\ cookie.since = grant.since
      BY <2>1, <2>2 DEF Earned, Claims
    <2>4. cookies' = cookies \cup {cookie} /\ codes' = codes /\ Become(r, Idle)
      BY <1>5 DEF Mint
    <2>5. \A x \in Requests : req'[x].stage = "mint" => req'[x] = req[x]
      BY <2>4 DEF Become, Idle, Stages
    <2>6. cookie.left + cookie.since <= CodeTTL + TtlFor(cookie.scope)
      BY <2>1, <2>2, <2>3 DEF Earned, Claims
    <2> HIDE DEF cookie, grant
    <2>7. Earned(cookie) /\ cookie.left \in 1..TtlFor(cookie.scope)
      BY <2>1, <2>2, <2>3 DEF Earned
    <2>8. QED
      BY <2>4, <2>5, <2>6, <2>7 DEF Sessions
  <1>6. CASE \E c \in cookies : Logout(c)
    BY <1>6 DEF Logout, Sessions
  <1>7. CASE Tick
    <2>1. ASSUME NEW c, Earned(c), c.left \in Int
          PROVE  /\ Earned(Older(c)) /\ Older(c).left = c.left - 1 /\ Older(c).since = c.since + 1
                 /\ Older(c).scope = c.scope /\ Older(c).code = c.code
      <3>1. c \in Claims /\ c.left - 1 \in Int /\ c.since + 1 \in Nat
        BY <2>1 DEF Earned, Claims
      <3>2. Older(c) \in Claims
        BY <3>1 DEF Older, Claims
      <3>3. QED
        BY <2>1, <3>1, <3>2 DEF Older, Earned, Claims
    <2>2. \A r \in Requests : req'[r].stage # "mint"
      BY <1>7 DEF Tick
    <2>3. DOMAIN codes' = DOMAIN codes /\ \A c \in DOMAIN codes :
             codes'[c] = IF codes[c].left < 0 THEN codes[c] ELSE Older(codes[c])
      BY <1>7 DEF Tick
    <2>4. ASSUME NEW c \in DOMAIN codes
          PROVE  /\ Earned(codes'[c])
                 /\ codes'[c].left \in -1..CodeTTL
                 /\ codes'[c].left + codes'[c].since = CodeTTL
                 /\ codes'[c].code = c
      <3>1. Earned(codes[c]) /\ codes[c].left \in -1..CodeTTL /\ codes[c].since \in Nat
            /\ codes[c].left + codes[c].since = CodeTTL /\ codes[c].code = c
        BY DEF Sessions, Earned, Claims
      <3>2. CASE codes[c].left < 0
        BY <2>3, <3>1, <3>2
      <3>3. CASE ~(codes[c].left < 0)
        BY <2>1, <2>3, <3>1, <3>3
      <3>4. QED
        BY <3>2, <3>3
    <2>5. ASSUME NEW d \in cookies'
          PROVE  /\ Earned(d)
                 /\ d.left \in 1..TtlFor(d.scope)
                 /\ d.left + d.since <= CodeTTL + TtlFor(d.scope)
      <3>1. PICK c \in cookies : d = Older(c) /\ d.left > 0
        BY <1>7 DEF Tick
      <3>2. Earned(c) /\ c.left \in 1..TtlFor(c.scope) /\ c.since \in Nat
            /\ c.left + c.since <= CodeTTL + TtlFor(c.scope)
        BY DEF Sessions, Earned, Claims
      <3>3. TtlFor(c.scope) \in Nat
        BY DEF TtlFor
      <3>4. QED
        BY <2>1, <3>1, <3>2, <3>3
    <2>6. QED
      BY <2>2, <2>3, <2>4, <2>5 DEF Sessions
  <1>8. CASE Restart
    <2>1. DOMAIN codes' = {}
      <3>1. codes' = Without(codes, Codes)
        BY <1>8 DEF Restart
      <3>2. QED
        BY <3>1 DEF Without, Sessions
    <2>2. QED
      BY <1>8, <2>1 DEF Restart, Sessions, Idle
  <1>9. ASSUME NEW r \in Requests,
               \/ StartCli(r) \/ InsertToken(r) \/ Acts(r)
               \/ \E t : AdminByBearer(r, t)
               \/ \E c : AdminByCookie(r, c)
               \/ \E u : IssueToken(r, u)
        PROVE  Sessions'
    <2>1. UNCHANGED <<codes, cookies>>
      BY <1>9 DEF StartCli, InsertToken, Acts, AdminByBearer, AdminByCookie, IssueToken
    <2>2. \E record : record.stage # "mint" /\ Become(r, record)
      BY <1>9 DEF StartCli, InsertToken, Acts, AdminByBearer, AdminByCookie, IssueToken, Idle
    <2>3. QED
      BY <1>2, <2>1, <2>2
  <1>10. CASE UNCHANGED vars
    BY <1>1, <1>10 DEF vars
  <1>11. QED
    BY <1>3, <1>4, <1>5, <1>6, <1>7, <1>8, <1>9, <1>10
       DEF Next, CreateUser, PatchUser, DeleteUser, RevokeToken

(***************************************************************************)
(* The theorems on types and sessions.                                     *)
(***************************************************************************)

LEMMA Always == Spec => []IInv
  <1>1. IInv /\ [Next]_vars => IInv'
    BY StepAccounts, StepStages, StepSessions DEF IInv
  <1>2. QED
    BY InitIInv, <1>1, PTL DEF Spec

(* Tables, codes and cookies hold what they are meant to hold.             *)
THEOREM AccessTypeCorrect == Spec => []TypeOK
  BY Always, TypesFollow, PTL

(* No session, however it came about, outlives what its bearer earned, and *)
(* none has the administration scope unless the owner of its bearer was an *)
(* administrator when the code was asked for.                              *)
THEOREM SessionsAreEarned == Spec => []SessionIsEarned
  <1>1. IInv => SessionIsEarned
    <2> SUFFICES ASSUME IInv, NEW c \in cookies
                 PROVE  /\ c.since < CodeTTL + TtlFor(c.scope)
                        /\ c.scope = "admin" => c.asAdmin
      BY DEF SessionIsEarned, TtlFor
    <2>1. Earned(c) /\ c.left \in 1..TtlFor(c.scope) /\ c.since \in Nat
          /\ c.left + c.since <= CodeTTL + TtlFor(c.scope)
      BY DEF IInv, Sessions, Earned, Claims
    <2>2. TtlFor(c.scope) \in Nat /\ CodeTTL \in Nat
      BY LifetimesAssumption DEF TtlFor
    <2>3. QED
      BY <2>1, <2>2 DEF Earned
  <1>2. QED
    BY <1>1, Always, PTL

(***************************************************************************)
(* An administrator remains.  Who acts without a race is an enabled        *)
(* administrator; whoever he changes, demotes or deletes, it is not he.    *)
(***************************************************************************)
LEMMA AdminStays ==
  ASSUME Accounts, AdminRemains, [Next]_vars
  PROVE  AdminRemains'
  <1> SUFFICES ASSUME ~raced'
               PROVE  Administrators' # {}
    BY DEF AdminRemains
  <1>1. CASE UNCHANGED <<users, raced>>
    BY <1>1 DEF AdminRemains, Administrators
  <1>2. ASSUME NEW r \in Requests, Acts(r),
               NEW u \in DOMAIN users', users'[u].admin /\ ~users'[u].disabled
        PROVE  Administrators' # {}
    BY <1>2 DEF Administrators
  <1>3. ASSUME NEW r \in Requests, Acts(r)
        PROVE  /\ req[r].user \in DOMAIN users
               /\ users[req[r].user].admin /\ ~users[req[r].user].disabled
    BY <1>3 DEF Acts, Administrators
  <1>4. ASSUME NEW r \in Requests, NEW isAdmin \in BOOLEAN, CreateUser(r, isAdmin)
        PROVE  Administrators' # {}
    <2>1. Acts(r)
      BY <1>4 DEF CreateUser
    <2>2. NextId(users) # req[r].user
      BY <1>3, <2>1, RowsAre
    <2>3. req[r].user \in DOMAIN users' /\ users'[req[r].user] = users[req[r].user]
      BY <1>3, <1>4, <2>1, <2>2 DEF CreateUser, With
    <2>4. QED
      BY <1>2, <1>3, <2>1, <2>3
  <1>5. ASSUME NEW r \in Requests, NEW u \in DOMAIN users, NEW field \in {"admin", "disabled"},
               NEW value \in BOOLEAN, PatchUser(r, u, field, value)
        PROVE  Administrators' # {}
    <2>1. Acts(r)
      BY <1>5 DEF PatchUser
    <2>2. DOMAIN users' = DOMAIN users
      BY <1>5 DEF PatchUser
    <2>3. users'[req[r].user].admin /\ ~users'[req[r].user].disabled
      <3>1. users[req[r].user] \in UserRows
        BY <1>3, <2>1, RowsAre
      <3>2. CASE u # req[r].user
        BY <1>3, <1>5, <2>1, <3>2 DEF PatchUser
      <3>3. CASE u = req[r].user /\ field = "disabled"
        BY <1>3, <1>5, <2>1, <3>1, <3>3 DEF PatchUser, UserRows
      <3>4. CASE u = req[r].user /\ field = "admin"
        BY <1>3, <1>5, <2>1, <3>1, <3>4 DEF PatchUser, UserRows
      <3>5. QED
        BY <3>2, <3>3, <3>4
    <2>4. QED
      BY <1>2, <1>3, <2>1, <2>2, <2>3
  <1>6. ASSUME NEW r \in Requests, NEW u \in DOMAIN users, DeleteUser(r, u)
        PROVE  Administrators' # {}
    <2>1. Acts(r)
      BY <1>6 DEF DeleteUser
    <2>2. req[r].user \in DOMAIN users' /\ users'[req[r].user] = users[req[r].user]
      BY <1>3, <1>6, <2>1 DEF DeleteUser, Without
    <2>3. QED
      BY <1>2, <1>3, <2>1, <2>2
  <1>7. ASSUME NEW r \in Requests, NEW t \in DOMAIN tokens, RevokeToken(r, t)
        PROVE  Administrators' # {}
    <2>1. Acts(r) /\ users' = users
      BY <1>7 DEF RevokeToken
    <2>2. QED
      BY <1>2, <1>3, <2>1
  <1>8. QED
    BY <1>1, <1>4, <1>5, <1>6, <1>7
       DEF Next, vars, StartCli, AdminByBearer, AdminByCookie, IssueToken, InsertToken, Redeem,
           Mint, AskForCode, Logout, Tick, Restart

(* As long as nobody acts on a right withdrawn in the meantime and the     *)
(* command line is not used, an enabled administrator remains.             *)
THEOREM AnAdministratorRemains == Spec => []AdminRemains
  <1>1. Init => AdminRemains
    BY DEF Init, AdminRemains, Administrators
  <1>2. IInv /\ AdminRemains /\ [Next]_vars => AdminRemains'
    BY AdminStays DEF IInv
  <1>3. QED
    BY <1>1, <1>2, Always, PTL DEF Spec

(***************************************************************************)
(* A revocation lasts.  A row that stays is revoked once and for all and   *)
(* keeps its owner; an owner who stays is enabled by a patch only, and an  *)
(* owner who goes takes the tokens with him.                               *)
(***************************************************************************)
LEMMA OwnersStep ==
  ASSUME Accounts, TokensHaveOwners, [Next]_vars
  PROVE  TokensHaveOwners'
  <1>1. CASE UNCHANGED <<users, tokens>>
    BY <1>1 DEF TokensHaveOwners
  <1>2. ASSUME NEW r \in Requests, NEW isAdmin \in BOOLEAN, CreateUser(r, isAdmin)
        PROVE  TokensHaveOwners'
    BY <1>2 DEF CreateUser, With, TokensHaveOwners
  <1>3. ASSUME NEW r \in Requests, NEW u \in DOMAIN users, NEW field \in {"admin", "disabled"},
               NEW value \in BOOLEAN, PatchUser(r, u, field, value)
        PROVE  TokensHaveOwners'
    BY <1>3 DEF PatchUser, TokensHaveOwners
  <1>4. ASSUME NEW r \in Requests, NEW u \in DOMAIN users, DeleteUser(r, u)
        PROVE  TokensHaveOwners'
    BY <1>4 DEF DeleteUser, Without, TokensHaveOwners
  <1>5. ASSUME NEW r \in Requests, NEW t \in DOMAIN tokens, RevokeToken(r, t)
        PROVE  TokensHaveOwners'
    <2>1. tokens[t] \in TokenRows
      BY RowsAre
    <2>2. \A x \in DOMAIN tokens : tokens'[x].user = tokens[x].user
      BY <1>5, <2>1 DEF RevokeToken, TokenRows
    <2>3. DOMAIN tokens' = DOMAIN tokens /\ users' = users
      BY <1>5 DEF RevokeToken
    <2>4. QED
      BY <2>2, <2>3 DEF TokensHaveOwners
  <1>6. ASSUME NEW r \in Requests, InsertToken(r)
        PROVE  TokensHaveOwners'
    BY <1>6 DEF InsertToken, With, TokensHaveOwners
  <1>7. QED
    BY <1>1, <1>2, <1>3, <1>4, <1>5, <1>6
       DEF Next, vars, StartCli, AdminByBearer, AdminByCookie, IssueToken, Redeem, Mint,
           AskForCode, Logout, Tick, Restart

(* Every token belongs to a user that exists.                              *)
THEOREM TokensKeepTheirOwners == Spec => []TokensHaveOwners
  <1>1. Init => TokensHaveOwners
    BY DEF Init, TokensHaveOwners
  <1>2. IInv /\ TokensHaveOwners /\ [Next]_vars => TokensHaveOwners'
    BY OwnersStep DEF IInv
  <1>3. QED
    BY <1>1, <1>2, Always, PTL DEF Spec

(* What a step may do to the row of a token.                               *)
LEMMA TokensStep ==
  ASSUME Accounts, [Next]_vars, NEW t \in DOMAIN tokens, t \in DOMAIN tokens'
  PROVE  /\ tokens'[t].user = tokens[t].user
         /\ tokens[t].revoked => tokens'[t].revoked
  <1>1. CASE UNCHANGED tokens
    BY <1>1
  <1>2. ASSUME NEW r \in Requests, NEW u \in DOMAIN users, DeleteUser(r, u)
        PROVE  tokens'[t] = tokens[t]
    BY <1>2 DEF DeleteUser, Without
  <1>3. ASSUME NEW r \in Requests, NEW x \in DOMAIN tokens, RevokeToken(r, x)
        PROVE  /\ tokens'[t].user = tokens[t].user
               /\ tokens[t].revoked => tokens'[t].revoked
    <2>1. tokens[x] \in TokenRows
      BY RowsAre
    <2>2. QED
      BY <1>3, <2>1 DEF RevokeToken, TokenRows
  <1>4. ASSUME NEW r \in Requests, InsertToken(r)
        PROVE  tokens'[t] = tokens[t]
    BY <1>4, RowsAre DEF InsertToken, With
  <1>5. QED
    BY <1>1, <1>2, <1>3, <1>4
       DEF Next, vars, StartCli, AdminByBearer, AdminByCookie, IssueToken, Redeem, Mint,
           AskForCode, Logout, Tick, Restart, CreateUser, PatchUser

(* What is cut off is accepted again only when an administrator enables    *)
(* the account, or when the id of a deleted row is handed out anew.        *)
THEOREM RevocationLasts == Spec => RevokedForGood
  <1>1. ASSUME Accounts, TokensHaveOwners, [Next]_vars
        PROVE  [ /\ \A t \in 1..MaxTokens :
                      BearerAccepted(t)' =>
                         \/ BearerAccepted(t)
                         \/ t \notin DOMAIN tokens
                         \/ ~tokens[t].revoked /\ users[tokens[t].user].disabled
                 /\ \A c \in cookies \cap cookies' :
                      CookieAccepted(c)' =>
                         \/ CookieAccepted(c)
                         \/ c.token \notin DOMAIN tokens
                         \/ ~tokens[c.token].revoked /\ users[c.user].disabled ]_vars
    <2>1. ASSUME NEW t \in DOMAIN tokens, t \in DOMAIN tokens', ~tokens'[t].revoked
          PROVE  /\ ~tokens[t].revoked /\ tokens'[t].user = tokens[t].user
                 /\ tokens[t].user \in DOMAIN users
      BY <1>1, <2>1, TokensStep DEF TokensHaveOwners
    <2>2. ASSUME NEW t \in 1..MaxTokens, BearerAccepted(t)', t \in DOMAIN tokens
          PROVE  \/ BearerAccepted(t)
                 \/ ~tokens[t].revoked /\ users[tokens[t].user].disabled
      BY <2>1, <2>2 DEF BearerAccepted, Enabled
    <2>3. ASSUME NEW c \in cookies \cap cookies', CookieAccepted(c)', c.token \in DOMAIN tokens
          PROVE  \/ CookieAccepted(c)
                 \/ ~tokens[c.token].revoked /\ users[c.user].disabled
      BY <2>1, <2>3 DEF CookieAccepted, Enabled
    <2>4. QED
      BY <2>2, <2>3
  <1>2. QED
    BY <1>1, Always, TokensKeepTheirOwners, PTL DEF Spec, IInv, RevokedForGood

(***************************************************************************)
(* A code works once.  It has one place: the store, a request, a cookie.   *)
(***************************************************************************)
Mints(r) == req[r].stage = "mint"

Placed ==
    /\ \A r \in Requests : Mints(r) => req[r].code \notin DOMAIN codes
    /\ \A r, s \in Requests : Mints(r) /\ Mints(s) /\ req[r].code = req[s].code => r = s
    /\ \A k \in cookies : /\ k.code \notin DOMAIN codes
                          /\ \A r \in Requests : Mints(r) => req[r].code # k.code
    /\ \A k, l \in cookies : k.code = l.code => k = l

LEMMA OnePlace == Placed => CodeWorksOnce
  <1> SUFFICES ASSUME Placed, NEW c \in Codes
               PROVE  (IF c \in DOMAIN codes THEN 1 ELSE 0)
                      + Cardinality({r \in Requests : req[r].stage = "mint" /\ req[r].code = c})
                      + Cardinality({k \in cookies : k.code = c}) <= 1
    BY DEF CodeWorksOnce
  <1> DEFINE R == {r \in Requests : req[r].stage = "mint" /\ req[r].code = c}
             K == {k \in cookies : k.code = c}
  <1>1. Cardinality({}) = 0
    BY FS_EmptySet
  <1>2. \A x : Cardinality({x}) = 1
    BY FS_Singleton
  <1>3. R = {} \/ \E x : R = {x}
    BY DEF Placed, Mints
  <1>4. K = {} \/ \E x : K = {x}
    BY DEF Placed
  <1>5. c \in DOMAIN codes => R = {} /\ K = {}
    BY DEF Placed, Mints
  <1>6. K # {} => R = {}
    BY DEF Placed, Mints
  <1> HIDE DEF R, K
  <1>7. Cardinality(R) \in {0, 1} /\ Cardinality(K) \in {0, 1}
    BY <1>1, <1>2, <1>3, <1>4
  <1>8. /\ c \in DOMAIN codes => Cardinality(R) = 0 /\ Cardinality(K) = 0
        /\ Cardinality(K) = 1 => Cardinality(R) = 0
    BY <1>1, <1>5, <1>6
  <1>9. (IF c \in DOMAIN codes THEN 1 ELSE 0) + Cardinality(R) + Cardinality(K) <= 1
    BY <1>7, <1>8
  <1>10. QED
    BY <1>9 DEF R, K

LEMMA PlacedStep ==
  ASSUME Sessions, Stages, Placed, [Next]_vars
  PROVE  Placed'
  <1>1. ASSUME UNCHANGED <<codes, cookies>>,
               \A r \in Requests : Mints(r)' => req'[r] = req[r]
        PROVE  Placed'
    BY <1>1 DEF Placed, Mints
  <1>2. ASSUME NEW t \in DOMAIN tokens, NEW scope \in Scopes, NEW c \in Codes,
               AskForCode(t, scope, c)
        PROVE  Placed'
    <2>1. DOMAIN codes' \subseteq DOMAIN codes \cup {c}
      BY <1>2 DEF AskForCode, With, Without
    <2>2. /\ \A k \in cookies : k.code # c
          /\ \A r \in Requests : Mints(r) => req[r].code # c
      BY <1>2 DEF AskForCode, InUse, Mints
    <2>3. UNCHANGED <<cookies, req>>
      BY <1>2 DEF AskForCode
    <2>4. QED
      BY <2>1, <2>2, <2>3 DEF Placed, Mints
  <1>3. ASSUME NEW r \in Requests, NEW c \in DOMAIN codes, Redeem(r, c)
        PROVE  Placed'
    <2>1. DOMAIN codes' = DOMAIN codes \ {c} /\ cookies' = cookies
      BY <1>3 DEF Redeem, Without
    <2>2. CASE UNCHANGED req
      BY <2>1, <2>2 DEF Placed, Mints
    <2>3. CASE Become(r, [stage |-> "mint", code |-> c, grant |-> codes[c]])
      <3>1. req'[r].code = c /\ \A x \in Requests \ {r} : req'[x] = req[x]
        BY <2>3 DEF Become, Stages
      <3>2. QED
        BY <2>1, <3>1 DEF Placed, Mints
    <2>4. QED
      BY <1>3, <2>2, <2>3 DEF Redeem
  <1>4. ASSUME NEW r \in Requests, Mint(r)
        PROVE  Placed'
    <2> DEFINE cookie == [req[r].grant EXCEPT !.left = TtlFor(req[r].grant.scope)]
    <2>1. cookies' = cookies \cup {cookie} /\ codes' = codes
      BY <1>4 DEF Mint
    <2>2. cookie.code = req[r].code
      BY <1>4 DEF Mint, Sessions, Earned, Claims
    <2>3. /\ ~Mints(r)' /\ Mints(r)
          /\ \A x \in Requests \ {r} : req'[x] = req[x]
      BY <1>4 DEF Mint, Mints, Become, Idle, Stages
    <2> HIDE DEF cookie
    <2>4. QED
      BY <2>1, <2>2, <2>3 DEF Placed, Mints
  <1>5. CASE \E c \in cookies : Logout(c)
    BY <1>5 DEF Logout, Placed, Mints
  <1>6. CASE Tick
    <2>1. DOMAIN codes' = DOMAIN codes /\ \A r \in Requests : ~Mints(r)'
      BY <1>6 DEF Tick, Mints
    <2>2. \A d \in cookies' : \E c \in cookies : d = Older(c)
      BY <1>6 DEF Tick
    <2>3. \A c \in cookies : Older(c).code = c.code
      BY DEF Sessions, Earned, Claims, Older
    <2>4. QED
      BY <2>1, <2>2, <2>3 DEF Placed
  <1>7. CASE Restart
    <2>1. DOMAIN codes' = {} /\ cookies' = cookies
      BY <1>7 DEF Restart, Without, Sessions
    <2>2. \A r \in Requests : ~Mints(r)'
      BY <1>7 DEF Restart, Mints, Idle
    <2>3. QED
      BY <2>1, <2>2 DEF Placed
  <1>8. ASSUME NEW r \in Requests,
               \/ StartCli(r) \/ InsertToken(r) \/ Acts(r)
               \/ \E t : AdminByBearer(r, t)
               \/ \E c : AdminByCookie(r, c)
               \/ \E u : IssueToken(r, u)
        PROVE  Placed'
    <2>1. UNCHANGED <<codes, cookies>>
      BY <1>8 DEF StartCli, InsertToken, Acts, AdminByBearer, AdminByCookie, IssueToken
    <2>2. \E new : new.stage # "mint" /\ Become(r, new)
      BY <1>8 DEF StartCli, InsertToken, Acts, AdminByBearer, AdminByCookie, IssueToken, Idle
    <2>3. \A x \in Requests : Mints(x)' => req'[x] = req[x]
      BY <2>2 DEF Become, Mints, Stages
    <2>4. QED
      BY <1>1, <2>1, <2>3
  <1>9. CASE UNCHANGED vars
    BY <1>1, <1>9 DEF vars
  <1>10. QED
    BY <1>2, <1>3, <1>4, <1>5, <1>6, <1>7, <1>8, <1>9
       DEF Next, CreateUser, PatchUser, DeleteUser, RevokeToken

(* However redemptions race, a code never becomes two sessions.            *)
THEOREM CodesWorkOnce == Spec => []CodeWorksOnce
  <1>1. Init => Placed
    BY DEF Init, Placed, Mints, Idle, Empty
  <1>2. IInv /\ Placed /\ [Next]_vars => Placed'
    BY PlacedStep DEF IInv
  <1>3. QED
    BY <1>1, <1>2, Always, OnePlace, PTL DEF Spec

==============================================================================
