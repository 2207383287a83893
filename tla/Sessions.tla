------------------------------ MODULE Sessions ------------------------------
(***************************************************************************)
(* Accounts and sessions: registration, login, refresh with rotation of    *)
(* the refresh token, logout, and the administration of accounts.          *)
(*                                                                         *)
(* A session is a refresh token, a row of the database that one browser    *)
(* holds as a cookie, and the claims of access tokens, which the           *)
(* middleware believes until they expire. Every request runs in its own    *)
(* goroutine, without a transaction, so requests interleave between their  *)
(* statements. One browser, whose tabs share the cookie, sends them all.   *)
(***************************************************************************)
EXTENDS Naturals, Sequences, FiniteSets

CONSTANTS
    Emails, NoEmail,
    Requests,   \* the requests that can be under way at a time
    MaxUsers,   \* bound: rows of the users table
    MaxTokens,  \* bound: refresh tokens generated
    MaxEvents   \* bound: administrative changes, failed statements, lost answers, expiries

SessionsAssumption ==
    NoEmail \notin Emails /\ MaxUsers \in Nat \ {0} /\ MaxTokens \in Nat \ {0} /\ MaxEvents \in Nat

VARIABLES
    users,      \* the rows of the users table, the soft-deleted ones included
    tokens,     \* the refresh tokens, in the order in which they were generated
    claims,     \* user and role of the access tokens that have not expired
    jar,        \* the cookies of the browser
    req,        \* the requests: what each has read and does next
    events,     \* counts what MaxEvents bounds
    spent,      \* history: refresh tokens whose successor reached the browser
    signedOut   \* history: did the browser log out after it last got a cookie?

vars == <<users, tokens, claims, jar, req, events, spent, signedOut>>

Role == {"admin", "member"}

User == [email : Emails \cup {NoEmail}, role : Role, active : BOOLEAN, force : BOOLEAN, deleted : BOOLEAN]

NewUser(e, role, force) ==
    [email |-> e, role |-> role, active |-> TRUE, force |-> force, deleted |-> FALSE]

\* "expired" is a row whose expires_at has passed.
\* History: off says that the account was off from the start to the end of the request.
Token == [user : 1 .. MaxUsers, row : {"stored", "expired", "gone"}, off : BOOLEAN]

Stage == {"idle", "count", "create", "find", "revoke", "issue", "answer", "clear", "save"}

Op == {"none", "register", "setup", "login", "refresh", "logout", "update"}

NoUser == NewUser(NoEmail, "member", FALSE)

Idle == [op |-> "none", at |-> "idle", user |-> 0, row |-> NoUser, token |-> 0, new |-> 0,
         off |-> FALSE]

TypeOK ==
    /\ users \in Seq(User) /\ Len(users) <= MaxUsers
    /\ tokens \in Seq(Token) /\ Len(tokens) <= MaxTokens
    /\ claims \subseteq [user : 1 .. MaxUsers, role : Role]
    /\ jar \subseteq [path : {"/"}, token : 1 .. MaxTokens]
    /\ req \in [Requests -> [op : Op, at : Stage, user : 0 .. MaxUsers, row : User,
                             token : 0 .. MaxTokens, new : 0 .. MaxTokens, off : BOOLEAN]]
    /\ events \in 0 .. MaxEvents
    /\ spent \subseteq 1 .. MaxTokens
    /\ signedOut \in BOOLEAN

Init ==
    /\ users = <<>> /\ tokens = <<>>
    /\ claims = {} /\ jar = {}
    /\ req = [p \in Requests |-> Idle]
    /\ events = 0 /\ spent = {} /\ signedOut = FALSE

Event == events < MaxEvents /\ events' = events + 1

-----------------------------------------------------------------------------
(* The stores. *)

\* Queries of a soft-deleted model see the live rows only.
Live == {i \in DOMAIN users : ~users[i].deleted}

FindByEmail(e) == {i \in Live : users[i].email = e}

FindByID(i) == {i} \cap Live

Count == Cardinality(Live)

\* The unique index on the email covers the soft-deleted rows, too.
CanCreate(u) == \A i \in DOMAIN users : users[i].email # u.email

\* Is the account deleted or not active?
Off(us, i) == i \in DOMAIN us => us[i].deleted \/ ~us[i].active

ValidateRefreshToken(t) == tokens[t].row = "stored"

\* DELETE by token; its error is ignored by every caller, so that it may not happen.
RevokeRefreshToken(t) ==
    \/ tokens' = [tokens EXCEPT ![t].row = "gone"] /\ UNCHANGED events
    \/ Event /\ UNCHANGED tokens

RevokeAllUserTokens(i) ==
    \/ /\ tokens' = [t \in DOMAIN tokens |->
                       IF tokens[t].user = i THEN [tokens[t] EXCEPT !.row = "gone"] ELSE tokens[t]]
       /\ UNCHANGED events
    \/ Event /\ UNCHANGED tokens

\* Set-Cookie replaces the cookie of the same path.
SetRefreshCookie(t) == {c \in jar : c.path # "/"} \cup {[path |-> "/", token |-> t]}

\* Mutant: The cookie that expires at once has the path of the one that was set: the refused refresh of
\* a slower tab takes the new cookie away.
Mut_ClearRefreshCookie == {c \in jar : c.path # "/"}

\* The cookie that expires at once has another path than the one that was set.
ClearRefreshCookie == {c \in jar : c.path # "/api/v1/auth"}

RequireAuth == claims

RequireAdmin == {c \in RequireAuth : c.role = "admin"}

-----------------------------------------------------------------------------
(* Registration, setup and login. *)

Begin(p, r) == req[p] = Idle /\ req' = [req EXCEPT ![p] = r]

Goto(p, stage) == req' = [req EXCEPT ![p].at = stage]

\* What is left to do is to answer that the cookie is to be cleared.
GotoClear(p, op) == req' = [req EXCEPT ![p] = [Idle EXCEPT !.op = op, !.at = "clear"]]

End(p) == req' = [req EXCEPT ![p] = Idle]

Register(p, e) ==
    /\ FindByEmail(e) = {}
    /\ Begin(p, [Idle EXCEPT !.op = "register", !.at = "count",
                             !.row = NewUser(e, "member", FALSE)])
    /\ UNCHANGED <<users, tokens, claims, jar, events, spent, signedOut>>

\* The role of the new account is decided on a count that the creation does not repeat.
RegisterCount(p) ==
    /\ req[p].at = "count"
    /\ req' = [req EXCEPT ![p].at = "create",
                          ![p].row.role = IF Count = 0 THEN "admin" ELSE "member"]
    /\ UNCHANGED <<users, tokens, claims, jar, events, spent, signedOut>>

SetupAdmin(p, e) ==
    /\ Count = 0
    /\ Begin(p, [Idle EXCEPT !.op = "setup", !.at = "create", !.row = NewUser(e, "admin", FALSE)])
    /\ UNCHANGED <<users, tokens, claims, jar, events, spent, signedOut>>

CreateUser(p) ==
    /\ req[p].at = "create"
    /\ \/ ~CanCreate(req[p].row) /\ End(p) /\ UNCHANGED users
       \/ /\ CanCreate(req[p].row) /\ Len(users) < MaxUsers
          /\ users' = Append(users, req[p].row)
          /\ IF req[p].op = "setup"
             THEN End(p)
             ELSE req' = [req EXCEPT ![p] = [Idle EXCEPT !.op = "register", !.at = "issue",
                                               !.user = Len(users) + 1,
                                               !.row.role = req[p].row.role]]
    /\ UNCHANGED <<tokens, claims, jar, events, spent, signedOut>>

Login(p, e) ==
    /\ \E i \in FindByEmail(e) :
        /\ users[i].active
        /\ Begin(p, [Idle EXCEPT !.op = "login", !.at = "issue", !.user = i,
                                 !.row.role = users[i].role])
    /\ UNCHANGED <<users, tokens, claims, jar, events, spent, signedOut>>

-----------------------------------------------------------------------------
(* Refresh and logout. *)

Refresh(p) ==
    /\ \E c \in jar :
        LET i == tokens[c.token].user IN
        IF ValidateRefreshToken(c.token)
        THEN Begin(p, [Idle EXCEPT !.op = "refresh", !.at = "find", !.token = c.token, !.user = i,
                                   !.off = Off(users, i)])
        ELSE req[p] = Idle /\ GotoClear(p, "refresh")
    /\ UNCHANGED <<users, tokens, claims, jar, events, spent, signedOut>>

\* Mutant: The refresh does not look at the active flag.
Mut_RefreshFind(p) ==
    LET found == FindByID(req[p].user) IN
    /\ req[p].at = "find"
    /\ \/ found = {} /\ GotoClear(p, "refresh") /\ UNCHANGED <<tokens, events>>
       \/ \E i \in found : /\ req' = [req EXCEPT ![p].at = "revoke", ![p].row.role = users[i].role]
                           /\ UNCHANGED <<tokens, events>>
    /\ UNCHANGED <<users, claims, jar, spent, signedOut>>

RefreshFind(p) ==
    LET found == FindByID(req[p].user) IN
    /\ req[p].at = "find"
    /\ \/ found = {} /\ GotoClear(p, "refresh") /\ UNCHANGED <<tokens, events>>
       \/ \E i \in found : /\ ~users[i].active
                           /\ RevokeRefreshToken(req[p].token) /\ GotoClear(p, "refresh")
       \/ \E i \in found : /\ users[i].active
                           /\ req' = [req EXCEPT ![p].at = "revoke", ![p].row.role = users[i].role]
                           /\ UNCHANGED <<tokens, events>>
    /\ UNCHANGED <<users, claims, jar, spent, signedOut>>

RefreshRevoke(p) ==
    /\ req[p].at = "revoke"
    /\ RevokeRefreshToken(req[p].token)
    /\ Goto(p, "issue")
    /\ UNCHANGED <<users, claims, jar, spent, signedOut>>

\* Claims are made of the row that the request has read; a failure of the store leaves none.
IssueTokens(p) ==
    LET r == req[p] IN
    /\ r.at = "issue"
    /\ \/ /\ Len(tokens) < MaxTokens
          /\ tokens' = Append(tokens, [user |-> r.user, row |-> "stored", off |-> r.off])
          /\ claims' = claims \cup {[user |-> r.user, role |-> r.row.role]}
          /\ req' = [req EXCEPT ![p] = [Idle EXCEPT !.op = r.op, !.at = "answer",
                                            !.token = r.token, !.new = Len(tokens) + 1]]
          /\ UNCHANGED events
       \/ /\ IF r.op = "refresh" THEN GotoClear(p, "refresh") ELSE End(p)
          /\ Event /\ UNCHANGED <<tokens, claims>>
    /\ UNCHANGED <<users, jar, spent, signedOut>>

\* The answer reaches the browser.
Answer(p) ==
    /\ req[p].at = "answer"
    /\ jar' = SetRefreshCookie(req[p].new)
    /\ spent' = IF req[p].op = "refresh" THEN spent \cup {req[p].token} ELSE spent
    /\ signedOut' = FALSE
    /\ End(p)
    /\ UNCHANGED <<users, tokens, claims, events>>

AnswerCleared(p) ==
    /\ req[p].at = "clear"
    /\ jar' = ClearRefreshCookie
    /\ signedOut' = (signedOut \/ req[p].op = "logout")
    /\ End(p)
    /\ UNCHANGED <<users, tokens, claims, events, spent>>

\* The connection breaks before the answer arrives.
AnswerLost(p) ==
    /\ req[p].at \in {"answer", "clear"}
    /\ Event
    /\ End(p)
    /\ UNCHANGED <<users, tokens, claims, jar, spent, signedOut>>

Logout(p) ==
    /\ \E c \in jar : RevokeRefreshToken(c.token)
    /\ req[p] = Idle /\ GotoClear(p, "logout")
    /\ UNCHANGED <<users, claims, jar, spent, signedOut>>

LogoutAll(p) ==
    /\ \E c \in RequireAuth : RevokeAllUserTokens(c.user)
    /\ req[p] = Idle /\ GotoClear(p, "logout")
    /\ UNCHANGED <<users, claims, jar, spent, signedOut>>

RequestStep(p) ==
    \/ \E e \in Emails : Register(p, e) \/ SetupAdmin(p, e) \/ Login(p, e)
    \/ RegisterCount(p) \/ CreateUser(p) \/ IssueTokens(p)
    \/ Refresh(p) \/ RefreshFind(p) \/ RefreshRevoke(p)
    \/ Answer(p) \/ AnswerCleared(p) \/ AnswerLost(p)
    \/ Logout(p) \/ LogoutAll(p)

-----------------------------------------------------------------------------
(* Administration of accounts, and passwords. *)

\* UpdateUser reads the row, applies the changes and saves the whole row.
Update(p, i, role, active) ==
    /\ Event
    /\ RequireAdmin # {}
    /\ i \in Live
    /\ Begin(p, [Idle EXCEPT !.op = "update", !.at = "save", !.user = i,
                             !.row = [users[i] EXCEPT !.role = role, !.active = active]])
    /\ UNCHANGED <<users, tokens, claims, jar, spent, signedOut>>

\* Save is an upsert: an account deleted since the read is there again.
SaveUser(p) ==
    LET saved == [users EXCEPT ![req[p].user] = req[p].row] IN
    /\ req[p].at = "save"
    /\ users' = saved
    /\ req' = [q \in Requests |->
                 IF q = p THEN Idle
                 ELSE [req[q] EXCEPT !.off = @ /\ Off(saved, req[q].user)]]
    /\ UNCHANGED <<tokens, claims, jar, events, spent, signedOut>>

AdminCreate(e, role) ==
    LET u == NewUser(e, role, TRUE) IN
    /\ Event
    /\ RequireAdmin # {}
    /\ CanCreate(u) /\ Len(users) < MaxUsers
    /\ users' = Append(users, u)
    /\ UNCHANGED <<tokens, claims, jar, req, spent, signedOut>>

Delete(i) ==
    /\ Event
    /\ RequireAdmin # {}
    /\ i \in Live
    /\ users' = [users EXCEPT ![i].deleted = TRUE]
    /\ UNCHANGED <<tokens, claims, jar, req, spent, signedOut>>

ResetPassword(i) ==
    /\ Event
    /\ RequireAdmin # {}
    /\ i \in Live
    /\ users' = [users EXCEPT ![i].force = TRUE]
    /\ UNCHANGED <<tokens, claims, jar, req, spent, signedOut>>

ChangePassword(i) ==
    /\ Event
    /\ \E c \in RequireAuth : c.user = i
    /\ i \in Live
    /\ users' = [users EXCEPT ![i].force = FALSE]
    /\ UNCHANGED <<tokens, claims, jar, req, spent, signedOut>>

AdminStep ==
    \/ \E i \in DOMAIN users :
        \/ Delete(i) \/ ResetPassword(i) \/ ChangePassword(i)
        \/ \E p \in Requests, role \in Role, active \in BOOLEAN : Update(p, i, role, active)
    \/ \E p \in Requests : SaveUser(p)
    \/ \E e \in Emails, role \in Role : AdminCreate(e, role)

-----------------------------------------------------------------------------
(* Time. *)

ExpireRefreshToken(t) ==
    /\ Event
    /\ tokens[t].row = "stored"
    /\ tokens' = [tokens EXCEPT ![t].row = "expired"]
    /\ UNCHANGED <<users, claims, jar, req, spent, signedOut>>

ExpireClaims(c) ==
    /\ Event
    /\ claims' = claims \ {c}
    /\ UNCHANGED <<users, tokens, jar, req, spent, signedOut>>

Expire ==
    \/ \E t \in DOMAIN tokens : ExpireRefreshToken(t)
    \/ \E c \in claims : ExpireClaims(c)

Next == (\E p \in Requests : RequestStep(p)) \/ AdminStep \/ Expire

Spec == Init /\ [][Next]_vars

-----------------------------------------------------------------------------
(* Properties. *)

\* A request that finds the account off from its start to its end opens no session, although
\* it looks at the token, at the account and at the store in separate statements.
OffAccountsGetNoSession == \A t \in DOMAIN tokens : ~tokens[t].off

\* Tabs that refresh at the same time do not log the browser out: whatever the order of the
\* statements and of the answers, the cookie that stays is not one the browser has exchanged
\* for a newer one, and only a logout takes the cookie away.
TabsKeepTheSession ==
    /\ \A c \in jar : c.token \notin spent
    /\ spent # {} /\ jar = {} => signedOut
=============================================================================
