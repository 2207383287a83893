---------------------------- MODULE AccessProofs ----------------------------
(***************************************************************************)
(* What users, workers and git providers are let do, for any accounts,     *)
(* requests, certificates, deliveries, lines and bounds: the invariant of  *)
(* each component of MCAccess, and the properties that follow from it.     *)
(***************************************************************************)
EXTENDS MCAccess, TLAPS

LEMMA ElementTypes == ASSUME NEW D, NEW s \in Seq(D) PROVE \A k \in DOMAIN s : s[k] \in D
  OBVIOUS

-----------------------------------------------------------------------------
(* Sessions: types, and references that lead somewhere *)

\* Requests, tokens, claims and cookies that refer to nu accounts and nt tokens.
ReqOf(nu, nt) == [op : S!Op, at : S!Stage, user : 0 .. nu, row : S!User, token : 0 .. nt,
                  new : 0 .. nt, off : BOOLEAN]
TokenOf(nu)   == [user : 1 .. nu, row : {"stored", "expired", "gone"}, off : BOOLEAN]
ClaimOf(nu)   == [user : 1 .. nu, role : S!Role]
CookieOf(nt)  == [path : {"/"}, token : 1 .. nt]

\* A request that is about to use its account or its tokens has them, and one that has looked
\* at its account does not carry an account that was off.
Placed(r) ==
    /\ r.at \in {"find", "revoke", "issue", "save"} => r.user # 0
    /\ r.at \in {"find", "revoke"} => r.token # 0
    /\ r.at \in {"issue", "answer"} /\ r.op = "refresh" => r.token # 0
    /\ r.at = "answer" => r.new # 0

ReqsOK ==
    /\ req \in [Requests -> ReqOf(Len(users), Len(tokens))]
    /\ \A p \in Requests : Placed(req[p])

\* The inductive form of the type invariant.
Linked ==
    /\ users \in Seq(S!User) /\ Len(users) <= MaxUsers
    /\ tokens \in Seq(TokenOf(Len(users))) /\ Len(tokens) <= MaxTokens
    /\ claims \subseteq ClaimOf(Len(users))
    /\ jar \subseteq CookieOf(Len(tokens))
    /\ ReqsOK
    /\ events \in 0 .. MaxEvents
    /\ spent \subseteq 1 .. Len(tokens)
    /\ signedOut \in BOOLEAN

\* References stay good when there are more accounts and tokens.
LEMMA Grows ==
    ASSUME NEW nu \in Nat, NEW nt \in Nat, NEW mu \in Nat, NEW mt \in Nat, nu <= mu, nt <= mt
    PROVE  /\ ReqOf(nu, nt) \subseteq ReqOf(mu, mt)
           /\ TokenOf(nu) \subseteq TokenOf(mu)
           /\ ClaimOf(nu) \subseteq ClaimOf(mu)
           /\ CookieOf(nt) \subseteq CookieOf(mt)
<1>1. 0 .. nu \subseteq 0 .. mu /\ 1 .. nu \subseteq 1 .. mu
  OBVIOUS
<1>2. 0 .. nt \subseteq 0 .. mt /\ 1 .. nt \subseteq 1 .. mt
  OBVIOUS
<1> QED
  BY <1>1, <1>2 DEF ReqOf, TokenOf, ClaimOf, CookieOf

\* A sequence of members of a set is one of members of a greater set.
LEMMA SeqGrows ==
    ASSUME NEW A, NEW B, A \subseteq B, NEW s \in Seq(A) PROVE s \in Seq(B)
  OBVIOUS

\* The type invariant follows.
LEMMA LinkedIsTyped == ASSUME S!SessionsAssumption, Linked PROVE S!TypeOK
<1>1. /\ MaxUsers \in Nat /\ MaxTokens \in Nat /\ Len(users) \in Nat /\ Len(tokens) \in Nat
      /\ Len(users) <= MaxUsers /\ Len(tokens) <= MaxTokens
  BY DEF S!SessionsAssumption, Linked
<1>2. /\ ReqOf(Len(users), Len(tokens)) \subseteq ReqOf(MaxUsers, MaxTokens)
      /\ TokenOf(Len(users)) \subseteq TokenOf(MaxUsers)
      /\ ClaimOf(Len(users)) \subseteq ClaimOf(MaxUsers)
      /\ CookieOf(Len(tokens)) \subseteq CookieOf(MaxTokens)
  BY <1>1, Grows
<1>3. tokens \in Seq(TokenOf(MaxUsers))
  BY <1>2, SeqGrows DEF Linked
<1>4. req \in [Requests -> ReqOf(MaxUsers, MaxTokens)]
  BY <1>2 DEF Linked, ReqsOK
<1>5. claims \subseteq ClaimOf(MaxUsers) /\ jar \subseteq CookieOf(MaxTokens)
  BY <1>2 DEF Linked
<1>6. spent \subseteq 1 .. MaxTokens
  BY <1>1 DEF Linked
<1> QED
  BY <1>3, <1>4, <1>5, <1>6 DEF Linked, S!TypeOK, ReqOf, TokenOf, S!Token, ClaimOf, CookieOf

\* Accounts.
LEMMA UserTypes ==
    ASSUME NEW u \in S!User
    PROVE  /\ \A r \in S!Role : [u EXCEPT !.role = r] \in S!User
           /\ \A r \in S!Role, b \in BOOLEAN : [u EXCEPT !.role = r, !.active = b] \in S!User
           /\ \A b \in BOOLEAN : [u EXCEPT !.force = b] \in S!User
           /\ [u EXCEPT !.deleted = TRUE] \in S!User
           /\ u.role \in S!Role
  BY DEF S!User

\* A new account, and the row of no account.
LEMMA NewUserTypes ==
    /\ \A e \in Emails \cup {NoEmail}, r \in S!Role, b \in BOOLEAN : S!NewUser(e, r, b) \in S!User
    /\ S!NoUser \in S!User
  BY DEF S!NewUser, S!User, S!NoUser, S!Role

\* What is left of a request that has ended, or has only to be answered.
LEMMA IdleTypes ==
    ASSUME NEW nu \in Nat, NEW nt \in Nat
    PROVE  /\ S!Idle \in ReqOf(nu, nt) /\ Placed(S!Idle)
           /\ \A op \in S!Op : LET r == [S!Idle EXCEPT !.op = op, !.at = "clear"]
                             IN r \in ReqOf(nu, nt) /\ Placed(r)
<1>1. S!NoUser \in S!User /\ 0 \in 0 .. nu /\ 0 \in 0 .. nt
  BY NewUserTypes
<1> QED
  BY <1>1 DEF S!Idle, ReqOf, Placed, S!Op, S!Stage

\* A request, written out.
LEMMA WrittenOut ==
    ASSUME NEW nu \in Nat, NEW nt \in Nat, NEW op \in S!Op, NEW s \in S!Stage, NEW i \in 0 .. nu,
           NEW u \in S!User, NEW t \in 0 .. nt, NEW n \in 0 .. nt, NEW b \in BOOLEAN,
           NEW r, r = [op |-> op, at |-> s, user |-> i, row |-> u, token |-> t, new |-> n,
                       off |-> b]
    PROVE  /\ r \in ReqOf(nu, nt)
           /\ r.op = op /\ r.at = s /\ r.user = i /\ r.token = t /\ r.new = n /\ r.off = b
  BY DEF ReqOf

\* The same for one that does not carry an account that was off.
LEMMA WrittenOutOn ==
    ASSUME NEW nu \in Nat, NEW nt \in Nat, NEW op \in S!Op, NEW s \in S!Stage, NEW i \in 0 .. nu,
           NEW u \in S!User, NEW t \in 0 .. nt, NEW n \in 0 .. nt,
           NEW r, r = [op |-> op, at |-> s, user |-> i, row |-> u, token |-> t, new |-> n,
                       off |-> FALSE]
    PROVE  /\ r \in ReqOf(nu, nt)
           /\ r.op = op /\ r.at = s /\ r.user = i /\ r.token = t /\ r.new = n /\ r.off = FALSE
  BY DEF ReqOf

\* The fields of a request.
LEMMA ReqFields ==
    ASSUME NEW nu, NEW nt, NEW r \in ReqOf(nu, nt)
    PROVE  /\ r.op \in S!Op /\ r.at \in S!Stage /\ r.user \in 0 .. nu /\ r.row \in S!User
           /\ r.token \in 0 .. nt /\ r.new \in 0 .. nt /\ r.off \in BOOLEAN
  BY DEF ReqOf

\* Requests whose account is on again.
LEMMA OnAgainTypes ==
    ASSUME NEW nu, NEW nt, NEW r \in ReqOf(nu, nt), Placed(r), NEW b \in BOOLEAN,
           NEW q, q = [r EXCEPT !.off = b]
    PROVE  /\ q \in ReqOf(nu, nt) /\ Placed(q)
           /\ q.off = b /\ q.at = r.at /\ q.token = r.token /\ q.new = r.new /\ q.user = r.user
  BY DEF ReqOf, Placed

\* One request changes, and there may be more accounts and tokens.
LEMMA OneRequest ==
    ASSUME ReqsOK, NEW p \in Requests, NEW r, req' = [req EXCEPT ![p] = r],
           r \in ReqOf(Len(users'), Len(tokens')), Placed(r),
           Len(users) \in Nat, Len(tokens) \in Nat, Len(users') \in Nat, Len(tokens') \in Nat,
           Len(users) <= Len(users'), Len(tokens) <= Len(tokens')
    PROVE  ReqsOK'
<1>1. ReqOf(Len(users), Len(tokens)) \subseteq ReqOf(Len(users'), Len(tokens'))
  BY Grows
<1> QED
  BY <1>1 DEF ReqsOK

\* Accounts and tokens are numbered from one.
LEMMA Numbers ==
    ASSUME Linked
    PROVE  /\ Len(users) \in Nat /\ Len(tokens) \in Nat
           /\ DOMAIN users = 1 .. Len(users) /\ DOMAIN tokens = 1 .. Len(tokens)
           /\ \A i \in 1 .. Len(users) : users[i] \in S!User
           /\ \A t \in 1 .. Len(tokens) : tokens[t] \in TokenOf(Len(users))
  BY DEF Linked

\* A token whose row is deleted or expires.
LEMMA TokenRowTypes ==
    ASSUME NEW nu, NEW x \in TokenOf(nu)
    PROVE  /\ \A s \in {"stored", "expired", "gone"} : /\ [x EXCEPT !.row = s] \in TokenOf(nu)
                                                       /\ [x EXCEPT !.row = s].off = x.off
           /\ x.user \in 1 .. nu
  BY DEF TokenOf

\* An event is one of those that are left.
LEMMA EventTypes ==
    ASSUME S!SessionsAssumption, Linked, S!Event \/ UNCHANGED events
    PROVE  events' \in 0 .. MaxEvents
  BY DEF S!SessionsAssumption, Linked, S!Event

\* The statement that deletes one token.
LEMMA RevokeTypes ==
    ASSUME S!SessionsAssumption, Linked, NEW t \in 1 .. Len(tokens), S!RevokeRefreshToken(t)
    PROVE  /\ tokens' \in Seq(TokenOf(Len(users))) /\ Len(tokens') = Len(tokens)
           /\ \A x \in 1 .. Len(tokens) : tokens'[x].off = tokens[x].off
           /\ events' \in 0 .. MaxEvents
<1>1. CASE tokens' = [tokens EXCEPT ![t].row = "gone"] /\ UNCHANGED events
  <2>1. [tokens[t] EXCEPT !.row = "gone"] \in TokenOf(Len(users))
        /\ [tokens[t] EXCEPT !.row = "gone"].off = tokens[t].off
    BY Numbers, TokenRowTypes
  <2>2. tokens' = [tokens EXCEPT ![t] = [tokens[t] EXCEPT !.row = "gone"]]
    BY <1>1
  <2> DEFINE x == [tokens[t] EXCEPT !.row = "gone"]
  <2> HIDE DEF x
  <2> QED
    BY <1>1, <2>1, <2>2, EventTypes DEF Linked, x
<1>2. CASE S!Event /\ UNCHANGED tokens
  BY <1>2, EventTypes DEF Linked
<1> QED
  BY <1>1, <1>2 DEF S!RevokeRefreshToken

\* The statement that deletes the tokens of an account.
LEMMA RevokeAllTypes ==
    ASSUME S!SessionsAssumption, Linked, NEW i, S!RevokeAllUserTokens(i)
    PROVE  /\ tokens' \in Seq(TokenOf(Len(users))) /\ Len(tokens') = Len(tokens)
           /\ \A x \in 1 .. Len(tokens) : tokens'[x].off = tokens[x].off
           /\ events' \in 0 .. MaxEvents
<1>1. CASE /\ tokens' = [t \in DOMAIN tokens |-> IF tokens[t].user = i
                                                 THEN [tokens[t] EXCEPT !.row = "gone"] ELSE tokens[t]]
           /\ UNCHANGED events
  <2> DEFINE new(t) == IF tokens[t].user = i THEN [tokens[t] EXCEPT !.row = "gone"] ELSE tokens[t]
  <2>1. \A t \in 1 .. Len(tokens) : new(t) \in TokenOf(Len(users)) /\ new(t).off = tokens[t].off
    BY Numbers, TokenRowTypes
  <2>2. tokens' = [t \in 1 .. Len(tokens) |-> new(t)]
    BY <1>1, Numbers
  <2> HIDE DEF new
  <2>3. tokens' \in Seq(TokenOf(Len(users))) /\ Len(tokens') = Len(tokens)
    BY <2>1, <2>2, Numbers
  <2> QED
    BY <1>1, <2>1, <2>2, <2>3, EventTypes
<1>2. CASE S!Event /\ UNCHANGED tokens
  BY <1>2, EventTypes DEF Linked
<1> QED
  BY <1>1, <1>2 DEF S!RevokeAllUserTokens

\* A step that adds neither an account nor a token.
LEMMA SameSize ==
    ASSUME Linked,
           users' \in Seq(S!User), Len(users') = Len(users),
           tokens' \in Seq(TokenOf(Len(users))), Len(tokens') = Len(tokens),
           claims' \subseteq ClaimOf(Len(users)), jar' \subseteq CookieOf(Len(tokens)),
           ReqsOK', events' \in 0 .. MaxEvents, spent' \subseteq 1 .. Len(tokens),
           signedOut' \in BOOLEAN
    PROVE  Linked'
  BY DEF Linked

\* A step that adds an account.
LEMMA MoreUsers ==
    ASSUME Linked, NEW u \in S!User, users' = Append(users, u), Len(users') <= MaxUsers, ReqsOK',
           UNCHANGED <<tokens, claims, jar, spent, signedOut>>, events' \in 0 .. MaxEvents
    PROVE  Linked'
<1>1. users' \in Seq(S!User) /\ Len(users') = Len(users) + 1 /\ Len(users) \in Nat
  BY DEF Linked
<1>2. TokenOf(Len(users)) \subseteq TokenOf(Len(users'))
      /\ ClaimOf(Len(users)) \subseteq ClaimOf(Len(users'))
  BY <1>1, Numbers, Grows
<1>3. tokens \in Seq(TokenOf(Len(users')))
  BY <1>2, SeqGrows DEF Linked
<1> QED
  BY <1>1, <1>2, <1>3 DEF Linked

\* A request becomes another one, of the same accounts and tokens.
LEMMA RequestStays ==
    ASSUME Linked, NEW p \in Requests, NEW r \in ReqOf(Len(users), Len(tokens)), Placed(r),
           req' = [req EXCEPT ![p] = r], Len(users') = Len(users), Len(tokens') = Len(tokens)
    PROVE  ReqsOK'
<1>1. Len(users) \in Nat /\ Len(tokens) \in Nat /\ ReqsOK
  BY Numbers DEF Linked
<1>2. Len(users') \in Nat /\ Len(tokens') \in Nat /\ r \in ReqOf(Len(users'), Len(tokens'))
  BY <1>1
<1>3. Len(users) <= Len(users') /\ Len(tokens) <= Len(tokens')
  BY <1>1
<1> QED
  BY <1>1, <1>2, <1>3, OneRequest

\* What a request may be when it goes on.
LEMMA RequestIs ==
    ASSUME Linked, NEW p \in Requests
    PROVE  req[p] \in ReqOf(Len(users), Len(tokens)) /\ Placed(req[p])
  BY DEF Linked, ReqsOK

-----------------------------------------------------------------------------
(* Sessions: what is known of requests *)

\* What is known of the account of a request that began while the account was off.
Watched ==
    \A q \in Requests : req[q].off =>
        req[q].at = "find" /\ req[q].user \in DOMAIN users /\ S!Off(users, req[q].user)

\* A token that was answered with is in the jar, a token that is about to be is in the hands of
\* one request only; no one refreshes with a token that has not reached the browser yet.
Tabs ==
    /\ jar = {} => spent = {}
    /\ \A c \in jar : c.token \notin spent
    /\ \A q \in Requests : req[q].at = "answer" =>
         /\ req[q].new \notin spent
         /\ \A c \in jar : c.token # req[q].new
         /\ \A p \in Requests : req[p].token # req[q].new
         /\ \A p \in Requests \ {q} : req[p].at = "answer" => req[p].new # req[q].new

\* The request p becomes r: it does not answer yet, refers to no other tokens than before but
\* those of the browser, and carries an account that is off only until it looks at it.
Becomes(p, r) ==
    /\ r \in ReqOf(Len(users'), Len(tokens')) /\ Placed(r)
    /\ r.at # "answer"
    /\ r.token = 0 \/ r.token = req[p].token \/ \E c \in jar : r.token = c.token
    /\ r.off => r.at = "find" /\ r.user # 0 /\ S!Off(users', r.user)
    /\ req' = [req EXCEPT ![p] = r]

GoesOn(p) == \E r : Becomes(p, r)

\* A request goes on when its fields are right.
LEMMA GoesOnWith ==
    ASSUME NEW p \in Requests, Len(users') \in Nat, Len(tokens') \in Nat,
           NEW op \in S!Op, NEW s \in S!Stage, NEW i \in 0 .. Len(users'), NEW u \in S!User,
           NEW t \in 0 .. Len(tokens'), NEW n \in 0 .. Len(tokens'),
           s # "answer",
           s \in {"find", "revoke", "issue", "save"} => i # 0,
           s \in {"find", "revoke"} \/ (s = "issue" /\ op = "refresh") => t # 0,
           t = 0 \/ t = req[p].token \/ (\E c \in jar : t = c.token),
           NEW r, r = [op |-> op, at |-> s, user |-> i, row |-> u, token |-> t, new |-> n,
                       off |-> FALSE],
           req' = [req EXCEPT ![p] = r]
    PROVE  GoesOn(p)
<1>1. /\ r \in ReqOf(Len(users'), Len(tokens'))
      /\ r.op = op /\ r.at = s /\ r.user = i /\ r.token = t /\ r.new = n /\ r.off = FALSE
  BY ONLY Len(users') \in Nat, Len(tokens') \in Nat, op \in S!Op, s \in S!Stage,
     i \in 0 .. Len(users'), u \in S!User, t \in 0 .. Len(tokens'), n \in 0 .. Len(tokens'),
     r = [op |-> op, at |-> s, user |-> i, row |-> u, token |-> t, new |-> n, off |-> FALSE],
     WrittenOutOn
<1>2. Placed(r)
  BY <1>1 DEF Placed
<1>3. r.token = 0 \/ r.token = req[p].token \/ \E c \in jar : r.token = c.token
  BY <1>1
<1>4. Becomes(p, r)
  BY <1>1, <1>2, <1>3 DEF Becomes
<1> QED
  BY <1>4 DEF GoesOn

\* Requests that end or have only to be answered.
LEMMA EndsAre ==
    ASSUME Linked, NEW p \in Requests, Len(users') \in Nat, Len(tokens') \in Nat,
           S!End(p) \/ \E op \in S!Op : S!GotoClear(p, op)
    PROVE  GoesOn(p)
<1>u. S!NoUser \in S!User /\ 0 \in 0 .. Len(users') /\ 0 \in 0 .. Len(tokens')
  BY NewUserTypes
<1>1. CASE S!End(p)
  <2>r. req' = [req EXCEPT ![p] = S!Idle]
    BY <1>1 DEF S!End
  <2>1. S!Idle = [op |-> "none", at |-> "idle", user |-> 0, row |-> S!NoUser,
                  token |-> 0, new |-> 0, off |-> FALSE]
    BY DEF S!Idle
  <2>2. "none" \in S!Op /\ "idle" \in S!Stage
    BY DEF S!Op, S!Stage
  <2> QED
    BY <1>u, <2>r, <2>1, <2>2, GoesOnWith
<1>2. CASE \E op \in S!Op : S!GotoClear(p, op)
  <2>1. PICK op \in S!Op : S!GotoClear(p, op)
    BY <1>2
  <2> DEFINE r == [S!Idle EXCEPT !.op = op, !.at = "clear"]
  <2>r. req' = [req EXCEPT ![p] = r]
    BY <2>1 DEF S!GotoClear
  <2>e. r = [S!Idle EXCEPT !.op = op, !.at = "clear"]
    OBVIOUS
  <2> HIDE DEF r
  <2>2. r = [op |-> op, at |-> "clear", user |-> 0, row |-> S!NoUser, token |-> 0, new |-> 0,
             off |-> FALSE]
    BY <2>e DEF S!Idle
  <2>3. "clear" \in S!Stage
    BY DEF S!Stage
  <2> QED
    BY <1>u, <2>r, <2>2, <2>3, GoesOnWith
<1> QED
  BY <1>1, <1>2

\* Registration, setup and login go on.
LEMMA RegisterGoesOn ==
    ASSUME Linked, NEW p \in Requests, NEW e \in Emails, S!Register(p, e) \/ S!SetupAdmin(p, e)
    PROVE  GoesOn(p)
<1>1. /\ Len(users') \in Nat /\ Len(tokens') \in Nat
      /\ "register" \in S!Op /\ "setup" \in S!Op /\ "admin" \in S!Role /\ "member" \in S!Role
      /\ "count" \in S!Stage /\ "create" \in S!Stage
      /\ FALSE \in BOOLEAN
  BY Numbers DEF S!Op, S!Role, S!Stage, S!Register, S!SetupAdmin
<1>2. ASSUME NEW op \in S!Op, NEW s \in {"count", "create"}, NEW role \in S!Role,
             S!Begin(p, [S!Idle EXCEPT !.op = op, !.at = s, !.row = S!NewUser(e, role, FALSE)])
      PROVE  GoesOn(p)
  <2> DEFINE u == S!NewUser(e, role, FALSE)
  <2>1. u \in S!User
    BY <1>1, NewUserTypes
  <2> DEFINE r == [S!Idle EXCEPT !.op = op, !.at = s, !.row = u]
  <2>2. req' = [req EXCEPT ![p] = r]
    BY <1>2 DEF S!Begin
  <2> HIDE DEF u
  <2>e. r = [S!Idle EXCEPT !.op = op, !.at = s, !.row = u]
    OBVIOUS
  <2> HIDE DEF r
  <2>3. r = [op |-> op, at |-> s, user |-> 0, row |-> u, token |-> 0, new |-> 0, off |-> FALSE]
    BY <2>e DEF S!Idle
  <2>4. s \in S!Stage /\ s \notin {"find", "revoke", "issue", "save", "answer"}
    BY <1>1
  <2>5. 0 \in 0 .. Len(users') /\ 0 \in 0 .. Len(tokens')
    BY <1>1
  <2> QED
    BY <1>1, <2>1, <2>2, <2>3, <2>4, <2>5, GoesOnWith
<1> QED
  BY <1>1, <1>2 DEF S!Register, S!SetupAdmin

LEMMA LoginGoesOn ==
    ASSUME Linked, NEW p \in Requests, NEW e \in Emails, S!Login(p, e) PROVE GoesOn(p)
<1>1. /\ Len(users') \in Nat /\ Len(tokens') \in Nat /\ Len(users') = Len(users)
      /\ DOMAIN users = 1 .. Len(users) /\ \A i \in 1 .. Len(users) : users[i] \in S!User
  BY Numbers DEF S!Login
<1>2. PICK i \in 1 .. Len(users) :
        S!Begin(p, [S!Idle EXCEPT !.op = "login", !.at = "issue", !.user = i,
                              !.row.role = users[i].role])
  BY <1>1 DEF S!Login, S!FindByEmail, S!Live
<1> DEFINE role == users[i].role
           u == [S!NoUser EXCEPT !.role = role]
<1>3. role \in S!Role
  BY <1>1, UserTypes
<1> DEFINE r == [S!Idle EXCEPT !.op = "login", !.at = "issue", !.user = i, !.row.role = role]
<1>4. req' = [req EXCEPT ![p] = r]
  BY <1>2 DEF S!Begin
<1> HIDE DEF role
<1>5. u \in S!User
  BY <1>3, UserTypes, NewUserTypes
<1>e. r = [S!Idle EXCEPT !.op = "login", !.at = "issue", !.user = i, !.row.role = role]
  OBVIOUS
<1> HIDE DEF r
<1>6. r = [op |-> "login", at |-> "issue", user |-> i, row |-> u, token |-> 0, new |-> 0,
           off |-> FALSE]
  BY <1>e DEF S!Idle
<1> HIDE DEF u
<1>7. /\ "login" \in S!Op /\ "issue" \in S!Stage /\ i \in 0 .. Len(users') /\ i # 0
      /\ 0 \in 0 .. Len(tokens')
  BY <1>1 DEF S!Op, S!Stage
<1> QED
  BY <1>1, <1>4, <1>5, <1>6, <1>7, GoesOnWith

\* The account's role is decided.
LEMMA CountGoesOn ==
    ASSUME Linked, Watched, NEW p \in Requests, S!RegisterCount(p) PROVE GoesOn(p)
<1>1. /\ Len(users') \in Nat /\ Len(tokens') \in Nat /\ users' = users /\ tokens' = tokens
      /\ req[p] \in ReqOf(Len(users), Len(tokens))
      /\ "admin" \in S!Role /\ "member" \in S!Role
  BY Numbers, RequestIs DEF S!RegisterCount, S!Role
<1>2. PICK role \in S!Role : req' = [req EXCEPT ![p].at = "create", ![p].row.role = role]
  BY <1>1 DEF S!RegisterCount
<1> DEFINE q == req[p]
           r == [q EXCEPT !.at = "create", !.row.role = role]
<1>r. req' = [req EXCEPT ![p] = r]
  BY <1>2
<1>5. ~q.off
  BY DEF Watched, S!RegisterCount
<1>q. q \in ReqOf(Len(users), Len(tokens))
  BY <1>1
<1> HIDE DEF q
<1>e. r = [q EXCEPT !.at = "create", !.row.role = role]
  OBVIOUS
<1> HIDE DEF r
<1>3. r = [op |-> q.op, at |-> "create", user |-> q.user, row |-> [q.row EXCEPT !.role = role],
           token |-> q.token, new |-> q.new, off |-> FALSE]
  BY <1>5, <1>q, <1>e DEF ReqOf
<1>4. [q.row EXCEPT !.role = role] \in S!User
  BY <1>q, ReqFields, UserTypes
<1>6. /\ q.op \in S!Op /\ q.user \in 0 .. Len(users')
      /\ q.token \in 0 .. Len(tokens') /\ q.new \in 0 .. Len(tokens')
      /\ "create" \in S!Stage
  BY <1>1, <1>q, ReqFields DEF S!Stage
<1>7. q.token = req[p].token
  BY DEF q
<1> QED
  BY <1>1, <1>r, <1>3, <1>4, <1>6, <1>7, GoesOnWith

\* The account is created, or not.
LEMMA CreateGoesOn ==
    ASSUME S!SessionsAssumption, Linked, NEW p \in Requests, S!CreateUser(p)
    PROVE  /\ GoesOn(p)
           /\ \/ users' = users
              \/ users' = Append(users, req[p].row) /\ Len(users') <= MaxUsers
           /\ req[p].row \in S!User
<1>1. /\ Len(users) \in Nat /\ Len(tokens') \in Nat /\ tokens' = tokens
      /\ req[p] \in ReqOf(Len(users), Len(tokens)) /\ MaxUsers \in Nat
  BY Numbers, RequestIs DEF S!CreateUser, S!SessionsAssumption
<1>2. req[p].row \in S!User /\ req[p].row.role \in S!Role
  BY <1>1, ReqFields, UserTypes
<1>3. CASE S!End(p) /\ UNCHANGED users
  BY <1>1, <1>2, <1>3, EndsAre
<1>4. CASE Len(users) < MaxUsers /\ users' = Append(users, req[p].row)
  <2>1. /\ Len(users') = Len(users) + 1 /\ Len(users') <= MaxUsers /\ Len(users') \in Nat
        /\ Len(users) + 1 \in 1 .. Len(users')
    BY <1>1, <1>4 DEF Linked
  <2>2. CASE S!End(p)
    BY <1>1, <1>2, <1>4, <2>1, <2>2, EndsAre
  <2>3. CASE req' = [req EXCEPT ![p] = [S!Idle EXCEPT !.op = "register", !.at = "issue",
                                          !.user = Len(users) + 1, !.row.role = req[p].row.role]]
    <3> DEFINE role == req[p].row.role
               n == Len(users) + 1
               u == [S!NoUser EXCEPT !.role = role]
               r == [S!Idle EXCEPT !.op = "register", !.at = "issue", !.user = n, !.row.role = role]
    <3>1. /\ role \in S!Role /\ n \in 0 .. Len(users') /\ n # 0
          /\ req' = [req EXCEPT ![p] = r]
      BY <1>2, <1>1, <2>1, <2>3
    <3> HIDE DEF role, n
    <3>e. r = [S!Idle EXCEPT !.op = "register", !.at = "issue", !.user = n, !.row.role = role]
      OBVIOUS
    <3> HIDE DEF r
    <3>2. r = [op |-> "register", at |-> "issue", user |-> n, row |-> u, token |-> 0, new |-> 0,
               off |-> FALSE]
      BY <3>e DEF S!Idle
    <3>3. u \in S!User
      BY <3>1, UserTypes, NewUserTypes
    <3> HIDE DEF u
    <3>4. "register" \in S!Op /\ "issue" \in S!Stage /\ 0 \in 0 .. Len(tokens')
      BY <1>1 DEF S!Op, S!Stage
    <3>5. GoesOn(p)
      BY <1>1, <2>1, <3>1, <3>2, <3>3, <3>4, GoesOnWith
    <3> QED
      BY <1>2, <1>4, <2>1, <3>5
  <2> QED
    BY <1>3, <1>4, <2>2, <2>3 DEF S!CreateUser
<1> QED
  BY <1>3, <1>4 DEF S!CreateUser

\* The cookie leads to a token, the token to an account.
LEMMA RefreshGoesOn ==
    ASSUME Linked, NEW p \in Requests, S!Refresh(p) PROVE GoesOn(p)
<1>1. /\ Len(users') \in Nat /\ Len(tokens') \in Nat
      /\ users' = users /\ tokens' = tokens /\ "refresh" \in S!Op /\ "find" \in S!Stage
  BY Numbers DEF S!Refresh, S!Op, S!Stage
<1>2. CASE S!GotoClear(p, "refresh")
  BY <1>1, <1>2, EndsAre
<1>3. ASSUME NEW c \in jar, NEW i, i = tokens[c.token].user,
             S!Begin(p, [S!Idle EXCEPT !.op = "refresh", !.at = "find", !.token = c.token,
                                       !.user = i, !.off = S!Off(users, i)])
      PROVE  GoesOn(p)
  <2> DEFINE t == c.token
             b == S!Off(users, i)
             r == [S!Idle EXCEPT !.op = "refresh", !.at = "find", !.token = t, !.user = i,
                                 !.off = b]
  <2>1. t \in 1 .. Len(tokens)
    BY DEF Linked, CookieOf
  <2>2. i \in 1 .. Len(users)
    BY <1>3, <2>1, Numbers, TokenRowTypes
  <2>3. b \in BOOLEAN
    BY DEF S!Off
  <2>4. req' = [req EXCEPT ![p] = r]
    BY <1>3 DEF S!Begin
  <2>b. b => S!Off(users', i)
    BY <1>1
  <2>t. \E x \in jar : t = x.token
    OBVIOUS
  <2> HIDE DEF b, t
  <2>e. r = [S!Idle EXCEPT !.op = "refresh", !.at = "find", !.token = t, !.user = i, !.off = b]
    OBVIOUS
  <2> HIDE DEF r
  <2>5. r = [op |-> "refresh", at |-> "find", user |-> i, row |-> S!NoUser, token |-> t,
             new |-> 0, off |-> b]
    BY <2>e DEF S!Idle
  <2>6. /\ S!NoUser \in S!User /\ i \in 0 .. Len(users') /\ i # 0
        /\ t \in 0 .. Len(tokens') /\ t # 0 /\ 0 \in 0 .. Len(tokens')
    BY <1>1, <2>1, <2>2, NewUserTypes
  <2>7. /\ r \in ReqOf(Len(users'), Len(tokens'))
        /\ r.op = "refresh" /\ r.at = "find" /\ r.user = i /\ r.token = t /\ r.off = b
    BY ONLY <1>1, <2>3, <2>5, <2>6, WrittenOut
  <2>8. Placed(r)
    BY ONLY <2>6, <2>7 DEF Placed
  <2>9. r.off => r.at = "find" /\ r.user # 0 /\ S!Off(users', r.user)
    BY <2>b, <2>6, <2>7
  <2>10. r.token = 0 \/ r.token = req[p].token \/ \E x \in jar : r.token = x.token
    BY <2>t, <2>7
  <2>11. Becomes(p, r)
    BY <2>4, <2>7, <2>8, <2>9, <2>10 DEF Becomes
  <2> QED
    BY <2>11 DEF GoesOn
<1> QED
  BY <1>1, <1>2, <1>3 DEF S!Refresh

\* A request that has been found goes on with its token.
LEMMA StageGoesOn ==
    ASSUME Linked, NEW p \in Requests, Len(users') = Len(users), Len(tokens') = Len(tokens),
           ~req[p].off, NEW role \in S!Role,
           \/ req[p].at = "find" /\ req' = [req EXCEPT ![p].at = "revoke", ![p].row.role = role]
           \/ req[p].at = "revoke" /\ req' = [req EXCEPT ![p].at = "issue"]
    PROVE  GoesOn(p)
<1> DEFINE q == req[p]
<1>1. q \in ReqOf(Len(users), Len(tokens)) /\ Placed(q) /\ ~q.off
  BY RequestIs
<1>2. /\ Len(users') \in Nat /\ Len(tokens') \in Nat
      /\ "revoke" \in S!Stage /\ "issue" \in S!Stage
  BY Numbers DEF S!Stage
<1>3. q.token = req[p].token
  OBVIOUS
<1>4. CASE req[p].at = "find" /\ req' = [req EXCEPT ![p].at = "revoke", ![p].row.role = role]
  <2> DEFINE r == [q EXCEPT !.at = "revoke", !.row.role = role]
  <2>1. q.at = "find" /\ req' = [req EXCEPT ![p] = r]
    BY <1>4
  <2> HIDE DEF q
  <2>e. r = [q EXCEPT !.at = "revoke", !.row.role = role]
    OBVIOUS
  <2> HIDE DEF r
  <2>2. r = [op |-> q.op, at |-> "revoke", user |-> q.user, row |-> [q.row EXCEPT !.role = role],
             token |-> q.token, new |-> q.new, off |-> FALSE]
    BY <1>1, <2>e DEF ReqOf
  <2>3. [q.row EXCEPT !.role = role] \in S!User
    BY <1>1, ReqFields, UserTypes
  <2>4. /\ q.op \in S!Op /\ q.user \in 0 .. Len(users') /\ q.user # 0 /\ q.token # 0
        /\ q.token \in 0 .. Len(tokens') /\ q.new \in 0 .. Len(tokens')
    BY <1>1, <2>1, ReqFields DEF Placed
  <2> QED
    BY <1>2, <1>3, <2>1, <2>2, <2>3, <2>4, GoesOnWith
<1>5. CASE req[p].at = "revoke" /\ req' = [req EXCEPT ![p].at = "issue"]
  <2> DEFINE r == [q EXCEPT !.at = "issue"]
  <2>1. q.at = "revoke" /\ req' = [req EXCEPT ![p] = r]
    BY <1>5
  <2> HIDE DEF q
  <2>e. r = [q EXCEPT !.at = "issue"]
    OBVIOUS
  <2> HIDE DEF r
  <2>2. r = [op |-> q.op, at |-> "issue", user |-> q.user, row |-> q.row,
             token |-> q.token, new |-> q.new, off |-> FALSE]
    BY <1>1, <2>e DEF ReqOf
  <2>4. /\ q.op \in S!Op /\ q.user \in 0 .. Len(users') /\ q.user # 0 /\ q.token # 0
        /\ q.token \in 0 .. Len(tokens') /\ q.new \in 0 .. Len(tokens') /\ q.row \in S!User
    BY <1>1, <2>1, ReqFields DEF Placed
  <2> QED
    BY <1>2, <1>3, <2>1, <2>2, <2>4, GoesOnWith
<1> QED
  BY <1>4, <1>5

\* An administrator's request that has read the account.
LEMMA UpdateGoesOn ==
    ASSUME Linked, NEW p \in Requests, NEW i \in DOMAIN users, NEW role \in S!Role,
           NEW active \in BOOLEAN, S!Update(p, i, role, active)
    PROVE  GoesOn(p)
<1>1. /\ Len(users') \in Nat /\ Len(tokens') \in Nat /\ users' = users
      /\ users[i] \in S!User /\ i \in 1 .. Len(users)
      /\ "update" \in S!Op /\ "save" \in S!Stage
  BY Numbers DEF S!Update, S!Op, S!Stage
<1> DEFINE u == [users[i] EXCEPT !.role = role, !.active = active]
           r == [S!Idle EXCEPT !.op = "update", !.at = "save", !.user = i, !.row = u]
<1>2. req' = [req EXCEPT ![p] = r]
  BY DEF S!Update, S!Begin
<1>3. u \in S!User
  BY <1>1, UserTypes
<1> HIDE DEF u
<1>e. r = [S!Idle EXCEPT !.op = "update", !.at = "save", !.user = i, !.row = u]
  OBVIOUS
<1> HIDE DEF r
<1>4. r = [op |-> "update", at |-> "save", user |-> i, row |-> u, token |-> 0, new |-> 0,
           off |-> FALSE]
  BY <1>e DEF S!Idle
<1>5. i \in 0 .. Len(users') /\ i # 0 /\ 0 \in 0 .. Len(tokens')
  BY <1>1
<1> QED
  BY <1>1, <1>2, <1>3, <1>4, <1>5, GoesOnWith

-----------------------------------------------------------------------------
(* Sessions: the invariant *)

SessionsInv == Linked /\ Watched /\ Tabs /\ S!OffAccountsGetNoSession

\* Accounts that are off stay off.
OffStays == /\ DOMAIN users \subseteq DOMAIN users'
            /\ \A i \in DOMAIN users : S!Off(users, i) => S!Off(users', i)

LEMMA ReqFunction == ASSUME Linked PROVE req = [q \in Requests |-> req[q]]
  BY DEF Linked, ReqsOK

LEMMA BecomesReqs ==
    ASSUME Linked, NEW p \in Requests, GoesOn(p),
           Len(users') \in Nat, Len(tokens') \in Nat,
           Len(users) <= Len(users'), Len(tokens) <= Len(tokens')
    PROVE  ReqsOK'
<1>1. PICK r : Becomes(p, r)
  BY DEF GoesOn
<1>2. Len(users) \in Nat /\ Len(tokens) \in Nat /\ ReqsOK
  BY Numbers DEF Linked
<1> QED
  BY <1>1, <1>2, OneRequest DEF Becomes

LEMMA BecomesWatched ==
    ASSUME Linked, Watched, OffStays, NEW p \in Requests, GoesOn(p),
           Len(users') \in Nat, DOMAIN users' = 1 .. Len(users')
    PROVE  Watched'
<1>1. PICK r : Becomes(p, r)
  BY DEF GoesOn
<1>2. /\ req'[p] = r /\ \A q \in Requests \ {p} : req'[q] = req[q]
  BY <1>1, ReqFunction DEF Becomes
<1>3. r.user \in 0 .. Len(users')
  BY <1>1, ReqFields DEF Becomes
<1>4. ASSUME r.off
      PROVE  r.at = "find" /\ r.user \in DOMAIN users' /\ S!Off(users', r.user)
  BY <1>1, <1>3, <1>4 DEF Becomes
<1> QED
  BY <1>2, <1>4 DEF Watched, OffStays

LEMMA BecomesTabs ==
    ASSUME Linked, Tabs, NEW p \in Requests, GoesOn(p), jar' = jar, spent' = spent
    PROVE  Tabs'
<1>1. PICK r : Becomes(p, r)
  BY DEF GoesOn
<1>2. /\ req'[p] = r /\ \A q \in Requests \ {p} : req'[q] = req[q]
  BY <1>1, ReqFunction DEF Becomes
<1>3. r.at # "answer" /\ (r.token = 0 \/ r.token = req[p].token \/ \E c \in jar : r.token = c.token)
  BY <1>1 DEF Becomes
<1>4. ASSUME NEW q \in Requests, req'[q].at = "answer"
      PROVE  /\ req'[q].new \notin spent'
             /\ \A c \in jar' : c.token # req'[q].new
             /\ \A x \in Requests : req'[x].token # req'[q].new
             /\ \A x \in Requests \ {q} : req'[x].at = "answer" => req'[x].new # req'[q].new
  <2>1. q # p /\ req'[q] = req[q]
    BY <1>2, <1>3, <1>4
  <2>2. req[q].new # 0
    BY <1>4, <2>1, RequestIs DEF Placed
  <2>3. /\ req[q].new \notin spent
        /\ \A c \in jar : c.token # req[q].new
        /\ \A x \in Requests : req[x].token # req[q].new
        /\ \A x \in Requests \ {q} : req[x].at = "answer" => req[x].new # req[q].new
    BY <1>4, <2>1 DEF Tabs
  <2>4. r.token # req[q].new
    BY <1>3, <2>2, <2>3
  <2> QED
    BY <1>2, <1>3, <2>1, <2>3, <2>4
<1> QED
  BY <1>4 DEF Tabs

\* A step that makes a request go on and leaves accounts, claims and cookies as they are.
LEMMA GoesOnKeeps ==
    ASSUME SessionsInv, NEW p \in Requests, GoesOn(p), UNCHANGED <<users, claims, jar, spent>>,
           tokens' \in Seq(TokenOf(Len(users))), Len(tokens') = Len(tokens),
           \A x \in 1 .. Len(tokens) : tokens'[x].off = tokens[x].off,
           events' \in 0 .. MaxEvents, signedOut' \in BOOLEAN
    PROVE  SessionsInv'
<1>1. Linked /\ Watched /\ Tabs /\ S!OffAccountsGetNoSession
  BY DEF SessionsInv
<1>2. /\ Len(users) \in Nat /\ Len(tokens) \in Nat /\ DOMAIN users = 1 .. Len(users)
      /\ DOMAIN tokens = 1 .. Len(tokens) /\ DOMAIN tokens' = 1 .. Len(tokens)
  BY <1>1, Numbers
<1>3. ReqsOK'
  BY <1>1, <1>2, BecomesReqs
<1>4. Linked'
  BY <1>1, <1>3, SameSize DEF Linked
<1>5. OffStays
  BY DEF OffStays
<1>6. Watched'
  BY <1>1, <1>2, <1>5, BecomesWatched
<1>7. Tabs'
  BY <1>1, BecomesTabs
<1>8. S!OffAccountsGetNoSession'
  BY <1>1, <1>2 DEF S!OffAccountsGetNoSession
<1> QED
  BY <1>4, <1>6, <1>7, <1>8 DEF SessionsInv

\* Registration, login and the start of a refresh or an update; refused and ended requests.
LEMMA QuietKeeps ==
    ASSUME S!SessionsAssumption, SessionsInv, NEW p \in Requests, GoesOn(p),
           UNCHANGED <<users, tokens, claims, jar, spent, signedOut>>, S!Event \/ UNCHANGED events
    PROVE  SessionsInv'
<1>1. Linked
  BY DEF SessionsInv
<1>2. events' \in 0 .. MaxEvents
  BY <1>1, EventTypes
<1>3. tokens' \in Seq(TokenOf(Len(users))) /\ signedOut' \in BOOLEAN
  BY <1>1 DEF Linked
<1> QED
  BY <1>2, <1>3, GoesOnKeeps

\* A request that deletes tokens as it goes on.
LEMMA RevokingKeeps ==
    ASSUME S!SessionsAssumption, SessionsInv, NEW p \in Requests, GoesOn(p),
           UNCHANGED <<users, claims, jar, spent, signedOut>>,
           \/ \E t \in 1 .. Len(tokens) : S!RevokeRefreshToken(t)
           \/ \E i : S!RevokeAllUserTokens(i)
    PROVE  SessionsInv'
<1>1. Linked
  BY DEF SessionsInv
<1>2. /\ tokens' \in Seq(TokenOf(Len(users))) /\ Len(tokens') = Len(tokens)
      /\ \A x \in 1 .. Len(tokens) : tokens'[x].off = tokens[x].off
      /\ events' \in 0 .. MaxEvents
  BY <1>1, RevokeTypes, RevokeAllTypes
<1>3. signedOut' \in BOOLEAN
  BY <1>1 DEF Linked
<1> QED
  BY <1>2, <1>3, GoesOnKeeps

LEMMA CreateKeeps ==
    ASSUME S!SessionsAssumption, SessionsInv, NEW p \in Requests, S!CreateUser(p) PROVE SessionsInv'
<1>1. Linked /\ Watched /\ Tabs /\ S!OffAccountsGetNoSession
  BY DEF SessionsInv
<1>2. GoesOn(p) /\ UNCHANGED <<tokens, claims, jar, events, spent, signedOut>>
  BY <1>1, CreateGoesOn DEF S!CreateUser
<1>3. CASE users' = users
  BY <1>2, <1>3, QuietKeeps
<1>4. CASE users' = Append(users, req[p].row) /\ Len(users') <= MaxUsers
  <2>u. req[p].row \in S!User
    BY <1>1, CreateGoesOn
  <2>1. /\ Len(users') = Len(users) + 1 /\ Len(users) \in Nat /\ Len(tokens) \in Nat
        /\ DOMAIN users = 1 .. Len(users) /\ DOMAIN users' = 1 .. Len(users')
        /\ \A i \in DOMAIN users : users'[i] = users[i]
    BY <1>1, <1>4, <2>u DEF Linked
  <2>2. ReqsOK'
    BY <1>1, <1>2, <2>1, BecomesReqs
  <2>3. Linked'
    BY <1>1, <1>2, <1>4, <2>u, <2>2, MoreUsers DEF Linked
  <2>4. OffStays
    BY <2>1 DEF OffStays, S!Off
  <2>5. Watched'
    BY <1>1, <1>2, <2>1, <2>4, BecomesWatched
  <2>6. Tabs'
    BY <1>1, <1>2, BecomesTabs
  <2> QED
    BY <1>1, <1>2, <2>3, <2>5, <2>6 DEF SessionsInv, S!OffAccountsGetNoSession
<1> QED
  BY <1>1, <1>3, <1>4, CreateGoesOn

LEMMA FindKeeps ==
    ASSUME S!SessionsAssumption, SessionsInv, NEW p \in Requests, S!RefreshFind(p)
    PROVE  SessionsInv'
<1>1. /\ Linked /\ Watched /\ req[p].at = "find"
      /\ UNCHANGED <<users, claims, jar, spent, signedOut>>
      /\ "refresh" \in S!Op
  BY DEF SessionsInv, S!RefreshFind, S!Op
<1>2. Len(users) \in Nat /\ Len(tokens) \in Nat /\ DOMAIN users = 1 .. Len(users)
  BY <1>1, Numbers
<1>3. CASE S!GotoClear(p, "refresh") /\ UNCHANGED <<tokens, events>>
  <2>1. GoesOn(p)
    BY <1>1, <1>2, <1>3, EndsAre
  <2> QED
    BY <1>1, <1>3, <2>1, QuietKeeps
<1>4. CASE S!RevokeRefreshToken(req[p].token) /\ S!GotoClear(p, "refresh")
  <2>1. req[p].token \in 1 .. Len(tokens)
    BY <1>1, <1>2, RequestIs, ReqFields DEF Placed
  <2>2. Len(tokens') = Len(tokens)
    BY <1>1, <1>4, <2>1, RevokeTypes
  <2>3. GoesOn(p)
    BY <1>1, <1>2, <1>4, <2>2, EndsAre
  <2> QED
    BY <1>1, <1>4, <2>1, <2>3, RevokingKeeps
<1>5. ASSUME NEW i \in S!FindByID(req[p].user), users[i].active,
             req' = [req EXCEPT ![p].at = "revoke", ![p].row.role = users[i].role],
             UNCHANGED <<tokens, events>>
      PROVE  SessionsInv'
  <2>1. i = req[p].user /\ i \in DOMAIN users /\ ~users[i].deleted
    BY <1>5 DEF S!FindByID, S!Live
  <2>2. ~req[p].off
    BY <1>1, <1>5, <2>1 DEF Watched, S!Off
  <2>3. users[i].role \in S!Role
    BY <1>1, <1>2, <2>1, Numbers, UserTypes
  <2>4. GoesOn(p)
    BY <1>1, <1>5, <2>2, <2>3, StageGoesOn
  <2> QED
    BY <1>1, <1>5, <2>4, QuietKeeps
<1> QED
  BY <1>3, <1>4, <1>5 DEF S!RefreshFind

LEMMA RefreshRevokeKeeps ==
    ASSUME S!SessionsAssumption, SessionsInv, NEW p \in Requests, S!RefreshRevoke(p)
    PROVE  SessionsInv'
<1>1. /\ Linked /\ Watched /\ req[p].at = "revoke" /\ req' = [req EXCEPT ![p].at = "issue"]
      /\ S!RevokeRefreshToken(req[p].token) /\ UNCHANGED <<users, claims, jar, spent, signedOut>>
  BY DEF SessionsInv, S!RefreshRevoke, S!Goto
<1>2. req[p].token \in 1 .. Len(tokens)
  BY <1>1, Numbers, RequestIs, ReqFields DEF Placed
<1>3. Len(tokens') = Len(tokens)
  BY <1>1, <1>2, RevokeTypes
<1>4. ~req[p].off /\ "member" \in S!Role
  BY <1>1 DEF Watched, S!Role
<1>5. GoesOn(p)
  BY <1>1, <1>3, <1>4, StageGoesOn
<1> QED
  BY <1>1, <1>2, <1>5, RevokingKeeps

\* The new token is in the hands of one request, which was not off.
LEMMA IssueStays ==
    ASSUME S!SessionsAssumption, SessionsInv, NEW p \in Requests, S!IssueTokens(p)
    PROVE  SessionsInv'
<1> DEFINE q == req[p]
           n == Len(tokens) + 1
           x == [user |-> q.user, row |-> "stored", off |-> q.off]
           r == [S!Idle EXCEPT !.op = q.op, !.at = "answer", !.token = q.token, !.new = n]
<1>1. /\ Linked /\ Watched /\ Tabs /\ S!OffAccountsGetNoSession
      /\ q.at = "issue" /\ UNCHANGED <<users, jar, spent, signedOut>> /\ "refresh" \in S!Op
  BY DEF SessionsInv, S!IssueTokens, S!Op
<1>2. /\ Len(users) \in Nat /\ Len(tokens) \in Nat /\ DOMAIN users = 1 .. Len(users)
      /\ DOMAIN tokens = 1 .. Len(tokens) /\ MaxTokens \in Nat
  BY <1>1, Numbers DEF S!SessionsAssumption
<1>3. /\ q \in ReqOf(Len(users), Len(tokens)) /\ Placed(q) /\ q.off = FALSE
  BY <1>1, RequestIs, ReqFields DEF Watched
<1>4. CASE (S!GotoClear(p, "refresh") \/ S!End(p)) /\ S!Event /\ UNCHANGED <<tokens, claims>>
  <2>1. GoesOn(p)
    BY <1>1, <1>2, <1>4, EndsAre
  <2> QED
    BY <1>1, <1>4, <2>1, QuietKeeps
<1>5. CASE /\ Len(tokens) < MaxTokens /\ tokens' = Append(tokens, x)
           /\ claims' = claims \cup {[user |-> q.user, role |-> q.row.role]}
           /\ req' = [req EXCEPT ![p] = r]
           /\ UNCHANGED events
  <2>f. /\ q.op \in S!Op /\ q.user \in 1 .. Len(users) /\ q.row.role \in S!Role
        /\ q.token \in 0 .. Len(tokens) /\ (q.op = "refresh" => q.token # 0)
    <3>1. /\ q.op \in S!Op /\ q.user \in 0 .. Len(users) /\ q.row \in S!User
          /\ q.token \in 0 .. Len(tokens)
      BY <1>3, ReqFields
    <3>2. q.user # 0 /\ (q.op = "refresh" => q.token # 0)
      BY <1>1, <1>3 DEF Placed
    <3>3. q.row.role \in S!Role
      BY <3>1, UserTypes
    <3> QED
      BY <1>2, <3>1, <3>2, <3>3
  <2>1. x \in TokenOf(Len(users)) /\ x.off = FALSE
    BY <1>3, <2>f DEF TokenOf
  <2>e. req' = [req EXCEPT ![p] = r] /\ tokens' = Append(tokens, x)
    BY <1>5
  <2>g. r = [S!Idle EXCEPT !.op = q.op, !.at = "answer", !.token = q.token, !.new = n]
    OBVIOUS
  <2>h. n = Len(tokens) + 1
    OBVIOUS
  <2>q. q = req[p]
    OBVIOUS
  <2> HIDE DEF r, q, n, x
  <2>2. r = [op |-> q.op, at |-> "answer", user |-> 0, row |-> S!NoUser, token |-> q.token,
             new |-> n, off |-> FALSE]
    BY <2>g DEF S!Idle
  <2>3. /\ tokens' \in Seq(TokenOf(Len(users))) /\ Len(tokens') = n
        /\ DOMAIN tokens' = 1 .. n /\ n \in Nat /\ Len(tokens) < n /\ n # 0 /\ n <= MaxTokens
        /\ \A t \in 1 .. Len(tokens) : tokens'[t] = tokens[t]
        /\ tokens'[n] = x
    BY <1>1, <1>2, <1>5, <2>1, <2>e, <2>h DEF Linked
  <2>4. /\ 0 \in 0 .. Len(users) /\ q.token \in 0 .. n /\ n \in 0 .. n
        /\ S!NoUser \in S!User /\ "answer" \in S!Stage
    BY <1>2, <2>f, <2>3, NewUserTypes DEF S!Stage
  <2>5. /\ r \in ReqOf(Len(users), n)
        /\ r.op = q.op /\ r.at = "answer" /\ r.token = q.token /\ r.new = n /\ r.off = FALSE
    BY ONLY <1>2, <2>2, <2>3, <2>4, <2>f, WrittenOutOn
  <2>6. Placed(r)
    BY ONLY <2>3, <2>5, <2>f DEF Placed
  <2>7. ReqsOK'
    <3>1. /\ Len(users') \in Nat /\ Len(tokens') \in Nat /\ Len(users) <= Len(users')
          /\ Len(tokens) <= Len(tokens') /\ r \in ReqOf(Len(users'), Len(tokens'))
      BY <1>1, <1>2, <2>3, <2>5
    <3> QED
      BY <1>1, <1>2, <2>e, <2>6, <3>1, OneRequest DEF Linked
  <2>8. Linked'
    <3>1. CookieOf(Len(tokens)) \subseteq CookieOf(n)
      BY <1>2, <2>3, Grows
    <3>2. jar' \subseteq CookieOf(Len(tokens')) /\ spent' \subseteq 1 .. Len(tokens')
      BY <1>1, <1>2, <2>3, <3>1 DEF Linked
    <3>3. [user |-> q.user, role |-> q.row.role] \in ClaimOf(Len(users))
      BY <2>f DEF ClaimOf
    <3>4. claims' \subseteq ClaimOf(Len(users'))
      BY <1>1, <1>5, <3>3 DEF Linked, q
    <3> QED
      BY <1>1, <1>5, <2>3, <2>7, <3>2, <3>4 DEF Linked
  <2>9. /\ req'[p] = r /\ \A y \in Requests \ {p} : req'[y] = req[y]
    BY <1>1, <2>e, ReqFunction
  <2>10. Watched'
    BY <1>1, <2>5, <2>9 DEF Watched
  <2>11. S!OffAccountsGetNoSession'
    <3>1. \A t \in 1 .. n : t \in 1 .. Len(tokens) \/ t = n
      BY <1>2, <2>h
    <3> QED
      BY <1>1, <1>2, <2>1, <2>3, <3>1 DEF S!OffAccountsGetNoSession
  <2>12. Tabs'
    <3>1. /\ \A c \in jar : c.token # n
          /\ n \notin spent
          /\ \A y \in Requests : req[y].token # n /\ req[y].new # n
      <4>1. \A c \in jar : c.token \in 1 .. Len(tokens)
        BY <1>1 DEF Linked, CookieOf
      <4>2. \A y \in Requests : req[y].token \in 0 .. Len(tokens) /\ req[y].new \in 0 .. Len(tokens)
        BY <1>1, RequestIs, ReqFields
      <4>3. n \notin 0 .. Len(tokens) /\ n \notin 1 .. Len(tokens)
        BY <1>2, <2>h
      <4> QED
        BY <1>1, <4>1, <4>2, <4>3 DEF Linked
    <3>2. \A y \in Requests : req'[y].token = req[y].token
      BY <2>5, <2>9, <2>q
    <3>3. ASSUME NEW y \in Requests, req'[y].at = "answer"
          PROVE  /\ req'[y].new \notin spent'
                 /\ \A c \in jar' : c.token # req'[y].new
                 /\ \A z \in Requests : req'[z].token # req'[y].new
                 /\ \A z \in Requests \ {y} : req'[z].at = "answer" => req'[z].new # req'[y].new
      <4>1. CASE y = p
        <5>1. req'[y].new = n
          BY <2>5, <2>9, <4>1
        <5> QED
          BY <1>1, <2>9, <3>1, <3>2, <4>1, <5>1
      <4>2. CASE y # p
        <5>1. req'[y] = req[y] /\ req[y].at = "answer"
          BY <2>9, <3>3, <4>2
        <5>2. /\ req[y].new \notin spent /\ \A c \in jar : c.token # req[y].new
              /\ \A z \in Requests : req[z].token # req[y].new
              /\ \A z \in Requests \ {y} : req[z].at = "answer" => req[z].new # req[y].new
          BY <1>1, <5>1 DEF Tabs
        <5> QED
          BY <1>1, <2>5, <2>9, <3>1, <3>2, <5>1, <5>2
      <4> QED
        BY <4>1, <4>2
    <3> QED
      BY <1>1, <3>3 DEF Tabs
  <2> QED
    BY <2>8, <2>10, <2>11, <2>12 DEF SessionsInv
<1> QED
  BY <1>4, <1>5 DEF S!IssueTokens

\* The answer takes the new token from the request to the browser.
LEMMA AnswerKeeps ==
    ASSUME S!SessionsAssumption, SessionsInv, NEW p \in Requests, S!Answer(p)
    PROVE  SessionsInv'
<1>1. /\ Linked /\ Watched /\ Tabs /\ S!OffAccountsGetNoSession /\ req[p].at = "answer"
      /\ UNCHANGED <<users, tokens, claims, events>> /\ signedOut' = FALSE
      /\ req' = [req EXCEPT ![p] = S!Idle]
      /\ jar' = S!SetRefreshCookie(req[p].new)
      /\ \/ spent' = spent \cup {req[p].token} /\ req[p].op = "refresh"
         \/ spent' = spent
  BY DEF SessionsInv, S!Answer, S!End
<1>2. /\ Len(users) \in Nat /\ Len(tokens) \in Nat /\ DOMAIN users = 1 .. Len(users)
  BY <1>1, Numbers
<1>3. GoesOn(p)
  BY <1>1, <1>2, EndsAre DEF S!End
<1>4. ReqsOK'
  BY <1>1, <1>2, <1>3, BecomesReqs
<1>5. /\ req[p].new \in 1 .. Len(tokens) /\ req[p].token \in 0 .. Len(tokens)
      /\ (req[p].op = "refresh" => req[p].token # 0)
  <2>1. req[p].new \in 0 .. Len(tokens) /\ req[p].token \in 0 .. Len(tokens)
    BY <1>1, RequestIs, ReqFields
  <2>2. req[p].new # 0 /\ (req[p].op = "refresh" => req[p].token # 0)
    BY <1>1, RequestIs DEF Placed
  <2> QED
    BY <1>2, <2>1, <2>2
<1>6. jar' = {[path |-> "/", token |-> req[p].new]}
  <2>1. \A c \in jar : c.path = "/"
    BY <1>1 DEF Linked, CookieOf
  <2> QED
    BY <1>1, <2>1 DEF S!SetRefreshCookie
<1>7. Linked'
  <2>1. jar' \subseteq CookieOf(Len(tokens))
    BY <1>5, <1>6 DEF CookieOf
  <2>2. spent' \subseteq 1 .. Len(tokens)
    <3>1. spent \subseteq 1 .. Len(tokens)
      BY <1>1 DEF Linked
    <3>2. CASE req[p].op = "refresh"
      <4>1. req[p].token \in 1 .. Len(tokens)
        BY <1>2, <1>5, <3>2
      <4> QED
        BY <1>1, <3>1, <4>1
    <3> QED
      BY <1>1, <3>1, <3>2
  <2> QED
    BY <1>1, <1>4, <2>1, <2>2 DEF Linked
<1>8. Watched'
  <2>1. OffStays
    BY <1>1 DEF OffStays
  <2> QED
    BY <1>1, <1>2, <1>3, <2>1, BecomesWatched
<1>9. req'[p] = S!Idle /\ \A q \in Requests \ {p} : req'[q] = req[q]
  BY <1>1, ReqFunction
<1>10. Tabs'
  <2>i. S!Idle.at # "answer" /\ S!Idle.token = 0
    BY DEF S!Idle
  <2>0. /\ req[p].new \notin spent /\ req[p].token # req[p].new
    BY <1>1 DEF Tabs
  <2>1. jar' # {} /\ \A c \in jar' : c.token = req[p].new
    BY <1>6
  <2>2. \A c \in jar' : c.token \notin spent'
    BY <1>1, <2>0, <2>1
  <2>3. ASSUME NEW q \in Requests, req'[q].at = "answer"
        PROVE  /\ req'[q].new \notin spent'
               /\ \A c \in jar' : c.token # req'[q].new
               /\ \A x \in Requests : req'[x].token # req'[q].new
               /\ \A x \in Requests \ {q} : req'[x].at = "answer" => req'[x].new # req'[q].new
    <3>1. q # p /\ req'[q] = req[q]
      BY <1>9, <2>i, <2>3
    <3>2. /\ req[q].new \notin spent
          /\ \A x \in Requests : req[x].token # req[q].new
          /\ \A x \in Requests \ {q} : req[x].at = "answer" => req[x].new # req[q].new
      BY <1>1, <2>3, <3>1 DEF Tabs
    <3>3. req[q].new # 0
      BY <1>1, <2>3, <3>1, RequestIs DEF Placed
    <3> QED
      BY <1>1, <1>9, <2>i, <2>1, <3>1, <3>2, <3>3
  <2> QED
    BY <2>1, <2>2, <2>3 DEF Tabs
<1> QED
  BY <1>1, <1>7, <1>8, <1>10 DEF SessionsInv, S!OffAccountsGetNoSession

\* The cookie that is to be cleared has another path, so that the browser keeps its own.
LEMMA ClearedKeeps ==
    ASSUME S!SessionsAssumption, SessionsInv, NEW p \in Requests, S!AnswerCleared(p)
    PROVE  SessionsInv'
<1>1. /\ Linked /\ S!End(p)
      /\ UNCHANGED <<users, tokens, claims, events, spent>> /\ jar' = S!ClearRefreshCookie
      /\ signedOut' = (signedOut \/ req[p].op = "logout")
  BY DEF SessionsInv, S!AnswerCleared
<1>2. jar' = jar
  BY <1>1 DEF S!ClearRefreshCookie, Linked, CookieOf
<1>3. GoesOn(p)
  BY <1>1, Numbers, EndsAre
<1>4. events' \in 0 .. MaxEvents /\ tokens' \in Seq(TokenOf(Len(users)))
  BY <1>1 DEF Linked
<1>5. signedOut' \in BOOLEAN
  BY <1>1
<1> QED
  BY <1>1, <1>2, <1>3, <1>4, <1>5, GoesOnKeeps

\* An account is saved, maybe turned on again: requests that watch it are told.
LEMMA SaveKeeps ==
    ASSUME S!SessionsAssumption, SessionsInv, NEW p \in Requests, S!SaveUser(p)
    PROVE  SessionsInv'
<1> DEFINE saved == [users EXCEPT ![req[p].user] = req[p].row]
<1>1. /\ Linked /\ Watched /\ Tabs /\ S!OffAccountsGetNoSession /\ req[p].at = "save"
      /\ users' = saved /\ UNCHANGED <<tokens, claims, jar, events, spent, signedOut>>
      /\ req' = [q \in Requests |->
                   IF q = p THEN S!Idle
                   ELSE [req[q] EXCEPT !.off = @ /\ S!Off(saved, req[q].user)]]
  BY DEF SessionsInv, S!SaveUser
<1>2. /\ Len(users) \in Nat /\ Len(tokens) \in Nat /\ DOMAIN users = 1 .. Len(users)
      /\ users \in Seq(S!User)
  BY <1>1, Numbers DEF Linked
<1>3. req[p].row \in S!User
  BY <1>1, RequestIs, ReqFields
<1>4. users' \in Seq(S!User) /\ Len(users') = Len(users) /\ DOMAIN users' = DOMAIN users
  <2>1. req[p].user \in DOMAIN users
    BY <1>1, <1>2, RequestIs, ReqFields DEF Placed
  <2> QED
    BY <1>1, <1>2, <1>3, <2>1
<1>5. ASSUME NEW q \in Requests \ {p}
      PROVE  /\ req'[q] \in ReqOf(Len(users), Len(tokens)) /\ Placed(req'[q])
             /\ req'[q].off = (req[q].off /\ S!Off(users', req[q].user))
             /\ req'[q].at = req[q].at /\ req'[q].token = req[q].token
             /\ req'[q].new = req[q].new /\ req'[q].user = req[q].user
  <2> DEFINE b == req[q].off /\ S!Off(saved, req[q].user)
             r == [req[q] EXCEPT !.off = b]
  <2>1. req'[q] = r
    BY <1>1
  <2>2. b \in BOOLEAN
    OBVIOUS
  <2>3. b = (req[q].off /\ S!Off(users', req[q].user))
    BY <1>1
  <2>4. req[q] \in ReqOf(Len(users), Len(tokens)) /\ Placed(req[q])
    BY <1>1, RequestIs
  <2> HIDE DEF b
  <2>5. r = [req[q] EXCEPT !.off = b]
    OBVIOUS
  <2> HIDE DEF r
  <2>6. /\ r \in ReqOf(Len(users), Len(tokens)) /\ Placed(r)
        /\ r.off = b /\ r.at = req[q].at /\ r.token = req[q].token /\ r.new = req[q].new
        /\ r.user = req[q].user
    BY ONLY <2>2, <2>4, <2>5, OnAgainTypes
  <2> QED
    BY <2>1, <2>3, <2>6
<1>6. req'[p] = S!Idle /\ S!Idle \in ReqOf(Len(users), Len(tokens)) /\ Placed(S!Idle)
  BY <1>1, <1>2, IdleTypes
<1>i. S!Idle.at # "answer" /\ S!Idle.token = 0 /\ S!Idle.off = FALSE
  BY DEF S!Idle
<1>7. ReqsOK'
  <2>1. req' = [q \in Requests |-> req'[q]]
    BY <1>1
  <2>2. \A q \in Requests : req'[q] \in ReqOf(Len(users'), Len(tokens')) /\ Placed(req'[q])
    BY <1>1, <1>4, <1>5, <1>6
  <2>3. req' \in [Requests -> ReqOf(Len(users'), Len(tokens'))]
    BY <2>1, <2>2
  <2> QED
    BY <2>2, <2>3 DEF ReqsOK
<1>8. Linked'
  BY <1>1, <1>4, <1>7 DEF Linked
<1>9. Watched'
  BY <1>1, <1>4, <1>5, <1>6, <1>i DEF Watched
<1>10. Tabs'
  <2>1. \A q \in Requests : req'[q].at = "answer" =>
          /\ q # p /\ req[q].at = "answer" /\ req'[q].new = req[q].new /\ req[q].new # 0
    BY <1>1, <1>5, <1>6, <1>i, RequestIs DEF Placed
  <2>2. \A q \in Requests : req'[q].token = req[q].token \/ req'[q].token = 0
    BY <1>5, <1>6, <1>i
  <2> QED
    BY <1>1, <2>1, <2>2 DEF Tabs
<1> QED
  BY <1>1, <1>8, <1>9, <1>10 DEF SessionsInv, S!OffAccountsGetNoSession

\* Changes of an account that do not turn it on.
LEMMA AccountKeeps ==
    ASSUME S!SessionsAssumption, SessionsInv, NEW i \in DOMAIN users,
           S!Delete(i) \/ S!ResetPassword(i) \/ S!ChangePassword(i)
    PROVE  SessionsInv'
<1>1. /\ Linked /\ Watched /\ Tabs /\ S!OffAccountsGetNoSession
      /\ UNCHANGED <<tokens, claims, jar, req, spent, signedOut>> /\ S!Event
  BY DEF SessionsInv, S!Delete, S!ResetPassword, S!ChangePassword
<1>2. /\ DOMAIN users = 1 .. Len(users) /\ users \in Seq(S!User) /\ users[i] \in S!User
  BY <1>1, Numbers DEF Linked
<1>3. PICK u \in S!User : /\ users' = [users EXCEPT ![i] = u]
                          /\ u.active = users[i].active
                          /\ u.deleted = users[i].deleted \/ u.deleted = TRUE
  <2> DEFINE d == [users[i] EXCEPT !.deleted = TRUE]
             f(b) == [users[i] EXCEPT !.force = b]
  <2>1. CASE S!Delete(i)
    <3>1. users' = [users EXCEPT ![i] = d]
      BY <2>1 DEF S!Delete
    <3>2. d \in S!User /\ d.active = users[i].active /\ d.deleted = TRUE
      BY <1>2 DEF S!User
    <3> QED
      BY <3>1, <3>2
  <2>2. CASE S!ResetPassword(i) \/ S!ChangePassword(i)
    <3>1. PICK b \in BOOLEAN : users' = [users EXCEPT ![i] = f(b)]
      BY <2>2 DEF S!ResetPassword, S!ChangePassword
    <3>2. f(b) \in S!User /\ f(b).active = users[i].active /\ f(b).deleted = users[i].deleted
      BY <1>2 DEF S!User
    <3> QED
      BY <3>1, <3>2
  <2> QED
    BY <2>1, <2>2
<1>4. users' \in Seq(S!User) /\ Len(users') = Len(users) /\ DOMAIN users' = DOMAIN users
  BY <1>2, <1>3
<1>5. ReqsOK'
  BY <1>1, <1>4 DEF Linked, ReqsOK
<1>6. Linked'
  BY <1>1, <1>4, <1>5, EventTypes DEF Linked
<1>7. \A j \in DOMAIN users : S!Off(users, j) => S!Off(users', j)
  <2>1. users'[i] = u /\ \A j \in DOMAIN users \ {i} : users'[j] = users[j]
    BY <1>2, <1>3
  <2> QED
    BY <1>3, <1>4, <2>1 DEF S!Off
<1>8. Watched'
  BY <1>1, <1>4, <1>7 DEF Watched
<1>9. Tabs' /\ S!OffAccountsGetNoSession'
  BY <1>1 DEF Tabs, S!OffAccountsGetNoSession
<1> QED
  BY <1>6, <1>8, <1>9 DEF SessionsInv

\* An administrator creates an account.
LEMMA AdminCreateKeeps ==
    ASSUME S!SessionsAssumption, SessionsInv, NEW e \in Emails, NEW role \in S!Role,
           S!AdminCreate(e, role)
    PROVE  SessionsInv'
<1> DEFINE u == S!NewUser(e, role, TRUE)
<1>1. /\ Linked /\ Watched /\ Tabs /\ S!OffAccountsGetNoSession
      /\ UNCHANGED <<tokens, claims, jar, req, spent, signedOut>> /\ S!Event
      /\ users' = Append(users, u) /\ Len(users) < MaxUsers
  BY DEF SessionsInv, S!AdminCreate
<1>2. u \in S!User /\ MaxUsers \in Nat
  BY NewUserTypes DEF S!SessionsAssumption
<1> HIDE DEF u
<1>3. /\ Len(users') = Len(users) + 1 /\ Len(users) \in Nat /\ Len(tokens) \in Nat
      /\ DOMAIN users = 1 .. Len(users) /\ DOMAIN users' = 1 .. Len(users')
      /\ \A i \in DOMAIN users : users'[i] = users[i]
      /\ Len(users') <= MaxUsers
  BY <1>1, <1>2 DEF Linked
<1>4. ReqOf(Len(users), Len(tokens)) \subseteq ReqOf(Len(users'), Len(tokens'))
  BY <1>1, <1>3, Grows
<1>5. ReqsOK'
  BY <1>1, <1>4 DEF Linked, ReqsOK
<1>6. Linked'
  BY <1>1, <1>2, <1>3, <1>5, MoreUsers, EventTypes
<1>7. Watched'
  BY <1>1, <1>3 DEF Watched, S!Off
<1>8. Tabs' /\ S!OffAccountsGetNoSession'
  BY <1>1 DEF Tabs, S!OffAccountsGetNoSession
<1> QED
  BY <1>6, <1>7, <1>8 DEF SessionsInv

LEMMA ExpireKeeps ==
    ASSUME S!SessionsAssumption, SessionsInv, S!Expire PROVE SessionsInv'
<1>1. /\ Linked /\ Watched /\ Tabs /\ S!OffAccountsGetNoSession
      /\ UNCHANGED <<users, jar, req, spent, signedOut>> /\ S!Event
  BY DEF SessionsInv, S!Expire, S!ExpireRefreshToken, S!ExpireClaims
<1>2. /\ tokens' \in Seq(TokenOf(Len(users))) /\ Len(tokens') = Len(tokens)
      /\ \A x \in 1 .. Len(tokens) : tokens'[x].off = tokens[x].off
  <2>1. CASE UNCHANGED tokens
    BY <1>1, <2>1 DEF Linked
  <2>2. ASSUME NEW t \in DOMAIN tokens, S!ExpireRefreshToken(t)
        PROVE  /\ tokens' \in Seq(TokenOf(Len(users))) /\ Len(tokens') = Len(tokens)
               /\ \A x \in 1 .. Len(tokens) : tokens'[x].off = tokens[x].off
    <3> DEFINE r == [tokens[t] EXCEPT !.row = "expired"]
    <3>1. r \in TokenOf(Len(users)) /\ r.off = tokens[t].off
      BY <1>1, Numbers, TokenRowTypes
    <3>2. tokens' = [tokens EXCEPT ![t] = r]
      BY <2>2 DEF S!ExpireRefreshToken
    <3> HIDE DEF r
    <3> QED
      BY <1>1, <3>1, <3>2 DEF Linked
  <2> QED
    BY <2>1, <2>2 DEF S!Expire, S!ExpireClaims
<1>3. claims' \subseteq ClaimOf(Len(users))
  BY <1>1 DEF Linked, S!Expire, S!ExpireRefreshToken, S!ExpireClaims
<1>4. ReqsOK'
  BY <1>1, <1>2 DEF Linked, ReqsOK
<1>5. Linked'
  BY <1>1, <1>2, <1>3, <1>4, EventTypes DEF Linked
<1>6. S!OffAccountsGetNoSession'
  BY <1>1, <1>2, Numbers DEF S!OffAccountsGetNoSession
<1>7. Watched' /\ Tabs'
  BY <1>1 DEF Watched, Tabs
<1> QED
  BY <1>5, <1>6, <1>7 DEF SessionsInv

LEMMA SessionsInit == ASSUME S!SessionsAssumption, S!Init PROVE SessionsInv
<1>1. /\ users = <<>> /\ tokens = <<>> /\ claims = {} /\ jar = {} /\ spent = {} /\ events = 0
      /\ signedOut = FALSE /\ req = [p \in Requests |-> S!Idle]
  BY DEF S!Init
<1>2. Len(users) = 0 /\ Len(tokens) = 0 /\ MaxUsers \in Nat /\ MaxTokens \in Nat
      /\ MaxEvents \in Nat
  BY <1>1 DEF S!SessionsAssumption
<1>3. S!Idle \in ReqOf(0, 0) /\ Placed(S!Idle)
  BY IdleTypes
<1>4. ReqsOK
  BY <1>1, <1>2, <1>3 DEF ReqsOK
<1>5. Linked
  <2>1. /\ users \in Seq(S!User) /\ tokens \in Seq(TokenOf(Len(users)))
        /\ Len(users) <= MaxUsers /\ Len(tokens) <= MaxTokens /\ events \in 0 .. MaxEvents
    BY <1>1, <1>2
  <2> QED
    BY <1>1, <1>4, <2>1 DEF Linked
<1>6. S!Idle.at = "idle" /\ S!Idle.off = FALSE
  BY DEF S!Idle
<1>7. Watched /\ Tabs /\ S!OffAccountsGetNoSession
  BY <1>1, <1>6 DEF Watched, Tabs, S!OffAccountsGetNoSession
<1> QED
  BY <1>5, <1>7 DEF SessionsInv

LEMMA SessionsStays ==
    ASSUME S!SessionsAssumption, SessionsInv, [S!Next]_sVars PROVE SessionsInv'
<1>1. Linked /\ Watched
  BY DEF SessionsInv
<1>2. ASSUME NEW p \in Requests, NEW e \in Emails, S!Register(p, e) \/ S!SetupAdmin(p, e)
      PROVE  SessionsInv'
  <2>1. GoesOn(p)
    BY <1>1, <1>2, RegisterGoesOn
  <2> QED
    BY <1>2, <2>1, QuietKeeps DEF S!Register, S!SetupAdmin
<1>3. ASSUME NEW p \in Requests, NEW e \in Emails, S!Login(p, e) PROVE SessionsInv'
  <2>1. GoesOn(p)
    BY <1>1, <1>3, LoginGoesOn
  <2> QED
    BY <1>3, <2>1, QuietKeeps DEF S!Login
<1>4. ASSUME NEW p \in Requests, S!RegisterCount(p) PROVE SessionsInv'
  <2>1. GoesOn(p)
    BY <1>1, <1>4, CountGoesOn
  <2> QED
    BY <1>4, <2>1, QuietKeeps DEF S!RegisterCount
<1>5. ASSUME NEW p \in Requests, S!Refresh(p) PROVE SessionsInv'
  <2>1. GoesOn(p)
    BY <1>1, <1>5, RefreshGoesOn
  <2> QED
    BY <1>5, <2>1, QuietKeeps DEF S!Refresh
<1>6. ASSUME NEW p \in Requests, S!AnswerLost(p) PROVE SessionsInv'
  <2>1. UNCHANGED <<users, tokens, claims, jar, spent, signedOut>> /\ S!Event /\ S!End(p)
    BY <1>6 DEF S!AnswerLost
  <2>2. GoesOn(p)
    BY <1>1, <2>1, Numbers, EndsAre
  <2> QED
    BY <2>1, <2>2, QuietKeeps
<1>7. ASSUME NEW p \in Requests, S!Logout(p) PROVE SessionsInv'
  <2>1. /\ S!GotoClear(p, "logout") /\ "logout" \in S!Op
        /\ UNCHANGED <<users, claims, jar, spent, signedOut>>
    BY <1>7 DEF S!Logout, S!Op
  <2>2. PICK t \in 1 .. Len(tokens) : S!RevokeRefreshToken(t)
    BY <1>1, <1>7 DEF S!Logout, Linked, CookieOf
  <2>3. Len(tokens') = Len(tokens)
    BY <1>1, <2>2, RevokeTypes
  <2>4. GoesOn(p)
    BY <1>1, <2>1, <2>3, Numbers, EndsAre
  <2> QED
    BY <2>1, <2>2, <2>4, RevokingKeeps
<1>8. ASSUME NEW p \in Requests, S!LogoutAll(p) PROVE SessionsInv'
  <2>1. /\ S!GotoClear(p, "logout") /\ "logout" \in S!Op
        /\ UNCHANGED <<users, claims, jar, spent, signedOut>>
    BY <1>8 DEF S!LogoutAll, S!Op
  <2>2. PICK i : S!RevokeAllUserTokens(i)
    BY <1>8 DEF S!LogoutAll
  <2>3. Len(tokens') = Len(tokens)
    BY <1>1, <2>2, RevokeAllTypes
  <2>4. GoesOn(p)
    BY <1>1, <2>1, <2>3, Numbers, EndsAre
  <2> QED
    BY <2>1, <2>2, <2>4, RevokingKeeps
<1>9. ASSUME NEW p \in Requests, S!RequestStep(p) PROVE SessionsInv'
  BY <1>2, <1>3, <1>4, <1>5, <1>6, <1>7, <1>8, <1>9, CreateKeeps, FindKeeps, RefreshRevokeKeeps,
     IssueStays, AnswerKeeps, ClearedKeeps
  DEF S!RequestStep
<1>10. CASE S!AdminStep
  <2>1. ASSUME NEW i \in DOMAIN users, NEW p \in Requests, NEW role \in S!Role,
               NEW active \in BOOLEAN, S!Update(p, i, role, active)
        PROVE  SessionsInv'
    <3>1. GoesOn(p)
      BY <1>1, <2>1, UpdateGoesOn
    <3> QED
      BY <2>1, <3>1, QuietKeeps DEF S!Update
  <2> QED
    BY <1>10, <2>1, SaveKeeps, AccountKeeps, AdminCreateKeeps DEF S!AdminStep
<1>11. CASE UNCHANGED sVars
  <2>1. UNCHANGED <<users, tokens, claims, jar, req, events, spent, signedOut>>
    BY <1>11 DEF sVars
  <2> QED
    BY <2>1 DEF SessionsInv, Linked, ReqsOK, Watched, Tabs, S!OffAccountsGetNoSession
<1> QED
  BY <1>9, <1>10, <1>11, ExpireKeeps DEF S!Next

LEMMA SessionsMeans ==
    ASSUME S!SessionsAssumption, SessionsInv
    PROVE  S!TypeOK /\ S!OffAccountsGetNoSession /\ S!TabsKeepTheSession
<1>1. S!TypeOK /\ S!OffAccountsGetNoSession
  BY LinkedIsTyped DEF SessionsInv
<1> QED
  BY <1>1 DEF SessionsInv, Tabs, S!TabsKeepTheSession

-----------------------------------------------------------------------------
(* Enrolment *)

CallOfWorker == [at : {"idle", "token", "consume", "issue", "create", "renew", "status"},
                 worker : Workers \cup {Nobody}, token : RegTokens \cup {Nobody},
                 late : BOOLEAN]

\* What a run of the renewal job has left behind it, or has never had on its list, has its
\* full margin; no request that passed FindActive came after the revocation.
EnrolmentInv ==
    /\ E!TypeOK
    /\ missed <= today
    /\ job.todo \subseteq DOMAIN certs
    /\ job.new # 0 => job.at = "running" /\ job.old \in job.todo
    /\ job.at = "running" =>
         \A i \in E!Leaves \ job.todo : certs[i].notAfter >= today + RenewBefore
    /\ \A c \in Calls : ~call[c].late
    /\ E!RenewalMargin
    /\ E!NoCertAfterRevocation

\* What a step does to the certificates: those in use after it were in use before and end on
\* the same day, or are new; no certificate becomes one of a late request.
CertsKept ==
    /\ certs' \in Seq(E!Cert) /\ Len(certs') <= MaxCerts
    /\ DOMAIN certs \subseteq DOMAIN certs'
    /\ \A i \in E!Leaves' : \/ i \in E!Leaves /\ certs'[i].notAfter = certs[i].notAfter
                            \/ i \notin DOMAIN certs /\ certs'[i].notAfter = today + Validity
    /\ \A i \in DOMAIN certs' : ~certs'[i].late

LEMMA EnrolmentNumbers ==
    ASSUME E!EnrolmentAssumption
    PROVE  /\ Validity \in Nat /\ RenewBefore \in Nat /\ RenewBefore <= Validity
           /\ MaxCerts \in Nat /\ LastDay \in Nat /\ MaxStops \in Nat
  BY DEF E!EnrolmentAssumption

LEMMA CertFields ==
    ASSUME E!TypeOK, NEW i \in DOMAIN certs
    PROVE  /\ certs[i] \in E!Cert /\ certs[i].owner \in Workers \cup {Nobody}
           /\ certs[i].notAfter \in 0 .. LastDay + Validity
           /\ certs[i].revoked \in BOOLEAN /\ certs[i].renewedTo \in 0 .. MaxCerts
           /\ certs[i].late \in BOOLEAN
<1>1. certs \in Seq(E!Cert)
  BY DEF E!TypeOK
<1>2. certs[i] \in E!Cert
  BY <1>1, ElementTypes
<1> QED
  BY <1>2 DEF E!Cert, E!Plane

LEMMA IssueKeeps ==
    ASSUME E!EnrolmentAssumption, E!TypeOK, E!NoCertAfterRevocation,
           NEW w \in Workers \cup {Nobody}, E!IssueCert(w, FALSE)
    PROVE  CertsKept /\ DOMAIN certs' = 1 .. Len(certs) + 1 /\ Len(certs) < MaxCerts
<1> DEFINE n == E!NewCert(w, FALSE)
<1>1. n \in E!Cert
  <2>1. today + Validity \in 0 .. LastDay + Validity
    BY EnrolmentNumbers DEF E!TypeOK
  <2> QED
    BY <2>1, EnrolmentNumbers DEF E!NewCert, E!Cert, E!Plane
<1>2. n.notAfter = today + Validity /\ n.late = FALSE
  BY DEF E!NewCert
<1>3. Len(certs) < MaxCerts /\ certs' = Append(certs, n)
  BY DEF E!IssueCert
<1>4. certs \in Seq(E!Cert)
  BY DEF E!TypeOK
<1> HIDE DEF n
<1>5. /\ certs' \in Seq(E!Cert) /\ Len(certs') = Len(certs) + 1
      /\ DOMAIN certs' = 1 .. Len(certs) + 1 /\ DOMAIN certs = 1 .. Len(certs)
      /\ Len(certs) \in Nat
      /\ \A i \in DOMAIN certs : certs'[i] = certs[i]
      /\ certs'[Len(certs) + 1] = n
  BY <1>1, <1>3, <1>4
<1>6. Len(certs') <= MaxCerts
  BY <1>3, <1>5, EnrolmentNumbers
<1>7. \A i \in DOMAIN certs' : i \in DOMAIN certs \/ i = Len(certs) + 1
  BY <1>5
<1>8. Len(certs) + 1 \notin DOMAIN certs
  BY <1>5
<1>9. \A i \in E!Leaves' : \/ i \in E!Leaves /\ certs'[i].notAfter = certs[i].notAfter
                           \/ i \notin DOMAIN certs /\ certs'[i].notAfter = today + Validity
  BY <1>2, <1>5, <1>7, <1>8 DEF E!Leaves
<1>10. \A i \in DOMAIN certs' : ~certs'[i].late
  BY <1>2, <1>5, <1>7 DEF E!NoCertAfterRevocation
<1>11. DOMAIN certs \subseteq DOMAIN certs'
  BY <1>5
<1> QED
  BY <1>3, <1>5, <1>6, <1>9, <1>10, <1>11 DEF CertsKept

LEMMA LinkKeeps ==
    ASSUME E!EnrolmentAssumption, E!TypeOK, E!NoCertAfterRevocation,
           NEW i \in DOMAIN certs, NEW n \in 1 .. MaxCerts,
           certs' = [certs EXCEPT ![i].renewedTo = n]
    PROVE  CertsKept /\ E!Leaves' = E!Leaves \ {i} /\ DOMAIN certs' = DOMAIN certs
<1>1. certs \in Seq(E!Cert) /\ Len(certs) <= MaxCerts
  BY DEF E!TypeOK
<1> DEFINE r == [certs[i] EXCEPT !.renewedTo = n]
<1>2. /\ r \in E!Cert /\ r.notAfter = certs[i].notAfter /\ r.late = certs[i].late
      /\ r.renewedTo = n
  BY CertFields, EnrolmentNumbers DEF E!Cert
<1>3. certs' = [certs EXCEPT ![i] = r]
  OBVIOUS
<1> HIDE DEF r
<1>4. /\ certs' \in Seq(E!Cert) /\ Len(certs') = Len(certs) /\ DOMAIN certs' = DOMAIN certs
      /\ certs'[i] = r /\ \A k \in DOMAIN certs \ {i} : certs'[k] = certs[k]
  BY <1>1, <1>2, <1>3
<1>5. E!Leaves' = E!Leaves \ {i}
  BY <1>2, <1>4, EnrolmentNumbers DEF E!Leaves
<1>6. \A k \in DOMAIN certs' : ~certs'[k].late
  BY <1>2, <1>4 DEF E!NoCertAfterRevocation
<1>7. \A k \in E!Leaves' : k \in E!Leaves /\ certs'[k].notAfter = certs[k].notAfter
  BY <1>4, <1>5 DEF E!Leaves
<1> QED
  BY <1>1, <1>4, <1>5, <1>6, <1>7 DEF CertsKept

LEMMA RevokeKeeps ==
    ASSUME E!EnrolmentAssumption, E!TypeOK, E!NoCertAfterRevocation, NEW w,
           certs' = [i \in DOMAIN certs |->
                       IF certs[i].owner = w THEN [certs[i] EXCEPT !.revoked = TRUE]
                       ELSE certs[i]]
    PROVE  CertsKept /\ DOMAIN certs' = DOMAIN certs
<1>1. certs \in Seq(E!Cert) /\ Len(certs) <= MaxCerts
  BY DEF E!TypeOK
<1>2. \A i \in DOMAIN certs :
        LET r == [certs[i] EXCEPT !.revoked = TRUE] IN
        /\ r \in E!Cert /\ r.notAfter = certs[i].notAfter /\ r.late = certs[i].late
        /\ r.revoked
  BY CertFields DEF E!Cert
<1>3. DOMAIN certs = 1 .. Len(certs) /\ Len(certs) \in Nat
  BY <1>1
<1>4. DOMAIN certs' = DOMAIN certs
  OBVIOUS
<1>5. \A i \in DOMAIN certs : /\ certs'[i] \in E!Cert /\ certs'[i].notAfter = certs[i].notAfter
                              /\ certs'[i].late = certs[i].late
                              /\ certs'[i] = certs[i] \/ certs'[i].revoked
  BY <1>2, CertFields
<1>6. certs' \in Seq(E!Cert) /\ Len(certs') = Len(certs)
  <2>1. certs' \in [1 .. Len(certs) -> E!Cert]
    BY <1>3, <1>5
  <2> QED
    BY <1>3, <2>1
<1>7. \A k \in E!Leaves' : k \in E!Leaves /\ certs'[k].notAfter = certs[k].notAfter
  BY <1>4, <1>5 DEF E!Leaves
<1>8. \A k \in DOMAIN certs' : ~certs'[k].late
  BY <1>4, <1>5 DEF E!NoCertAfterRevocation
<1> QED
  BY <1>1, <1>4, <1>6, <1>7, <1>8 DEF CertsKept

\* What the days of the certificates in use allow stays allowed on the same day.
LEMMA MarginKept ==
    ASSUME E!EnrolmentAssumption, EnrolmentInv, CertsKept, today' = today, missed' = missed
    PROVE  /\ E!RenewalMargin' /\ E!NoCertAfterRevocation'
           /\ job.at = "running" =>
                \A i \in E!Leaves' \ job.todo : certs'[i].notAfter >= today + RenewBefore
<1>1. today \in Nat /\ missed \in Nat
  BY EnrolmentNumbers DEF EnrolmentInv, E!TypeOK
<1>2. \A i \in E!Leaves : i \in DOMAIN certs
  BY DEF E!Leaves
<1>3. E!RenewalMargin'
  BY <1>1, <1>2, EnrolmentNumbers DEF CertsKept, EnrolmentInv, E!RenewalMargin
<1>4. ASSUME job.at = "running", NEW i \in E!Leaves' \ job.todo
      PROVE  certs'[i].notAfter >= today + RenewBefore
  BY <1>1, <1>2, <1>4, EnrolmentNumbers DEF CertsKept, EnrolmentInv
<1> QED
  BY <1>3, <1>4 DEF CertsKept, E!NoCertAfterRevocation

LEMMA CallOfTypes ==
    ASSUME NEW r \in CallOfWorker
    PROVE  /\ \A s \in {"idle", "token", "consume", "issue", "create", "renew", "status"} :
                [r EXCEPT !.at = s] \in CallOfWorker
           /\ r.worker \in Workers \cup {Nobody} /\ r.token \in RegTokens \cup {Nobody}
           /\ r.late \in BOOLEAN
  BY DEF CallOfWorker

LEMMA NewCallTypes ==
    /\ E!Idle \in CallOfWorker
    /\ \A w \in Workers, t \in RegTokens :
         [E!Idle EXCEPT !.at = "token", !.worker = w, !.token = t] \in CallOfWorker
    /\ \A w \in Workers, b \in BOOLEAN :
         [E!Idle EXCEPT !.at = "renew", !.worker = w, !.late = b] \in CallOfWorker
    /\ \A w \in Workers : [E!Idle EXCEPT !.at = "status", !.worker = w] \in CallOfWorker
  BY DEF E!Idle, CallOfWorker

\* The table of requests after a step of one request.
LEMMA StartKeeps ==
    ASSUME E!TypeOK, \A d \in Calls : ~call[d].late, NEW c \in Calls, NEW r \in CallOfWorker,
           ~r.late, call' = [call EXCEPT ![c] = r]
    PROVE  call' \in [Calls -> CallOfWorker] /\ \A d \in Calls : ~call'[d].late
  BY DEF E!TypeOK, CallOfWorker

LEMMA GotoKeeps ==
    ASSUME E!TypeOK, \A d \in Calls : ~call[d].late, NEW c \in Calls,
           NEW s \in {"idle", "token", "consume", "issue", "create", "renew", "status"},
           E!Goto(c, s) \/ E!End(c)
    PROVE  call' \in [Calls -> CallOfWorker] /\ \A d \in Calls : ~call'[d].late
<1>1. call \in [Calls -> CallOfWorker]
  BY DEF E!TypeOK, CallOfWorker
<1>2. CASE E!Goto(c, s)
  <2> DEFINE r == [call[c] EXCEPT !.at = s]
  <2>1. r \in CallOfWorker
    BY <1>1, CallOfTypes
  <2>2. r.late = call[c].late
    BY <1>1 DEF CallOfWorker
  <2>3. call' = [call EXCEPT ![c] = r]
    BY <1>2 DEF E!Goto
  <2> QED
    BY <2>1, <2>2, <2>3, StartKeeps
<1>3. CASE E!End(c)
  <2>1. E!Idle.late = FALSE
    BY DEF E!Idle
  <2> QED
    BY <1>3, <2>1, NewCallTypes, StartKeeps DEF E!End
<1> QED
  BY <1>2, <1>3

\* A step of a request.
LEMMA CallStepKeeps ==
    ASSUME E!EnrolmentAssumption, EnrolmentInv, NEW c \in Calls, E!CallStep(c)
    PROVE  EnrolmentInv'
<1>t. /\ E!TypeOK /\ \A d \in Calls : ~call[d].late
      /\ call \in [Calls -> CallOfWorker] /\ E!NoCertAfterRevocation
  BY DEF EnrolmentInv, E!TypeOK, CallOfWorker
<1>s. UNCHANGED <<job, plane, today, missed>>
  BY DEF E!CallStep, E!Register, E!LookUpToken, E!ConsumeToken, E!RegisterIssue, E!CreateWorker,
         E!Renew, E!RenewCert, E!RevokeCerts, E!RevokeNode
<1>i. E!Idle.late = FALSE
  BY DEF E!Idle
\* The certificates.
<1>c. UNCHANGED certs \/ CertsKept
  <2>1. ASSUME E!RegisterIssue(c) \/ E!RenewCert(c) PROVE UNCHANGED certs \/ CertsKept
    <3>1. UNCHANGED certs \/ E!IssueCert(call[c].worker, FALSE)
      BY <1>t, <2>1 DEF E!RegisterIssue, E!RenewCert, CallOfWorker
    <3>2. call[c].worker \in Workers \cup {Nobody}
      BY <1>t, CallOfTypes
    <3> QED
      BY <1>t, <3>1, <3>2, IssueKeeps
  <2>2. ASSUME NEW w \in Workers, E!RevokeCerts(c, w) PROVE CertsKept
    BY <1>t, <2>2, RevokeKeeps DEF E!RevokeCerts
  <2> QED
    BY <2>1, <2>2 DEF E!CallStep, E!Register, E!LookUpToken, E!ConsumeToken, E!CreateWorker,
       E!Renew,
         E!RevokeNode
\* The requests.
<1>r. call' \in [Calls -> CallOfWorker] /\ \A d \in Calls : ~call'[d].late
  <2>1. ASSUME NEW s \in {"idle", "consume", "issue", "create"}, E!Goto(c, s) \/ E!End(c)
        PROVE  call' \in [Calls -> CallOfWorker] /\ \A d \in Calls : ~call'[d].late
    BY <1>t, <2>1, GotoKeeps
  <2>2. ASSUME NEW r \in CallOfWorker, ~r.late, E!Start(c, r)
        PROVE  call' \in [Calls -> CallOfWorker] /\ \A d \in Calls : ~call'[d].late
    BY <1>t, <2>2, StartKeeps DEF E!Start
  <2>3. ASSUME NEW w \in Workers, NEW t \in RegTokens, E!Register(c, w, t)
        PROVE  \E r \in CallOfWorker : ~r.late /\ E!Start(c, r)
    <3>1. [E!Idle EXCEPT !.at = "token", !.worker = w, !.token = t].late = FALSE
      BY DEF E!Idle
    <3> QED
      BY <2>3, <3>1, NewCallTypes DEF E!Register
  <2>4. ASSUME NEW w \in Workers, E!Renew(c, w)
        PROVE  \E r \in CallOfWorker : ~r.late /\ E!Start(c, r)
    <3>1. (node[w] = "revoked") = FALSE
      BY <2>4 DEF E!Renew, E!FindActive
    <3>2. [E!Idle EXCEPT !.at = "renew", !.worker = w, !.late = FALSE].late = FALSE
      BY DEF E!Idle
    <3>3. E!Start(c, [E!Idle EXCEPT !.at = "renew", !.worker = w, !.late = FALSE])
      BY <2>4, <3>1 DEF E!Renew
    <3> QED
      BY <3>2, <3>3, NewCallTypes
  <2>5. ASSUME NEW w \in Workers, E!RevokeCerts(c, w)
        PROVE  \E r \in CallOfWorker : ~r.late /\ E!Start(c, r)
    <3>1. [E!Idle EXCEPT !.at = "status", !.worker = w].late = FALSE
      BY DEF E!Idle
    <3> QED
      BY <2>5, <3>1, NewCallTypes DEF E!RevokeCerts
  <2>6. \/ \E s \in {"idle", "consume", "issue", "create"} : E!Goto(c, s) \/ E!End(c)
        \/ \E w \in Workers : \/ \E t \in RegTokens : E!Register(c, w, t)
                              \/ E!Renew(c, w) \/ E!RevokeCerts(c, w)
    BY DEF E!CallStep, E!LookUpToken, E!ConsumeToken, E!RegisterIssue, E!CreateWorker,
           E!RenewCert, E!RevokeNode
  <2> QED
    BY <2>1, <2>2, <2>3, <2>4, <2>5, <2>6
\* The tokens and the workers.
<1>n. regToken' \in [RegTokens -> {"none", "fresh", "used", "expired"}]
  BY <1>t DEF E!TypeOK, E!CallStep, E!Register, E!LookUpToken, E!ConsumeToken, E!RegisterIssue,
       E!CreateWorker, E!Renew, E!RenewCert, E!RevokeCerts, E!RevokeNode
<1>w. node' \in [Workers -> E!NodeStatus]
  BY <1>t DEF E!TypeOK, E!NodeStatus, E!CallStep, E!Register, E!LookUpToken, E!ConsumeToken,
       E!RegisterIssue, E!CreateWorker, E!Renew, E!RenewCert, E!RevokeCerts, E!RevokeNode
<1>1. E!TypeOK'
  BY <1>t, <1>s, <1>c, <1>r, <1>n, <1>w DEF E!TypeOK, CertsKept, CallOfWorker
<1>2. CASE UNCHANGED certs
  <2>1. E!Leaves' = E!Leaves
    BY <1>2 DEF E!Leaves
  <2> QED
    BY <1>1, <1>2, <1>s, <1>r, <2>1 DEF EnrolmentInv, E!RenewalMargin, E!NoCertAfterRevocation
<1>3. CASE CertsKept
  BY <1>1, <1>3, <1>s, <1>r, MarginKept DEF EnrolmentInv, CertsKept
<1> QED
  BY <1>c, <1>2, <1>3

\* A step of the renewal job.
LEMMA RenewalKeeps ==
    ASSUME E!EnrolmentAssumption, EnrolmentInv, E!RenewalJob
    PROVE  EnrolmentInv'
<1>t. /\ E!TypeOK /\ E!NoCertAfterRevocation /\ job.todo \subseteq DOMAIN certs
      /\ today \in Nat /\ missed \in Nat
      /\ job \in [at : {"idle", "due", "running"}, todo : SUBSET (1 .. MaxCerts),
                  old : 0 .. MaxCerts, new : 0 .. MaxCerts]
  BY EnrolmentNumbers DEF EnrolmentInv, E!TypeOK
<1>d. DOMAIN certs = 1 .. Len(certs) /\ Len(certs) \in Nat /\ Len(certs) <= MaxCerts
  BY <1>t DEF E!TypeOK
<1>l. \A i \in E!Leaves : i \in DOMAIN certs /\ certs[i].notAfter \in Nat
  BY <1>t, CertFields, EnrolmentNumbers DEF E!Leaves
<1>s. UNCHANGED <<regToken, node, call, plane, today>>
  BY DEF E!RenewalJob, E!RunRenewal, E!RenewIssue, E!RenewLink, E!RenewFails, E!RenewDone
<1>1. CASE E!RunRenewal
  <2>1. /\ job' = [job EXCEPT !.at = "running", !.todo = E!Expiring] /\ job.at = "due"
        /\ UNCHANGED <<certs, missed>>
    BY <1>1 DEF E!RunRenewal
  <2>2. job.new = 0
    BY <2>1 DEF EnrolmentInv
  <2>3. E!Expiring \in SUBSET (1 .. MaxCerts) /\ E!Expiring \subseteq DOMAIN certs
    BY <1>d, <1>l, EnrolmentNumbers DEF E!Expiring
  <2>4. job' = [at |-> "running", todo |-> E!Expiring, old |-> job.old, new |-> 0]
    BY <1>t, <2>1, <2>2
  <2>5. E!Leaves' = E!Leaves
    BY <2>1 DEF E!Leaves
  <2>6. \A i \in E!Leaves \ E!Expiring : certs[i].notAfter >= today + RenewBefore
    BY <1>t, <1>l, EnrolmentNumbers DEF E!Expiring
  <2>7. job' \in [at : {"idle", "due", "running"}, todo : SUBSET (1 .. MaxCerts),
                  old : 0 .. MaxCerts, new : 0 .. MaxCerts]
    BY <1>t, <2>3, <2>4, EnrolmentNumbers
  <2> QED
    BY <1>s, <2>1, <2>3, <2>4, <2>5, <2>6, <2>7
    DEF EnrolmentInv, E!TypeOK, E!RenewalMargin, E!NoCertAfterRevocation
<1>2. CASE E!RenewIssue
  <2>1. PICK i \in job.todo : /\ E!IssueCert(certs[i].owner, FALSE)
                              /\ job' = [job EXCEPT !.old = i, !.new = Len(certs) + 1]
    BY <1>2 DEF E!RenewIssue
  <2>2. i \in DOMAIN certs /\ certs[i].owner \in Workers \cup {Nobody}
    BY <1>t, CertFields
  <2>3. CertsKept /\ DOMAIN certs' = 1 .. Len(certs) + 1 /\ Len(certs) < MaxCerts
    BY <1>t, <2>1, <2>2, IssueKeeps
  <2>4. job.at = "running" /\ missed' = missed
    BY <1>2 DEF E!RenewIssue
  <2>5. job' = [at |-> "running", todo |-> job.todo, old |-> i, new |-> Len(certs) + 1]
    BY <1>t, <2>1, <2>4
  <2>6. job' \in [at : {"idle", "due", "running"}, todo : SUBSET (1 .. MaxCerts),
                  old : 0 .. MaxCerts, new : 0 .. MaxCerts]
    BY <1>t, <1>d, <2>2, <2>3, <2>5, EnrolmentNumbers
  <2>7. E!TypeOK'
    BY <1>t, <1>s, <2>3, <2>4, <2>6 DEF E!TypeOK, CertsKept
  <2>8. job'.todo = job.todo /\ job'.at = "running" /\ job'.old \in job'.todo
    BY <2>5
  <2>9. job.todo \subseteq DOMAIN certs'
    BY <1>t, <2>3 DEF CertsKept
  <2> QED
    BY <1>s, <2>3, <2>4, <2>7, <2>8, <2>9, MarginKept DEF EnrolmentInv
<1>3. CASE E!RenewLink
  <2>1. /\ certs' = [certs EXCEPT ![job.old].renewedTo = job.new] /\ job.new # 0
        /\ job' = [job EXCEPT !.todo = @ \ {job.old}, !.old = 0, !.new = 0] /\ missed' = missed
    BY <1>3 DEF E!RenewLink
  <2>2. job.at = "running" /\ job.old \in DOMAIN certs /\ job.new \in 1 .. MaxCerts
    BY <1>t, <2>1, EnrolmentNumbers DEF EnrolmentInv
  <2>3. CertsKept /\ E!Leaves' = E!Leaves \ {job.old} /\ DOMAIN certs' = DOMAIN certs
    BY <1>t, <2>1, <2>2, LinkKeeps
  <2>4. job' = [at |-> "running", todo |-> job.todo \ {job.old}, old |-> 0, new |-> 0]
    BY <1>t, <2>1, <2>2
  <2>5. job' \in [at : {"idle", "due", "running"}, todo : SUBSET (1 .. MaxCerts),
                  old : 0 .. MaxCerts, new : 0 .. MaxCerts]
    BY <1>t, <2>4, EnrolmentNumbers
  <2>6. E!TypeOK'
    BY <1>t, <1>s, <2>1, <2>3, <2>5 DEF E!TypeOK, CertsKept
  <2>7. E!Leaves' \ job'.todo \subseteq E!Leaves' \ job.todo
    BY <2>3, <2>4
  <2>8. /\ E!RenewalMargin' /\ E!NoCertAfterRevocation'
        /\ \A i \in E!Leaves' \ job.todo : certs'[i].notAfter >= today + RenewBefore
    BY <1>s, <2>1, <2>2, <2>3, MarginKept
  <2>9. job'.new = 0 /\ job'.todo \subseteq DOMAIN certs'
    BY <1>t, <2>3, <2>4
  <2>10. missed' = missed
    BY <2>1
  <2> QED
    BY <1>s, <2>6, <2>7, <2>8, <2>9, <2>10 DEF EnrolmentInv
<1>n. /\ E!NoJob \in [at : {"idle", "due", "running"}, todo : SUBSET (1 .. MaxCerts),
                      old : 0 .. MaxCerts, new : 0 .. MaxCerts]
      /\ E!NoJob.at = "idle" /\ E!NoJob.todo = {} /\ E!NoJob.new = 0
  BY EnrolmentNumbers DEF E!NoJob
<1>4. CASE E!RenewFails
  <2>1. job' = E!NoJob /\ UNCHANGED <<certs, missed>>
    BY <1>4 DEF E!RenewFails
  <2> QED
    BY <1>n, <1>s, <2>1 DEF EnrolmentInv, E!TypeOK, E!RenewalMargin, E!NoCertAfterRevocation,
       E!Leaves
<1>5. CASE E!RenewDone
  <2>1. job' = E!NoJob /\ certs' = certs /\ missed' = 0 /\ job.at = "running" /\ job.todo = {}
    BY <1>5 DEF E!RenewDone
  <2>2. \A i \in E!Leaves : certs[i].notAfter >= today + RenewBefore
    BY <2>1 DEF EnrolmentInv
  <2>3. E!RenewalMargin'
    BY <1>l, <1>s, <2>1, <2>2 DEF E!RenewalMargin, E!Leaves
  <2>4. missed' \in 0 .. LastDay
    BY <2>1, EnrolmentNumbers
  <2> QED
    BY <1>n, <1>s, <2>1, <2>3, <2>4 DEF EnrolmentInv, E!TypeOK, E!NoCertAfterRevocation
<1> QED
  BY <1>1, <1>2, <1>3, <1>4, <1>5 DEF E!RenewalJob

\* A start or a stop of the plane, or the next day.
LEMMA PlaneKeeps ==
    ASSUME E!EnrolmentAssumption, EnrolmentInv, E!StartPlane \/ E!StopPlane \/ E!NextDay
    PROVE  EnrolmentInv'
<1>t. /\ E!TypeOK /\ E!NoCertAfterRevocation
      /\ today \in 0 .. LastDay /\ missed \in 0 .. LastDay /\ missed <= today
      /\ plane \in [up : BOOLEAN, cert : 0 .. MaxCerts, stops : 0 .. MaxStops]
      /\ Len(certs) \in Nat
  BY DEF EnrolmentInv, E!TypeOK
<1>n. \A s \in {"idle", "due"} :
        LET j == [E!NoJob EXCEPT !.at = s] IN
        /\ j \in [at : {"idle", "due", "running"}, todo : SUBSET (1 .. MaxCerts),
                  old : 0 .. MaxCerts, new : 0 .. MaxCerts]
        /\ j.at # "running" /\ j.todo = {} /\ j.new = 0
  BY EnrolmentNumbers DEF E!NoJob
<1>i. E!NoJob = [E!NoJob EXCEPT !.at = "idle"]
  BY DEF E!NoJob
<1>1. CASE E!StartPlane
  <2>1. CertsKept /\ Len(certs) < MaxCerts
    BY <1>1, <1>t, IssueKeeps DEF E!StartPlane, E!Plane
  <2>2. plane' \in [up : BOOLEAN, cert : 0 .. MaxCerts, stops : 0 .. MaxStops]
    <3>1. plane' = [up |-> TRUE, cert |-> Len(certs) + 1, stops |-> plane.stops]
      BY <1>1, <1>t DEF E!StartPlane
    <3> QED
      BY <1>t, <2>1, <3>1, EnrolmentNumbers
  <2>3. UNCHANGED <<regToken, node, call, today, missed>> /\ job' = [E!NoJob EXCEPT !.at = "due"]
    BY <1>1 DEF E!StartPlane
  <2> DEFINE j == [E!NoJob EXCEPT !.at = "due"]
  <2>4. /\ j \in [at : {"idle", "due", "running"}, todo : SUBSET (1 .. MaxCerts),
                  old : 0 .. MaxCerts, new : 0 .. MaxCerts]
        /\ j.at # "running" /\ j.todo = {} /\ j.new = 0
    BY <1>n
  <2>5. job' = j
    BY <2>3
  <2> HIDE DEF j
  <2>6. E!TypeOK'
    BY <1>t, <2>1, <2>2, <2>3, <2>4, <2>5 DEF E!TypeOK, CertsKept
  <2> QED
    BY <2>1, <2>3, <2>4, <2>5, <2>6, MarginKept DEF EnrolmentInv
<1>2. CASE E!StopPlane
  <2>1. /\ job' = E!NoJob /\ call' = [c \in Calls |-> E!Idle]
        /\ UNCHANGED <<regToken, node, certs, today, missed>>
    BY <1>2 DEF E!StopPlane
  <2>2. plane' \in [up : BOOLEAN, cert : 0 .. MaxCerts, stops : 0 .. MaxStops]
    <3>1. /\ plane' = [up |-> FALSE, cert |-> 0, stops |-> plane.stops + 1]
          /\ plane.stops < MaxStops /\ plane.stops \in 0 .. MaxStops
      BY <1>2, <1>t DEF E!StopPlane
    <3> QED
      BY <3>1, EnrolmentNumbers
  <2>3. call' \in [Calls -> CallOfWorker] /\ \A c \in Calls : ~call'[c].late
    BY <2>1, NewCallTypes DEF E!Idle
  <2>4. /\ E!NoJob \in [at : {"idle", "due", "running"}, todo : SUBSET (1 .. MaxCerts),
                        old : 0 .. MaxCerts, new : 0 .. MaxCerts]
        /\ E!NoJob.at # "running" /\ E!NoJob.todo = {} /\ E!NoJob.new = 0
    BY <1>n, <1>i
  <2>5. E!TypeOK'
    BY <1>t, <2>1, <2>2, <2>3, <2>4 DEF E!TypeOK, CallOfWorker
  <2> QED
    BY <2>1, <2>3, <2>4, <2>5 DEF EnrolmentInv, E!RenewalMargin, E!NoCertAfterRevocation, E!Leaves
<1>3. CASE E!NextDay
  <2>1. /\ today < LastDay /\ today' = today + 1 /\ missed' = missed + 1
        /\ UNCHANGED <<regToken, node, certs, call, plane>>
        /\ job' = [E!NoJob EXCEPT !.at = "due"] \/ job' = [E!NoJob EXCEPT !.at = "idle"]
    BY <1>3, <1>i DEF E!NextDay
  <2>2. today' \in 0 .. LastDay /\ missed' \in 0 .. LastDay /\ missed' <= today'
    BY <1>t, <2>1, EnrolmentNumbers
  <2>3. /\ job' \in [at : {"idle", "due", "running"}, todo : SUBSET (1 .. MaxCerts),
                     old : 0 .. MaxCerts, new : 0 .. MaxCerts]
        /\ job'.at # "running" /\ job'.todo = {} /\ job'.new = 0
    BY <1>n, <2>1
  <2>4. E!TypeOK'
    BY <1>t, <2>1, <2>2, <2>3 DEF E!TypeOK
  <2>5. \A i \in E!Leaves : certs[i].notAfter \in Nat
    BY <1>t, CertFields, EnrolmentNumbers DEF E!Leaves
  <2>6. E!RenewalMargin'
    <3>1. E!Leaves' = E!Leaves
      BY <2>1 DEF E!Leaves
    <3>2. \A i \in E!Leaves : certs[i].notAfter + missed >= today + RenewBefore
      BY DEF EnrolmentInv, E!RenewalMargin
    <3>3. certs' = certs /\ today' = today + 1 /\ missed' = missed + 1
      BY <2>1
    <3>4. today \in Nat /\ missed \in Nat /\ RenewBefore \in Nat
      BY <1>t, EnrolmentNumbers
    <3> QED
      BY <2>5, <3>1, <3>2, <3>3, <3>4 DEF E!RenewalMargin
  <2> QED
    BY <2>1, <2>2, <2>3, <2>4, <2>6 DEF EnrolmentInv, E!NoCertAfterRevocation
<1> QED
  BY <1>1, <1>2, <1>3

LEMMA EnrolmentInit == ASSUME E!EnrolmentAssumption, E!Init PROVE EnrolmentInv
<1>1. certs = <<>> /\ job = E!NoJob /\ today = 0 /\ missed = 0 /\ call = [c \in Calls |-> E!Idle]
  BY DEF E!Init
<1>2. call \in [Calls -> CallOfWorker] /\ \A c \in Calls : ~call[c].late
  BY <1>1, NewCallTypes DEF E!Idle
<1>3. /\ job \in [at : {"idle", "due", "running"}, todo : SUBSET (1 .. MaxCerts),
                  old : 0 .. MaxCerts, new : 0 .. MaxCerts]
      /\ job.at = "idle" /\ job.todo = {} /\ job.new = 0
  BY <1>1, EnrolmentNumbers DEF E!NoJob
<1>4. /\ certs \in Seq(E!Cert) /\ Len(certs) <= MaxCerts /\ E!Leaves = {}
      /\ today \in 0 .. LastDay /\ missed \in 0 .. LastDay /\ missed <= today
  BY <1>1, EnrolmentNumbers DEF E!Leaves
<1>5. E!TypeOK
  BY <1>2, <1>3, <1>4, EnrolmentNumbers DEF E!Init, E!TypeOK, CallOfWorker, E!NodeStatus
<1> QED
  BY <1>1, <1>2, <1>3, <1>4, <1>5 DEF EnrolmentInv, E!RenewalMargin, E!NoCertAfterRevocation

LEMMA EnrolmentStays ==
    ASSUME E!EnrolmentAssumption, EnrolmentInv, [E!Next]_eVars PROVE EnrolmentInv'
<1>1. ASSUME NEW t \in RegTokens, E!CreateToken(t) \/ E!ExpireToken(t) PROVE EnrolmentInv'
  <2>1. UNCHANGED <<node, certs, call, job, plane, today, missed>>
    BY <1>1 DEF E!CreateToken, E!ExpireToken
  <2>2. regToken' \in [RegTokens -> {"none", "fresh", "used", "expired"}]
    BY <1>1 DEF E!CreateToken, E!ExpireToken, EnrolmentInv, E!TypeOK
  <2> QED
    BY <2>1, <2>2 DEF EnrolmentInv, E!TypeOK, E!RenewalMargin, E!NoCertAfterRevocation, E!Leaves
<1>2. ASSUME NEW w \in Workers, E!DeleteNode(w) PROVE EnrolmentInv'
  <2>1. UNCHANGED <<regToken, certs, call, job, plane, today, missed>>
    BY <1>2 DEF E!DeleteNode
  <2>2. node' \in [Workers -> E!NodeStatus]
    BY <1>2 DEF E!DeleteNode, EnrolmentInv, E!TypeOK, E!NodeStatus
  <2> QED
    BY <2>1, <2>2 DEF EnrolmentInv, E!TypeOK, E!RenewalMargin, E!NoCertAfterRevocation, E!Leaves
<1>3. CASE UNCHANGED eVars
  BY <1>3 DEF eVars, EnrolmentInv, E!TypeOK, E!RenewalMargin, E!NoCertAfterRevocation, E!Leaves
<1> QED
  BY <1>1, <1>2, <1>3, CallStepKeeps, RenewalKeeps, PlaneKeeps DEF E!Next

LEMMA EnrolmentMeans ==
    ASSUME EnrolmentInv PROVE E!TypeOK /\ E!RenewalMargin /\ E!NoCertAfterRevocation
  BY DEF EnrolmentInv

-----------------------------------------------------------------------------
(* Webhooks *)

CallRecord == [at : W!Stage, req : W!Request, hook : W!Webhook, answer : W!Answer,
               gone : BOOLEAN, admitted : BOOLEAN]

\* There is a first secret, and a rotation within the bound gives another one.
LEMMA SecretsAreNumbers ==
    ASSUME W!WebhooksAssumption
    PROVE  /\ 1 \in W!Secrets
           /\ \A x \in W!Secrets : x < MaxSecrets => x + 1 \in W!Secrets
<1>1. MaxSecrets \in Nat \ {0}
  BY Zenon DEF W!WebhooksAssumption
<1> QED
  BY <1>1 DEF W!Secrets

\* A call that has not begun, or has been answered, holds nothing.
LEMMA NoCallTypes == ASSUME W!WebhooksAssumption PROVE W!NoCall \in CallRecord
<1>1. 1 \in W!Secrets
  BY SecretsAreNumbers
<1>2. W!NewHook("") \in W!Webhook
  BY <1>1 DEF W!WebhooksAssumption, W!NewHook, W!Webhook
<1>3. [secret |-> 1, event |-> "ping", branch |-> "", long |-> FALSE] \in W!Request
  BY <1>1 DEF W!WebhooksAssumption, W!Request
<1> DEFINE q == [secret |-> 1, event |-> "ping", branch |-> "", long |-> FALSE]
           h == W!NewHook("")
<1>4. W!NoCall = [at |-> "away", req |-> q, hook |-> h, answer |-> "none", gone |-> FALSE,
                admitted |-> FALSE]
  BY DEF W!NoCall
<1>5. q \in W!Request /\ h \in W!Webhook
  BY <1>2, <1>3
<1> HIDE DEF q, h
<1> QED
  BY <1>4, <1>5 DEF CallRecord, W!Stage, W!Answer

\* What the steps make of the record of a call.
LEMMA CallTypes ==
    ASSUME W!WebhooksAssumption, NEW r \in CallRecord
    PROVE  /\ \A s \in W!Stage : [r EXCEPT !.at = s] \in CallRecord
           /\ \A b \in BOOLEAN : [r EXCEPT !.gone = b] \in CallRecord
           /\ \A b \in BOOLEAN : [r EXCEPT !.admitted = b] \in CallRecord
           /\ \A s \in W!Stage, h \in W!Webhook : [r EXCEPT !.at = s, !.hook = h] \in CallRecord
           /\ \A a \in W!Answer, b \in BOOLEAN :
                [W!NoCall EXCEPT !.answer = a, !.admitted = b] \in CallRecord
           /\ \A s \in W!Stage, q \in W!Request, b \in BOOLEAN :
                [W!NoCall EXCEPT !.at = s, !.req = q, !.admitted = b] \in CallRecord
<1>1. W!NoCall \in CallRecord
  BY NoCallTypes
<1> QED
  BY <1>1 DEF CallRecord

LEMMA CallFields ==
    ASSUME NEW r \in CallRecord
    PROVE  /\ r.at \in W!Stage /\ r.req \in W!Request /\ r.hook \in W!Webhook
           /\ r.answer \in W!Answer /\ r.gone \in BOOLEAN /\ r.admitted \in BOOLEAN
  BY DEF CallRecord

LEMMA AdmitsTypes == ASSUME NEW h, NEW q PROVE W!Admits(h, q) \in BOOLEAN
  BY DEF W!Admits

\* What becomes of the row of the webhook.
LEMMA HookTypes ==
    ASSUME NEW h \in W!Webhook
    PROVE  /\ \A b \in Filters : [h EXCEPT !.branch = b] \in W!Webhook
           /\ \A on \in BOOLEAN : [h EXCEPT !.active = on] \in W!Webhook
           /\ \A x \in W!Secrets : [h EXCEPT !.secret = x] \in W!Webhook
           /\ [h EXCEPT !.exists = FALSE] \in W!Webhook
           /\ [h EXCEPT !.last = "pending"] \in W!Webhook
           /\ h.secret \in W!Secrets /\ h.exists \in BOOLEAN
  BY DEF W!Webhook

\* The calls stay records of a call when one of them becomes another record.
LEMMA OneCallTypes ==
    ASSUME W!TypeOK, NEW c \in Posts, NEW r \in CallRecord, calls' = [calls EXCEPT ![c] = r]
    PROVE  calls' \in [Posts -> CallRecord]
  BY DEF W!TypeOK, CallRecord

\* An update of columns keeps the types if the new row is a row.
LEMMA SetColumnsTypes ==
    ASSUME W!WebhooksAssumption, W!TypeOK, NEW e \in Editors, NEW h \in W!Webhook,
           W!SetColumns(e, h)
    PROVE  W!TypeOK'
<1>1. ASSUME NEW c \in Posts
      PROVE  [calls[c] EXCEPT !.admitted = @ \/ (W!At(c, "load") /\ W!Admits(hook', calls[c].req))]
               \in CallRecord
  <2>1. calls[c] \in CallRecord
    BY DEF W!TypeOK, CallRecord
  <2> DEFINE b == calls[c].admitted \/ (W!At(c, "load") /\ W!Admits(hook', calls[c].req))
  <2>2. b \in BOOLEAN
    OBVIOUS
  <2>3. [calls[c] EXCEPT !.admitted = b] \in CallRecord
    <3> HIDE DEF b
    <3> QED BY <2>1, <2>2, CallTypes
  <2> QED
    BY <2>3
<1>2. calls' \in [Posts -> CallRecord]
  BY <1>1, Zenon DEF W!SetColumns
<1>3. hook' \in W!Webhook /\ edits' \in [Editors -> {"new", "loaded", "done"}]
  BY DEF W!SetColumns, W!TypeOK
<1> QED
  BY <1>2, <1>3 DEF W!SetColumns, W!TypeOK, CallRecord

\* Every step of a call, and of the members, keeps the types.
LEMMA HookTypeStep == ASSUME W!WebhooksAssumption, W!TypeOK, [W!Next]_wVars PROVE W!TypeOK'
<1>0. \A c \in Posts : calls[c] \in CallRecord
  BY DEF W!TypeOK, CallRecord
<1>h. hook \in W!Webhook
  BY DEF W!TypeOK
<1>k. ASSUME NEW c \in Posts PROVE /\ \A s \in W!Stage : [calls[c] EXCEPT !.at = s] \in CallRecord
                                   /\ [calls[c] EXCEPT !.gone = TRUE] \in CallRecord
                                   /\ [calls[c] EXCEPT !.at = "judge", !.hook = hook] \in CallRecord
                                   /\ \A a \in W!Answer : [W!NoCall EXCEPT !.answer = a,
                                        !.admitted = calls[c].admitted] \in CallRecord
  <2>1. calls[c] \in CallRecord /\ "judge" \in W!Stage /\ calls[c].admitted \in BOOLEAN
    BY <1>0, CallFields DEF W!Stage
  <2> QED
    BY <2>1, <1>h, CallTypes
<1>1. ASSUME NEW c \in Posts, W!Arrive(c) PROVE W!TypeOK'
  <2>1. PICK q \in W!Request :
          calls' = [calls EXCEPT ![c] = [W!NoCall EXCEPT !.at = "load", !.req = q,
                                                       !.admitted = W!Admits(hook, q)]]
    BY <1>1 DEF W!Arrive
  <2>2. [W!NoCall EXCEPT !.at = "load", !.req = q, !.admitted = W!Admits(hook, q)] \in CallRecord
    BY <1>0, CallTypes, AdmitsTypes DEF W!Stage
  <2>3. calls' \in [Posts -> CallRecord]
    BY <2>1, <2>2, OneCallTypes
  <2> QED
    BY <1>1, <2>3 DEF W!Arrive, CallRecord, W!TypeOK
<1>2. ASSUME NEW c \in Posts, W!Leave(c) PROVE W!TypeOK'
  <2>1. calls' = [calls EXCEPT ![c] = [calls[c] EXCEPT !.gone = TRUE]]
    BY <1>2 DEF W!Leave
  <2>2. calls' \in [Posts -> CallRecord]
    BY <1>k, <2>1, OneCallTypes
  <2> QED
    BY <1>2, <2>2 DEF W!Leave, CallRecord, W!TypeOK
<1>a. ASSUME NEW c \in Posts, NEW s \in W!Stage, W!Goto(c, s) PROVE calls' \in [Posts -> CallRecord]
  <2>1. calls' = [calls EXCEPT ![c] = [calls[c] EXCEPT !.at = s]]
    BY <1>a DEF W!Goto
  <2> QED
    BY <1>k, <2>1, OneCallTypes
<1>b. ASSUME NEW c \in Posts, NEW a \in W!Answer, W!Reply(c, a)
      PROVE  calls' \in [Posts -> CallRecord]
  <2>1. calls' = [calls EXCEPT ![c] = [W!NoCall EXCEPT !.answer = a,
                                                       !.admitted = calls[c].admitted]]
    BY <1>b DEF W!Reply
  <2> QED
    BY <1>k, <2>1, OneCallTypes
<1>3. ASSUME NEW c \in Posts, W!LoadActive(c) PROVE W!TypeOK'
  <2>1. CASE W!Reply(c, "ok")
    BY <1>3, <1>b, <2>1 DEF W!LoadActive, CallRecord, W!TypeOK, W!Answer
  <2>2. CASE calls' = [calls EXCEPT ![c].at = "judge", ![c].hook = hook]
    <3>1. calls' = [calls EXCEPT ![c] = [calls[c] EXCEPT !.at = "judge", !.hook = hook]]
      BY <2>2 DEF W!TypeOK
    <3>2. calls' \in [Posts -> CallRecord]
      BY <3>1, <1>k, OneCallTypes
    <3> QED
      BY <1>3, <3>2 DEF W!LoadActive, CallRecord, W!TypeOK
  <2> QED
    BY <1>3, <2>1, <2>2 DEF W!LoadActive
<1>4. ASSUME NEW c \in Posts, W!Receive(c) PROVE W!TypeOK'
  <2>1. calls' \in [Posts -> CallRecord]
    BY <1>4, <1>a, <1>b DEF W!Receive, W!Stage, W!Answer
  <2> QED
    BY <1>4, <2>1 DEF W!Receive, CallRecord, W!TypeOK
<1>5. ASSUME NEW c \in Posts, W!CreateDelivery(c) PROVE W!TypeOK'
  <2>1. calls' \in [Posts -> CallRecord]
    BY <1>5, <1>a DEF W!CreateDelivery, W!Stage
  <2> QED
    BY <1>5, <2>1 DEF W!CreateDelivery, CallRecord, W!TypeOK
<1>6. ASSUME NEW c \in Posts, W!EnqueueWebhookDeploy(c) PROVE W!TypeOK'
  <2>1. calls' \in [Posts -> CallRecord]
    BY <1>6, <1>a DEF W!EnqueueWebhookDeploy, W!Stage
  <2> QED
    BY <1>6, <2>1 DEF W!EnqueueWebhookDeploy, CallRecord, W!TypeOK
<1>7. ASSUME NEW c \in Posts, W!UpdateDelivery(c) PROVE W!TypeOK'
  <2>1. calls' \in [Posts -> CallRecord]
    BY <1>7, <1>b DEF W!UpdateDelivery, W!Answer
  <2> QED
    BY <1>7, <2>1 DEF W!UpdateDelivery, CallRecord, W!TypeOK
<1>8. ASSUME NEW c \in Posts, W!UpdateLastTriggered(c) PROVE W!TypeOK'
  <2>1. calls' \in [Posts -> CallRecord]
    BY <1>8, <1>b DEF W!UpdateLastTriggered, W!Answer
  <2>2. hook' \in W!Webhook
    BY <1>8, <1>h, HookTypes DEF W!UpdateLastTriggered
  <2> QED
    BY <1>8, <2>1, <2>2 DEF W!UpdateLastTriggered, CallRecord, W!TypeOK
<1>9. ASSUME W!Expel PROVE W!TypeOK'
  BY <1>9 DEF W!Expel, W!TypeOK
<1>10. ASSUME NEW e \in Editors, W!LoadForEdit(e) PROVE W!TypeOK'
  BY <1>10 DEF W!LoadForEdit, W!TypeOK
<1>11. ASSUME NEW e \in Editors, W!Update(e) PROVE W!TypeOK'
  BY <1>11, <1>h, HookTypes, SetColumnsTypes DEF W!Update
<1>12. ASSUME NEW e \in Editors, W!RotateSecret(e) PROVE W!TypeOK'
  <2>1. hook.secret + 1 \in W!Secrets
    BY <1>12, <1>h, HookTypes, SecretsAreNumbers DEF W!RotateSecret
  <2>2. [hook EXCEPT !.secret = hook.secret + 1] \in W!Webhook
    BY <1>h, <2>1, HookTypes
  <2> QED
    BY <1>12, <2>2, SetColumnsTypes DEF W!RotateSecret
<1>13. ASSUME NEW e \in Editors, W!Delete(e) PROVE W!TypeOK'
  BY <1>13, <1>h, HookTypes, SetColumnsTypes DEF W!Delete
<1>14. CASE UNCHANGED wVars
  BY <1>14 DEF wVars, W!TypeOK
<1> QED
  BY <1>1, <1>2, <1>3, <1>4, <1>5, <1>6, <1>7, <1>8, <1>9, <1>10, <1>11, <1>12, <1>13, <1>14
  DEF W!Next

\* The initial states are well typed.
LEMMA HookTypeInit == ASSUME W!WebhooksAssumption, W!Init PROVE W!TypeOK
<1>1. calls \in [Posts -> CallRecord]
  BY NoCallTypes DEF W!Init
<1>2. hook \in W!Webhook
  <2>1. PICK b \in Filters : hook = W!NewHook(b)
    BY DEF W!Init
  <2> QED
    BY <2>1, SecretsAreNumbers DEF W!NewHook, W!Webhook
<1> QED
  BY <1>1, <1>2 DEF W!Init, W!TypeOK, CallRecord

-----------------------------------------------------------------------------
\* What is known of a call by its stage: until the row is read, a row that admits the
\* request now has admitted it; from then on the loaded row decides.
Known(c) ==
    /\ W!At(c, "load") => (W!Admits(hook, calls[c].req) => calls[c].admitted)
    /\ W!At(c, "judge") => /\ calls[c].hook.exists /\ calls[c].hook.active
                           /\ W!Admits(calls[c].hook, calls[c].req) => calls[c].admitted
    /\ calls[c].at \in {"record", "insert", "fail", "note"} => calls[c].admitted
    /\ c \in jobs => /\ calls[c].admitted
                     /\ calls[c].at = "note" \/ (W!At(c, "away") /\ calls[c].answer # "none")

Judged == \A c \in Posts : Known(c)

\* What one step does to what is known of a call c, when it leaves the call, its stage and
\* what the row says of it as they are.
LEMMA KnownStays ==
    ASSUME NEW c \in Posts, Known(c), calls'[c] = calls[c],
           c \in jobs' => c \in jobs,
           W!At(c, "load") => (W!Admits(hook', calls[c].req) => W!Admits(hook, calls[c].req))
    PROVE  Known(c)'
  BY DEF Known, W!At

\* A call that is answered knows its answer only.
LEMMA KnownAfterReply ==
    ASSUME W!TypeOK, NEW c \in Posts, Known(c), NEW a \in W!Answer \ {"none"},
           W!Reply(c, a), jobs' = jobs
    PROVE  Known(c)'
<1>1. calls'[c] = [W!NoCall EXCEPT !.answer = a, !.admitted = calls[c].admitted]
  BY DEF W!Reply, W!TypeOK
<1>2. /\ calls'[c].at = "away" /\ calls'[c].answer = a
      /\ calls'[c].admitted = calls[c].admitted
  BY <1>1 DEF W!NoCall
<1> QED
  BY <1>2 DEF Known, W!At

\* A call that goes on to another stage stays what it is otherwise.
LEMMA GotoFields ==
    ASSUME W!TypeOK, NEW c \in Posts, NEW s, W!Goto(c, s)
    PROVE  /\ calls'[c].at = s
           /\ calls'[c].req = calls[c].req /\ calls'[c].hook = calls[c].hook
           /\ calls'[c].answer = calls[c].answer /\ calls'[c].admitted = calls[c].admitted
           /\ \A d \in Posts \ {c} : calls'[d] = calls[d]
  BY DEF W!Goto, W!TypeOK

\* A step of one call leaves what is known of the others, if it does not change what the row
\* says of their requests.
LEMMA OthersStay ==
    ASSUME Judged, NEW c \in Posts,
           \A d \in Posts \ {c} : calls'[d] = calls[d] /\ (d \in jobs' => d \in jobs),
           \A d \in Posts : W!Admits(hook', calls[d].req) => W!Admits(hook, calls[d].req),
           Known(c)'
    PROVE  Judged'
  BY KnownStays DEF Judged

\* What is known of the calls stays known over every step.
LEMMA JudgedStep ==
    ASSUME W!WebhooksAssumption, W!TypeOK, Judged, [W!Next]_wVars PROVE Judged'
<1>1. ASSUME NEW c \in Posts, W!Arrive(c) PROVE Judged'
  <2>1. PICK q \in W!Request :
          calls' = [calls EXCEPT ![c] = [W!NoCall EXCEPT !.at = "load", !.req = q,
                                                       !.admitted = W!Admits(hook, q)]]
    BY <1>1 DEF W!Arrive
  <2> DEFINE r == [W!NoCall EXCEPT !.at = "load", !.req = q, !.admitted = W!Admits(hook, q)]
  <2>2. calls'[c] = r
    BY <2>1 DEF W!TypeOK
  <2>3. r.at = "load" /\ r.req = q /\ r.admitted = W!Admits(hook, q)
    BY DEF W!NoCall
  <2>4. c \notin jobs /\ jobs' = jobs /\ hook' = hook
    BY <1>1 DEF W!Arrive, Judged, Known, W!At
  <2>5. \A d \in Posts \ {c} : calls'[d] = calls[d]
    BY <2>1 DEF W!TypeOK
  <2> HIDE DEF r
  <2>6. Known(c)'
    BY <2>2, <2>3, <2>4 DEF Known, W!At
  <2> QED
    BY <2>4, <2>5, <2>6, OthersStay
<1>2. ASSUME NEW c \in Posts, W!Leave(c) PROVE Judged'
  <2>1. calls'[c] = [calls[c] EXCEPT !.gone = TRUE] /\ \A d \in Posts \ {c} : calls'[d] = calls[d]
    BY <1>2 DEF W!Leave, W!TypeOK
  <2>2. /\ calls'[c].at = calls[c].at /\ calls'[c].req = calls[c].req
        /\ calls'[c].hook = calls[c].hook /\ calls'[c].answer = calls[c].answer
        /\ calls'[c].admitted = calls[c].admitted
    BY <2>1 DEF W!TypeOK
  <2>3. jobs' = jobs /\ hook' = hook
    BY <1>2 DEF W!Leave
  <2>4. Known(c)'
    BY <2>2, <2>3 DEF Judged, Known, W!At
  <2> QED
    BY <2>1, <2>3, <2>4, OthersStay
<1>r. ASSUME NEW c \in Posts, NEW a \in W!Answer \ {"none"},
           W!Reply(c, a), jobs' = jobs,
             \A d \in Posts : W!Admits(hook', calls[d].req) => W!Admits(hook, calls[d].req)
      PROVE  Judged'
  <2>1. \A d \in Posts \ {c} : calls'[d] = calls[d]
    BY <1>r DEF W!Reply, W!TypeOK
  <2>2. Known(c)'
    BY <1>r, KnownAfterReply DEF Judged
  <2> QED
    BY <1>r, <2>1, <2>2, OthersStay
<1>3. ASSUME NEW c \in Posts, W!LoadActive(c) PROVE Judged'
  <2>1. CASE W!Reply(c, "ok")
    BY <1>3, <1>r, <2>1 DEF W!LoadActive, W!Answer
  <2>2. CASE /\ hook.exists /\ hook.active
             /\ calls' = [calls EXCEPT ![c].at = "judge", ![c].hook = hook]
    <3>1. calls'[c] = [calls[c] EXCEPT !.at = "judge", !.hook = hook]
      BY <2>2 DEF W!TypeOK
    <3>2. /\ calls'[c].at = "judge" /\ calls'[c].req = calls[c].req /\ calls'[c].hook = hook
          /\ calls'[c].admitted = calls[c].admitted
      BY <3>1 DEF W!TypeOK
    <3>3. c \notin jobs /\ jobs' = jobs /\ hook' = hook
      BY <1>3 DEF W!LoadActive, Judged, Known, W!At
    <3>4. Known(c)'
      BY <1>3, <2>2, <3>2, <3>3 DEF W!LoadActive, Judged, Known, W!At
    <3>5. \A d \in Posts \ {c} : calls'[d] = calls[d]
      BY <2>2 DEF W!TypeOK
    <3> QED
      BY <3>3, <3>4, <3>5, OthersStay
  <2> QED
    BY <1>3, <2>1, <2>2 DEF W!LoadActive
<1>4. ASSUME NEW c \in Posts, W!Receive(c) PROVE Judged'
  <2>1. jobs' = jobs /\ hook' = hook /\ W!At(c, "judge")
    BY <1>4 DEF W!Receive
  <2>2. CASE \E a \in W!Answer \ {"none"} : W!Reply(c, a)
    BY <2>1, <2>2, <1>r
  <2>3. CASE /\ W!Verified(calls[c].hook.secret, calls[c].req) /\ calls[c].req.event # "ping"
             /\ W!MatchesBranch(calls[c].hook, calls[c].req.branch)
             /\ W!Goto(c, "record")
    <3>k. Known(c) /\ calls[c].at = "judge"
      BY <2>1 DEF Judged, W!At
    <3>j. c \notin jobs
      BY <3>k DEF Known, W!At
    <3>h. calls[c].hook.exists /\ calls[c].hook.active
      BY <2>1, <3>k DEF Known
    <3>a. W!Admits(calls[c].hook, calls[c].req)
      BY <2>3, <3>h DEF W!Admits, W!MatchesBranch
    <3>1. calls[c].admitted /\ c \notin jobs
      BY <2>1, <3>k, <3>j, <3>a DEF Known
    <3>2. /\ calls'[c].at = "record" /\ calls'[c].req = calls[c].req
          /\ calls'[c].admitted = calls[c].admitted
      BY <2>3, GotoFields
    <3>3. Known(c)'
      BY <2>1, <3>1, <3>2 DEF Known, W!At
    <3> QED
      BY <2>1, <2>3, <3>3, GotoFields, OthersStay
  <2> QED
    BY <1>4, <2>2, <2>3 DEF W!Receive, W!Answer
<1>5. ASSUME NEW c \in Posts, W!CreateDelivery(c) PROVE Judged'
  <2>1. /\ jobs' = jobs /\ hook' = hook /\ W!Goto(c, "insert")
        /\ calls[c].admitted /\ c \notin jobs
    BY <1>5 DEF W!CreateDelivery, Judged, Known, W!At
  <2>2. Known(c)'
    BY <2>1, GotoFields DEF Known, W!At
  <2> QED
    BY <2>1, <2>2, GotoFields, OthersStay
<1>6. ASSUME NEW c \in Posts, W!EnqueueWebhookDeploy(c) PROVE Judged'
  <2>1. hook' = hook /\ calls[c].admitted /\ c \notin jobs
    BY <1>6 DEF W!EnqueueWebhookDeploy, Judged, Known, W!At
  <2>2. CASE jobs' = jobs /\ W!Goto(c, "fail")
    <3>1. Known(c)'
      BY <2>1, <2>2, GotoFields DEF Known, W!At
    <3> QED
      BY <2>1, <2>2, <3>1, GotoFields, OthersStay
  <2>3. CASE jobs' = jobs \cup {c} /\ W!Goto(c, "note")
    <3>1. Known(c)'
      BY <2>1, <2>3, GotoFields DEF Known, W!At
    <3> QED
      BY <2>1, <2>3, <3>1, GotoFields, OthersStay
  <2> QED
    BY <1>6, <2>2, <2>3 DEF W!EnqueueWebhookDeploy
<1>7. ASSUME NEW c \in Posts, W!UpdateDelivery(c) PROVE Judged'
  BY <1>7, <1>r DEF W!UpdateDelivery, W!Answer
<1>8. ASSUME NEW c \in Posts, W!UpdateLastTriggered(c) PROVE Judged'
  <2>1. \A d \in Posts : W!Admits(hook', calls[d].req) => W!Admits(hook, calls[d].req)
    BY <1>8 DEF W!UpdateLastTriggered, W!TypeOK, W!Webhook, W!Admits
  <2> QED
    BY <1>8, <2>1, <1>r DEF W!UpdateLastTriggered, W!Answer
<1>9. ASSUME W!Expel \/ (\E e \in Editors : W!LoadForEdit(e)) \/ UNCHANGED wVars PROVE Judged'
  <2>1. calls' = calls /\ hook' = hook /\ jobs' = jobs
    BY <1>9 DEF W!Expel, W!LoadForEdit, wVars
  <2> QED
    BY <2>1, KnownStays DEF Judged
<1>10. ASSUME NEW e \in Editors, NEW h, W!SetColumns(e, h) PROVE Judged'
  <2>1. ASSUME NEW c \in Posts PROVE Known(c)'
    <3> DEFINE b == calls[c].admitted \/ (W!At(c, "load") /\ W!Admits(hook', calls[c].req))
               r == [calls[c] EXCEPT !.admitted = b]
    <3>1. calls'[c] = r
      BY <1>10 DEF W!SetColumns
    <3>2. b \in BOOLEAN
      OBVIOUS
    <3>b. b <=> (calls[c].admitted \/ (W!At(c, "load") /\ W!Admits(hook', calls[c].req)))
      OBVIOUS
    <3> HIDE DEF b
    <3>3. /\ r.at = calls[c].at /\ r.req = calls[c].req /\ r.hook = calls[c].hook
          /\ r.answer = calls[c].answer /\ r.admitted = b
      BY DEF W!TypeOK
    <3>4. jobs' = jobs
      BY <1>10 DEF W!SetColumns
    <3> HIDE DEF r
    <3> QED
      BY <3>1, <3>2, <3>b, <3>3, <3>4 DEF Judged, Known, W!At
  <2> QED
    BY <2>1 DEF Judged
<1> QED
  BY <1>1, <1>2, <1>3, <1>4, <1>5, <1>6, <1>7, <1>8, <1>9, <1>10
  DEF W!Next, W!Update, W!RotateSecret, W!Delete

\* At the start no call is known to be anywhere.
LEMMA JudgedInit == ASSUME W!Init PROVE Judged
<1>1. \A c \in Posts : calls[c].at = "away" /\ c \notin jobs
  BY DEF W!Init, W!NoCall
<1> QED
  BY <1>1 DEF Judged, Known, W!At

\* What the part "webhooks" keeps; a job is always of an admitted request.
HooksInv == W!TypeOK /\ Judged

LEMMA HooksInit == ASSUME W!WebhooksAssumption, W!Init PROVE HooksInv
  BY HookTypeInit, JudgedInit DEF HooksInv

LEMMA HooksStep == ASSUME W!WebhooksAssumption, HooksInv, [W!Next]_wVars PROVE HooksInv'
  BY HookTypeStep, JudgedStep DEF HooksInv

LEMMA HooksMeans == ASSUME HooksInv PROVE W!TypeOK /\ W!JobsWereAdmitted
  BY DEF HooksInv, Judged, Known, W!JobsWereAdmitted, W!TypeOK

-----------------------------------------------------------------------------
(* ExecSession *)

\* The type invariant, with what is sent and queued as sequences.
ExecInv ==
    /\ X!TypeOK
    /\ queue \in Seq(X!Kinds)
    /\ got \in Seq({"shell", "output", "exit"})

LEMMA ExecInit == ASSUME X!ExecSessionAssumption, X!Init PROVE ExecInv
<1>1. queue = <<>> /\ got = <<>> /\ errs = 0 /\ QueueCap \in Nat
  BY DEF X!Init, X!ExecSessionAssumption
<1>2. /\ queue \in Seq(X!Kinds) /\ got \in Seq({"shell", "output", "exit"})
      /\ Len(queue) <= QueueCap /\ errs \in 0 .. X!ErrCap
      /\ \A i \in DOMAIN queue : queue[i] \in X!Kinds
      /\ \A i \in DOMAIN got : got[i] \in {"shell", "output", "exit"}
  BY <1>1 DEF X!ErrCap
<1> QED
  BY <1>2 DEF X!Init, ExecInv, X!TypeOK

\* What the steps do to the sequences: one is shortened, or grows by one element.
LEMMA ExecStays ==
    ASSUME X!ExecSessionAssumption, ExecInv, [X!Next]_xVars PROVE ExecInv'
<1>t. /\ X!TypeOK /\ queue \in Seq(X!Kinds) /\ got \in Seq({"shell", "output", "exit"})
      /\ QueueCap \in Nat /\ errs \in 0 .. 2 /\ Len(queue) \in Nat /\ Len(queue) <= QueueCap
  BY DEF ExecInv, X!TypeOK, X!ExecSessionAssumption, X!ErrCap
<1> DEFINE Step == X!Connect \/ X!Leave \/ X!Sends \/ X!Feed \/ X!Disconnect \/ X!Detect
                   \/ X!Announce \/ X!Hijack \/ X!Await \/ X!ReadMessage \/ X!WriteShell
                   \/ X!ToShellEnds \/ X!FromShellEnds \/ X!ReadShell \/ X!ShellTurns
                   \/ UNCHANGED xVars
<1>s. Step
  BY DEF X!Next, X!Server
<1>q. queue' \in Seq(X!Kinds) /\ Len(queue') <= QueueCap
  <2>1. CASE X!Feed
    <3>1. queue' = queue \/ (Len(queue) < QueueCap /\ queue' = Append(queue, pump)
          /\ pump \in X!Kinds)
      BY <2>1 DEF X!Feed
    <3> QED
      BY <1>t, <3>1
  <2>2. CASE X!ReadMessage
    <3>1. queue # <<>> /\ queue' = Tail(queue)
      BY <2>2 DEF X!ReadMessage
    <3> QED
      BY <1>t, <3>1
  <2>3. CASE queue' = queue
    BY <1>t, <2>3
  <2> QED
    BY <1>s, <2>1, <2>2, <2>3 DEF X!Connect, X!Leave, X!Sends, X!Disconnect, X!Detect, X!Announce,
       X!Hijack, X!Await, X!WriteShell, X!ToShellEnds, X!FromShellEnds, X!ReadShell, X!ShellTurns,
       xVars
<1>g. got' \in Seq({"shell", "output", "exit"})
  <2>1. ASSUME NEW m \in {"shell", "output", "exit"}, X!Write(m)
        PROVE  got' \in Seq({"shell", "output", "exit"})
    BY <1>t, <2>1 DEF X!Write
  <2>2. CASE got' = got
    BY <1>t, <2>2
  <2>3. got' = got \/ X!Write("shell") \/ X!Write("output") \/ X!Write("exit")
    BY <1>s DEF X!Connect, X!Leave, X!Sends, X!Feed, X!Disconnect, X!Detect, X!Announce, X!Hijack,
       X!Await, X!ReadMessage, X!WriteShell, X!ToShellEnds, X!FromShellEnds, X!ReadShell,
       X!ShellTurns, xVars
  <2> QED
    BY <2>1, <2>2, <2>3
<1>e. errs' \in 0 .. X!ErrCap
  <2>1. \/ errs' = errs
        \/ errs > 0 /\ errs' = errs - 1
        \/ errs < X!ErrCap /\ errs' = errs + 1
    BY <1>s DEF X!Connect, X!Leave, X!Sends, X!Feed, X!Disconnect, X!Detect, X!Announce,
       X!Hijack, X!Await, X!ReadMessage, X!WriteShell, X!ToShellEnds, X!FromShellEnds,
       X!ReadShell, X!ShellTurns, xVars
  <2> QED
    BY <1>t, <2>1 DEF X!ErrCap
<1>p. /\ client' \in {"none", "open", "left"} /\ pump' \in X!Kinds \cup {"idle", "ended"}
      /\ conn' \in {"none", "open", "closed"}
  BY <1>t, <1>s DEF X!TypeOK, X!Return, X!Kinds, X!Connect, X!Leave, X!Sends, X!Feed,
     X!Disconnect, X!Detect, X!Announce, X!Hijack, X!Await, X!ReadMessage, X!WriteShell,
     X!ToShellEnds, X!FromShellEnds, X!ReadShell, X!ShellTurns, xVars
<1>a. attach' \in {"none", "detect", "create", "announce", "hijack", "run", "ended"}
  BY <1>t, <1>s DEF X!TypeOK, X!Return, X!Connect, X!Leave, X!Sends, X!Feed, X!Disconnect,
     X!Detect, X!Announce, X!Hijack, X!Await, X!ReadMessage, X!WriteShell, X!ToShellEnds,
     X!FromShellEnds, X!ReadShell, X!ShellTurns, xVars
<1>h. shell' \in {"none", "chosen", "missing", "alive", "deaf", "exited"}
  BY <1>t, <1>s DEF X!TypeOK, X!Connect, X!Leave, X!Sends, X!Feed, X!Disconnect, X!Detect,
     X!Announce, X!Hijack, X!Await, X!ReadMessage, X!WriteShell, X!ToShellEnds, X!FromShellEnds,
     X!ReadShell, X!ShellTurns, xVars
<1>o. /\ toShell' \in {"off", "read", "write", "send", "gone"}
      /\ fromShell' \in {"off", "read", "send", "gone"}
  BY <1>t, <1>s DEF X!TypeOK, X!Connect, X!Leave, X!Sends, X!Feed, X!Disconnect, X!Detect,
     X!Announce, X!Hijack, X!Await, X!ReadMessage, X!WriteShell, X!ToShellEnds, X!FromShellEnds,
     X!ReadShell, X!ShellTurns, xVars
<1>i. /\ \A i \in DOMAIN queue' : queue'[i] \in X!Kinds
      /\ \A i \in DOMAIN got' : got'[i] \in {"shell", "output", "exit"}
  BY <1>q, <1>g, ElementTypes
<1> QED
  BY <1>q, <1>g, <1>e, <1>p, <1>a, <1>h, <1>o, <1>i DEF ExecInv, X!TypeOK, X!Kinds

LEMMA ExecMeans == ASSUME ExecInv PROVE X!TypeOK
  BY DEF ExecInv

-----------------------------------------------------------------------------
(* LogMonitor *)

\* A stream is in a block only if the container writes lines that begin one.
BlocksAreLines ==
    "block" \in Lines \/ \A i \in DOMAIN streams : streams[i].block = L!NoBlock

\* The types, with what the bounds on positions and on alerts rest on.
MonitorTyped == L!TypeOK /\ Len(log) <= MaxLines /\ BlocksAreLines

\* What a line of the log starts: nothing, or the two goroutines of one alert.
LEMMA EmitTypes ==
    ASSUME L!LogMonitorAssumption, L!TypeOK, NEW a \in L!Alerts, L!Emit(a)
    PROVE  /\ dedup' \subseteq L!Alerts
           /\ upserts' \in [L!Alerts -> 0 .. MaxTasks]
           /\ checks' \in [L!Alerts -> 0 .. MaxTasks]
<1> USE DEF L!TypeOK
<1>1. CASE a \in dedup
  BY <1>1 DEF L!Emit, L!alertVars
<1>2. CASE a \notin dedup
  <2>1. MaxTasks \in Nat /\ upserts[a] \in 0 .. MaxTasks /\ checks[a] \in 0 .. MaxTasks
    BY DEF L!LogMonitorAssumption
  <2>2. upserts[a] + 1 \in 0 .. MaxTasks /\ checks[a] + 1 \in 0 .. MaxTasks
    BY <1>2, <2>1 DEF L!Emit
  <2> QED
    BY <1>2, <2>2 DEF L!Emit
<1> QED
  BY <1>1, <1>2

\* A stream that has just been opened and one that is closed are streams.
LEMMA NewStreamTypes ==
    ASSUME L!LogMonitorAssumption, MonitorTyped, NEW follow \in BOOLEAN
    PROVE  L!NewStream(follow) \in L!Stream
  BY DEF L!LogMonitorAssumption, MonitorTyped, L!TypeOK, L!NewStream, L!Stream, L!NoBlock

\* A stream that has ended is in no block.
LEMMA ClosedTypes ==
    ASSUME L!LogMonitorAssumption PROVE L!Closed \in L!Stream /\ L!Closed.block = L!NoBlock
  BY DEF L!LogMonitorAssumption, L!Closed, L!Stream, L!NoBlock

\* To cancel a stream changes neither its place nor its block.
LEMMA CancelTypes ==
    ASSUME MonitorTyped
    PROVE  /\ L!CancelStopped \in Seq(L!Stream) /\ Len(L!CancelStopped) = Len(streams)
           /\ \A i \in DOMAIN streams : L!CancelStopped[i].block = streams[i].block
<1> USE DEF MonitorTyped, L!TypeOK
<1>1. CASE listed = "running" \/ watching = 0
  BY <1>1 DEF L!CancelStopped
<1>2. CASE ~(listed = "running" \/ watching = 0)
  <2> DEFINE s == [streams[watching] EXCEPT !.cancelled = streams[watching].open]
  <2>1. watching \in DOMAIN streams /\ streams[watching] \in L!Stream
    BY <1>2
  <2>2. s \in L!Stream /\ s.block = streams[watching].block
    BY <2>1 DEF L!Stream
  <2>3. L!CancelStopped = [streams EXCEPT ![watching] = s]
    BY <1>2 DEF L!CancelStopped
  <2> HIDE DEF s
  <2> QED
    BY <2>1, <2>2, <2>3
<1> QED
  BY <1>1, <1>2

\* Opening and cancelling streams keeps the sequence of streams well typed.
LEMMA ReconcileTypes ==
    ASSUME L!LogMonitorAssumption, MonitorTyped, L!Reconcile PROVE MonitorTyped'
<1> USE DEF L!LogMonitorAssumption, MonitorTyped, L!TypeOK
<1>1. /\ L!CancelStopped \in Seq(L!Stream) /\ Len(L!CancelStopped) = Len(streams)
      /\ \A i \in DOMAIN streams : L!CancelStopped[i].block = streams[i].block
  BY CancelTypes
<1>2. L!MustFollow \in BOOLEAN
  BY DEF L!MustFollow
<1>3. CASE L!MustFollow \/ L!MustScan
  <2>1. PICK opens \in BOOLEAN : streams' =
          Append(L!CancelStopped, IF opens THEN L!NewStream(L!MustFollow) ELSE L!Closed)
    BY <1>3 DEF L!Reconcile
  <2> DEFINE s == IF opens THEN L!NewStream(L!MustFollow) ELSE L!Closed
  <2>2. s \in L!Stream /\ s.block = L!NoBlock
    BY <1>2, NewStreamTypes, ClosedTypes DEF L!NewStream
  <2>3. Len(streams) < MaxStreams
    BY <1>3 DEF L!Reconcile
  <2>4. streams' = Append(L!CancelStopped, s)
    BY <2>1
  <2> HIDE DEF s
  <2>5. streams' \in Seq(L!Stream) /\ Len(streams') = Len(streams) + 1
    BY <1>1, <2>2, <2>4
  <2>6. BlocksAreLines'
    <3>1. \A i \in DOMAIN streams' :
            streams'[i].block = IF i = Len(streams) + 1 THEN L!NoBlock ELSE streams[i].block
      BY <1>1, <2>2, <2>4
    <3>2. \A i \in DOMAIN streams' : i = Len(streams) + 1 \/ i \in DOMAIN streams
      BY <2>5
    <3> QED
      BY <3>1, <3>2 DEF BlocksAreLines, L!NoBlock
  <2>7. watching' \in 0 .. Len(streams')
    BY <2>5 DEF L!Reconcile
  <2> QED
    BY <2>3, <2>5, <2>6, <2>7 DEF L!Reconcile, L!alertVars, L!Status
<1>4. CASE ~(L!MustFollow \/ L!MustScan)
  <2>1. streams' \in Seq(L!Stream) /\ Len(streams') = Len(streams)
    BY <1>1, <1>4 DEF L!Reconcile
  <2>2. \A i \in DOMAIN streams' : i \in DOMAIN streams /\ streams'[i].block = streams[i].block
    <3>1. streams' = L!CancelStopped
      BY <1>4 DEF L!Reconcile
    <3> QED
      BY ONLY <1>1, <2>1, <3>1
  <2>3. BlocksAreLines'
    BY ONLY <2>2, BlocksAreLines DEF BlocksAreLines, L!NoBlock
  <2> QED
    BY <1>4, <2>1, <2>3 DEF L!Reconcile, L!alertVars, L!Status
<1> QED
  BY <1>3, <1>4

\* What a stream that reads a line or ends emits is an alert.
LEMMA EmitsAlerts ==
    ASSUME L!LogMonitorAssumption, MonitorTyped, NEW i \in DOMAIN streams,
           L!ReadLine(i) \/ L!EndStream(i)
    PROVE  /\ (\E a \in L!Alerts : L!Emit(a)) \/ UNCHANGED L!alertVars
           /\ UNCHANGED notes
<1> USE DEF L!LogMonitorAssumption, MonitorTyped, L!TypeOK
<1>1. streams[i].block # L!NoBlock => "block" \in L!Alerts
  BY DEF BlocksAreLines, L!Alerts
<1>2. CASE L!ReadLine(i)
  <2> DEFINE s == streams[i]
             l == log[s.pos + 1]
             next == IF l = "plain" THEN s.block
                     ELSE IF s.block # L!NoBlock THEN s.block + 1
                     ELSE IF l = "block" THEN 0 ELSE L!NoBlock
  <2>1. s \in L!Stream
    OBVIOUS
  <2>2. l \in Lines
    BY <1>2, <2>1 DEF L!ReadLine, L!Stream
  <2>3. next # L!NoBlock /\ s.block = L!NoBlock => "block" \in L!Alerts
    BY <2>2 DEF L!Alerts
  <2>4. \/ L!Emit("block") /\ (s.block # L!NoBlock \/ next # L!NoBlock)
        \/ L!Emit(l) /\ l \in L!Alerts
        \/ UNCHANGED L!alertVars
    BY <1>2 DEF L!ReadLine
  <2> QED
    BY <1>1, <1>2, <2>3, <2>4 DEF L!ReadLine
<1>3. CASE L!EndStream(i)
  BY <1>1, <1>3 DEF L!EndStream
<1> QED
  BY <1>2, <1>3

\* A stream that reads a line or ends is still one, and what it emits is an alert.
LEMMA StreamTypes ==
    ASSUME L!LogMonitorAssumption, MonitorTyped, NEW i \in DOMAIN streams,
           L!ReadLine(i) \/ L!EndStream(i)
    PROVE  MonitorTyped'
<1> USE DEF L!LogMonitorAssumption, MonitorTyped, L!TypeOK
<1>1. L!Closed \in L!Stream /\ L!Closed.block = L!NoBlock /\ streams[i] \in L!Stream
  BY ClosedTypes
<1>2. CASE L!ReadLine(i)
  <2> DEFINE s == streams[i]
             l == log[s.pos + 1]
             next == IF l = "plain" THEN s.block
                     ELSE IF s.block # L!NoBlock THEN s.block + 1
                     ELSE IF l = "block" THEN 0 ELSE L!NoBlock
             t == IF s.cancelled THEN L!Closed ELSE [s EXCEPT !.pos = @ + 1, !.block = next]
  <2>1. s.pos \in 0 .. MaxLines /\ s.block \in 0 .. L!NoBlock
    BY <1>1 DEF L!Stream
  <2>2. s.pos + 1 \in 1 .. Len(log)
    BY <1>2, <2>1 DEF L!ReadLine
  <2>3. l \in Lines
    BY <2>2
  <2>4. next \in 0 .. L!NoBlock /\ ("block" \in Lines \/ next = L!NoBlock)
    BY <2>1, <2>3 DEF BlocksAreLines, L!NoBlock
  <2>5. t \in L!Stream /\ t.block \in {L!NoBlock, next}
    <3> HIDE DEF next
    <3>1. s.pos + 1 \in 0 .. MaxLines
      BY <2>1, <2>2
    <3> QED
      BY <1>1, <2>4, <3>1 DEF L!Stream
  <2>6. streams' = [streams EXCEPT ![i] = t]
    BY <1>2 DEF L!ReadLine
  <2>7. /\ dedup' \subseteq L!Alerts
        /\ upserts' \in [L!Alerts -> 0 .. MaxTasks] /\ checks' \in [L!Alerts -> 0 .. MaxTasks]
    <3>1. CASE L!Emit("block") /\ "block" \in Lines
      <4>1. "block" \in L!Alerts
        BY <3>1 DEF L!Alerts
      <4> QED
        BY <3>1, <4>1, EmitTypes
    <3>2. CASE L!Emit(l) /\ l \in L!Alerts
      BY <3>2, EmitTypes
    <3>3. CASE UNCHANGED L!alertVars
      BY <3>3 DEF L!alertVars
    <3>4. \/ L!Emit("block") /\ (s.block # L!NoBlock \/ next # L!NoBlock)
          \/ L!Emit(l) /\ l \in L!Alerts
          \/ UNCHANGED L!alertVars
      BY <1>2 DEF L!ReadLine
    <3>5. s.block # L!NoBlock \/ next # L!NoBlock => "block" \in Lines
      BY <2>4 DEF BlocksAreLines
    <3> QED
      BY <3>1, <3>2, <3>3, <3>4, <3>5
  <2> HIDE DEF t
  <2>8. streams' \in Seq(L!Stream) /\ Len(streams') = Len(streams)
    BY <2>5, <2>6
  <2>9. BlocksAreLines'
    BY <2>4, <2>5, <2>6 DEF BlocksAreLines, L!NoBlock
  <2> QED
    BY <1>2, <2>7, <2>8, <2>9 DEF L!ReadLine
<1>3. CASE L!EndStream(i)
  <2>1. streams' \in Seq(L!Stream) /\ Len(streams') = Len(streams)
    BY <1>1, <1>3 DEF L!EndStream
  <2>2. BlocksAreLines'
    BY <1>1, <1>3 DEF L!EndStream, BlocksAreLines, L!NoBlock
  <2>3. /\ dedup' \subseteq L!Alerts
        /\ upserts' \in [L!Alerts -> 0 .. MaxTasks] /\ checks' \in [L!Alerts -> 0 .. MaxTasks]
    <3>1. CASE streams[i].block # L!NoBlock
      <4>1. "block" \in L!Alerts /\ L!Emit("block")
        BY <1>3, <3>1 DEF L!EndStream, L!Alerts, BlocksAreLines
      <4> QED
        BY <4>1, EmitTypes
    <3>2. CASE streams[i].block = L!NoBlock
      BY <1>3, <3>2 DEF L!EndStream, L!alertVars
    <3> QED
      BY <3>1, <3>2
  <2> QED
    BY <1>3, <2>1, <2>2, <2>3 DEF L!EndStream
<1> QED
  BY <1>2, <1>3

\* The rows of notifications: their columns, and what becomes of one that is written.
LEMMA NoteTypes ==
    ASSUME NEW n \in L!Note
    PROVE  /\ \A c \in 0 .. 2 : [n EXCEPT !.count = c] \in L!Note
           /\ \A s \in 0 .. 3 : [n EXCEPT !.sent = s] \in L!Note
           /\ \A b \in BOOLEAN : /\ [n EXCEPT !.acked = b] \in L!Note
                                /\ [n EXCEPT !.lost = b] \in L!Note
           /\ L!NoNote \in L!Note
  BY DEF L!Note, L!NoNote

\* The fields of a notification.
LEMMA NoteFields ==
    ASSUME NEW n \in L!Note
    PROVE  /\ n.count \in 0 .. 2 /\ n.sent \in 0 .. 3
           /\ n.acked \in BOOLEAN /\ n.lost \in BOOLEAN
           /\ L!AtMost(n.count + 1, 2) \in 0 .. 2 /\ L!AtMost(n.sent + 1, 3) \in 0 .. 3
  BY DEF L!Note, L!AtMost

\* Every step keeps the types.
LEMMA MonitorTypedStep ==
    ASSUME L!LogMonitorAssumption, MonitorTyped, [L!Next]_lVars
    PROVE  MonitorTyped'
<1> USE DEF L!LogMonitorAssumption, MonitorTyped, L!TypeOK, BlocksAreLines
<1>1. CASE L!ChangeStatus
  BY <1>1 DEF L!ChangeStatus, L!watcherVars, L!alertVars, L!Status, L!NoBlock
<1>2. CASE L!WriteLine
  BY <1>2 DEF L!WriteLine, L!watcherVars, L!alertVars, L!NoBlock
<1>3. CASE L!Poll
  BY <1>3 DEF L!Poll, L!alertVars, L!NoBlock
<1>4. CASE L!Reconcile
  BY <1>4, ReconcileTypes
<1>5. ASSUME NEW i \in DOMAIN streams, L!ReadLine(i) \/ L!EndStream(i) PROVE MonitorTyped'
  BY <1>5, StreamTypes
<1>6. CASE L!Expire
  BY <1>6 DEF L!Expire, L!watcherVars, L!NoBlock
<1>7. ASSUME NEW a \in L!Alerts, L!Upsert(a) \/ L!UpsertFails(a) \/ L!Send(a) PROVE MonitorTyped'
  <2>1. notes[a] \in L!Note /\ upserts[a] \in 0 .. MaxTasks /\ checks[a] \in 0 .. MaxTasks
    OBVIOUS
  <2>2. CASE L!Upsert(a)
    <3>1. upserts' \in [L!Alerts -> 0 .. MaxTasks]
      BY <2>1, <2>2 DEF L!Upsert
    <3>2. [notes[a] EXCEPT !.count = L!AtMost(@ + 1, 2)] \in L!Note
      BY <2>1, NoteTypes, NoteFields
    <3>3. notes' \in [L!Alerts -> L!Note]
      BY <2>2, <3>2 DEF L!Upsert
    <3> QED
      BY <2>2, <3>1, <3>3 DEF L!Upsert, L!watcherVars, L!NoBlock
  <2>3. CASE L!UpsertFails(a)
    <3>1. upserts' \in [L!Alerts -> 0 .. MaxTasks]
      BY <2>1, <2>3 DEF L!UpsertFails
    <3>2. [notes[a] EXCEPT !.lost = notes[a].count > 0] \in L!Note
      <4>1. (notes[a].count > 0) \in BOOLEAN
        OBVIOUS
      <4> QED
        BY <2>1, <4>1, NoteTypes, Zenon
    <3>3. notes' \in [L!Alerts -> L!Note]
      BY <2>3, <3>2 DEF L!UpsertFails
    <3> QED
      BY <2>3, <3>1, <3>3 DEF L!UpsertFails, L!watcherVars, L!NoBlock
  <2>4. CASE L!Send(a)
    <3>1. checks' \in [L!Alerts -> 0 .. MaxTasks]
      BY <2>1, <2>4 DEF L!Send
    <3>2. [notes[a] EXCEPT !.sent = L!AtMost(@ + 1, 3)] \in L!Note
      BY <2>1, NoteTypes, NoteFields
    <3>3. notes' \in [L!Alerts -> L!Note]
      BY <2>4, <3>2 DEF L!Send, L!Announce
    <3> QED
      BY <2>4, <3>1, <3>3 DEF L!Send, L!watcherVars, L!NoBlock
  <2> QED
    BY <1>7, <2>2, <2>3, <2>4
<1>8. ASSUME NEW a \in L!Alerts, L!UserStep(a) PROVE MonitorTyped'
  <2>1. L!NoNote \in L!Note /\ [notes[a] EXCEPT !.acked = TRUE] \in L!Note
    BY NoteTypes
  <2>2. notes' \in [L!Alerts -> L!Note]
    BY <1>8, <2>1 DEF L!UserStep, L!Acknowledge, L!Delete
  <2> QED
    BY <1>8, <2>2 DEF L!UserStep, L!Acknowledge, L!Delete, L!watcherVars, L!alertVars, L!NoBlock
<1>9. CASE UNCHANGED lVars
  BY <1>9 DEF lVars, L!NoBlock
<1> QED
  BY <1>1, <1>2, <1>3, <1>4, <1>5, <1>6, <1>7, <1>8, <1>9 DEF L!Next

\* At the start nothing is watched and nothing was written.
LEMMA MonitorTypedInit == ASSUME L!LogMonitorAssumption, L!Init PROVE MonitorTyped
<1>1. log = <<>> /\ streams = <<>> /\ watching = 0 /\ dedup = {}
  BY DEF L!Init
<1>2. notes \in [L!Alerts -> L!Note]
  BY DEF L!Init, L!NoNote, L!Note
<1>3. upserts \in [L!Alerts -> 0 .. MaxTasks] /\ checks \in [L!Alerts -> 0 .. MaxTasks]
  BY DEF L!Init, L!LogMonitorAssumption
<1>4. BlocksAreLines
  BY <1>1 DEF BlocksAreLines
<1>5. log \in Seq(Lines) /\ Len(log) <= MaxLines /\ streams \in Seq(L!Stream)
      /\ Len(streams) <= MaxStreams
  BY <1>1 DEF L!LogMonitorAssumption
<1>6. watching \in 0 .. Len(streams)
  BY <1>1
<1> QED
  BY <1>1, <1>2, <1>3, <1>4, <1>5, <1>6 DEF L!Init, MonitorTyped, L!TypeOK, L!Status

-----------------------------------------------------------------------------
\* A poll opens a second stream only when it has cancelled the one that it knew of.
LEMMA FollowerStep ==
    ASSUME L!LogMonitorAssumption, MonitorTyped, L!OneFollower, [L!Next]_lVars PROVE L!OneFollower'
<1> USE DEF L!OneFollower, MonitorTyped, L!TypeOK
<1>1. CASE L!Reconcile
  <2>1. L!CancelStopped \in Seq(L!Stream) /\ Len(L!CancelStopped) = Len(streams)
    BY CancelTypes
  <2>2. \A i \in DOMAIN streams :
          /\ L!CancelStopped[i].open = streams[i].open
          /\ L!CancelStopped[i].follow = streams[i].follow
          /\ L!CancelStopped[i].cancelled =
                IF listed # "running" /\ watching = i THEN streams[i].open
                ELSE streams[i].cancelled
    <3>1. \A i \in DOMAIN streams : streams[i] \in L!Stream
      OBVIOUS
    <3> QED
      BY <3>1 DEF L!CancelStopped, L!Stream
  <2>3. CASE L!MustFollow \/ L!MustScan
    <3>1. PICK opens \in BOOLEAN : streams' =
            Append(L!CancelStopped, IF opens THEN L!NewStream(L!MustFollow) ELSE L!Closed)
      BY <1>1, <2>3 DEF L!Reconcile
    <3> DEFINE s == IF opens THEN L!NewStream(L!MustFollow) ELSE L!Closed
    <3>2. s.follow => L!MustFollow
      BY DEF L!NewStream, L!Closed
    <3>3. s \in L!Stream
      BY NewStreamTypes, ClosedTypes DEF L!MustFollow
    <3>4. streams' = Append(L!CancelStopped, s)
      BY <3>1
    <3> HIDE DEF s
    <3>5. \A i \in DOMAIN streams' : i \in DOMAIN streams \/ i = Len(streams) + 1
      BY <2>1, <3>3, <3>4
    <3>6. /\ \A i \in DOMAIN streams : streams'[i] = L!CancelStopped[i]
          /\ streams'[Len(streams) + 1] = s
      BY <2>1, <3>3, <3>4
    <3>7. watching' = IF L!MustFollow THEN Len(streams) + 1
                      ELSE IF listed = "running" THEN watching ELSE 0
      BY <1>1 DEF L!Reconcile
    <3> SUFFICES ASSUME NEW i \in DOMAIN streams', streams'[i].open, streams'[i].follow,
                        ~streams'[i].cancelled
                 PROVE  i = watching'
      OBVIOUS
    <3>8. CASE i \in DOMAIN streams
      <4>1. streams[i].open /\ streams[i].follow
            /\ streams'[i].cancelled = L!CancelStopped[i].cancelled
        BY <2>2, <3>6, <3>8
      <4>2. listed = "running" /\ i = watching
        BY <2>2, <3>8, <4>1
      <4> QED
        BY <3>7, <3>8, <4>2 DEF L!MustFollow
    <3>9. CASE i = Len(streams) + 1
      BY <3>2, <3>6, <3>7, <3>9
    <3> QED
      BY <3>5, <3>8, <3>9
  <2>4. CASE ~(L!MustFollow \/ L!MustScan)
    <3>1. streams' = L!CancelStopped /\ watching' = IF listed = "running" THEN watching ELSE 0
      BY <1>1, <2>4 DEF L!Reconcile
    <3>2. DOMAIN streams' = DOMAIN streams
      BY <2>1, <3>1
    <3> QED
      BY <2>2, <3>1, <3>2
  <2> QED
    BY <2>3, <2>4
<1>2. ASSUME NEW i \in DOMAIN streams, L!ReadLine(i) PROVE L!OneFollower'
  <2>1. streams[i] \in L!Stream /\ ~L!Closed.follow
    BY DEF L!Closed
  <2> QED
    BY <1>2, <2>1 DEF L!ReadLine, L!Stream
<1>3. ASSUME NEW i \in DOMAIN streams, L!EndStream(i) PROVE L!OneFollower'
  BY <1>3 DEF L!EndStream, L!Closed
<1>4. CASE UNCHANGED <<streams, watching>>
  BY <1>4
<1>5. \/ L!Reconcile
      \/ \E i \in DOMAIN streams : L!ReadLine(i) \/ L!EndStream(i)
      \/ UNCHANGED <<streams, watching>>
  BY DEF L!Next, L!ChangeStatus, L!WriteLine, L!Poll, L!Expire, L!Upsert, L!UpsertFails, L!Send,
     L!UserStep,
         L!Acknowledge, L!Delete, L!watcherVars, lVars
<1> QED
  BY <1>1, <1>2, <1>3, <1>4, <1>5

-----------------------------------------------------------------------------
\* The window of an alert is open while a goroutine of one of its occurrences is to come, so
\* that there is at most one of each kind. As long as the goroutine of an occurrence that is to
\* send has not run, at most one message was sent for the row; when the second occurrence is not
\* counted yet, the other goroutine may have made it two.
Balanced(counted, told, lost, counting, sending, seen) ==
    /\ ~seen => counting = 0 /\ sending = 0
    /\ counting <= 1 /\ sending <= 1
    /\ counted = 0 => told = 0
    /\ ~lost =>
         /\ told <= 2
         /\ counted = 1 /\ counting = 0 => told + sending <= 1
         /\ counted = 1 /\ sending = 1 => told <= 1

Accounted ==
    \A a \in L!Alerts :
        Balanced(notes[a].count, notes[a].sent, notes[a].lost, upserts[a], checks[a], a \in dedup)

\* A step that concerns one alert leaves the others as they are.
LEMMA OneAlert ==
    ASSUME Accounted, NEW a \in L!Alerts,
           Balanced(notes'[a].count, notes'[a].sent, notes'[a].lost, upserts'[a], checks'[a],
                    a \in dedup'),
           \A b \in L!Alerts \ {a} : /\ notes'[b] = notes[b] /\ upserts'[b] = upserts[b]
                                     /\ checks'[b] = checks[b] /\ (b \in dedup' <=> b \in dedup)
    PROVE  Accounted'
  BY DEF Accounted, Balanced

\* An occurrence that is not a duplicate finds no goroutine of its alert, and starts them.
LEMMA EmitAccounted ==
    ASSUME MonitorTyped, Accounted, NEW a \in L!Alerts, L!Emit(a), UNCHANGED notes PROVE Accounted'
<1>1. CASE a \in dedup
  BY <1>1 DEF L!Emit, L!alertVars, Accounted, Balanced
<1>2. CASE a \notin dedup
  <2> DEFINE n == notes[a]
  <2>1. n \in L!Note /\ upserts \in [L!Alerts -> 0 .. MaxTasks]
        /\ checks \in [L!Alerts -> 0 .. MaxTasks]
    BY DEF MonitorTyped, L!TypeOK
  <2>2. Balanced(n.count, n.sent, n.lost, upserts[a], checks[a], a \in dedup)
    BY DEF Accounted
  <2>3. upserts[a] = 0 /\ checks[a] = 0
    BY <1>2, <2>2 DEF Balanced
  <2>4. a \in dedup' /\ upserts'[a] = 1 /\ checks'[a] \in {0, 1}
    BY <1>2, <2>1, <2>3 DEF L!Emit
  <2>5. \A b \in L!Alerts \ {a} : /\ upserts'[b] = upserts[b] /\ checks'[b] = checks[b]
                                  /\ (b \in dedup' <=> b \in dedup)
    BY <1>2, <2>1 DEF L!Emit
  <2>6. n.count \in 0 .. 2 /\ n.sent \in 0 .. 3 /\ n.lost \in BOOLEAN
    BY <2>1, NoteFields
  <2> HIDE DEF n
  <2>7. Balanced(n.count, n.sent, n.lost, upserts'[a], checks'[a], a \in dedup')
    BY <1>2, <2>2, <2>3, <2>4, <2>6 DEF Balanced
  <2> QED
    BY <2>5, <2>7, OneAlert DEF n
<1> QED
  BY <1>1, <1>2

\* The goroutine that counts an occurrence: it succeeds, or the row says that it failed.
LEMMA UpsertAccounted ==
    ASSUME MonitorTyped, Accounted, NEW a \in L!Alerts, L!Upsert(a) \/ L!UpsertFails(a)
    PROVE  Accounted'
<1> DEFINE n == notes[a]
           m == notes'[a]
<1>1. n \in L!Note /\ upserts \in [L!Alerts -> 0 .. MaxTasks]
      /\ checks \in [L!Alerts -> 0 .. MaxTasks]
      /\ notes \in [L!Alerts -> L!Note]
  BY DEF MonitorTyped, L!TypeOK
<1>2. n.count \in 0 .. 2 /\ n.sent \in 0 .. 3 /\ n.lost \in BOOLEAN
  BY <1>1, NoteFields
<1>3. Balanced(n.count, n.sent, n.lost, upserts[a], checks[a], a \in dedup) /\ upserts[a] > 0
  BY DEF Accounted, L!Upsert, L!UpsertFails
<1>4. /\ upserts'[a] = upserts[a] - 1 /\ UNCHANGED <<checks, dedup>>
      /\ \A b \in L!Alerts \ {a} : upserts'[b] = upserts[b] /\ notes'[b] = notes[b]
  BY <1>1 DEF L!Upsert, L!UpsertFails
<1>5. /\ m.sent = n.sent
      /\ \/ m.count = L!AtMost(n.count + 1, 2) /\ m.lost = n.lost
         \/ m.count = n.count /\ (m.lost <=> n.count > 0)
  <2>1. CASE L!Upsert(a)
    <3>1. m = [n EXCEPT !.count = L!AtMost(@ + 1, 2)]
      BY <1>1, <2>1 DEF L!Upsert
    <3> QED
      BY <1>1, <3>1 DEF L!Note
  <2>2. CASE L!UpsertFails(a)
    <3> DEFINE b == n.count > 0
    <3>1. notes' = [notes EXCEPT ![a].lost = b]
      BY <2>2 DEF L!UpsertFails
    <3>2. b \in BOOLEAN /\ (b <=> n.count > 0)
      OBVIOUS
    <3> HIDE DEF b
    <3>3. m = [n EXCEPT !.lost = b]
      BY <1>1, <3>1
    <3> QED
      BY <1>1, <3>2, <3>3 DEF L!Note
  <2> QED
    BY <2>1, <2>2
<1>6. upserts[a] \in Nat /\ checks[a] \in Nat
  BY <1>1
<1>7. Balanced(m.count, m.sent, m.lost, upserts'[a], checks'[a], a \in dedup')
  <2> HIDE DEF m, n
  <2>1. CASE m.count = L!AtMost(n.count + 1, 2) /\ m.lost = n.lost
    BY <1>2, <1>3, <1>4, <1>5, <1>6, <2>1 DEF Balanced, L!AtMost
  <2>2. CASE m.count = n.count /\ (m.lost <=> n.count > 0)
    <3>1. CASE n.count = 0
      <4>1. m.count = 0 /\ m.sent = 0 /\ ~m.lost
        BY <1>2, <1>3, <1>5, <2>2, <3>1 DEF Balanced
      <4> QED
        BY <1>3, <1>4, <1>6, <4>1 DEF Balanced
    <3>2. CASE n.count > 0
      <4>1. m.count # 0 /\ m.lost
        BY <1>2, <2>2, <3>2
      <4> QED
        BY <1>3, <1>4, <1>6, <4>1 DEF Balanced
    <3> QED
      BY <1>2, <3>1, <3>2
  <2> QED
    BY <1>5, <2>1, <2>2
<1> QED
  BY <1>4, <1>7, OneAlert DEF m

\* The goroutine that sends finds its alert counted once, or gives up.
LEMMA SendAccounted ==
    ASSUME MonitorTyped, Accounted, NEW a \in L!Alerts, L!Send(a) PROVE Accounted'
<1> DEFINE n == notes[a]
           m == notes'[a]
<1>1. n \in L!Note /\ upserts \in [L!Alerts -> 0 .. MaxTasks]
      /\ checks \in [L!Alerts -> 0 .. MaxTasks]
      /\ notes \in [L!Alerts -> L!Note]
  BY DEF MonitorTyped, L!TypeOK
<1>2. n.count \in 0 .. 2 /\ n.sent \in 0 .. 3 /\ n.lost \in BOOLEAN
  BY <1>1, NoteFields
<1>3. Balanced(n.count, n.sent, n.lost, upserts[a], checks[a], a \in dedup) /\ checks[a] > 0
  BY DEF Accounted, L!Send
<1>4. /\ checks'[a] = checks[a] - 1 /\ UNCHANGED <<upserts, dedup>>
      /\ \A b \in L!Alerts \ {a} : checks'[b] = checks[b] /\ notes'[b] = notes[b]
  BY <1>1 DEF L!Send, L!Announce
<1>5. /\ m.count = n.count /\ m.lost = n.lost
      /\ \/ m.sent = n.sent
         \/ n.count = 1 /\ m.sent = L!AtMost(n.sent + 1, 3)
  <2>1. CASE notes' = notes
    BY <2>1
  <2>2. CASE L!IsNew(a) /\ notes' = [notes EXCEPT ![a].sent = L!AtMost(@ + 1, 3)]
    <3>1. m = [n EXCEPT !.sent = L!AtMost(@ + 1, 3)]
      BY <1>1, <2>2
    <3> QED
      BY <1>1, <2>2, <3>1 DEF L!Note, L!IsNew
  <2> QED
    BY <2>1, <2>2 DEF L!Send, L!Announce
<1>6. upserts[a] \in Nat /\ checks[a] \in Nat
  BY <1>1
<1>7. Balanced(m.count, m.sent, m.lost, upserts'[a], checks'[a], a \in dedup')
  <2> HIDE DEF m, n
  <2> QED
    BY <1>2, <1>3, <1>4, <1>5, <1>6 DEF Balanced, L!AtMost
<1> QED
  BY <1>4, <1>7, OneAlert DEF m

\* A user acknowledges the notification or deletes it, with what was sent for it.
LEMMA UserAccounted ==
    ASSUME MonitorTyped, Accounted, NEW a \in L!Alerts, L!UserStep(a) PROVE Accounted'
<1> DEFINE n == notes[a]
           m == notes'[a]
<1>1. n \in L!Note /\ notes \in [L!Alerts -> L!Note]
  BY DEF MonitorTyped, L!TypeOK
<1>2. /\ UNCHANGED <<upserts, checks, dedup>>
      /\ \A b \in L!Alerts \ {a} : notes'[b] = notes[b]
      /\ m \in {L!NoNote, [n EXCEPT !.acked = TRUE]}
  BY <1>1 DEF L!UserStep, L!Acknowledge, L!Delete, L!alertVars
<1>3. \/ m.count = 0 /\ m.sent = 0
      \/ m.count = n.count /\ m.sent = n.sent /\ m.lost = n.lost
  BY <1>1, <1>2 DEF L!Note, L!NoNote
<1>4. Balanced(n.count, n.sent, n.lost, upserts[a], checks[a], a \in dedup)
  BY DEF Accounted
<1>5. Balanced(m.count, m.sent, m.lost, upserts[a], checks[a], a \in dedup)
  <2> HIDE DEF m, n
  <2> QED
    BY <1>3, <1>4 DEF Balanced
<1> QED
  BY <1>2, <1>5, OneAlert DEF m

\* Every step keeps the account of what was counted, sent and lost.
LEMMA AccountedStep ==
    ASSUME L!LogMonitorAssumption, MonitorTyped, Accounted, [L!Next]_lVars PROVE Accounted'
<1>1. CASE UNCHANGED <<L!alertVars, notes>>
  BY <1>1 DEF L!alertVars, Accounted, Balanced
<1>2. CASE L!Expire
  <2>1. PICK a \in dedup : /\ upserts[a] = 0 /\ checks[a] = 0 /\ dedup' = dedup \ {a}
                          /\ UNCHANGED <<upserts, checks, notes>>
    BY <1>2 DEF L!Expire
  <2>2. a \in L!Alerts
    BY <2>1 DEF MonitorTyped, L!TypeOK
  <2>3. Balanced(notes[a].count, notes[a].sent, notes[a].lost, upserts[a], checks[a], a \in dedup')
    BY <2>1, <2>2 DEF Accounted, Balanced
  <2> QED
    BY <2>1, <2>2, <2>3, OneAlert
<1>3. ASSUME NEW a \in L!Alerts, L!Upsert(a) \/ L!UpsertFails(a) \/ L!Send(a) \/ L!UserStep(a)
      PROVE  Accounted'
  BY <1>3, UpsertAccounted, SendAccounted, UserAccounted
<1>4. ASSUME NEW i \in DOMAIN streams, L!ReadLine(i) \/ L!EndStream(i) PROVE Accounted'
  BY <1>1, <1>4, EmitsAlerts, EmitAccounted
<1>5. \/ UNCHANGED <<L!alertVars, notes>>
      \/ L!Expire
      \/ \E a \in L!Alerts : L!Upsert(a) \/ L!UpsertFails(a) \/ L!Send(a) \/ L!UserStep(a)
      \/ \E i \in DOMAIN streams : L!ReadLine(i) \/ L!EndStream(i)
  BY DEF L!Next, L!ChangeStatus, L!WriteLine, L!Poll, L!Reconcile, lVars, L!alertVars
<1> QED
  BY <1>1, <1>2, <1>3, <1>4, <1>5

\* What the part "alerts" keeps.
AlertsInv == MonitorTyped /\ L!OneFollower /\ Accounted

LEMMA AlertsInit == ASSUME L!LogMonitorAssumption, L!Init PROVE AlertsInv
<1>1. streams = <<>>
  BY DEF L!Init
<1>2. L!OneFollower
  BY <1>1 DEF L!OneFollower
<1>3. \A a \in L!Alerts : /\ notes[a].count = 0 /\ notes[a].sent = 0
                          /\ upserts[a] = 0 /\ checks[a] = 0
  BY DEF L!Init, L!NoNote
<1>4. MonitorTyped
  BY MonitorTypedInit
<1> QED
  BY <1>2, <1>3, <1>4 DEF AlertsInv, Accounted, Balanced

LEMMA AlertsStays == ASSUME L!LogMonitorAssumption, AlertsInv, [L!Next]_lVars PROVE AlertsInv'
  BY MonitorTypedStep, FollowerStep, AccountedStep DEF AlertsInv

LEMMA AlertsMeans ==
    ASSUME AlertsInv PROVE L!TypeOK /\ L!OneFollower /\ L!AnnouncedAtMostTwice
<1>1. ASSUME NEW a \in L!Alerts, notes[a].sent > 2 PROVE notes[a].lost
  <2>1. notes[a].sent \in 0 .. 3
    BY NoteFields DEF AlertsInv, MonitorTyped, L!TypeOK
  <2> QED
    BY <1>1, <2>1 DEF AlertsInv, Accounted, Balanced
<1> QED
  BY <1>1 DEF AlertsInv, MonitorTyped, L!AnnouncedAtMostTwice

-----------------------------------------------------------------------------
(* Journal *)

\* What a poll found is not below what was sent, and no id passes those that were given out.
JournalInv ==
    /\ J!TypeOK
    /\ Len(rows) + writers <= count.entries
    /\ stream.lastID <= Len(rows)
    /\ \A i \in stream.newLogs : stream.lastID < i /\ i <= Len(rows)
    /\ \A i \in DOMAIN rowsSent : rowsSent[i] <= stream.lastID
    /\ J!RowsSentOnce

LEMMA JournalInit == ASSUME J!JournalAssumption, J!Init PROVE JournalInv
<1>1. /\ rows = <<>> /\ rowsSent = <<>> /\ writers = 0
      /\ stream = [open |-> FALSE, lastID |-> 0, newLogs |-> {}]
      /\ count = [entries |-> 0, opens |-> 0]
      /\ dbLevel \in {J!DBLogLevel[l] : l \in DOMAIN J!DBLogLevel}
  BY DEF J!Init
<1>2. J!TypeOK
  BY <1>1 DEF J!TypeOK, J!JournalAssumption
<1> QED
  BY <1>1, <1>2 DEF JournalInv, J!RowsSentOnce

LEMMA JournalStays == ASSUME J!JournalAssumption, JournalInv, [J!Next]_jVars PROVE JournalInv'
<1> USE DEF JournalInv, J!TypeOK, J!RowsSentOnce
<1>0. Len(rows) \in Nat /\ Len(rowsSent) \in Nat
  OBVIOUS
<1>1. ASSUME NEW s \in J!Sources, J!Log(s) PROVE JournalInv'
  BY <1>0, <1>1 DEF J!Log, J!JournalAssumption
<1>2. CASE J!Insert
  <2>1. Len(rows') = Len(rows) + 1 /\ rows' \in Seq({"open", "visible", "deleted"})
    BY <1>2 DEF J!Insert
  <2> QED
    BY <1>0, <1>2, <2>1 DEF J!Insert, J!JournalAssumption
<1>k. \A k \in DOMAIN rowsSent : rowsSent[k] \in 1 .. MaxEntries
  <2>1. rowsSent \in Seq(1 .. MaxEntries)
    OBVIOUS
  <2> QED
    BY <2>1, ElementTypes
<1>s. /\ stream.open \in BOOLEAN /\ stream.lastID \in 0 .. MaxEntries
      /\ stream.newLogs \in SUBSET (1 .. MaxEntries)
  OBVIOUS
<1>t. /\ \A k \in DOMAIN rowsSent : rowsSent[k] \in 1 .. MaxEntries
      /\ stream.open \in BOOLEAN /\ stream.lastID \in 0 .. MaxEntries
      /\ stream.newLogs \in SUBSET (1 .. MaxEntries)
      /\ Len(rows) <= MaxEntries
  <2>1. count.entries \in 0 .. MaxEntries /\ writers \in 0 .. MaxEntries
    OBVIOUS
  <2> QED
    BY <1>0, <1>k, <1>s, <2>1 DEF J!JournalAssumption
<1>3. CASE J!Commit \/ J!Retain
  <2>1. PICK i \in DOMAIN rows, s \in {"visible", "deleted"} : rows' = [rows EXCEPT ![i] = s]
    BY <1>3 DEF J!Commit, J!Retain
  <2>2. Len(rows') = Len(rows) /\ rows' \in Seq({"open", "visible", "deleted"})
    BY <2>1
  <2> QED
    BY <1>0, <1>3, <2>2 DEF J!Commit, J!Retain
<1>4. CASE J!OpenStream
  <2>1. PICK id \in J!LatestAppLogID :
               stream' = [open |-> TRUE, lastID |-> id, newLogs |-> {}]
    BY <1>4 DEF J!OpenStream
  <2>2. id \in 0 .. Len(rows)
    BY <1>0 DEF J!LatestAppLogID, J!Visible
  <2>3. rowsSent' = <<>>
    BY <1>4 DEF J!OpenStream
  <2> QED
    BY <1>0, <1>4, <2>1, <2>2, <2>3 DEF J!OpenStream, J!JournalAssumption
<1>5. CASE J!Poll
  <2>1. J!PollAppLogs \in SUBSET (1 .. Len(rows))
    BY DEF J!PollAppLogs, J!Visible
  <2>2. \A i \in J!PollAppLogs : i > stream.lastID
    BY DEF J!PollAppLogs
  <2>3. stream' = [stream EXCEPT !.newLogs = J!PollAppLogs]
    BY <1>5 DEF J!Poll
  <2>4. J!PollAppLogs \in SUBSET (1 .. MaxEntries)
    BY <1>0, <1>t, <2>1 DEF J!JournalAssumption
  <2>5. stream' = [open |-> stream.open, lastID |-> stream.lastID, newLogs |-> J!PollAppLogs]
    BY <2>3
  <2>6. UNCHANGED <<dbLevel, writers, rows, rowsSent, count>>
    BY <1>5 DEF J!Poll
  <2>7. stream' \in [open : BOOLEAN, lastID : 0 .. MaxEntries, newLogs : SUBSET (1 .. MaxEntries)]
    BY <1>t, <2>4, <2>5
  <2>8. \A i \in stream'.newLogs : stream'.lastID < i /\ i <= Len(rows)
    BY <1>0, <1>t, <2>1, <2>2, <2>5
  <2>9. stream'.lastID = stream.lastID
    BY <2>5
  <2> QED
    BY <2>6, <2>7, <2>8, <2>9
<1>6. CASE J!SendRow
  <2>1. PICK i \in stream.newLogs :
               /\ \A j \in stream.newLogs : i <= j
               /\ rowsSent' = Append(rowsSent, i)
               /\ stream' = [stream EXCEPT !.newLogs = @ \ {i},
                                            !.lastID = IF i > @ THEN i ELSE @]
    BY <1>6 DEF J!SendRow
  <2>2. i \in 1 .. MaxEntries /\ i > stream.lastID /\ i <= Len(rows)
    OBVIOUS
  <2>s. stream' = [open |-> stream.open, lastID |-> i, newLogs |-> stream.newLogs \ {i}]
    BY <1>t, <2>1, <2>2
  <2>3. stream'.lastID = i /\ stream'.newLogs = stream.newLogs \ {i}
    BY <2>s
  <2>4. stream' \in [open : BOOLEAN, lastID : 0 .. MaxEntries, newLogs : SUBSET (1 .. MaxEntries)]
    BY <1>t, <2>2, <2>s
  <2>5. /\ Len(rowsSent') = Len(rowsSent) + 1 /\ rowsSent'[Len(rowsSent) + 1] = i
        /\ \A k \in DOMAIN rowsSent : rowsSent'[k] = rowsSent[k]
        /\ rowsSent' \in Seq(1 .. MaxEntries)
    BY <1>0, <2>1, <2>2
  <2>6. UNCHANGED <<dbLevel, writers, rows, count>>
    BY <1>6 DEF J!SendRow
  <2>7. \A k \in DOMAIN rowsSent' : k \in DOMAIN rowsSent \/ k = Len(rowsSent) + 1
    BY <1>0, <2>5
  <2>8. \A k \in DOMAIN rowsSent : rowsSent[k] < i
    BY <1>t, <2>2
  <2>9. J!RowsSentOnce'
    BY <1>0, <2>5, <2>7, <2>8
  <2>10. \A k \in DOMAIN rowsSent' : rowsSent'[k] <= stream'.lastID
    BY <1>t, <2>2, <2>3, <2>5, <2>7, <2>8
  <2>11. \A j \in stream'.newLogs : stream'.lastID < j /\ j <= Len(rows')
    BY <2>1, <2>3, <2>6
  <2>12. stream'.lastID <= Len(rows')
    BY <2>2, <2>3, <2>6
  <2> QED
    BY <2>4, <2>5, <2>6, <2>9, <2>10, <2>11, <2>12
<1>7. CASE J!CloseStream
  BY <1>0, <1>7 DEF J!CloseStream
<1>8. CASE UNCHANGED jVars
  BY <1>0, <1>8 DEF jVars
<1> QED
  BY <1>1, <1>2, <1>3, <1>4, <1>5, <1>6, <1>7, <1>8 DEF J!Next, jVars

LEMMA JournalMeans == ASSUME JournalInv PROVE J!TypeOK /\ J!RowsSentOnce
  BY DEF JournalInv

-----------------------------------------------------------------------------
(* The parts together *)

\* What holds in the states of a part.
AccessInv ==
    /\ part = "sessions" => SessionsInv
    /\ part = "enrolment" => EnrolmentInv
    /\ part = "webhooks" => HooksInv
    /\ part = "exec" => ExecInv
    /\ part = "alerts" => AlertsInv
    /\ part = "journal" => JournalInv

\* Every part starts in its invariant.
LEMMA AccessInit == Init => AccessInv
<1> SUFFICES ASSUME Init PROVE AccessInv
  OBVIOUS
<1>a. /\ S!SessionsAssumption /\ E!EnrolmentAssumption /\ W!WebhooksAssumption
      /\ X!ExecSessionAssumption /\ L!LogMonitorAssumption /\ J!JournalAssumption
  BY AccessAssumption DEF AccessAssumption
<1>i. \/ part = "sessions" /\ S!Init
      \/ part = "enrolment" /\ E!Init
      \/ part = "webhooks" /\ W!Init
      \/ part = "exec" /\ X!Init
      \/ part = "alerts" /\ L!Init
      \/ part = "journal" /\ J!Init
  BY DEF Init
<1>1. CASE part = "sessions" /\ S!Init
  BY <1>a, <1>1, SessionsInit DEF AccessInv
<1>2. CASE part = "enrolment" /\ E!Init
  BY <1>a, <1>2, EnrolmentInit DEF AccessInv
<1>3. CASE part = "webhooks" /\ W!Init
  BY <1>a, <1>3, HooksInit DEF AccessInv
<1>4. CASE part = "exec" /\ X!Init
  BY <1>a, <1>4, ExecInit DEF AccessInv
<1>5. CASE part = "alerts" /\ L!Init
  BY <1>a, <1>5, AlertsInit DEF AccessInv
<1>6. CASE part = "journal" /\ J!Init
  BY <1>a, <1>6, JournalInit DEF AccessInv
<1> QED
  BY <1>i, <1>1, <1>2, <1>3, <1>4, <1>5, <1>6

\* A step is one of the part that runs, or changes nothing.
LEMMA AccessParts ==
    ASSUME [Next]_vars
    PROVE  /\ part' = part
           /\ part = "sessions" => [S!Next]_sVars
           /\ part = "enrolment" => [E!Next]_eVars
           /\ part = "webhooks" => [W!Next]_wVars
           /\ part = "exec" => [X!Next]_xVars
           /\ part = "alerts" => [L!Next]_lVars
           /\ part = "journal" => [J!Next]_jVars
<1>1. CASE UNCHANGED vars
  BY <1>1 DEF vars
<1>2. CASE SessionsStep
  BY <1>2 DEF SessionsStep
<1>3. CASE EnrolmentStep
  BY <1>3 DEF EnrolmentStep
<1>4. CASE WebhooksStep
  BY <1>4 DEF WebhooksStep
<1>5. CASE ExecStep
  BY <1>5 DEF ExecStep
<1>6. CASE AlertsStep
  BY <1>6 DEF AlertsStep
<1>7. CASE JournalStep
  BY <1>7 DEF JournalStep
<1> QED
  BY <1>1, <1>2, <1>3, <1>4, <1>5, <1>6, <1>7 DEF Next

LEMMA AccessKeeps == AccessInv /\ [Next]_vars => AccessInv'
<1> SUFFICES ASSUME AccessInv, [Next]_vars PROVE AccessInv'
  OBVIOUS
<1>a. /\ S!SessionsAssumption /\ E!EnrolmentAssumption /\ W!WebhooksAssumption
      /\ X!ExecSessionAssumption /\ L!LogMonitorAssumption /\ J!JournalAssumption
  BY AccessAssumption DEF AccessAssumption
<1>1. part' = part
  BY AccessParts
<1>2. part = "sessions" => SessionsInv'
  BY <1>a, AccessParts, SessionsStays DEF AccessInv
<1>3. part = "enrolment" => EnrolmentInv'
  BY <1>a, AccessParts, EnrolmentStays DEF AccessInv
<1>4. part = "webhooks" => HooksInv'
  BY <1>a, AccessParts, HooksStep DEF AccessInv
<1>5. part = "exec" => ExecInv'
  BY <1>a, AccessParts, ExecStays DEF AccessInv
<1>6. part = "alerts" => AlertsInv'
  BY <1>a, AccessParts, AlertsStays DEF AccessInv
<1>7. part = "journal" => JournalInv'
  BY <1>a, AccessParts, JournalStays DEF AccessInv
<1> QED
  BY <1>1, <1>2, <1>3, <1>4, <1>5, <1>6, <1>7 DEF AccessInv

\* AccessInv is the invariant behind the theorems that follow.
THEOREM AccessInvariant == Spec => []AccessInv
BY AccessInit, AccessKeeps, PTL DEF Spec

\* Every component keeps its variables in their types.
THEOREM AccessTypes == Spec => []TypeOK
<1>1. AccessInv => TypeOK
  <2>1. S!SessionsAssumption
    BY AccessAssumption DEF AccessAssumption
  <2> QED
    BY <2>1, SessionsMeans, EnrolmentMeans, HooksMeans, ExecMeans, AlertsMeans, JournalMeans
    DEF AccessInv, TypeOK
<1> QED
  BY <1>1, AccessInvariant, PTL

\* A request that finds the account off from its start to its end opens no session, although
\* auth/service.go looks at token, account and store in separate statements.
THEOREM NoSessionForOffAccounts == Spec => []OffAccountsGetNoSession
<1>1. AccessInv => OffAccountsGetNoSession
  <2>1. S!SessionsAssumption
    BY AccessAssumption DEF AccessAssumption
  <2> QED
    BY <2>1, SessionsMeans DEF AccessInv, OffAccountsGetNoSession
<1> QED
  BY <1>1, AccessInvariant, PTL

\* Tabs of a browser that refresh at the same time do not log it out.
THEOREM TabsStaySignedIn == Spec => []TabsKeepTheSession
<1>1. AccessInv => TabsKeepTheSession
  <2>1. S!SessionsAssumption
    BY AccessAssumption DEF AccessAssumption
  <2> QED
    BY <2>1, SessionsMeans DEF AccessInv, TabsKeepTheSession
<1> QED
  BY <1>1, AccessInvariant, PTL

\* Every certificate in use has its days left, less those on which the renewal job of ca did not
\* go through its list.
THEOREM CertificatesHaveTheirMargin == Spec => []RenewalMargin
<1>1. AccessInv => RenewalMargin
  BY EnrolmentMeans DEF AccessInv, RenewalMargin
<1> QED
  BY <1>1, AccessInvariant, PTL

\* A request that comes after the revocation of its worker gets no certificate for it.
THEOREM RevokedWorkersGetNoCertificate == Spec => []NoCertAfterRevocation
<1>1. AccessInv => NoCertAfterRevocation
  BY EnrolmentMeans DEF AccessInv, NoCertAfterRevocation
<1> QED
  BY <1>1, AccessInvariant, PTL

\* A delivery becomes a job only if secret, filter and switch admitted it at one moment, whoever
\* edits the webhook between the handler's load and its enqueue.
THEOREM DeliveriesWereAdmitted == Spec => []JobsWereAdmitted
<1>1. AccessInv => JobsWereAdmitted
  BY HooksMeans DEF AccessInv, JobsWereAdmitted
<1> QED
  BY <1>1, AccessInvariant, PTL

\* At most one stream follows a container, the one that can be cancelled.
THEOREM OneStreamFollows == Spec => []OneFollower
<1>1. AccessInv => OneFollower
  BY AlertsMeans DEF AccessInv, OneFollower
<1> QED
  BY <1>1, AccessInvariant, PTL

\* However the goroutines that count and send interleave, a repeated error is sent at most twice
\* for one notification, unless an occurrence could not be counted.
THEOREM RepeatsAreAnnouncedTwice == Spec => []AnnouncedAtMostTwice
<1>1. AccessInv => AnnouncedAtMostTwice
  BY AlertsMeans DEF AccessInv, AnnouncedAtMostTwice
<1> QED
  BY <1>1, AccessInvariant, PTL

\* A stream of the journal sends no row twice, and in the order of the ids.
THEOREM JournalRowsSentOnce == Spec => []RowsSentOnce
<1>1. AccessInv => RowsSentOnce
  BY JournalMeans DEF AccessInv, RowsSentOnce
<1> QED
  BY <1>1, AccessInvariant, PTL
=============================================================================
