-------------------------- MODULE AuthSessionProofs --------------------------
(***************************************************************************)
(* Proofs about AuthSession, for any number of users, requests and session *)
(* ids and any lifetimes.  Inv adds to TypeOK what each request has set    *)
(* by the step it is at (Shape) and OwnersExist: a lookup by social        *)
(* identity joins users, so its types hold only while every account has    *)
(* its user.  The roles clients hold are proved from Inv and from what a   *)
(* request remembers of the users table (Trust): roles only grow, so one   *)
(* read long ago is never above the stored one.                            *)
(***************************************************************************)
EXTENDS AuthSession, TLAPS

Issuing == {"login", "refresh", "join"}
Guarded == {"join", "logout", "withdraw", "feature"}

\* What a request holds at each of its steps.
ShapeOf(q) ==
    /\ q.pc \in {"find", "create", "refind"} => q.op = "login" /\ q.identity \in Identities
    /\ q.pc = "auth" => q.op \in Guarded
    /\ q.pc = "read" => q.op \in {"refresh", "join"}
    /\ q.pc \in {"issue", "reply"} => q.op \in Issuing
    /\ q.pc \in {"issue", "reply", "commit"} /\ q.op \in Issuing =>
          q.user \in Users /\ q.role \in Roles
    /\ q.pc \in {"reply", "commit"} /\ q.op \in Issuing => q.sid \in SessionIds
    /\ q.pc \in {"auth", "read", "served"} => q.token \in Grants
    /\ q.pc \in {"issue", "commit"} /\ q.op # "login" =>
          q.token \in Grants /\ q.user = q.token.user

Shape == \A r \in Requests : ShapeOf(req[r])

Inv == TypeOK /\ Shape /\ OwnersExist

-----------------------------------------------------------------------------
(* Lemmas about the helpers *)

\* A pair issued to a request that is about to store or return it is a grant.
LEMMA GrantOfType ==
    ASSUME NEW q \in RequestStates, q.user \in Users, q.role \in Roles, q.sid \in SessionIds
    PROVE  GrantOf(q) \in Grants
BY DEF GrantOf, Grants, RequestStates, Roles

\* The row stored for a grant is a row of auth_sessions.
LEMMA SessionOfType ==
    ASSUME NEW g \in Grants
    PROVE  SessionOf(g) \in Sessions
BY LivesAssumption DEF SessionOf, Sessions, Grants, RefreshTokenOf, RefreshTokens,
   Seconds, Expiries

LEMMA RefreshTokenOfType ==
    ASSUME NEW g \in Grants
    PROVE  RefreshTokenOf(g) \in RefreshTokens
BY DEF RefreshTokenOf, RefreshTokens, Grants

LEMMA Names ==
    /\ {"none", "login", "refresh"} \cup Guarded \subseteq Operations
    /\ {"idle", "find", "create", "refind", "auth", "read", "issue", "commit",
        "reply", "served", "failed"} \subseteq Steps
BY DEF Operations, Steps, Guarded

LEMMA IdleShape == Idle \in RequestStates /\ ShapeOf(Idle)
BY LivesAssumption DEF Idle, RequestStates, ShapeOf, Operations, Steps, Seconds

LEMMA FailedShape ==
    ASSUME NEW q \in RequestStates
    PROVE  Failed(q) \in RequestStates /\ ShapeOf(Failed(q))
<1>1. Failed(q) \in RequestStates
  <2>1. "failed" \in Steps
    BY DEF Steps
  <2>2. QED BY IdleShape, <2>1 DEF Failed, RequestStates
<1>2. ShapeOf(Failed(q))
  BY DEF Failed, Idle, ShapeOf
<1>3. QED BY <1>1, <1>2

\* A step that changes one request keeps the others well formed.
LEMMA BecomeShape ==
    ASSUME TypeOK, Shape, NEW r \in Requests,
           NEW q \in RequestStates, ShapeOf(q), Become(r, q)
    PROVE  req' \in [Requests -> RequestStates] /\ Shape'
<1>1. req' \in [Requests -> RequestStates]
  BY DEF TypeOK, Become
<1>2. \A x \in Requests : ShapeOf(req'[x])
  <2>1. TAKE x \in Requests
  <2>2. CASE x = r
    BY <2>2 DEF Become, TypeOK
  <2>3. CASE x # r
    BY <2>3 DEF Become, TypeOK, Shape
  <2>4. QED BY <2>2, <2>3
<1>3. QED BY <1>1, <1>2 DEF Shape

\* A step that only changes one request preserves Inv.
LEMMA QuietInv ==
    ASSUME Inv, NEW r \in Requests, NEW q \in RequestStates, ShapeOf(q), Become(r, q),
           UNCHANGED <<tables, now, granted, history>>
    PROVE  Inv'
BY BecomeShape DEF Inv, TypeOK, OwnersExist, Exists, tables, history

-----------------------------------------------------------------------------
(* Type correctness and OwnersExist *)

LEMMA InitInv == Init => Inv
<1> SUFFICES ASSUME Init PROVE Inv
  OBVIOUS
<1>1. TypeOK
  BY IdleShape, LivesAssumption DEF Init, TypeOK, Seconds
<1>2. Shape /\ OwnersExist
  BY IdleShape DEF Init, Shape, OwnersExist
<1>3. QED BY <1>1, <1>2 DEF Inv

\* The lookups of a login, each with the row it found or without.
LEMMA LookupInv ==
    ASSUME Inv, NEW r \in Requests,
           FindUserBySocialIdentity(r) \/ FindWinner(r)
    PROVE  Inv'
<1>q. req[r] \in RequestStates /\ ShapeOf(req[r])
  BY DEF Inv, TypeOK, Shape
<1>o. req[r].op = "login" /\ req[r].identity \in Identities
      /\ UNCHANGED <<tables, now, granted, history>>
  BY <1>q DEF FindUserBySocialIdentity, FindWinner, ShapeOf
<1>1. CASE \E a \in AccountsOf(req[r].identity) : ResumeWith(r, a)
  <2>1. PICK a \in accounts : ResumeWith(r, a)
    BY <1>1 DEF AccountsOf
  <2> DEFINE next == [req[r] EXCEPT !.pc = "issue", !.user = a.user, !.role = role[a.user]]
  <2>2. a.user \in Users /\ role[a.user] \in Roles
    BY DEF Inv, TypeOK, Accounts, OwnersExist, Exists
  <2>3. next \in RequestStates
    BY <1>q, <2>2, Names DEF RequestStates
  <2>4. ShapeOf(next)
    BY <1>q, <1>o, <2>2 DEF ShapeOf, Issuing, RequestStates
  <2>5. QED BY <1>o, <2>1, <2>3, <2>4, QuietInv DEF ResumeWith
<1>2. CASE Become(r, [req[r] EXCEPT !.pc = "create"])
  <2>1. [req[r] EXCEPT !.pc = "create"] \in RequestStates
    BY <1>q, Names DEF RequestStates
  <2>2. ShapeOf([req[r] EXCEPT !.pc = "create"])
    BY <1>q, <1>o DEF ShapeOf, Issuing, RequestStates
  <2>3. QED BY <1>o, <1>2, <2>1, <2>2, QuietInv
<1>3. CASE Become(r, Failed(req[r]))
  BY <1>q, <1>o, <1>3, FailedShape, QuietInv
<1>4. QED BY <1>1, <1>2, <1>3 DEF FindUserBySocialIdentity, FindWinner

\* The first step of a request.
LEMMA StartInv ==
    ASSUME Inv, NEW r \in Requests,
           StartLogin(r) \/ StartRefresh(r) \/ StartAuthenticated(r)
    PROVE  Inv'
<1>u. UNCHANGED <<tables, now, granted, history>>
  BY DEF StartLogin, StartRefresh, StartAuthenticated
<1>1. CASE StartLogin(r)
  <2>1. PICK i \in Identities :
           Become(r, [Idle EXCEPT !.op = "login", !.pc = "find", !.identity = i])
    BY <1>1 DEF StartLogin
  <2>2. [Idle EXCEPT !.op = "login", !.pc = "find", !.identity = i] \in RequestStates
    BY IdleShape, Names DEF RequestStates
  <2>3. ShapeOf([Idle EXCEPT !.op = "login", !.pc = "find", !.identity = i])
    BY DEF ShapeOf, Idle, Issuing
  <2>4. QED BY <1>u, <2>1, <2>2, <2>3, QuietInv
<1>2. CASE StartRefresh(r)
  <2>1. PICK g \in granted :
           Become(r, [Idle EXCEPT !.op = "refresh", !.pc = "read", !.token = g])
    BY <1>2 DEF StartRefresh
  <2>2. g \in Grants
    BY DEF Inv, TypeOK
  <2>3. [Idle EXCEPT !.op = "refresh", !.pc = "read", !.token = g] \in RequestStates
    BY <2>2, IdleShape, Names DEF RequestStates
  <2>4. ShapeOf([Idle EXCEPT !.op = "refresh", !.pc = "read", !.token = g])
    BY <2>2 DEF ShapeOf, Idle, Issuing
  <2>5. QED BY <1>u, <2>1, <2>3, <2>4, QuietInv
<1>3. CASE StartAuthenticated(r)
  <2>1. PICK g \in granted, op \in Guarded :
           Become(r, [Idle EXCEPT !.op = op, !.pc = "auth", !.token = g])
    BY <1>3 DEF StartAuthenticated, Guarded
  <2>2. g \in Grants
    BY DEF Inv, TypeOK
  <2>3. [Idle EXCEPT !.op = op, !.pc = "auth", !.token = g] \in RequestStates
    BY <2>2, IdleShape, Names DEF RequestStates
  <2>4. ShapeOf([Idle EXCEPT !.op = op, !.pc = "auth", !.token = g])
    BY <2>2 DEF ShapeOf, Idle, Issuing
  <2>5. QED BY <1>u, <2>1, <2>3, <2>4, QuietInv
<1>4. QED BY <1>1, <1>2, <1>3

\* Reading a user by id, for a refresh or a join.
LEMMA ReadInv ==
    ASSUME Inv, NEW r \in Requests, FindUserById(r) \/ FindById(r)
    PROVE  Inv'
<1> DEFINE q == req[r]
           u == q.token.user
           next == [q EXCEPT !.pc = "issue", !.user = u, !.role = role[u]]
<1>q. q \in RequestStates /\ ShapeOf(q)
  BY DEF Inv, TypeOK, Shape
<1>o. q.op \in {"refresh", "join"} /\ q.token \in Grants
      /\ UNCHANGED <<tables, now, granted, history>>
  BY <1>q DEF FindUserById, FindById, ShapeOf
<1>1. CASE Exists(u) /\ Become(r, next)
  <2>1. u \in Users /\ role[u] \in Roles
    BY <1>1, <1>o DEF Grants, Exists
  <2>2. next \in RequestStates
    BY <1>q, <2>1, Names DEF RequestStates
  <2>3. ShapeOf(next)
    BY <1>q, <1>o, <2>1 DEF ShapeOf, Issuing, RequestStates
  <2>4. QED BY <1>o, <1>1, <2>2, <2>3, QuietInv
<1>2. CASE Become(r, Failed(q))
  BY <1>q, <1>o, <1>2, FailedShape, QuietInv
<1>3. QED BY <1>1, <1>2 DEF FindUserById, FindById

\* The guards, which leave the request at its next step or failed.
LEMMA GuardInv ==
    ASSUME Inv, NEW r \in Requests, IsSessionActive(r)
    PROVE  Inv'
<1> DEFINE q == req[r]
<1>q. q \in RequestStates /\ ShapeOf(q)
  BY DEF Inv, TypeOK, Shape
<1>o. /\ q.op \in Guarded /\ q.token \in Grants
      /\ UNCHANGED <<tables, now, granted, history>>
  BY <1>q DEF IsSessionActive, ShapeOf
<1>1. CASE Become(r, [q EXCEPT !.pc = "read"]) /\ q.op = "join"
  <2>1. [q EXCEPT !.pc = "read"] \in RequestStates
    BY <1>q, Names DEF RequestStates
  <2>2. ShapeOf([q EXCEPT !.pc = "read"])
    BY <1>q, <1>o, <1>1 DEF ShapeOf, Issuing, RequestStates
  <2>3. QED BY <1>o, <1>1, <2>1, <2>2, QuietInv
<1>2. CASE Become(r, [q EXCEPT !.pc = "served"])
  <2>1. [q EXCEPT !.pc = "served"] \in RequestStates
    BY <1>q, Names DEF RequestStates
  <2>2. ShapeOf([q EXCEPT !.pc = "served"])
    BY <1>q, <1>o DEF ShapeOf, Issuing, RequestStates
  <2>3. QED BY <1>o, <1>2, <2>1, <2>2, QuietInv
<1>3. CASE Become(r, [q EXCEPT !.pc = "commit", !.user = q.token.user])
            /\ q.op \in {"logout", "withdraw"}
  <2>1. q.token.user \in Users
    BY <1>o DEF Grants
  <2>2. [q EXCEPT !.pc = "commit", !.user = q.token.user] \in RequestStates
    BY <1>q, <2>1, Names DEF RequestStates
  <2>3. ShapeOf([q EXCEPT !.pc = "commit", !.user = q.token.user])
    BY <1>q, <1>o, <1>3 DEF ShapeOf, Issuing, RequestStates
  <2>4. QED BY <1>o, <1>3, <2>2, <2>3, QuietInv
<1>4. CASE Become(r, Failed(q))
  BY <1>q, <1>o, <1>4, FailedShape, QuietInv
<1>5. QED BY <1>o, <1>1, <1>2, <1>3, <1>4 DEF IsSessionActive, AfterGuards, Guarded

\* Signing the pair.
LEMMA IssueInv ==
    ASSUME Inv, NEW r \in Requests, Issue(r)
    PROVE  Inv'
<1> DEFINE q == req[r]
<1>q. q \in RequestStates /\ ShapeOf(q)
  BY DEF Inv, TypeOK, Shape
<1>1. PICK s \in (IF q.op = "refresh" THEN {q.token.sid} ELSE FreshIds) :
         Become(r, [q EXCEPT !.pc = "commit", !.sid = s, !.iat = now])
  BY DEF Issue
<1>2. q.pc = "issue" /\ q.op \in Issuing /\ UNCHANGED <<tables, now, granted, history>>
  BY <1>q DEF Issue, ShapeOf
<1>3. s \in SessionIds
  BY <1>q, <1>2 DEF ShapeOf, FreshIds, Grants
<1>4. now \in Seconds
  BY DEF Inv, TypeOK
<1>5. [q EXCEPT !.pc = "commit", !.sid = s, !.iat = now] \in RequestStates
  BY <1>q, <1>3, <1>4, Names DEF RequestStates
<1>6. ShapeOf([q EXCEPT !.pc = "commit", !.sid = s, !.iat = now])
  BY <1>q, <1>2, <1>3 DEF ShapeOf, Issuing, RequestStates
<1>7. QED BY <1>1, <1>2, <1>5, <1>6, QuietInv

\* The transaction that inserts a user and its social account.
LEMMA CreateAccountInv ==
    ASSUME Inv, NEW r \in Requests, CreateAccount(r)
    PROVE  Inv'
<1> DEFINE q == req[r]
<1>q. q \in RequestStates /\ ShapeOf(q) /\ q.op = "login" /\ q.identity \in Identities
  BY DEF Inv, TypeOK, Shape, ShapeOf, CreateAccount
<1>1. CASE Become(r, [q EXCEPT !.pc = "refind"]) /\ UNCHANGED <<role, accounts>>
  <2>1. [q EXCEPT !.pc = "refind"] \in RequestStates
    BY <1>q, Names DEF RequestStates
  <2>2. ShapeOf([q EXCEPT !.pc = "refind"])
    BY <1>q DEF ShapeOf, Issuing, RequestStates
  <2>3. QED BY <1>1, <2>1, <2>2, QuietInv DEF CreateAccount, tables
<1>2. ASSUME NEW u \in Users, role[u] = "free", role' = [role EXCEPT ![u] = "PENDING"],
             accounts' = accounts \cup
                {[provider |-> q.identity.provider,
                  providerUserId |-> q.identity.providerUserId, user |-> u]},
             Become(r, [q EXCEPT !.pc = "issue", !.user = u, !.role = "PENDING"])
      PROVE  Inv'
  <2>1. UNCHANGED <<sessions, now, granted, history>>
    BY DEF CreateAccount
  <2>2. [q EXCEPT !.pc = "issue", !.user = u, !.role = "PENDING"] \in RequestStates
    BY <1>q, Names DEF RequestStates, Roles
  <2>3. ShapeOf([q EXCEPT !.pc = "issue", !.user = u, !.role = "PENDING"])
    BY <1>q DEF ShapeOf, Issuing, RequestStates, Roles
  <2>4. req' \in [Requests -> RequestStates] /\ Shape'
    BY <1>2, <2>2, <2>3, BecomeShape DEF Inv
  <2>5. role' \in [Users -> Roles \cup {"free", "deleted"}] /\ accounts' \subseteq Accounts
    BY <1>q, <1>2 DEF Inv, TypeOK, Roles, Accounts
  <2>6. OwnersExist'
    BY <1>2, <2>1 DEF Inv, TypeOK, OwnersExist, Exists, Roles, Accounts, Sessions
  <2>7. QED BY <2>1, <2>4, <2>5, <2>6 DEF Inv, TypeOK, history
<1>3. QED BY <1>1, <1>2 DEF CreateAccount

\* What every transaction that stores a new pair does: keep some sessions, add
\* the one of the pair, for a user that exists, and go on to the reply.
LEMMA StoreInv ==
    ASSUME Inv, NEW r \in Requests, req[r].pc = "commit", req[r].op \in Issuing,
           NEW kept \in SUBSET sessions, sessions' = kept \cup {SessionOf(GrantOf(req[r]))},
           Exists(req[r].user), Become(r, [req[r] EXCEPT !.pc = "reply"]),
           \/ UNCHANGED role
           \/ role' = [role EXCEPT ![req[r].user] = "USER"],
           exchanges' \subseteq [old : RefreshTokens, new : RefreshTokens],
           lineage' \subseteq [child : SessionIds, parent : SessionIds \cup {None}],
           UNCHANGED <<accounts, now, granted, loggedOut>>
    PROVE  Inv'
<1> DEFINE q == req[r]
<1>q. q \in RequestStates /\ ShapeOf(q)
  BY DEF Inv, TypeOK, Shape
<1>1. q.user \in Users /\ q.role \in Roles /\ q.sid \in SessionIds
  BY <1>q DEF ShapeOf
<1>2. GrantOf(q) \in Grants /\ GrantOf(q).user = q.user
  BY <1>q, <1>1, GrantOfType DEF GrantOf
<1>3. SessionOf(GrantOf(q)) \in Sessions /\ SessionOf(GrantOf(q)).user = q.user
  BY <1>2, SessionOfType DEF SessionOf
<1>4. [q EXCEPT !.pc = "reply"] \in RequestStates
  BY <1>q, Names DEF RequestStates
<1>5. ShapeOf([q EXCEPT !.pc = "reply"])
  BY <1>q, <1>1 DEF ShapeOf, Issuing, RequestStates
<1>6. req' \in [Requests -> RequestStates] /\ Shape'
  BY <1>4, <1>5, BecomeShape DEF Inv
<1>7. role' \in [Users -> Roles \cup {"free", "deleted"}]
  BY DEF Inv, TypeOK, Roles
<1>8. \A u \in Users : Exists(u) => Exists(u)'
  BY DEF Inv, TypeOK, Exists, Roles
<1>9. sessions' \subseteq Sessions
  BY <1>3 DEF Inv, TypeOK
<1>10. OwnersExist'
  BY <1>1, <1>3, <1>8 DEF Inv, TypeOK, OwnersExist, Sessions, Accounts
<1>11. QED BY <1>6, <1>7, <1>9, <1>10 DEF Inv, TypeOK

\* The transaction of a login: the user row is found under its lock.
LEMMA CreateSessionInv ==
    ASSUME Inv, NEW r \in Requests, CreateSession(r)
    PROVE  Inv'
<1> DEFINE q == req[r]
<1>q. q \in RequestStates /\ ShapeOf(q) /\ q.pc = "commit" /\ q.op = "login"
  BY DEF Inv, TypeOK, Shape, CreateSession
<1>1. CASE Exists(q.user)
  <2>1. q.sid \in SessionIds
    BY <1>q DEF ShapeOf, Issuing
  <2>2. lineage' \subseteq [child : SessionIds, parent : SessionIds \cup {None}]
    BY <1>1, <2>1 DEF CreateSession, Inv, TypeOK
  <2>3. exchanges' \subseteq [old : RefreshTokens, new : RefreshTokens]
    BY DEF CreateSession, Inv, TypeOK
  <2> DEFINE kept == {s \in sessions : ~(s.user = q.user /\ s.expiresAt <= now)}
  <2>4. kept \in SUBSET sessions /\ sessions' = kept \cup {SessionOf(GrantOf(q))}
        /\ Become(r, [q EXCEPT !.pc = "reply"])
        /\ UNCHANGED <<role, accounts, now, granted, loggedOut>>
    BY <1>1 DEF CreateSession
  <2>5. QED BY <1>1, <1>q, <2>2, <2>3, <2>4, StoreInv DEF Issuing
<1>2. CASE ~Exists(q.user)
  BY <1>2, <1>q, FailedShape, QuietInv DEF CreateSession, tables, history
<1>3. QED BY <1>1, <1>2

\* The transaction of a refresh: the row it updates has a user.
LEMMA RotateSessionInv ==
    ASSUME Inv, NEW r \in Requests, RotateSession(r)
    PROVE  Inv'
<1> DEFINE q == req[r]
<1>q. q \in RequestStates /\ ShapeOf(q) /\ q.pc = "commit" /\ q.op = "refresh"
  BY DEF Inv, TypeOK, Shape, RotateSession
<1>1. CASE RotatableSessions(q) # {}
  <2>1. q.token \in Grants /\ q.user \in Users /\ q.role \in Roles /\ q.sid \in SessionIds
    BY <1>q DEF ShapeOf, Issuing
  <2>2. RefreshTokenOf(q.token) \in RefreshTokens /\ RefreshTokenOf(GrantOf(q)) \in RefreshTokens
    BY <1>q, <2>1, GrantOfType, RefreshTokenOfType
  <2>3. exchanges' \subseteq [old : RefreshTokens, new : RefreshTokens]
    BY <1>1, <2>2 DEF RotateSession, Inv, TypeOK
  <2>4. lineage' \subseteq [child : SessionIds, parent : SessionIds \cup {None}]
    BY DEF RotateSession, Inv, TypeOK
  <2>5. Exists(q.user)
    BY <1>1, <1>q DEF ShapeOf, RotatableSessions, ActiveSessions, Inv, OwnersExist
  <2> DEFINE kept == sessions \ RotatableSessions(q)
  <2>6. kept \in SUBSET sessions /\ sessions' = kept \cup {SessionOf(GrantOf(q))}
        /\ Become(r, [q EXCEPT !.pc = "reply"])
        /\ UNCHANGED <<role, accounts, now, granted, loggedOut>>
    BY <1>1 DEF RotateSession
  <2>7. QED BY <1>q, <2>3, <2>4, <2>5, <2>6, StoreInv DEF Issuing
<1>2. CASE RotatableSessions(q) = {}
  BY <1>2, <1>q, FailedShape, QuietInv DEF RotateSession, tables, history
<1>3. QED BY <1>1, <1>2

\* The transactions of a join: the session they replace has a user.
LEMMA JoinInv ==
    ASSUME Inv, NEW r \in Requests, CompleteRegistration(r) \/ ReissueRegisteredSession(r)
    PROVE  Inv'
<1> DEFINE q == req[r]
<1>q. q \in RequestStates /\ ShapeOf(q) /\ q.pc = "commit" /\ q.op = "join"
  BY DEF Inv, TypeOK, Shape, CompleteRegistration, ReissueRegisteredSession
<1>u. UNCHANGED <<accounts, now, granted, exchanges, loggedOut>>
  BY DEF CompleteRegistration, ReissueRegisteredSession
<1>1. CASE ReplaceSession(r) /\ (UNCHANGED role \/ role' = [role EXCEPT ![q.user] = "USER"])
  <2>1. q.token \in Grants /\ q.token.sid \in SessionIds /\ q.sid \in SessionIds
    BY <1>q DEF ShapeOf, Issuing, Grants
  <2>2. lineage' \subseteq [child : SessionIds, parent : SessionIds \cup {None}]
    BY <1>1, <2>1 DEF ReplaceSession, Inv, TypeOK
  <2>3. exchanges' \subseteq [old : RefreshTokens, new : RefreshTokens]
    BY <1>u DEF Inv, TypeOK
  <2>4. Exists(q.user)
    BY <1>1 DEF ReplaceSession, CurrentSessions, Inv, OwnersExist
  <2> DEFINE kept == sessions \ CurrentSessions(q)
  <2>5. kept \in SUBSET sessions /\ sessions' = kept \cup {SessionOf(GrantOf(q))}
        /\ Become(r, [q EXCEPT !.pc = "reply"])
    BY <1>1 DEF ReplaceSession
  <2>6. QED BY <1>q, <1>u, <1>1, <2>2, <2>3, <2>4, <2>5, StoreInv DEF Issuing
<1>2. CASE RollBackJoin(r)
  BY <1>q, <1>u, <1>2, FailedShape, QuietInv DEF RollBackJoin, tables, history
<1>3. QED BY <1>1, <1>2 DEF CompleteRegistration, ReissueRegisteredSession

\* The transactions that only delete rows.
LEMMA DeleteSessionInv ==
    ASSUME Inv, NEW r \in Requests, DeleteSession(r)
    PROVE  Inv'
<1>1. req' \in [Requests -> RequestStates] /\ Shape'
  BY IdleShape, BecomeShape DEF Inv, DeleteSession
<1>2. sessions' \subseteq Sessions /\ loggedOut' \subseteq SessionIds
  BY DEF DeleteSession, Inv, TypeOK, Sessions
<1>3. OwnersExist'
  BY DEF DeleteSession, Inv, OwnersExist, Exists
<1>4. QED BY <1>1, <1>2, <1>3 DEF Inv, TypeOK, DeleteSession

LEMMA DeleteUserInv ==
    ASSUME Inv, NEW r \in Requests, DeleteUser(r)
    PROVE  Inv'
<1> DEFINE q == req[r]
           u == q.token.user
<1>q. q \in RequestStates /\ ShapeOf(q) /\ q.pc = "commit" /\ q.op = "withdraw"
      /\ UNCHANGED <<now, granted, history>>
  BY DEF Inv, TypeOK, Shape, DeleteUser
<1>1. CASE Exists(u)
  <2>1. u \in Users
    BY <1>q DEF ShapeOf, Grants
  <2>2. role' \in [Users -> Roles \cup {"free", "deleted"}]
        /\ accounts' \subseteq Accounts /\ sessions' \subseteq Sessions
    BY <1>1 DEF DeleteUser, Inv, TypeOK, Roles
  <2>3. \A x \in Requests : req'[x] \in RequestStates /\ ShapeOf(req'[x])
    <3>1. TAKE x \in Requests
    <3>2. CASE x = r
      BY <1>1, <3>2, IdleShape DEF DeleteUser
    <3>3. CASE x # r /\ req[x].op = "login"
      <4>1. req'[x] = [req[x] EXCEPT !.during = "withdrawal"]
        BY <1>1, <3>3 DEF DeleteUser
      <4>2. req[x] \in RequestStates /\ ShapeOf(req[x])
        BY DEF Inv, TypeOK, Shape
      <4>3. req'[x] \in RequestStates
        BY <4>1, <4>2 DEF RequestStates
      <4>4. ShapeOf(req'[x])
        BY <4>1, <4>2 DEF ShapeOf, RequestStates
      <4>5. QED BY <4>3, <4>4
    <3>4. CASE x # r /\ req[x].op # "login"
      BY <1>1, <3>4 DEF DeleteUser, Inv, TypeOK, Shape
    <3>5. QED BY <3>2, <3>3, <3>4
  <2>4. req' \in [Requests -> RequestStates] /\ Shape'
    BY <1>1, <2>3 DEF DeleteUser, Shape
  <2>5. OwnersExist'
    BY <1>1 DEF DeleteUser, Inv, TypeOK, OwnersExist, Exists, Sessions, Accounts
  <2>6. QED BY <1>q, <2>2, <2>4, <2>5 DEF Inv, TypeOK, history
<1>2. CASE ~Exists(u)
  BY <1>2, <1>q, FailedShape, QuietInv DEF DeleteUser
<1>3. QED BY <1>1, <1>2

\* Responses: the pair of a committed request becomes a grant, or is lost.
LEMMA ReplyInv ==
    ASSUME Inv, NEW r \in Requests, Reply(r) \/ LoseReply(r) \/ Finish(r)
    PROVE  Inv'
<1>1. CASE Reply(r)
  <2>1. req[r] \in RequestStates /\ ShapeOf(req[r]) /\ req[r].pc = "reply"
    BY <1>1 DEF Reply, Inv, TypeOK, Shape
  <2>2. GrantOf(req[r]) \in Grants
    BY <2>1, GrantOfType DEF ShapeOf
  <2>3. req' \in [Requests -> RequestStates] /\ Shape'
    BY <1>1, IdleShape, BecomeShape DEF Inv, Reply
  <2>4. OwnersExist'
    BY <1>1 DEF Reply, Inv, OwnersExist, Exists, tables
  <2>5. QED BY <1>1, <2>2, <2>3, <2>4 DEF Inv, TypeOK, Reply, tables, history
<1>2. CASE LoseReply(r) \/ Finish(r)
  BY <1>2, IdleShape, QuietInv DEF LoseReply, Finish
<1>3. QED BY <1>1, <1>2

LEMMA NextInv == Inv /\ [Next]_vars => Inv'
<1> SUFFICES ASSUME Inv, [Next]_vars PROVE Inv'
  OBVIOUS
<1>1. ASSUME NEW r \in Requests, Step(r) PROVE Inv'
  BY <1>1, StartInv, LookupInv, ReadInv, GuardInv, IssueInv, CreateAccountInv,
     CreateSessionInv, RotateSessionInv, JoinInv, DeleteSessionInv, DeleteUserInv,
     ReplyInv DEF Step
<1>2. CASE Crash
  BY <1>2, IdleShape DEF Crash, Inv, TypeOK, Shape, OwnersExist, Exists, tables, history
<1>3. CASE Tick
  BY <1>3, LivesAssumption DEF Tick, Inv, TypeOK, Shape, OwnersExist, Exists, tables,
     history, Seconds
<1>4. CASE UNCHANGED vars
  BY <1>4 DEF Inv, TypeOK, Shape, OwnersExist, Exists, vars
<1>5. QED BY <1>1, <1>2, <1>3, <1>4 DEF Next

\* Every reachable state is well typed.
THEOREM TypeCorrect == Spec => []TypeOK
<1>1. Inv => TypeOK
  BY DEF Inv
<1>2. QED BY <1>1, InitInv, NextInv, PTL DEF Spec

\* Sessions and social accounts never outlive their user, however the requests
\* that insert and delete them interleave.
THEOREM NoOrphans == Spec => []OwnersExist
<1>1. Inv => OwnersExist
  BY DEF Inv
<1>2. QED BY <1>1, InitInv, NextInv, PTL DEF Spec

-----------------------------------------------------------------------------
(* Roles in tokens *)

Registered(u) == role[u] \in {"USER", "deleted"}

\* What a request remembers is not above the users table, and the token it
\* presented is one that was granted.
TrustOf(q) ==
    /\ q.pc \in {"issue", "commit", "reply"} /\ q.op \in Issuing /\ q.role = "USER" =>
          Registered(q.user)
    /\ q.pc = "reply" /\ q.op = "join" => Registered(q.user)
    /\ q.pc \in {"auth", "read", "issue", "commit", "served"} /\ q.op # "login" =>
          q.token \in granted
    /\ q.pc = "served" => q.op = "feature" /\ q.token.role = "USER"

Trust ==
    /\ \A g \in granted : g.role = "USER" => Registered(g.user)
    /\ \A r \in Requests : TrustOf(req[r])

\* No step demotes a user.
LEMMA RolesGrow ==
    ASSUME Inv, [Next]_vars, NEW u \in Users, Registered(u)
    PROVE  Registered(u)'
<1>1. ASSUME NEW r \in Requests, Step(r) PROVE Registered(u)'
  <2>1. CASE UNCHANGED role
    BY <2>1 DEF Registered
  <2>2. CASE CreateAccount(r)
    BY <2>2 DEF CreateAccount, Registered, Inv, TypeOK
  <2>3. CASE DeleteUser(r)
    BY <2>3 DEF DeleteUser, Registered, Inv, TypeOK, tables
  <2>4. CASE CompleteRegistration(r)
    BY <2>4 DEF CompleteRegistration, RollBackJoin, Registered, Inv, TypeOK
  <2>5. QED
    BY <1>1, <2>1, <2>2, <2>3, <2>4 DEF Step, StartLogin, FindUserBySocialIdentity,
       FindWinner, Issue, CreateSession, StartRefresh, FindUserById, RotateSession,
       StartAuthenticated, IsSessionActive, DeleteSession, FindById,
       ReissueRegisteredSession, RollBackJoin, Reply, LoseReply, Finish, tables
<1>2. CASE Crash \/ Tick \/ UNCHANGED vars
  BY <1>2 DEF Crash, Tick, vars, tables, Registered
<1>3. QED BY <1>1, <1>2 DEF Next

\* A well-formed request that is trusted stays so while others move.
LEMMA TrustLasts ==
    ASSUME Inv, [Next]_vars, NEW q \in RequestStates, ShapeOf(q), TrustOf(q),
           granted \subseteq granted'
    PROVE  TrustOf(q)'
<1>1. q.pc \in {"issue", "commit", "reply"} => q.user \in Users
  BY Names DEF ShapeOf, Grants, Issuing
<1>2. QED BY <1>1, RolesGrow DEF TrustOf

\* To show Trust after a step of r, look only at what r became.
LEMMA BecomeTrust ==
    ASSUME Inv, Trust, [Next]_vars, NEW r \in Requests, NEW q \in RequestStates,
           Become(r, q), TrustOf(q)', UNCHANGED granted
    PROVE  Trust'
<1>1. \A g \in granted' : g.role = "USER" => Registered(g.user)'
  BY RolesGrow DEF Inv, TypeOK, Trust, Grants
<1>2. ASSUME NEW x \in Requests PROVE TrustOf(req[x])'
  <2>1. CASE x = r
    <3>1. req'[x] = q
      BY <2>1 DEF Become, Inv, TypeOK
    <3>2. QED BY <3>1 DEF TrustOf, Registered, Issuing
  <2>2. CASE x # r
    <3>1. req'[x] = req[x] /\ req[x] \in RequestStates /\ ShapeOf(req[x]) /\ TrustOf(req[x])
      BY <2>2 DEF Become, Inv, TypeOK, Shape, Trust
    <3>2. TrustOf(req[x]) => \A p \in {req[x]} : TrustOf(p)'
      BY <3>1, TrustLasts
    <3>3. QED BY <3>1, <3>2 DEF TrustOf, Registered, Issuing
  <2>3. QED BY <2>1, <2>2
<1>3. QED BY <1>1, <1>2 DEF Trust

\* The steps that only change the request r: each reads a role it may trust.
LEMMA QuietTrust ==
    ASSUME Inv, Trust, [Next]_vars, NEW r \in Requests,
           \/ StartLogin(r) \/ FindUserBySocialIdentity(r) \/ FindWinner(r) \/ Issue(r)
           \/ StartRefresh(r) \/ FindUserById(r) \/ StartAuthenticated(r)
           \/ IsSessionActive(r) \/ FindById(r) \/ LoseReply(r) \/ Finish(r)
    PROVE  Trust'
<1> DEFINE q == req[r]
           next == req'[r]
<1>q. q \in RequestStates /\ ShapeOf(q) /\ TrustOf(q)
  BY DEF Inv, TypeOK, Shape, Trust
<1>u. UNCHANGED <<role, granted>>
  BY DEF StartLogin, FindUserBySocialIdentity, FindWinner, Issue, StartRefresh,
     FindUserById, StartAuthenticated, IsSessionActive, FindById, LoseReply, Finish, tables
<1>t. Inv'
  BY NextInv
<1>n. next \in RequestStates /\ Become(r, next)
  BY <1>t DEF Inv, TypeOK, Become, StartLogin, FindUserBySocialIdentity, FindWinner,
     ResumeWith, Issue, StartRefresh, FindUserById, StartAuthenticated, IsSessionActive,
     FindById, LoseReply, Finish
<1>b. ASSUME NEW x, Become(r, x) PROVE next = x
  BY <1>b DEF Become, Inv, TypeOK
<1>f. TrustOf(Idle) /\ TrustOf(Failed(q))
  BY DEF TrustOf, Idle, Failed
<1>1. TrustOf(next)
  <2>1. CASE StartLogin(r)
    <3>1. PICK i \in Identities :
             next = [Idle EXCEPT !.op = "login", !.pc = "find", !.identity = i]
      BY <1>b, <2>1 DEF StartLogin
    <3>2. QED BY <3>1 DEF TrustOf, Idle
  <2>2. CASE LoseReply(r) \/ Finish(r)
    BY <1>b, <1>f, <2>2 DEF LoseReply, Finish
  <2>3. CASE StartRefresh(r)
    <3>1. PICK g \in granted : next = [Idle EXCEPT !.op = "refresh", !.pc = "read", !.token = g]
      BY <1>b, <2>3 DEF StartRefresh
    <3>2. QED BY <3>1 DEF TrustOf, Idle
  <2>4. CASE StartAuthenticated(r)
    <3>1. PICK g \in granted, op \in Guarded :
             next = [Idle EXCEPT !.op = op, !.pc = "auth", !.token = g]
      BY <1>b, <2>4 DEF StartAuthenticated, Guarded
    <3>2. QED BY <3>1 DEF TrustOf, Idle
  <2>5. CASE FindUserBySocialIdentity(r) \/ FindWinner(r)
    <3>1. q.op = "login"
      BY <1>q, <2>5 DEF FindUserBySocialIdentity, FindWinner, ShapeOf
    <3>2. \/ next = Failed(q) \/ next = [q EXCEPT !.pc = "create"]
          \/ \E a \in accounts :
                next = [q EXCEPT !.pc = "issue", !.user = a.user, !.role = role[a.user]]
      BY <1>b, <2>5 DEF FindUserBySocialIdentity, FindWinner, ResumeWith, AccountsOf
    <3>3. CASE next = Failed(q)
      BY <1>f, <3>3
    <3>4. CASE next = [q EXCEPT !.pc = "create"]
      <4>1. next.pc = "create" /\ next.op = "login"
        BY <1>q, <3>1, <3>4 DEF RequestStates
      <4>2. QED BY <4>1 DEF TrustOf
    <3>5. ASSUME NEW a \in accounts,
                 next = [q EXCEPT !.pc = "issue", !.user = a.user, !.role = role[a.user]]
          PROVE  TrustOf(next)
      <4>1. /\ next.pc = "issue" /\ next.op = "login"
            /\ next.user = a.user /\ next.role = role[a.user]
        BY <1>q, <3>1, <3>5 DEF RequestStates
      <4>2. QED BY <4>1 DEF TrustOf, Registered
    <3>6. QED BY <3>2, <3>3, <3>4, <3>5
  <2>6. CASE Issue(r)
    <3>1. \E s : next = [q EXCEPT !.pc = "commit", !.sid = s, !.iat = now]
      BY <1>b, <2>6 DEF Issue
    <3>2. QED BY <1>q, <3>1, <2>6 DEF Issue, TrustOf, RequestStates, Issuing
  <2>7. CASE FindUserById(r) \/ FindById(r)
    <3> DEFINE u == q.token.user
    <3>1. \/ next = Failed(q)
          \/ next = [q EXCEPT !.pc = "issue", !.user = u, !.role = role[u]]
      BY <1>b, <2>7 DEF FindUserById, FindById
    <3>2. q.pc = "read" /\ q.op \in {"refresh", "join"}
      BY <2>7 DEF FindUserById, FindById
    <3>3. CASE next = [q EXCEPT !.pc = "issue", !.user = u, !.role = role[u]]
      <4>1. /\ next.pc = "issue" /\ next.user = u /\ next.role = role[u]
            /\ next.op = q.op /\ next.token = q.token
        BY <1>q, <3>3 DEF RequestStates
      <4>2. q.token \in granted
        BY <1>q, <3>2 DEF TrustOf
      <4>3. QED BY <4>1, <4>2 DEF TrustOf, Registered, Issuing
    <3>4. QED BY <1>f, <3>1, <3>3
  <2>8. CASE IsSessionActive(r)
    <3>1. q.pc = "auth" /\ q.op \in Guarded
      BY <1>q, <2>8 DEF IsSessionActive, ShapeOf
    <3>2. \/ next = Failed(q) \/ next = [q EXCEPT !.pc = "read"]
          \/ next = [q EXCEPT !.pc = "served"] /\ q.op = "feature" /\ q.token.role = "USER"
          \/ next = [q EXCEPT !.pc = "commit", !.user = q.token.user]
                /\ q.op \in {"logout", "withdraw"}
      BY <1>b, <2>8, <3>1 DEF IsSessionActive, AfterGuards, Guarded
    <3>3. q.token \in granted
      BY <1>q, <3>1 DEF TrustOf, Guarded
    <3>4. next = Failed(q) \/ (next.token = q.token /\ next.op = q.op /\ next.role = q.role)
      BY <1>q, <3>2 DEF RequestStates
    <3>5. CASE next = [q EXCEPT !.pc = "read"]
      BY <1>q, <3>3, <3>4, <3>5 DEF TrustOf, RequestStates
    <3>6. CASE next = [q EXCEPT !.pc = "served"] /\ q.op = "feature" /\ q.token.role = "USER"
      BY <1>q, <3>3, <3>4, <3>6 DEF TrustOf, RequestStates
    <3>7. CASE /\ next = [q EXCEPT !.pc = "commit", !.user = q.token.user]
               /\ q.op \in {"logout", "withdraw"}
      <4>1. next.pc = "commit" /\ next.op = q.op /\ next.token = q.token
        BY <1>q, <3>7 DEF RequestStates
      <4>2. QED BY <3>3, <3>7, <4>1 DEF TrustOf, Issuing
    <3>8. QED BY <1>f, <3>2, <3>5, <3>6, <3>7
  <2>9. QED BY <2>1, <2>2, <2>3, <2>4, <2>5, <2>6, <2>7, <2>8
<1>2. ASSUME NEW p \in {next} PROVE TrustOf(p)'
  BY <1>1, <1>u DEF TrustOf, Registered, Issuing
<1>3. QED BY <1>2, <1>n, <1>u, BecomeTrust

\* The transactions of login, refresh and join: the role signed is at most the
\* one the transaction leaves in the users table.
LEMMA StoreTrust ==
    ASSUME Inv, Trust, [Next]_vars, NEW r \in Requests,
           \/ CreateAccount(r) \/ CreateSession(r) \/ RotateSession(r)
           \/ CompleteRegistration(r) \/ ReissueRegisteredSession(r) \/ DeleteSession(r)
    PROVE  Trust'
<1> DEFINE q == req[r]
           next == req'[r]
<1>q. q \in RequestStates /\ ShapeOf(q) /\ TrustOf(q)
  BY DEF Inv, TypeOK, Shape, Trust
<1>u. UNCHANGED granted
  BY DEF CreateAccount, CreateSession, RotateSession, CompleteRegistration,
     ReissueRegisteredSession, DeleteSession
<1>t. Inv'
  BY NextInv
<1>n. next \in RequestStates /\ Become(r, next)
  BY <1>t DEF Inv, TypeOK, Become, CreateAccount, CreateSession, RotateSession,
     CompleteRegistration, ReissueRegisteredSession, ReplaceSession, RollBackJoin, DeleteSession
<1>b. ASSUME NEW x, Become(r, x) PROVE next = x
  BY <1>b DEF Become, Inv, TypeOK
<1>f. ASSUME NEW p \in {Idle, Failed(q)} PROVE TrustOf(p)'
  <2>1. Idle.pc = "idle" /\ Failed(q).pc = "failed"
    BY DEF Idle, Failed
  <2>2. p.pc = "idle" \/ p.pc = "failed"
    BY <1>f, <2>1
  <2>3. QED BY <2>2 DEF TrustOf
<1>1. ASSUME NEW p \in {next} PROVE TrustOf(p)'
  <2>1. CASE CreateAccount(r)
    <3>1. \/ next = [q EXCEPT !.pc = "refind"]
          \/ \E u \in Users : next = [q EXCEPT !.pc = "issue", !.user = u, !.role = "PENDING"]
      BY <1>b, <2>1 DEF CreateAccount
    <3>2. q.op = "login"
      BY <1>q, <2>1 DEF CreateAccount, ShapeOf
    <3>3. next.op = "login" /\ (next.pc = "refind" \/ next.role = "PENDING")
          /\ next.pc \in {"refind", "issue"}
      BY <1>q, <3>1, <3>2 DEF RequestStates
    <3>4. QED BY <3>3 DEF TrustOf
  <2>2. CASE next = Failed(q) \/ next = Idle
    BY <1>f, <2>2
  <2>3. CASE /\ next = [q EXCEPT !.pc = "reply"]
             /\ CreateSession(r) \/ RotateSession(r)
    <3>1. q.pc = "commit" /\ q.op \in {"login", "refresh"} /\ UNCHANGED role
      BY <2>3 DEF CreateSession, RotateSession
    <3>2. next.pc = "reply" /\ next.op = q.op /\ next.user = q.user /\ next.role = q.role
      BY <1>q, <2>3 DEF RequestStates
    <3>3. QED BY <1>q, <3>1, <3>2 DEF TrustOf, Registered, Issuing
  <2>4. CASE /\ next = [q EXCEPT !.pc = "reply"]
             /\ CompleteRegistration(r) \/ ReissueRegisteredSession(r)
    <3>1. q.pc = "commit" /\ q.op = "join" /\ q.user \in Users
      BY <1>q, <2>4 DEF CompleteRegistration, ReissueRegisteredSession, ShapeOf, Issuing
    <3>2. next.pc = "reply" /\ next.op = q.op /\ next.user = q.user
      BY <1>q, <2>4 DEF RequestStates
    <3>3. CASE CompleteRegistration(r)
      <4>1. next # Failed(q)
        BY <3>2 DEF Failed, Idle
      <4>2. role' = [role EXCEPT ![q.user] = "USER"]
        BY <1>b, <3>3, <4>1 DEF CompleteRegistration, RollBackJoin
      <4>3. QED BY <3>1, <3>2, <4>2 DEF TrustOf, Registered, Inv, TypeOK
    <3>4. CASE ReissueRegisteredSession(r)
      <4>1. q.role = "USER" /\ UNCHANGED role
        BY <3>4 DEF ReissueRegisteredSession, RollBackJoin
      <4>2. QED BY <1>q, <3>1, <3>2, <4>1 DEF TrustOf, Registered, Issuing
    <3>5. QED BY <2>4, <3>3, <3>4
  <2>5. QED
    BY <1>b, <2>1, <2>2, <2>3, <2>4 DEF CreateSession, RotateSession, DeleteSession,
       CompleteRegistration, ReissueRegisteredSession, ReplaceSession, RollBackJoin
<1>2. QED BY <1>1, <1>n, <1>u, BecomeTrust

\* The withdrawal of one user leaves the roles of the others.
LEMMA DeleteUserTrust ==
    ASSUME Inv, Trust, [Next]_vars, NEW r \in Requests, DeleteUser(r)
    PROVE  Trust'
<1> DEFINE q == req[r]
<1>q. q \in RequestStates
  BY DEF Inv, TypeOK
<1>1. UNCHANGED granted
  BY DEF DeleteUser
<1>2. \A g \in granted' : g.role = "USER" => Registered(g.user)'
  BY <1>1, RolesGrow DEF Inv, TypeOK, Trust, Grants
<1>3. CASE Exists(q.token.user)
  <2>1. ASSUME NEW x \in Requests PROVE TrustOf(req[x])'
    <3>1. CASE x = r
      <4>1. req'[x].pc = "idle"
        BY <1>3, <3>1 DEF DeleteUser, Idle
      <4>2. QED BY <4>1 DEF TrustOf
    <3>2. CASE x # r
      <4>1. /\ req[x] \in RequestStates /\ ShapeOf(req[x]) /\ TrustOf(req[x])
            /\ req'[x] = req[x] \/ req'[x] = [req[x] EXCEPT !.during = "withdrawal"]
        BY <1>3, <3>2 DEF DeleteUser, Inv, TypeOK, Shape, Trust
      <4>2. /\ req'[x].pc = req[x].pc /\ req'[x].op = req[x].op /\ req'[x].role = req[x].role
            /\ req'[x].user = req[x].user /\ req'[x].token = req[x].token
        BY <4>1 DEF RequestStates
      <4>3. ASSUME NEW p \in {req[x]} PROVE TrustOf(p)'
        BY <1>1, <4>1, TrustLasts
      <4>4. QED BY <4>2, <4>3 DEF TrustOf, Registered
    <3>3. QED BY <3>1, <3>2
  <2>2. QED BY <1>2, <2>1 DEF Trust
<1>4. CASE ~Exists(q.token.user)
  <2>1. Become(r, Failed(q))
    BY <1>4 DEF DeleteUser
  <2>2. Failed(q).pc = "failed"
    BY DEF Failed, Idle
  <2>3. ASSUME NEW p \in {Failed(q)} PROVE TrustOf(p)'
    BY <2>2 DEF TrustOf
  <2>4. QED BY <1>q, <1>1, <2>1, <2>3, FailedShape, BecomeTrust
<1>5. QED BY <1>3, <1>4

\* A reply hands out the role its request was trusted with.
LEMMA ReplyTrust ==
    ASSUME Inv, Trust, [Next]_vars, NEW r \in Requests, Reply(r)
    PROVE  Trust'
<1> DEFINE q == req[r]
<1>q. q \in RequestStates /\ ShapeOf(q) /\ TrustOf(q) /\ q.pc = "reply"
  BY DEF Inv, TypeOK, Shape, Trust, Reply
<1>1. granted' = granted \cup {GrantOf(q)} /\ UNCHANGED role /\ req' = [req EXCEPT ![r] = Idle]
  BY DEF Reply, tables, Become
<1>2. GrantOf(q).role = "USER" => Registered(GrantOf(q).user)
  BY <1>q DEF GrantOf, TrustOf, ShapeOf, Issuing
<1>3. \A g \in granted' : g.role = "USER" => Registered(g.user)'
  BY <1>1, <1>2 DEF Trust, Registered
<1>4. ASSUME NEW x \in Requests PROVE TrustOf(req[x])'
  <2>1. CASE x = r
    <3>1. req'[x].pc = "idle"
      BY <1>1, <2>1 DEF Idle, Inv, TypeOK
    <3>2. QED BY <3>1 DEF TrustOf
  <2>2. CASE x # r
    <3>1. req'[x] = req[x] /\ TrustOf(req[x])
      BY <1>1, <2>2 DEF Inv, TypeOK, Trust
    <3>2. QED BY <1>1, <3>1 DEF TrustOf, Registered
  <2>3. QED BY <2>1, <2>2
<1>5. QED BY <1>3, <1>4 DEF Trust

LEMMA NextTrust == Inv /\ Trust /\ [Next]_vars => Trust'
<1> SUFFICES ASSUME Inv, Trust, [Next]_vars PROVE Trust'
  OBVIOUS
<1>1. ASSUME NEW r \in Requests, Step(r) PROVE Trust'
  BY <1>1, QuietTrust, StoreTrust, DeleteUserTrust, ReplyTrust DEF Step
<1>2. CASE Crash
  <2>1. \A r \in Requests : req'[r].pc = "idle"
    BY <1>2 DEF Crash, Idle
  <2>2. QED BY <1>2, <2>1 DEF Crash, Trust, TrustOf, Registered, tables
<1>3. CASE Tick \/ UNCHANGED vars
  BY <1>3 DEF Tick, vars, tables, Trust, TrustOf, Registered
<1>4. QED BY <1>1, <1>2, <1>3 DEF Next

\* A USER token always belongs to a registered (or withdrawn) user, so what
\* RegisteredUserGuard concludes from the token alone is true of the table.
THEOREM GuardIsSound == Spec => []UserTokensAreOfRegisteredUsers
<1>1. Init => Trust
  <2>1. Idle.pc = "idle"
    BY DEF Idle
  <2>2. QED BY <2>1 DEF Init, Trust, TrustOf
<1>2. Inv /\ Trust => UserTokensAreOfRegisteredUsers
  BY DEF Inv, Shape, ShapeOf, Trust, TrustOf, Registered, UserTokensAreOfRegisteredUsers
<1>3. QED BY <1>1, <1>2, InitInv, NextInv, NextTrust, PTL DEF Spec
=============================================================================
