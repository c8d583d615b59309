--------------------------- MODULE AuthSafetyProofs ---------------------------
(***************************************************************************)
(* Proofs of the safety properties of AuthSession that relate several      *)
(* requests or two points in time: accounts that stay unique and logins    *)
(* that only a withdrawal refuses, sessions that are succeeded once and    *)
(* never return, and refresh tokens that stay exchanged.  All of them are  *)
(* proved from Inv of AuthSessionProofs and what is added here.            *)
(***************************************************************************)
EXTENDS AuthSessionProofs

-----------------------------------------------------------------------------
(* Accounts and logins *)

\* What a login no withdrawal has touched can rely on: the user it resumes
\* exists, the winner of the race it lost is still there, and it was refused
\* only for an identity that may not register.
UnhinderedOf(q) ==
    q.op = "login" /\ q.during = "nothing" =>
        /\ q.pc \in {"issue", "commit"} => Exists(q.user)
        /\ q.pc = "refind" => AccountsOf(q.identity) # {}
        /\ q.pc = "failed" => ~ValidNewIdentity(q.identity)

Unhindered == \A r \in Requests : UnhinderedOf(req[r])

\* Only a withdrawal takes a user or an account away or touches two requests.
LEMMA OnlyWithdrawalsRemove ==
    ASSUME Inv, NEW r \in Requests, Step(r), ~DeleteUser(r)
    PROVE  /\ accounts \subseteq accounts'
           /\ \A u \in Users : Exists(u) => Exists(u)'
           /\ \A x \in Requests : x # r => req'[x] = req[x]
<1>1. CASE CreateAccount(r)
  BY <1>1 DEF CreateAccount, Exists, Inv, TypeOK, Roles, Become
<1>2. CASE CompleteRegistration(r)
  BY <1>2 DEF CompleteRegistration, ReplaceSession, RollBackJoin, Exists, Inv, TypeOK,
     Roles, Become
<1>3. CASE ~CreateAccount(r) /\ ~CompleteRegistration(r)
  <2>1. UNCHANGED <<role, accounts>>
    BY <1>3 DEF Step, StartLogin, FindUserBySocialIdentity, FindWinner, Issue, CreateSession,
       StartRefresh, FindUserById, RotateSession, StartAuthenticated, IsSessionActive,
       DeleteSession, FindById, ReissueRegisteredSession, RollBackJoin, Reply, LoseReply,
       Finish, tables
  <2>2. \E q : Become(r, q)
    BY <1>3 DEF Step, StartLogin, FindUserBySocialIdentity, FindWinner, ResumeWith, Issue,
       CreateSession, StartRefresh, FindUserById, RotateSession, StartAuthenticated,
       IsSessionActive, DeleteSession, FindById, ReissueRegisteredSession, ReplaceSession,
       RollBackJoin, Reply, LoseReply, Finish
  <2>3. QED BY <2>1, <2>2 DEF Become, Exists, Inv, TypeOK
<1>4. QED BY <1>1, <1>2, <1>3

\* What a login became after a step of its own.
LEMMA LoginMoves ==
    ASSUME Inv, Unhindered, NEW r \in Requests, Step(r), ~DeleteUser(r)
    PROVE  UnhinderedOf(req[r])'
<1> DEFINE q == req[r]
           next == req'[r]
<1>q. q \in RequestStates /\ ShapeOf(q) /\ UnhinderedOf(q)
  BY DEF Inv, TypeOK, Shape, Unhindered
<1>b. ASSUME NEW x, Become(r, x) PROVE next = x
  BY <1>b DEF Become, Inv, TypeOK
<1>i. Idle.op # "login" /\ Failed(q).op = q.op /\ Failed(q).pc = "failed"
      /\ Failed(q).identity = q.identity /\ Failed(q).during = q.during
  BY DEF Idle, Failed
<1>1. CASE StartLogin(r)
  <2>1. PICK i \in Identities :
           next = [Idle EXCEPT !.op = "login", !.pc = "find", !.identity = i]
    BY <1>b, <1>1 DEF StartLogin
  <2>2. next.pc = "find"
    BY <2>1 DEF Idle
  <2>3. QED BY <2>2 DEF UnhinderedOf
<1>2. CASE FindUserBySocialIdentity(r) \/ FindWinner(r)
  <2>1. CASE \E a \in AccountsOf(q.identity) : ResumeWith(r, a)
    <3>1. PICK a \in accounts : ResumeWith(r, a)
      BY <2>1 DEF AccountsOf
    <3>2. next.pc = "issue" /\ next.user = a.user
      BY <1>b, <1>q, <3>1 DEF ResumeWith, RequestStates
    <3>3. Exists(a.user) /\ a.user \in Users /\ UNCHANGED role
      BY <1>2 DEF Inv, TypeOK, OwnersExist, Accounts, FindUserBySocialIdentity, FindWinner,
         tables
    <3>4. QED BY <3>2, <3>3 DEF Exists, UnhinderedOf
  <2>2. CASE AccountsOf(q.identity) = {} /\ FindUserBySocialIdentity(r)
    <3>1. \/ next = [q EXCEPT !.pc = "create"]
          \/ next = Failed(q) /\ ~ValidNewIdentity(q.identity)
      BY <1>b, <2>2 DEF FindUserBySocialIdentity
    <3>2. CASE next = [q EXCEPT !.pc = "create"]
      <4>1. next.pc = "create"
        BY <1>q, <3>2 DEF RequestStates
      <4>2. QED BY <4>1 DEF UnhinderedOf
    <3>3. QED BY <1>i, <3>1, <3>2 DEF UnhinderedOf, ValidNewIdentity
  <2>3. CASE AccountsOf(q.identity) = {} /\ FindWinner(r)
    <3>1. next = Failed(q) /\ q.pc = "refind"
      BY <1>b, <2>3 DEF FindWinner
    <3>2. QED BY <1>i, <1>q, <2>3, <3>1 DEF UnhinderedOf
  <2>4. QED BY <1>2, <2>1, <2>2, <2>3 DEF FindUserBySocialIdentity, FindWinner
<1>3. CASE CreateAccount(r)
  <2>1. CASE AccountsOf(q.identity) # {}
    <3>1. next = [q EXCEPT !.pc = "refind"] /\ UNCHANGED accounts
      BY <1>b, <1>3, <2>1 DEF CreateAccount
    <3>2. next.pc = "refind" /\ next.identity = q.identity
      BY <1>q, <3>1 DEF RequestStates
    <3>3. QED BY <2>1, <3>1, <3>2 DEF AccountsOf, UnhinderedOf
  <2>2. CASE AccountsOf(q.identity) = {}
    <3>1. PICK u \in Users : /\ next = [q EXCEPT !.pc = "issue", !.user = u, !.role = "PENDING"]
                             /\ role' = [role EXCEPT ![u] = "PENDING"]
      BY <1>b, <1>3, <2>2 DEF CreateAccount
    <3>2. next.pc = "issue" /\ next.user = u
      BY <1>q, <3>1 DEF RequestStates
    <3>3. QED BY <3>1, <3>2 DEF Exists, UnhinderedOf, Inv, TypeOK, Roles
  <2>3. QED BY <2>1, <2>2
<1>4. CASE Issue(r)
  <2>1. \E s : next = [q EXCEPT !.pc = "commit", !.sid = s, !.iat = now]
    BY <1>b, <1>4 DEF Issue
  <2>2. next.pc = "commit" /\ next.op = q.op /\ next.user = q.user /\ next.during = q.during
        /\ q.pc = "issue" /\ UNCHANGED role
    BY <1>q, <1>4, <2>1 DEF RequestStates, Issue, tables
  <2>3. QED BY <1>q, <2>2 DEF UnhinderedOf, Exists
<1>5. CASE CreateSession(r)
  <2>1. q.pc = "commit" /\ q.op = "login"
    BY <1>5 DEF CreateSession
  <2>2. CASE Exists(q.user)
    <3>1. next = [q EXCEPT !.pc = "reply"]
      BY <1>b, <1>5, <2>2 DEF CreateSession
    <3>2. next.pc = "reply"
      BY <1>q, <3>1 DEF RequestStates
    <3>3. QED BY <3>2 DEF UnhinderedOf
  <2>3. CASE ~Exists(q.user)
    <3>1. next = Failed(q)
      BY <1>b, <1>5, <2>3 DEF CreateSession
    <3>2. QED BY <1>i, <1>q, <2>1, <2>3, <3>1 DEF UnhinderedOf
  <2>4. QED BY <2>2, <2>3
<1>6. CASE DeleteSession(r) \/ Reply(r) \/ LoseReply(r) \/ Finish(r)
  BY <1>b, <1>i, <1>6 DEF UnhinderedOf, DeleteSession, Reply, LoseReply, Finish
<1>7. CASE \/ StartRefresh(r) \/ FindUserById(r) \/ RotateSession(r) \/ StartAuthenticated(r)
           \/ IsSessionActive(r) \/ FindById(r) \/ CompleteRegistration(r)
           \/ ReissueRegisteredSession(r)
  <2>1. CASE StartRefresh(r) \/ StartAuthenticated(r)
    <3>1. \E g \in granted, op \in Guarded \cup {"refresh"}, pc \in {"read", "auth"} :
             next = [Idle EXCEPT !.op = op, !.pc = pc, !.token = g]
      BY <1>b, <2>1 DEF StartRefresh, StartAuthenticated, Guarded
    <3>2. next.op \in Guarded \cup {"refresh"}
      BY <3>1 DEF Idle
    <3>3. QED BY <3>2 DEF UnhinderedOf, Guarded
  <2>2. CASE ~StartRefresh(r) /\ ~StartAuthenticated(r)
    <3>1. q.op # "login"
      BY <1>q, <1>7, <2>2 DEF FindUserById, RotateSession, IsSessionActive, FindById,
         CompleteRegistration, ReissueRegisteredSession, ShapeOf, Guarded
    <3>2. CASE FindUserById(r) \/ FindById(r)
      <4>1. \/ next = Failed(q)
            \/ next = [q EXCEPT !.pc = "issue", !.user = q.token.user, !.role = role[q.token.user]]
        BY <1>b, <3>2 DEF FindUserById, FindById
      <4>2. QED BY <1>i, <1>q, <3>1, <4>1 DEF RequestStates, UnhinderedOf
    <3>3. CASE IsSessionActive(r)
      <4>1. next = Failed(q) \/ next = AfterGuards(q)
        BY <1>b, <3>3 DEF IsSessionActive
      <4>2. next.op = q.op
        BY <1>i, <1>q, <4>1 DEF RequestStates, AfterGuards
      <4>3. QED BY <3>1, <4>2 DEF UnhinderedOf
    <3>4. CASE RotateSession(r) \/ CompleteRegistration(r) \/ ReissueRegisteredSession(r)
      <4>1. next = Failed(q) \/ next = [q EXCEPT !.pc = "reply"]
        BY <1>b, <3>4 DEF RotateSession, CompleteRegistration, ReissueRegisteredSession,
           ReplaceSession, RollBackJoin
      <4>2. QED BY <1>i, <1>q, <3>1, <4>1 DEF RequestStates, UnhinderedOf
    <3>5. QED BY <1>7, <2>2, <3>2, <3>3, <3>4
  <2>3. QED BY <2>1, <2>2
<1>8. QED BY <1>1, <1>2, <1>3, <1>4, <1>5, <1>6, <1>7 DEF Step

LEMMA NextUnhindered == Inv /\ Unhindered /\ [Next]_vars => Unhindered'
<1> SUFFICES ASSUME Inv, Unhindered, [Next]_vars PROVE Unhindered'
  OBVIOUS
<1>1. ASSUME NEW r \in Requests, Step(r), ~DeleteUser(r) PROVE Unhindered'
  <2>1. ASSUME NEW x \in Requests PROVE UnhinderedOf(req[x])'
    <3>1. CASE x = r
      BY <1>1, <3>1, LoginMoves
    <3>2. CASE x # r
      <4>1. req'[x] = req[x] /\ ShapeOf(req[x]) /\ UnhinderedOf(req[x])
        BY <1>1, <3>2, OnlyWithdrawalsRemove DEF Unhindered, Inv, Shape
      <4>2. req[x].op = "login" /\ req[x].pc \in {"issue", "commit"} =>
               (Exists(req[x].user) => Exists(req[x].user)')
        BY <1>1, <4>1, OnlyWithdrawalsRemove DEF ShapeOf, Issuing, Exists
      <4>3. accounts \subseteq accounts'
        BY <1>1, OnlyWithdrawalsRemove
      <4>4. QED BY <4>1, <4>2, <4>3 DEF UnhinderedOf, Exists, AccountsOf
    <3>3. QED BY <3>1, <3>2
  <2>2. QED BY <2>1 DEF Unhindered
<1>2. ASSUME NEW r \in Requests, DeleteUser(r) PROVE Unhindered'
  <2>1. ASSUME NEW x \in Requests PROVE UnhinderedOf(req[x])'
    <3>1. req[x] \in RequestStates /\ UnhinderedOf(req[x])
      BY DEF Inv, TypeOK, Unhindered
    <3>2. CASE Exists(req[r].token.user)
      <4>1. \/ req'[x] = Idle
            \/ req'[x] = [req[x] EXCEPT !.during = "withdrawal"]
            \/ req'[x] = req[x] /\ req[x].op # "login"
        BY <1>2, <3>2 DEF DeleteUser
      <4>2. req'[x].op = "login" => req'[x].during # "nothing"
        BY <3>1, <4>1 DEF Idle, RequestStates
      <4>3. QED BY <4>2 DEF UnhinderedOf
    <3>3. CASE ~Exists(req[r].token.user)
      <4>1. /\ Become(r, Failed(req[r])) /\ req[r].op = "withdraw"
            /\ UNCHANGED <<role, accounts>>
        BY <1>2, <3>3 DEF DeleteUser, tables
      <4>2. req'[x] = req[x] \/ req'[x].op = "withdraw"
        BY <4>1 DEF Become, Failed, Idle, Inv, TypeOK
      <4>3. QED BY <3>1, <4>1, <4>2 DEF UnhinderedOf, Exists, AccountsOf
    <3>4. QED BY <3>2, <3>3
  <2>2. QED BY <2>1 DEF Unhindered
<1>3. CASE Crash
  <2>1. \A r \in Requests : req'[r].op = "none"
    BY <1>3 DEF Crash, Idle
  <2>2. QED BY <2>1 DEF Unhindered, UnhinderedOf
<1>4. CASE Tick \/ UNCHANGED vars
  BY <1>4 DEF Tick, vars, tables, Unhindered, UnhinderedOf, Exists, AccountsOf
<1>5. QED BY <1>1, <1>2, <1>3, <1>4 DEF Next

\* Whatever other logins do meanwhile, a login of an identity that may log in
\* is refused only when a withdrawal committed while it was in flight.
THEOREM LoginsFailOnlyByWithdrawal == Spec => []LoginFailsOnlyByWithdrawal
<1>1. Init => Unhindered
  BY DEF Init, Unhindered, UnhinderedOf, Idle
<1>2. Inv /\ Unhindered => LoginFailsOnlyByWithdrawal
  BY DEF Inv, TypeOK, RequestStates, Unhindered, UnhinderedOf, LoginFailsOnlyByWithdrawal
<1>3. QED BY <1>1, <1>2, InitInv, NextInv, NextUnhindered, PTL DEF Spec

\* However many first logins of one identity run at once, it has one account.
THEOREM AccountsAreUnique == Spec => []OneAccountPerIdentity
<1>1. Init => OneAccountPerIdentity
  BY DEF Init, OneAccountPerIdentity
<1>2. Inv /\ OneAccountPerIdentity /\ [Next]_vars => OneAccountPerIdentity'
  <2> SUFFICES ASSUME Inv, OneAccountPerIdentity, [Next]_vars PROVE OneAccountPerIdentity'
    OBVIOUS
  <2>1. CASE accounts' \subseteq accounts
    BY <2>1 DEF OneAccountPerIdentity
  <2>2. ASSUME NEW r \in Requests, CreateAccount(r) PROVE OneAccountPerIdentity'
    <3>1. CASE AccountsOf(req[r].identity) # {}
      BY <2>2, <3>1 DEF CreateAccount, OneAccountPerIdentity
    <3>2. CASE AccountsOf(req[r].identity) = {}
      <4>1. PICK u \in Users : accounts' = accounts \cup
               {[provider |-> req[r].identity.provider,
                 providerUserId |-> req[r].identity.providerUserId, user |-> u]}
        BY <2>2, <3>2 DEF CreateAccount
      <4>2. \A a \in accounts : \/ a.provider # req[r].identity.provider
                                \/ a.providerUserId # req[r].identity.providerUserId
        BY <3>2 DEF AccountsOf
      <4>3. QED BY <4>1, <4>2 DEF OneAccountPerIdentity
    <3>3. QED BY <3>1, <3>2
  <2>3. ASSUME NEW r \in Requests, Step(r), ~CreateAccount(r) PROVE accounts' \subseteq accounts
    BY <2>3 DEF Step, StartLogin, FindUserBySocialIdentity, FindWinner, Issue, CreateSession,
       StartRefresh, FindUserById, RotateSession, StartAuthenticated, IsSessionActive,
       DeleteSession, DeleteUser, FindById, CompleteRegistration, ReissueRegisteredSession,
       Reply, LoseReply, Finish, tables
  <2>4. CASE Crash \/ Tick \/ UNCHANGED vars
    BY <2>1, <2>4 DEF Crash, Tick, vars, tables
  <2>5. QED BY <2>1, <2>2, <2>3, <2>4 DEF Next
<1>3. QED BY <1>1, <1>2, InitInv, NextInv, PTL DEF Spec

-----------------------------------------------------------------------------
(* Times in tokens *)

\* A request presents a token that was issued before, and signs its own later,
\* a refresh for the session of the token.
TimelyOf(q) ==
    /\ q.pc \in {"auth", "read", "issue", "commit"} /\ q.op # "login" => q.token.iat <= now
    /\ q.pc \in {"commit", "reply"} /\ q.op \in Issuing => q.iat <= now
    /\ q.pc = "commit" /\ q.op = "refresh" =>
          q.sid = q.token.sid /\ q.token.iat <= q.iat

Timely ==
    /\ \A g \in granted : g.iat <= now
    /\ \A r \in Requests : TimelyOf(req[r])

LEMMA TimelyMoves ==
    ASSUME Inv, Timely, NEW r \in Requests, Step(r)
    PROVE  TimelyOf(req[r])'
<1> DEFINE q == req[r]
           next == req'[r]
<1>q. q \in RequestStates /\ ShapeOf(q) /\ TimelyOf(q) /\ now \in Nat
  BY DEF Inv, TypeOK, Shape, Timely, Seconds
<1>b. ASSUME NEW x, Become(r, x) PROVE next = x
  BY <1>b DEF Become, Inv, TypeOK
<1>i. Idle.pc = "idle" /\ Failed(q).pc = "failed"
  BY DEF Idle, Failed
<1>u. UNCHANGED now
  BY DEF Step, StartLogin, FindUserBySocialIdentity, FindWinner, CreateAccount, Issue,
     CreateSession, StartRefresh, FindUserById, RotateSession, StartAuthenticated,
     IsSessionActive, DeleteSession, DeleteUser, FindById, CompleteRegistration,
     ReissueRegisteredSession, Reply, LoseReply, Finish
<1>f. next.pc \in {"idle", "failed", "find", "create", "refind", "served"} => TimelyOf(req[r])'
  BY DEF TimelyOf
<1>1. CASE StartLogin(r)
  <2>1. \E i \in Identities : next = [Idle EXCEPT !.op = "login", !.pc = "find", !.identity = i]
    BY <1>b, <1>1 DEF StartLogin
  <2>2. QED BY <1>f, <2>1 DEF Idle
<1>2. CASE StartRefresh(r) \/ StartAuthenticated(r)
  <2>1. PICK g \in granted, op \in Guarded \cup {"refresh"}, pc \in {"read", "auth"} :
           next = [Idle EXCEPT !.op = op, !.pc = pc, !.token = g]
    BY <1>b, <1>2 DEF StartRefresh, StartAuthenticated, Guarded
  <2>2. next.pc \in {"read", "auth"} /\ next.token = g
    BY <2>1 DEF Idle
  <2>3. QED BY <1>u, <2>2 DEF Timely, TimelyOf
<1>3. CASE FindUserBySocialIdentity(r) \/ FindWinner(r) \/ CreateAccount(r)
  <2>1. \/ next = Failed(q) \/ next = [q EXCEPT !.pc = "create"] \/ next = [q EXCEPT !.pc = "refind"]
        \/ \E u, ro : next = [q EXCEPT !.pc = "issue", !.user = u, !.role = ro]
    BY <1>b, <1>3 DEF FindUserBySocialIdentity, FindWinner, CreateAccount, ResumeWith
  <2>2. q.op = "login"
    BY <1>q, <1>3 DEF FindUserBySocialIdentity, FindWinner, CreateAccount, ShapeOf
  <2>3. \/ next.pc \in {"failed", "create", "refind"}
        \/ next.pc = "issue" /\ next.op = "login"
    BY <1>i, <1>q, <2>1, <2>2 DEF RequestStates
  <2>4. QED BY <1>f, <2>3 DEF TimelyOf
<1>4. CASE FindUserById(r) \/ FindById(r) \/ IsSessionActive(r)
  <2>1. \/ next = Failed(q) \/ next = [q EXCEPT !.pc = "read"] \/ next = [q EXCEPT !.pc = "served"]
        \/ next = [q EXCEPT !.pc = "commit", !.user = q.token.user] /\ q.op \in {"logout", "withdraw"}
        \/ next = [q EXCEPT !.pc = "issue", !.user = q.token.user, !.role = role[q.token.user]]
    BY <1>b, <1>q, <1>4 DEF FindUserById, FindById, IsSessionActive, AfterGuards, ShapeOf, Guarded
  <2>2. q.pc \in {"read", "auth"} /\ q.op # "login"
    BY <1>q, <1>4 DEF FindUserById, FindById, IsSessionActive, ShapeOf, Guarded
  <2>3. CASE next = Failed(q)
    BY <1>f, <1>i, <2>3
  <2>4. CASE next # Failed(q)
    <3>1. /\ next.token = q.token /\ next.op = q.op
          /\ \/ next.pc \in {"read", "issue", "served"}
             \/ next.pc = "commit" /\ q.op \in {"logout", "withdraw"}
      BY <1>q, <2>1, <2>4 DEF RequestStates
    <3>2. QED BY <1>f, <1>q, <1>u, <2>2, <3>1 DEF TimelyOf, Issuing
  <2>5. QED BY <2>3, <2>4
<1>5. CASE Issue(r)
  <2>1. PICK s \in (IF q.op = "refresh" THEN {q.token.sid} ELSE FreshIds) :
           next = [q EXCEPT !.pc = "commit", !.sid = s, !.iat = now]
    BY <1>b, <1>5 DEF Issue
  <2>2. /\ next.pc = "commit" /\ next.op = q.op /\ next.token = q.token /\ next.sid = s
        /\ next.iat = now /\ q.pc = "issue"
    BY <1>q, <1>5, <2>1 DEF RequestStates, Issue
  <2>3. QED BY <1>q, <1>u, <2>2 DEF TimelyOf
<1>6. CASE \/ CreateSession(r) \/ RotateSession(r) \/ CompleteRegistration(r)
           \/ ReissueRegisteredSession(r)
  <2>1. next = Failed(q) \/ next = [q EXCEPT !.pc = "reply"]
    BY <1>b, <1>6 DEF CreateSession, RotateSession, CompleteRegistration,
       ReissueRegisteredSession, ReplaceSession, RollBackJoin
  <2>2. q.pc = "commit" /\ q.op \in Issuing
    BY <1>6 DEF CreateSession, RotateSession, CompleteRegistration, ReissueRegisteredSession,
       Issuing
  <2>3. CASE next = Failed(q)
    BY <1>f, <1>i, <2>3
  <2>4. CASE next = [q EXCEPT !.pc = "reply"]
    <3>1. next.pc = "reply" /\ next.op = q.op /\ next.iat = q.iat
      BY <1>q, <2>4 DEF RequestStates
    <3>2. QED BY <1>q, <1>u, <2>2, <3>1 DEF TimelyOf
  <2>5. QED BY <2>1, <2>3, <2>4
<1>7. CASE DeleteSession(r) \/ DeleteUser(r) \/ Reply(r) \/ LoseReply(r) \/ Finish(r)
  <2>1. next = Failed(q) \/ next = Idle
    BY <1>b, <1>7 DEF DeleteSession, DeleteUser, Reply, LoseReply, Finish
  <2>2. QED BY <1>f, <1>i, <2>1
<1>8. QED BY <1>1, <1>2, <1>3, <1>4, <1>5, <1>6, <1>7 DEF Step

LEMMA NextTimely == Inv /\ Timely /\ [Next]_vars => Timely'
<1> SUFFICES ASSUME Inv, Timely, [Next]_vars PROVE Timely'
  OBVIOUS
<1>1. ASSUME NEW r \in Requests, Step(r) PROVE Timely'
  <2>u. UNCHANGED now
    BY <1>1 DEF Step, StartLogin, FindUserBySocialIdentity, FindWinner, CreateAccount, Issue,
       CreateSession, StartRefresh, FindUserById, RotateSession, StartAuthenticated,
       IsSessionActive, DeleteSession, DeleteUser, FindById, CompleteRegistration,
       ReissueRegisteredSession, Reply, LoseReply, Finish
  <2>1. \A g \in granted' : g.iat <= now'
    <3>1. granted' = granted \/ Reply(r)
      BY <1>1 DEF Step, StartLogin, FindUserBySocialIdentity, FindWinner, CreateAccount, Issue,
         CreateSession, StartRefresh, FindUserById, RotateSession, StartAuthenticated,
         IsSessionActive, DeleteSession, DeleteUser, FindById, CompleteRegistration,
         ReissueRegisteredSession, LoseReply, Finish
    <3>2. CASE Reply(r)
      <4>1. req[r].pc = "reply" /\ req[r].op \in Issuing
        BY <3>2 DEF Reply, Inv, Shape, ShapeOf
      <4>2. GrantOf(req[r]).iat <= now
        BY <4>1 DEF GrantOf, Timely, TimelyOf
      <4>3. QED BY <2>u, <3>2, <4>2 DEF Reply, Timely
    <3>3. QED BY <2>u, <3>1, <3>2 DEF Timely
  <2>2. ASSUME NEW x \in Requests PROVE TimelyOf(req[x])'
    <3>1. CASE x = r
      BY <1>1, <3>1, TimelyMoves
    <3>2. CASE x # r
      <4>1. \/ req'[x] = req[x] \/ req'[x] = [req[x] EXCEPT !.during = "withdrawal"]
        BY <1>1, <3>2, OnlyWithdrawalsRemove DEF DeleteUser, Become, Inv, TypeOK
      <4>2. /\ req'[x].pc = req[x].pc /\ req'[x].op = req[x].op /\ req'[x].iat = req[x].iat
            /\ req'[x].sid = req[x].sid /\ req'[x].token = req[x].token
        BY <4>1 DEF Inv, TypeOK, RequestStates
      <4>3. QED BY <2>u, <4>2 DEF Timely, TimelyOf
    <3>3. QED BY <3>1, <3>2
  <2>3. QED BY <2>1, <2>2 DEF Timely
<1>2. CASE Crash
  BY <1>2 DEF Crash, Timely, TimelyOf, Idle
<1>3. CASE Tick
  <2>1. now \in Nat /\ now' = now + 1 /\ UNCHANGED <<req, granted>>
    BY <1>3 DEF Tick, Inv, TypeOK, Seconds
  <2>2. \A g \in granted : g.iat \in Nat
    BY DEF Inv, TypeOK, Grants, Seconds
  <2>3. ASSUME NEW r \in Requests PROVE TimelyOf(req[r])'
    <3>1. req[r].iat \in Nat /\ TimelyOf(req[r])
      BY DEF Inv, TypeOK, RequestStates, Seconds, Timely
    <3>2. req[r].pc \in {"auth", "read", "issue", "commit"} /\ req[r].op # "login" =>
             req[r].token \in Grants
      BY DEF Inv, Shape, ShapeOf
    <3>3. QED BY <2>1, <3>1, <3>2 DEF TimelyOf, Grants, Seconds
  <2>4. QED BY <2>1, <2>2, <2>3 DEF Timely
<1>4. CASE UNCHANGED vars
  BY <1>4 DEF vars, Timely, TimelyOf
<1>5. QED BY <1>1, <1>2, <1>3, <1>4 DEF Next

-----------------------------------------------------------------------------
(* Succession of sessions *)

\* Every session id that was ever inserted, and those whose end is recorded.
Inserted == {l.child : l \in lineage}
Ended == loggedOut \cup ({l.parent : l \in lineage} \ {None})

\* A login or join that is about to insert the session id it drew.
Inserting(q) == q.pc = "commit" /\ q.op \in {"login", "join"}

\* One row per session id, of an id that was inserted; an id that ended was
\* inserted too and has no row; an id drawn by a request in flight is its alone.
Succession ==
    /\ \A s \in sessions : s.id \in Inserted /\ s.id \notin Ended
    /\ \A s, t \in sessions : s.id = t.id => s = t
    /\ Ended \subseteq Inserted
    /\ SuccessionIsLinear
    /\ \A r \in Requests : Inserting(req[r]) =>
          /\ req[r].sid \notin Inserted
          /\ \A x \in Requests : Inserting(req[x]) /\ req[x].sid = req[r].sid => x = r

\* A request holds the session id it will insert since its own Issue.
LEMMA OnlyIssueDraws ==
    ASSUME Inv, NEW r \in Requests, Step(r), ~Issue(r),
           NEW x \in Requests, Inserting(req[x])'
    PROVE  Inserting(req[x]) /\ req'[x].sid = req[x].sid
<1> DEFINE q == req[x]
           next == req'[x]
<1>q. q \in RequestStates /\ ShapeOf(q)
  BY DEF Inv, TypeOK, Shape
<1>n. next.pc = "commit" /\ next.op \in {"login", "join"}
  BY DEF Inserting
<1>1. CASE next = q
  BY <1>1, <1>n DEF Inserting
<1>2. CASE next = [q EXCEPT !.during = "withdrawal"]
  BY <1>2, <1>n, <1>q DEF Inserting, RequestStates
<1>3. CASE x = r
  <2>b. ASSUME NEW y, Become(x, y) PROVE next = y
    BY <2>b DEF Become, Inv, TypeOK
  <2>i. Idle.pc = "idle" /\ Failed(q).pc = "failed"
    BY DEF Idle, Failed
  <2>1. CASE StartLogin(x) \/ StartRefresh(x) \/ StartAuthenticated(x)
    <3>1. \/ \E i \in Identities :
                next = [Idle EXCEPT !.op = "login", !.pc = "find", !.identity = i]
          \/ \E g \in granted : next = [Idle EXCEPT !.op = "refresh", !.pc = "read", !.token = g]
          \/ \E g \in granted, op \in Guarded :
                next = [Idle EXCEPT !.op = op, !.pc = "auth", !.token = g]
      BY <2>b, <2>1 DEF StartLogin, StartRefresh, StartAuthenticated, Guarded
    <3>2. QED BY <1>n, <3>1 DEF Idle
  <2>2. CASE FindUserBySocialIdentity(x) \/ FindWinner(x)
    <3>1. \/ next = Failed(q) \/ next = [q EXCEPT !.pc = "create"]
          \/ \E a \in accounts :
                next = [q EXCEPT !.pc = "issue", !.user = a.user, !.role = role[a.user]]
      BY <2>b, <2>2 DEF FindUserBySocialIdentity, FindWinner, ResumeWith, AccountsOf
    <3>2. QED BY <1>n, <1>q, <2>i, <3>1 DEF RequestStates
  <2>3. CASE CreateAccount(x)
    <3>1. \/ next = [q EXCEPT !.pc = "refind"]
          \/ \E u \in Users : next = [q EXCEPT !.pc = "issue", !.user = u, !.role = "PENDING"]
      BY <2>b, <2>3 DEF CreateAccount
    <3>2. QED BY <1>n, <1>q, <3>1 DEF RequestStates
  <2>4. CASE FindUserById(x) \/ FindById(x)
    <3>1. \/ next = Failed(q)
          \/ next = [q EXCEPT !.pc = "issue", !.user = q.token.user, !.role = role[q.token.user]]
      BY <2>b, <2>4 DEF FindUserById, FindById
    <3>2. QED BY <1>n, <1>q, <2>i, <3>1 DEF RequestStates
  <2>5. CASE IsSessionActive(x)
    <3>1. \/ next = Failed(q) \/ next = [q EXCEPT !.pc = "read"]
          \/ next = [q EXCEPT !.pc = "served"]
          \/ next = [q EXCEPT !.pc = "commit", !.user = q.token.user]
                /\ q.op \in {"logout", "withdraw"}
      BY <1>q, <2>b, <2>5 DEF IsSessionActive, AfterGuards, ShapeOf, Guarded
    <3>2. QED BY <1>n, <1>q, <2>i, <3>1 DEF RequestStates
  <2>6. CASE \/ CreateSession(x) \/ RotateSession(x) \/ CompleteRegistration(x)
             \/ ReissueRegisteredSession(x)
    <3>1. next = Failed(q) \/ next = [q EXCEPT !.pc = "reply"]
      BY <2>b, <2>6 DEF CreateSession, RotateSession, CompleteRegistration,
         ReissueRegisteredSession, ReplaceSession, RollBackJoin
    <3>2. QED BY <1>n, <1>q, <2>i, <3>1 DEF RequestStates
  <2>7. CASE DeleteSession(x) \/ DeleteUser(x) \/ Reply(x) \/ LoseReply(x) \/ Finish(x)
    <3>1. next = Failed(q) \/ next = Idle
      BY <2>b, <2>7 DEF DeleteSession, DeleteUser, Reply, LoseReply, Finish
    <3>2. QED BY <1>n, <2>i, <3>1
  <2>8. QED BY <1>3, <2>1, <2>2, <2>3, <2>4, <2>5, <2>6, <2>7 DEF Step
<1>4. CASE x # r
  <2>1. CASE DeleteUser(r)
    <3>1. next = q \/ next = [q EXCEPT !.during = "withdrawal"]
      BY <1>4, <2>1 DEF DeleteUser, Become, Inv, TypeOK
    <3>2. QED BY <1>1, <1>2, <3>1
  <2>2. CASE ~DeleteUser(r)
    BY <1>1, <1>4, <2>2, OnlyWithdrawalsRemove
  <2>3. QED BY <2>1, <2>2
<1>5. QED BY <1>3, <1>4

\* A step that inserts no session and draws no id.
LEMMA KeepSuccession ==
    ASSUME Succession, sessions' \subseteq sessions, UNCHANGED <<lineage, loggedOut>>,
           \A x \in Requests : Inserting(req[x])' =>
              Inserting(req[x]) /\ req'[x].sid = req[x].sid
    PROVE  Succession'
<1>1. UNCHANGED <<Inserted, Ended>>
  BY DEF Inserted, Ended
<1>2. QED BY <1>1 DEF Succession, SuccessionIsLinear

\* Drawing a session id for a login or a join, or taking the one of the token.
LEMMA IssueSuccession ==
    ASSUME Inv, Succession, NEW r \in Requests, Issue(r)
    PROVE  Succession'
<1> DEFINE q == req[r]
<1>q. q \in RequestStates
  BY DEF Inv, TypeOK
<1>1. UNCHANGED <<sessions, lineage, loggedOut>>
  BY DEF Issue, tables, history
<1>2. UNCHANGED <<Inserted, Ended>>
  BY <1>1 DEF Inserted, Ended
<1>3. PICK s \in (IF q.op = "refresh" THEN {q.token.sid} ELSE FreshIds) :
         Become(r, [q EXCEPT !.pc = "commit", !.sid = s, !.iat = now])
  BY DEF Issue
<1>4. /\ req'[r].sid = s /\ req'[r].op = q.op
      /\ \A x \in Requests : x # r => req'[x] = req[x]
  BY <1>3, <1>q DEF Become, Inv, TypeOK, RequestStates
<1>5. CASE q.op \in {"login", "join"}
  <2>1. s \notin Inserted /\ \A x \in Requests : req[x].sid # s
    BY <1>3, <1>5 DEF FreshIds, Inserted
  <2>2. QED BY <1>1, <1>2, <1>4, <2>1 DEF Succession, SuccessionIsLinear, Inserting
<1>6. CASE q.op \notin {"login", "join"}
  BY <1>1, <1>2, <1>4, <1>6 DEF Succession, SuccessionIsLinear, Inserting
<1>7. QED BY <1>5, <1>6

\* Inserting the session of a login (no parent) or of a join, which deletes the
\* one it replaces.
LEMMA InsertSuccession ==
    ASSUME Inv, Succession, NEW r \in Requests, Inserting(req[r]),
           NEW kept \in SUBSET sessions, sessions' = kept \cup {SessionOf(GrantOf(req[r]))},
           NEW p \in SessionIds \cup {None},
           lineage' = lineage \cup {[child |-> req[r].sid, parent |-> p]},
           p # None => p \in Inserted \ Ended /\ \A s \in kept : s.id # p,
           Become(r, [req[r] EXCEPT !.pc = "reply"]), UNCHANGED loggedOut
    PROVE  Succession'
<1> DEFINE q == req[r]
           new == SessionOf(GrantOf(q))
<1>q. q \in RequestStates
  BY DEF Inv, TypeOK
<1>1. new.id = q.sid
  BY DEF SessionOf, GrantOf
<1> DEFINE row == [child |-> q.sid, parent |-> p]
<1>r. row.child = q.sid /\ row.parent = p /\ lineage' = lineage \cup {row}
  OBVIOUS
<1> HIDE DEF row
<1>2. Inserted' = Inserted \cup {q.sid}
  <2>1. \A y : y \in Inserted' <=> \E l \in lineage' : y = l.child
    BY DEF Inserted
  <2>2. \A y : y \in Inserted <=> \E l \in lineage : y = l.child
    BY DEF Inserted
  <2>3. QED BY <1>r, <2>1, <2>2
<1>3. Ended' = Ended \cup ({p} \ {None})
  <2>1. \A y : y \in Ended' <=> y \in loggedOut \/ (y # None /\ \E l \in lineage' : y = l.parent)
    BY DEF Ended
  <2>2. \A y : y \in Ended <=> y \in loggedOut \/ (y # None /\ \E l \in lineage : y = l.parent)
    BY DEF Ended
  <2>3. QED BY <1>r, <2>1, <2>2
<1>4. q.sid \notin Inserted /\ q.sid \notin Ended'
  BY <1>3 DEF Succession
<1>5. \A s \in sessions' : s.id \in Inserted' /\ s.id \notin Ended'
  BY <1>1, <1>2, <1>3, <1>4 DEF Succession
<1>6. \A s, t \in sessions' : s.id = t.id => s = t
  BY <1>1, <1>4 DEF Succession
<1>7. SuccessionIsLinear'
  <2>1. \A l \in lineage : l.parent # None => l.parent \in Ended
    BY DEF Ended
  <2>2. \A l \in lineage : p # None => l.parent # p
    BY <2>1
  <2>3. QED BY <2>2 DEF Succession, SuccessionIsLinear, Ended
<1>8. Ended' \subseteq Inserted'
  BY <1>2, <1>3 DEF Succession
<1>9. \A x \in Requests : Inserting(req[x])' =>
         x # r /\ req'[x] = req[x] /\ Inserting(req[x])
  BY <1>q DEF Inserting, Become, Inv, TypeOK, RequestStates
<1>10. \A x \in Requests : Inserting(req[x])' => req'[x].sid \notin Inserted'
  BY <1>2, <1>9 DEF Succession
<1>11. QED BY <1>5, <1>6, <1>7, <1>8, <1>9, <1>10 DEF Succession

\* A refresh updates the row its token names, under the same id.
LEMMA RotateSuccession ==
    ASSUME Inv, Succession, NEW r \in Requests, RotateSession(r),
           req[r].sid = req[r].token.sid
    PROVE  Succession'
<1> DEFINE q == req[r]
<1>1. UNCHANGED <<lineage, loggedOut>> /\ Step(r) /\ ~Issue(r)
  BY DEF RotateSession, Step, Issue
<1>2. CASE RotatableSessions(q) = {}
  BY <1>1, <1>2, OnlyIssueDraws, KeepSuccession DEF RotateSession
<1>3. CASE RotatableSessions(q) # {}
  <2>1. PICK t \in sessions : t \in RotatableSessions(q) /\ t.id = q.token.sid
    BY <1>3 DEF RotatableSessions, ActiveSessions
  <2>2. sessions' = (sessions \ RotatableSessions(q)) \cup {SessionOf(GrantOf(q))}
    BY <1>3 DEF RotateSession
  <2>3. SessionOf(GrantOf(q)).id = t.id
    BY <2>1 DEF SessionOf, GrantOf
  <2>4. UNCHANGED <<Inserted, Ended>>
    BY <1>1 DEF Inserted, Ended
  <2>5. \A s \in sessions \ RotatableSessions(q) : s.id # t.id
    BY <2>1 DEF Succession
  <2>6. \A x \in Requests : Inserting(req[x])' => Inserting(req[x]) /\ req'[x].sid = req[x].sid
    BY <1>1, OnlyIssueDraws
  <2>7. \A s \in sessions' : s.id \in Inserted' /\ s.id \notin Ended'
    BY <2>1, <2>2, <2>3, <2>4 DEF Succession
  <2>8. \A s, x \in sessions' : s.id = x.id => s = x
    BY <2>2, <2>3, <2>5 DEF Succession
  <2>9. QED BY <1>1, <2>4, <2>6, <2>7, <2>8 DEF Succession, SuccessionIsLinear
<1>4. QED BY <1>2, <1>3

\* A logout ends the session of its token, of which there is one row.
LEMMA DeleteSuccession ==
    ASSUME Inv, Succession, NEW r \in Requests, DeleteSession(r)
    PROVE  Succession'
<1> DEFINE q == req[r]
           rows == {s \in sessions : s.id = q.token.sid /\ s.user = q.token.user}
<1>1. /\ sessions' = sessions \ rows /\ loggedOut' = loggedOut \cup {s.id : s \in rows}
      /\ UNCHANGED lineage /\ Step(r) /\ ~Issue(r)
  BY DEF DeleteSession, Step, Issue
<1>2. UNCHANGED Inserted
  BY <1>1 DEF Inserted
<1>3. Ended' = Ended \cup {s.id : s \in rows}
  BY <1>1 DEF Ended
<1>4. \A s \in sessions' : s.id \in Inserted' /\ s.id \notin Ended'
  BY <1>1, <1>2, <1>3 DEF Succession
<1>5. Ended' \subseteq Inserted'
  BY <1>2, <1>3 DEF Succession
<1>6. \A l \in lineage : l.parent # None => l.parent \in Ended
  BY DEF Ended
<1>7. SuccessionIsLinear'
  BY <1>1, <1>6 DEF Succession, SuccessionIsLinear
<1>8. \A x \in Requests : Inserting(req[x])' => Inserting(req[x]) /\ req'[x].sid = req[x].sid
  BY <1>1, OnlyIssueDraws
<1>9. QED BY <1>1, <1>2, <1>4, <1>5, <1>7, <1>8 DEF Succession

LEMMA LoginSuccession ==
    ASSUME Inv, Succession, NEW r \in Requests, CreateSession(r)
    PROVE  Succession'
<1> DEFINE q == req[r]
           kept == {s \in sessions : ~(s.user = q.user /\ s.expiresAt <= now)}
<1>1. Step(r) /\ ~Issue(r) /\ Inserting(q) /\ UNCHANGED loggedOut
  BY DEF CreateSession, Step, Issue, Inserting
<1>2. CASE Exists(q.user)
  <2>1. /\ sessions' = kept \cup {SessionOf(GrantOf(q))} /\ Become(r, [q EXCEPT !.pc = "reply"])
        /\ lineage' = lineage \cup {[child |-> q.sid, parent |-> None]}
    BY <1>2 DEF CreateSession
  <2>2. kept \in SUBSET sessions
    OBVIOUS
  <2>3. QED BY <1>1, <2>1, <2>2, InsertSuccession
<1>3. CASE ~Exists(q.user)
  BY <1>1, <1>3, OnlyIssueDraws, KeepSuccession DEF CreateSession
<1>4. QED BY <1>2, <1>3

LEMMA JoinSuccession ==
    ASSUME Inv, Succession, NEW r \in Requests,
           CompleteRegistration(r) \/ ReissueRegisteredSession(r)
    PROVE  Succession'
<1> DEFINE q == req[r]
           kept == sessions \ CurrentSessions(q)
<1>1. Step(r) /\ ~Issue(r) /\ Inserting(q) /\ UNCHANGED loggedOut
  BY DEF CompleteRegistration, ReissueRegisteredSession, Step, Issue, Inserting
<1>2. CASE ReplaceSession(r)
  <2>1. /\ sessions' = kept \cup {SessionOf(GrantOf(q))} /\ Become(r, [q EXCEPT !.pc = "reply"])
        /\ lineage' = lineage \cup {[child |-> q.sid, parent |-> q.token.sid]}
    BY <1>2 DEF ReplaceSession
  <2>2. PICK t \in sessions : t \in CurrentSessions(q) /\ t.id = q.token.sid
    BY <1>2 DEF ReplaceSession, CurrentSessions
  <2>3. q.token.sid \in Inserted \ Ended /\ q.token.sid \in SessionIds
    BY <2>2 DEF Succession, Inv, TypeOK, Sessions
  <2>4. \A s \in kept : s.id # q.token.sid
    BY <2>2 DEF Succession
  <2>5. kept \in SUBSET sessions
    OBVIOUS
  <2>6. QED BY <1>1, <2>1, <2>3, <2>4, <2>5, InsertSuccession
<1>3. CASE RollBackJoin(r)
  BY <1>1, <1>3, OnlyIssueDraws, KeepSuccession DEF RollBackJoin
<1>4. QED BY <1>2, <1>3 DEF CompleteRegistration, ReissueRegisteredSession

LEMMA NextSuccession == Inv /\ Timely /\ Succession /\ [Next]_vars => Succession'
<1> SUFFICES ASSUME Inv, Timely, Succession, [Next]_vars PROVE Succession'
  OBVIOUS
<1>1. ASSUME NEW r \in Requests, Step(r) PROVE Succession'
  <2>1. CASE RotateSession(r)
    BY <2>1, RotateSuccession DEF RotateSession, Timely, TimelyOf
  <2>2. CASE /\ ~Issue(r) /\ ~CreateSession(r) /\ ~RotateSession(r) /\ ~DeleteSession(r)
             /\ ~CompleteRegistration(r) /\ ~ReissueRegisteredSession(r)
    <3>1. sessions' \subseteq sessions /\ UNCHANGED <<lineage, loggedOut>>
      BY <1>1, <2>2 DEF Step, StartLogin, FindUserBySocialIdentity, FindWinner, CreateAccount,
         StartRefresh, FindUserById, StartAuthenticated, IsSessionActive, DeleteUser, FindById,
         Reply, LoseReply, Finish, tables, history
    <3>2. QED BY <1>1, <2>2, <3>1, OnlyIssueDraws, KeepSuccession
  <2>3. QED BY <2>1, <2>2, IssueSuccession, DeleteSuccession, LoginSuccession, JoinSuccession
<1>2. CASE Crash
  <2>1. \A x \in Requests : ~Inserting(req[x])'
    BY <1>2 DEF Crash, Inserting, Idle
  <2>2. QED BY <1>2, <2>1, KeepSuccession DEF Crash, tables, history
<1>3. CASE Tick \/ UNCHANGED vars
  BY <1>3, KeepSuccession DEF Tick, vars, tables, history, Inserting
<1>4. QED BY <1>1, <1>2, <1>3 DEF Next

LEMMA InitSession == Init => Timely /\ Succession
<1> SUFFICES ASSUME Init PROVE Timely /\ Succession
  OBVIOUS
<1>1. Timely
  BY DEF Init, Timely, TimelyOf, Idle
<1>2. Inserted = {} /\ Ended = {}
  BY DEF Init, Inserted, Ended
<1>3. Succession
  BY <1>2 DEF Init, Succession, SuccessionIsLinear, Inserting, Idle
<1>4. QED BY <1>1, <1>3

\* Joins that race on one session replace it once between them, and a session
\* that was logged out is never replaced.
THEOREM SessionsSucceedOnce == Spec => []SuccessionIsLinear
<1>1. Succession => SuccessionIsLinear
  BY DEF Succession
<1>2. QED BY <1>1, InitInv, NextInv, InitSession, NextTimely, NextSuccession, PTL DEF Spec

\* What a step may store: the rows that were there, and one row, either for an
\* id that was never inserted or in place of the row of the token.
LEMMA StoredRows ==
    ASSUME Inv, Timely, Succession, [Next]_vars
    PROVE  \/ sessions' \subseteq sessions
           \/ \E r \in Requests :
                 /\ Inserting(req[r]) /\ UNCHANGED exchanges
                 /\ sessions' \subseteq sessions \cup {SessionOf(GrantOf(req[r]))}
           \/ \E r \in Requests :
                 /\ RotateSession(r) /\ RotatableSessions(req[r]) # {}
                 /\ req[r].sid = req[r].token.sid
<1>1. ASSUME NEW r \in Requests, RotateSession(r)
      PROVE  sessions' \subseteq sessions \/ RotatableSessions(req[r]) # {}
  BY <1>1 DEF RotateSession
<1>2. ASSUME NEW r \in Requests, RotateSession(r) PROVE req[r].sid = req[r].token.sid
  BY <1>2 DEF RotateSession, Timely, TimelyOf
<1>3. ASSUME NEW r \in Requests, CreateSession(r)
      PROVE  /\ Inserting(req[r]) /\ UNCHANGED exchanges
             /\ sessions' \subseteq sessions \cup {SessionOf(GrantOf(req[r]))}
  BY <1>3 DEF CreateSession, Inserting
<1>4. ASSUME NEW r \in Requests, CompleteRegistration(r) \/ ReissueRegisteredSession(r)
      PROVE  /\ Inserting(req[r]) /\ UNCHANGED exchanges
             /\ sessions' \subseteq sessions \cup {SessionOf(GrantOf(req[r]))}
  BY <1>4 DEF CompleteRegistration, ReissueRegisteredSession, ReplaceSession, RollBackJoin,
     Inserting
<1>5. ASSUME NEW r \in Requests, Step(r), ~RotateSession(r), ~CreateSession(r),
             ~CompleteRegistration(r), ~ReissueRegisteredSession(r)
      PROVE  sessions' \subseteq sessions
  BY <1>5 DEF Step, StartLogin, FindUserBySocialIdentity, FindWinner, CreateAccount, Issue,
     StartRefresh, FindUserById, StartAuthenticated, IsSessionActive, DeleteSession, DeleteUser,
     FindById, Reply, LoseReply, Finish, tables
<1>6. CASE Crash \/ Tick \/ UNCHANGED vars
  BY <1>6 DEF Crash, Tick, vars, tables
<1>7. QED BY <1>1, <1>2, <1>3, <1>4, <1>5, <1>6 DEF Next

\* No request that was in flight when a session left the table brings it back.
THEOREM GoneSessionsStayGone == Spec => SessionsNeverReturn
<1> DEFINE Stay == \A s \in sessions' : \A l \in lineage :
                      s.id = l.child => \E t \in sessions : t.id = s.id
<1>1. Inv /\ Timely /\ Succession /\ [Next]_vars => Stay
  <2> SUFFICES ASSUME Inv, Timely, Succession, [Next]_vars,
                      NEW s \in sessions', NEW l \in lineage, s.id = l.child
               PROVE  \E t \in sessions : t.id = s.id
    OBVIOUS
  <2>1. CASE s \in sessions
    BY <2>1
  <2>2. ASSUME NEW r \in Requests, Inserting(req[r]), s = SessionOf(GrantOf(req[r]))
        PROVE  FALSE
    <3>1. s.id = req[r].sid
      BY <2>2 DEF SessionOf, GrantOf
    <3>2. QED BY <2>2, <3>1 DEF Succession, Inserted
  <2>3. ASSUME NEW r \in Requests, RotateSession(r), RotatableSessions(req[r]) # {},
               req[r].sid = req[r].token.sid, s \notin sessions
        PROVE  \E t \in sessions : t.id = s.id
    <3>1. s = SessionOf(GrantOf(req[r]))
      BY <2>3 DEF RotateSession
    <3>2. s.id = req[r].token.sid
      BY <2>3, <3>1 DEF SessionOf, GrantOf
    <3>3. QED BY <2>3, <3>2 DEF RotatableSessions, ActiveSessions
  <2>4. QED BY <2>1, <2>2, <2>3, StoredRows
<1>2. Inv /\ Timely /\ Succession /\ [Next]_vars => [Stay]_vars
  BY <1>1
<1>3. QED
  BY <1>2, InitInv, NextInv, InitSession, NextTimely, NextSuccession, PTL
     DEF Spec, SessionsNeverReturn

\* A session that is still good ends only by its logout, its replacement or the
\* withdrawal of its user.
THEOREM LiveSessionsLast == Spec => LiveSessionsSurviveLogins
<1> DEFINE Survives(s) == \/ \E t \in sessions' : t.id = s.id /\ t.user = s.user
                          \/ s.id \in loggedOut'
                          \/ \E l \in lineage' : l.parent = s.id
                          \/ role'[s.user] = "deleted"
           Survive == \A s \in sessions : s.expiresAt > now => Survives(s)
<1>1. Inv /\ Timely /\ [Next]_vars => Survive
  <2> SUFFICES ASSUME Inv, Timely, [Next]_vars, NEW s \in sessions, s.expiresAt > now,
                      s \notin sessions'
               PROVE  Survives(s)
    OBVIOUS
  <2>e. s.expiresAt \in Nat /\ now \in Nat /\ s.user \in Users
    BY LivesAssumption DEF Inv, TypeOK, Sessions, Expiries, Seconds
  <2>1. ASSUME NEW r \in Requests, CreateSession(r) PROVE FALSE
    BY <2>1, <2>e DEF CreateSession
  <2>2. ASSUME NEW r \in Requests, RotateSession(r) PROVE Survives(s)
    <3>1. s \in RotatableSessions(req[r]) /\ SessionOf(GrantOf(req[r])) \in sessions'
      BY <2>2 DEF RotateSession
    <3>2. s.id = req[r].token.sid /\ s.user = req[r].token.user
      BY <3>1 DEF RotatableSessions, ActiveSessions
    <3>3. req[r].user = req[r].token.user /\ req[r].sid = req[r].token.sid
      BY <2>2 DEF RotateSession, Inv, Shape, ShapeOf, Timely, TimelyOf
    <3>4. SessionOf(GrantOf(req[r])).id = s.id /\ SessionOf(GrantOf(req[r])).user = s.user
      BY <3>2, <3>3 DEF SessionOf, GrantOf
    <3>5. QED BY <3>1, <3>4
  <2>3. ASSUME NEW r \in Requests, CompleteRegistration(r) \/ ReissueRegisteredSession(r)
        PROVE  Survives(s)
    <3>1. ReplaceSession(r) /\ s \in CurrentSessions(req[r])
      BY <2>3 DEF CompleteRegistration, ReissueRegisteredSession, ReplaceSession, RollBackJoin
    <3>2. s.id = req[r].token.sid
      BY <3>1 DEF CurrentSessions
    <3>3. [child |-> req[r].sid, parent |-> req[r].token.sid] \in lineage'
      BY <3>1 DEF ReplaceSession
    <3>4. QED BY <3>2, <3>3
  <2>4. ASSUME NEW r \in Requests, DeleteSession(r) PROVE Survives(s)
    BY <2>4 DEF DeleteSession
  <2>5. ASSUME NEW r \in Requests, DeleteUser(r) PROVE Survives(s)
    <3>1. s.user = req[r].token.user /\ role' = [role EXCEPT ![s.user] = "deleted"]
      BY <2>5 DEF DeleteUser, tables
    <3>2. QED BY <2>e, <3>1 DEF Inv, TypeOK
  <2>6. ASSUME NEW r \in Requests, Step(r), ~RotateSession(r), ~CreateSession(r),
               ~CompleteRegistration(r), ~ReissueRegisteredSession(r), ~DeleteSession(r),
               ~DeleteUser(r)
        PROVE  UNCHANGED sessions
    BY <2>6 DEF Step, StartLogin, FindUserBySocialIdentity, FindWinner, CreateAccount, Issue,
       StartRefresh, FindUserById, StartAuthenticated, IsSessionActive, FindById, Reply,
       LoseReply, Finish, tables
  <2>7. CASE Crash \/ Tick \/ UNCHANGED vars
    BY <2>7 DEF Crash, Tick, vars, tables
  <2>8. QED BY <2>1, <2>2, <2>3, <2>4, <2>5, <2>6, <2>7 DEF Next
<1>2. Inv /\ Timely /\ [Next]_vars => [Survive]_vars
  BY <1>1
<1>3. QED
  BY <1>2, InitInv, NextInv, InitSession, NextTimely, PTL DEF Spec, LiveSessionsSurviveLogins

-----------------------------------------------------------------------------
(* Exchange of refresh tokens *)

\* The token a session stores is its own, and never older than one it was
\* exchanged for.
Exchange ==
    /\ \A s \in sessions : s.hash.sid = s.id /\ s.hash.user = s.user
    /\ \A x \in exchanges :
          /\ x.old.sid = x.new.sid /\ x.old.user = x.new.user /\ x.old.iat <= x.new.iat
          /\ x.new.sid \in Inserted
          /\ \A s \in sessions : s.id = x.new.sid => x.new.iat <= s.hash.iat

\* A token that was exchanged is older than the stored one, or is the stored one.
LEMMA ExchangedTokensAreOlder == Inv /\ Exchange => SupersededTokensStayDead
<1> SUFFICES ASSUME Inv, Exchange, NEW x \in exchanges, x.old # x.new,
                    NEW s \in sessions, s.hash = x.old
             PROVE  FALSE
  BY DEF SupersededTokensStayDead
<1>1. x.old \in RefreshTokens /\ x.new \in RefreshTokens
  BY DEF Inv, TypeOK
<1>2. x.new.iat <= x.old.iat /\ x.old.iat <= x.new.iat
  BY DEF Exchange
<1>3. x.old.iat = x.new.iat /\ x.old.sid = x.new.sid /\ x.old.user = x.new.user
  BY <1>1, <1>2 DEF Exchange, RefreshTokens, Seconds
<1>4. x.old = x.new
  BY <1>1, <1>3 DEF RefreshTokens
<1>5. QED BY <1>4

\* A session inserted under a new id has no exchange behind it.
LEMMA InsertExchange ==
    ASSUME Inv, Succession, Exchange, NEW r \in Requests, Inserting(req[r]),
           sessions' \subseteq sessions \cup {SessionOf(GrantOf(req[r]))},
           UNCHANGED exchanges, lineage \subseteq lineage'
    PROVE  Exchange'
<1> DEFINE new == SessionOf(GrantOf(req[r]))
<1>1. new.hash.sid = new.id /\ new.hash.user = new.user /\ new.id = req[r].sid
  BY DEF SessionOf, GrantOf, RefreshTokenOf
<1>2. new.id \notin Inserted
  BY <1>1 DEF Succession
<1>3. Inserted \subseteq Inserted'
  BY DEF Inserted
<1>4. sessions' \subseteq sessions \cup {new}
  OBVIOUS
<1> HIDE DEF new
<1>5. QED BY <1>1, <1>2, <1>3, <1>4 DEF Exchange

\* A refresh stores a token that is at least as new as the one it presented.
LEMMA RotateExchange ==
    ASSUME Inv, Timely, Succession, Exchange, NEW r \in Requests, RotateSession(r),
           RotatableSessions(req[r]) # {}
    PROVE  Exchange'
<1> DEFINE q == req[r]
           new == SessionOf(GrantOf(q))
           pair == [old |-> RefreshTokenOf(q.token), new |-> RefreshTokenOf(GrantOf(q))]
<1>1. /\ sessions' = (sessions \ RotatableSessions(q)) \cup {new}
      /\ exchanges' = exchanges \cup {pair} /\ UNCHANGED lineage
  BY DEF RotateSession
<1>2. PICK t \in sessions : t \in RotatableSessions(q) /\ t.id = q.token.sid
                            /\ t.hash = RefreshTokenOf(q.token)
  BY DEF RotatableSessions, ActiveSessions
<1>3. /\ q.user = q.token.user /\ q.sid = q.token.sid /\ q.token.iat <= q.iat
      /\ q.token.iat \in Nat /\ q.iat \in Nat
  BY DEF RotateSession, Inv, TypeOK, Shape, ShapeOf, Timely, TimelyOf, Grants, Seconds,
     RequestStates
<1>4. /\ new.id = t.id /\ new.hash.sid = new.id /\ new.hash.user = new.user
      /\ new.hash.iat = q.iat /\ t.hash.iat = q.token.iat
  BY <1>2, <1>3 DEF SessionOf, GrantOf, RefreshTokenOf
<1>5. /\ pair.old.sid = pair.new.sid /\ pair.old.user = pair.new.user
      /\ pair.old.iat <= pair.new.iat /\ pair.new.sid = new.id /\ pair.new.iat = new.hash.iat
  BY <1>3 DEF SessionOf, GrantOf, RefreshTokenOf
<1>6. \A s \in sessions \ RotatableSessions(q) : s.id # new.id
  BY <1>2, <1>4 DEF Succession
<1>7. new.id \in Inserted /\ UNCHANGED Inserted
  BY <1>1, <1>2, <1>4 DEF Succession, Inserted
<1>8. \A x \in exchanges : x.new.iat \in Nat
  BY DEF Inv, TypeOK, RefreshTokens, Seconds
<1> HIDE DEF new, pair
<1>9. ASSUME NEW x \in exchanges', NEW s \in sessions', s.id = x.new.sid
      PROVE  x.new.iat <= s.hash.iat
  <2>1. CASE x \in exchanges /\ s = new
    <3>1. x.new.iat <= t.hash.iat
      BY <1>2, <1>4, <1>9, <2>1 DEF Exchange
    <3>2. QED BY <1>3, <1>4, <1>8, <2>1, <3>1
  <2>2. CASE x \in exchanges /\ s # new
    BY <1>1, <1>9, <2>2 DEF Exchange
  <2>3. CASE x = pair
    <3>1. s = new
      BY <1>1, <1>5, <1>6, <1>9, <2>3
    <3>2. QED BY <1>3, <1>4, <1>5, <2>3, <3>1
  <2>4. QED BY <1>1, <2>1, <2>2, <2>3
<1>10. QED BY <1>1, <1>4, <1>5, <1>7, <1>9 DEF Exchange

LEMMA NextExchange == Inv /\ Timely /\ Succession /\ Exchange /\ [Next]_vars => Exchange'
<1> SUFFICES ASSUME Inv, Timely, Succession, Exchange, [Next]_vars PROVE Exchange'
  OBVIOUS
<1>1. lineage \subseteq lineage' /\ (UNCHANGED exchanges \/ \E r \in Requests : RotateSession(r))
  <2>1. ASSUME NEW r \in Requests, CreateSession(r)
        PROVE  lineage \subseteq lineage' /\ UNCHANGED exchanges
    BY <2>1 DEF CreateSession
  <2>2. ASSUME NEW r \in Requests, CompleteRegistration(r) \/ ReissueRegisteredSession(r)
        PROVE  lineage \subseteq lineage' /\ UNCHANGED exchanges
    BY <2>2 DEF CompleteRegistration, ReissueRegisteredSession, ReplaceSession, RollBackJoin
  <2>3. ASSUME NEW r \in Requests, RotateSession(r) PROVE lineage \subseteq lineage'
    BY <2>3 DEF RotateSession
  <2>4. ASSUME NEW r \in Requests, Step(r), ~RotateSession(r), ~CreateSession(r),
               ~CompleteRegistration(r), ~ReissueRegisteredSession(r)
        PROVE  lineage \subseteq lineage' /\ UNCHANGED exchanges
    BY <2>4 DEF Step, StartLogin, FindUserBySocialIdentity, FindWinner, CreateAccount, Issue,
       StartRefresh, FindUserById, StartAuthenticated, IsSessionActive, DeleteSession, DeleteUser,
       FindById, Reply, LoseReply, Finish, tables, history
  <2>5. CASE Crash \/ Tick \/ UNCHANGED vars
    BY <2>5 DEF Crash, Tick, vars, tables, history
  <2>6. QED BY <2>1, <2>2, <2>3, <2>4, <2>5 DEF Next
<1>2. ASSUME NEW r \in Requests, RotateSession(r)
      PROVE  RotatableSessions(req[r]) # {} \/ UNCHANGED <<sessions, exchanges>>
  BY <1>2 DEF RotateSession
<1>3. Inserted \subseteq Inserted'
  BY <1>1 DEF Inserted
<1>4. CASE sessions' \subseteq sessions /\ UNCHANGED exchanges
  BY <1>3, <1>4 DEF Exchange
<1>5. ASSUME NEW r \in Requests, RotateSession(r) PROVE Exchange'
  BY <1>2, <1>4, <1>5, RotateExchange
<1>6. ASSUME NEW r \in Requests, Inserting(req[r]), UNCHANGED exchanges,
             sessions' \subseteq sessions \cup {SessionOf(GrantOf(req[r]))}
      PROVE  Exchange'
  BY <1>1, <1>6, InsertExchange
<1>7. QED BY <1>1, <1>4, <1>5, <1>6, StoredRows

\* A refresh token that was exchanged for a different one is never the stored
\* one again, so nobody can refresh with it.
THEOREM ExchangedTokensStayDead == Spec => []SupersededTokensStayDead
<1>1. Init => Exchange
  BY DEF Init, Exchange
<1>2. QED
  BY <1>1, InitInv, NextInv, InitSession, NextTimely, NextSuccession, NextExchange,
     ExchangedTokensAreOlder, PTL DEF Spec
=============================================================================
