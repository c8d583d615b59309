----------------------------- MODULE AuthSession -----------------------------
(***************************************************************************)
(* Accounts, sessions and tokens of the API: the login, refresh, join,     *)
(* logout and withdrawal requests of AuthService and UserService, run      *)
(* concurrently, one step per await.  A repository method that opens a     *)
(* transaction is one atomic step (TransactionLocks is about the locks that*)
(* make it so); between two awaits every other request may run, the        *)
(* process may crash and time may pass.                                    *)
(*                                                                         *)
(* A grant is the pair of JWTs AuthService and UserService return: the     *)
(* access token carries user, role and session id, the refresh token user  *)
(* and session id, and both the second they were issued in.  The SHA-256   *)
(* of a refresh token is the refresh token itself: it is only compared.    *)
(***************************************************************************)
EXTENDS Naturals

CONSTANTS Users,        \* ids the users table may hand out, each once
          Identities,   \* what the identity verifiers may answer
          SessionIds,   \* ids generateId() may return, each once
          Requests,     \* HTTP requests in flight
          None,         \* the null of the code
          AccessLife, RefreshLife, Tolerance,   \* token lifetimes, clock skew
          MaxTime       \* bound on the clock

ASSUME LivesAssumption ==
    /\ AccessLife \in Nat /\ RefreshLife \in Nat
    /\ Tolerance \in Nat /\ MaxTime \in Nat
ASSUME NoneAssumption == None \notin Users /\ None \notin SessionIds

VARIABLES role,       \* users table: "free" (no row yet), a role, or "deleted"
          accounts,   \* social_accounts
          sessions,   \* auth_sessions
          now,        \* the clock, in seconds
          req,        \* the requests in flight and their local variables
          granted,    \* token pairs some client received
          exchanges,  \* history: refresh tokens exchanged, each with its successor
          lineage,    \* history: sessions inserted, each with the one it replaced
          loggedOut   \* history: sessions a logout deleted

tables == <<role, accounts, sessions>>
history == <<exchanges, lineage, loggedOut>>
vars == <<role, accounts, sessions, now, req, granted, exchanges, lineage, loggedOut>>

-----------------------------------------------------------------------------
(* Types *)

Roles == {"PENDING", "USER"}
Seconds == 0 .. MaxTime
Expiries == 0 .. (MaxTime + RefreshLife)
Grants == [user : Users, role : Roles, sid : SessionIds, iat : Seconds]
RefreshTokens == [user : Users, sid : SessionIds, iat : Seconds]
Sessions == [id : SessionIds, user : Users, hash : RefreshTokens, expiresAt : Expiries]
Accounts == [provider : {i.provider : i \in Identities},
             providerUserId : {i.providerUserId : i \in Identities},
             user : Users]

Operations == {"none", "login", "refresh", "join", "logout", "withdraw", "feature"}
Steps == {"idle", "find", "create", "refind", "auth", "read", "issue", "commit",
          "reply", "served", "failed"}

RequestStates ==
    [op : Operations, pc : Steps, identity : Identities \cup {None},
     token : Grants \cup {None}, user : Users \cup {None},
     role : Roles \cup {None}, sid : SessionIds \cup {None}, iat : Seconds,
     during : {"nothing", "withdrawal"}]

TypeOK ==
    /\ role \in [Users -> Roles \cup {"free", "deleted"}]
    /\ accounts \subseteq Accounts
    /\ sessions \subseteq Sessions
    /\ now \in Seconds
    /\ req \in [Requests -> RequestStates]
    /\ granted \subseteq Grants
    /\ exchanges \subseteq [old : RefreshTokens, new : RefreshTokens]
    /\ lineage \subseteq [child : SessionIds, parent : SessionIds \cup {None}]
    /\ loggedOut \subseteq SessionIds

-----------------------------------------------------------------------------
(* Helpers *)

Idle == [op |-> "none", pc |-> "idle", identity |-> None, token |-> None,
         user |-> None, role |-> None, sid |-> None, iat |-> 0, during |-> "nothing"]

Failed(q) == [Idle EXCEPT !.op = q.op, !.pc = "failed", !.identity = q.identity,
                        !.during = q.during]

Become(r, q) == req' = [req EXCEPT ![r] = q]

Exists(u) == role[u] \in Roles

\* Mutation: the hash of the access token, which also carries the role.
AccessTokenOf(g) == g

RefreshTokenOf(g) == [user |-> g.user, sid |-> g.sid, iat |-> g.iat]

\* The pair issued to a request: join issues a USER token whatever role it read.
GrantOf(q) == [user |-> q.user, sid |-> q.sid, iat |-> q.iat,
               role |-> IF q.op = "join" THEN "USER" ELSE q.role]

SessionOf(g) == [id |-> g.sid, user |-> g.user, hash |-> RefreshTokenOf(g),
                 expiresAt |-> g.iat + RefreshLife]

AccountsOf(i) == {a \in accounts : /\ a.provider = i.provider
                                   /\ a.providerUserId = i.providerUserId}

\* The policy a first login has to pass; providerUserId is None when empty.
ValidNewIdentity(i) ==
    /\ i.providerUserId # None
    /\ i.email = "verified" \/ (i.email = None /\ i.provider = "KAKAO")

FreshIds == SessionIds \ ({l.child : l \in lineage} \cup {req[r].sid : r \in Requests})

ActiveSessions(g, t) ==
    {s \in sessions : s.id = g.sid /\ s.user = g.user /\ s.expiresAt > t}

-----------------------------------------------------------------------------
(* Login *)

StartLogin(r) ==
    /\ req[r].pc = "idle"
    /\ \E i \in Identities :
          Become(r, [Idle EXCEPT !.op = "login", !.pc = "find", !.identity = i])
    /\ UNCHANGED <<tables, now, granted, history>>

\* Continue with the user a lookup by social identity returned.
ResumeWith(r, a) ==
    Become(r, [req[r] EXCEPT !.pc = "issue", !.user = a.user, !.role = role[a.user]])

FindUserBySocialIdentity(r) ==
    /\ req[r].pc = "find"
    /\ \/ \E a \in AccountsOf(req[r].identity) : ResumeWith(r, a)
       \/ /\ AccountsOf(req[r].identity) = {}
          /\ Become(r, IF ValidNewIdentity(req[r].identity)
                       THEN [req[r] EXCEPT !.pc = "create"] ELSE Failed(req[r]))
    /\ UNCHANGED <<tables, now, granted, history>>

\* Mutation: no unique key on (provider, provider_user_id).
CreateAccountWithoutUniqueKey(r) ==
    /\ req[r].pc = "create"
    /\ \E u \in Users :
          /\ role[u] = "free"
          /\ role' = [role EXCEPT ![u] = "PENDING"]
          /\ accounts' = accounts \cup
                {[provider |-> req[r].identity.provider,
                  providerUserId |-> req[r].identity.providerUserId, user |-> u]}
          /\ Become(r, [req[r] EXCEPT !.pc = "issue", !.user = u, !.role = "PENDING"])
    /\ UNCHANGED <<sessions, now, granted, history>>

\* INSERT users and social_accounts; the unique key on (provider,
\* provider_user_id) rolls the loser of a race back to look the winner up.
CreateAccount(r) ==
    /\ req[r].pc = "create"
    /\ \/ /\ AccountsOf(req[r].identity) # {}
          /\ Become(r, [req[r] EXCEPT !.pc = "refind"])
          /\ UNCHANGED <<role, accounts>>
       \/ /\ AccountsOf(req[r].identity) = {}
          /\ \E u \in Users :
                /\ role[u] = "free"
                /\ role' = [role EXCEPT ![u] = "PENDING"]
                /\ accounts' = accounts \cup
                      {[provider |-> req[r].identity.provider,
                        providerUserId |-> req[r].identity.providerUserId, user |-> u]}
                /\ Become(r, [req[r] EXCEPT !.pc = "issue", !.user = u, !.role = "PENDING"])
    /\ UNCHANGED <<sessions, now, granted, history>>

\* Mutation: the duplicate account is reported instead of resumed.
RejectDuplicate(r) ==
    /\ req[r].pc = "refind"
    /\ Become(r, Failed(req[r]))
    /\ UNCHANGED <<tables, now, granted, history>>

FindWinner(r) ==
    /\ req[r].pc = "refind"
    /\ \/ \E a \in AccountsOf(req[r].identity) : ResumeWith(r, a)
       \/ /\ AccountsOf(req[r].identity) = {}
          /\ Become(r, Failed(req[r]))
    /\ UNCHANGED <<tables, now, granted, history>>

\* Sign a pair for the session the request is about: its own for a refresh,
\* a new one otherwise.  The role signed is the one read earlier.
Issue(r) ==
    /\ req[r].pc = "issue"
    /\ \E s \in IF req[r].op = "refresh" THEN {req[r].token.sid} ELSE FreshIds :
          Become(r, [req[r] EXCEPT !.pc = "commit", !.sid = s, !.iat = now])
    /\ UNCHANGED <<tables, now, granted, history>>

\* Mutation: the user row is not looked at under its lock.
CreateSessionUnlocked(r) ==
    LET q == req[r] IN
    /\ q.pc = "commit" /\ q.op = "login"
    /\ sessions' = {s \in sessions : ~(s.user = q.user /\ s.expiresAt <= now)}
                       \cup {SessionOf(GrantOf(q))}
    /\ lineage' = lineage \cup {[child |-> q.sid, parent |-> None]}
    /\ Become(r, [q EXCEPT !.pc = "reply"])
    /\ UNCHANGED <<role, accounts, now, granted, exchanges, loggedOut>>

\* Mutation: one session per user.
CreateOnlySession(r) ==
    LET q == req[r] IN
    /\ q.pc = "commit" /\ q.op = "login"
    /\ IF Exists(q.user)
       THEN /\ sessions' = {s \in sessions : s.user # q.user} \cup {SessionOf(GrantOf(q))}
            /\ lineage' = lineage \cup {[child |-> q.sid, parent |-> None]}
            /\ Become(r, [q EXCEPT !.pc = "reply"])
       ELSE /\ Become(r, Failed(q))
            /\ UNCHANGED <<sessions, lineage>>
    /\ UNCHANGED <<role, accounts, now, granted, exchanges, loggedOut>>

\* Lock the user, drop its expired sessions and insert the new one.
CreateSession(r) ==
    LET q == req[r] IN
    /\ q.pc = "commit" /\ q.op = "login"
    /\ IF Exists(q.user)
       THEN /\ sessions' = {s \in sessions : ~(s.user = q.user /\ s.expiresAt <= now)}
                              \cup {SessionOf(GrantOf(q))}
            /\ lineage' = lineage \cup {[child |-> q.sid, parent |-> None]}
            /\ Become(r, [q EXCEPT !.pc = "reply"])
       ELSE /\ Become(r, Failed(q))
            /\ UNCHANGED <<sessions, lineage>>
    /\ UNCHANGED <<role, accounts, now, granted, exchanges, loggedOut>>

-----------------------------------------------------------------------------
(* Refresh *)

StartRefresh(r) ==
    /\ req[r].pc = "idle"
    /\ \E g \in granted :
          /\ now < g.iat + RefreshLife + Tolerance
          /\ Become(r, [Idle EXCEPT !.op = "refresh", !.pc = "read", !.token = g])
    /\ UNCHANGED <<tables, now, granted, history>>

FindUserById(r) ==
    LET u == req[r].token.user IN
    /\ req[r].pc = "read" /\ req[r].op = "refresh"
    /\ Become(r, IF Exists(u)
                 THEN [req[r] EXCEPT !.pc = "issue", !.user = u, !.role = role[u]]
                 ELSE Failed(req[r]))
    /\ UNCHANGED <<tables, now, granted, history>>

\* Mutation: the hash is left out of the condition of the UPDATE.
RotatableWithAnyHash(q) == ActiveSessions(q.token, q.iat)

\* The row whose id, user and hash match the token and that had not expired
\* when the pair was issued (the service takes the time before the call).
RotatableSessions(q) ==
    {s \in ActiveSessions(q.token, q.iat) : s.hash = RefreshTokenOf(q.token)}

\* Mutation: INSERT ... ON CONFLICT DO UPDATE in place of the UPDATE.
UpsertSession(r) ==
    LET q == req[r] IN
    /\ q.pc = "commit" /\ q.op = "refresh"
    /\ sessions' = {s \in sessions : s.id # q.sid} \cup {SessionOf(GrantOf(q))}
    /\ exchanges' = exchanges \cup
          {[old |-> RefreshTokenOf(q.token), new |-> RefreshTokenOf(GrantOf(q))]}
    /\ Become(r, [q EXCEPT !.pc = "reply"])
    /\ UNCHANGED <<role, accounts, now, granted, lineage, loggedOut>>

RotateSession(r) ==
    LET q == req[r] IN
    /\ q.pc = "commit" /\ q.op = "refresh"
    /\ IF RotatableSessions(q) # {}
       THEN /\ sessions' = (sessions \ RotatableSessions(q)) \cup {SessionOf(GrantOf(q))}
            /\ exchanges' = exchanges \cup
                  {[old |-> RefreshTokenOf(q.token), new |-> RefreshTokenOf(GrantOf(q))]}
            /\ Become(r, [q EXCEPT !.pc = "reply"])
       ELSE /\ Become(r, Failed(q))
            /\ UNCHANGED <<sessions, exchanges>>
    /\ UNCHANGED <<role, accounts, now, granted, lineage, loggedOut>>

-----------------------------------------------------------------------------
(* Requests behind AccessTokenGuard *)

StartAuthenticated(r) ==
    /\ req[r].pc = "idle"
    /\ \E g \in granted, op \in {"join", "logout", "withdraw", "feature"} :
          /\ now < g.iat + AccessLife + Tolerance
          /\ Become(r, [Idle EXCEPT !.op = op, !.pc = "auth", !.token = g])
    /\ UNCHANGED <<tables, now, granted, history>>

\* RegisteredUserGuard stands before every feature controller: it looks at
\* the role inside the token and reads nothing.
AfterGuards(q) ==
    CASE q.op = "join" -> [q EXCEPT !.pc = "read"]
      [] q.op = "feature" /\ q.token.role = "USER" -> [q EXCEPT !.pc = "served"]
      [] q.op = "feature" /\ q.token.role # "USER" -> Failed(q)
      [] OTHER -> [q EXCEPT !.pc = "commit", !.user = q.token.user]

IsSessionActive(r) ==
    /\ req[r].pc = "auth"
    /\ Become(r, IF ActiveSessions(req[r].token, now) # {}
                 THEN AfterGuards(req[r]) ELSE Failed(req[r]))
    /\ UNCHANGED <<tables, now, granted, history>>

DeleteSession(r) ==
    LET q == req[r]
        rows == {s \in sessions : s.id = q.token.sid /\ s.user = q.token.user}
    IN
    /\ q.pc = "commit" /\ q.op = "logout"
    /\ sessions' = sessions \ rows
    /\ loggedOut' = loggedOut \cup {s.id : s \in rows}
    /\ Become(r, Idle)
    /\ UNCHANGED <<role, accounts, now, granted, exchanges, lineage>>

\* The account rows of the purge; the hierarchy and the posts of the user are
\* deleted in the same transaction.  Logins in flight note the withdrawal.
DeleteUser(r) ==
    LET u == req[r].token.user IN
    /\ req[r].pc = "commit" /\ req[r].op = "withdraw"
    /\ IF Exists(u)
       THEN /\ role' = [role EXCEPT ![u] = "deleted"]
            /\ sessions' = {s \in sessions : s.user # u}
            /\ accounts' = {a \in accounts : a.user # u}
            /\ req' = [x \in Requests |->
                          IF x = r THEN Idle
                          ELSE IF req[x].op = "login"
                          THEN [req[x] EXCEPT !.during = "withdrawal"] ELSE req[x]]
       ELSE /\ Become(r, Failed(req[r]))
            /\ UNCHANGED tables
    /\ UNCHANGED <<now, granted, history>>

-----------------------------------------------------------------------------
(* Join: complete the registration, or reissue the session of a user that  *)
(* another request registered                                              *)

FindById(r) ==
    LET q == req[r]
        u == q.token.user
        next == [q EXCEPT !.pc = "issue", !.user = u, !.role = role[u]]
    IN
    /\ q.pc = "read" /\ q.op = "join"
    /\ \/ /\ Exists(u) /\ q.token.role = "PENDING"
          /\ Become(r, next)
       \/ /\ ~Exists(u) \/ q.token.role # "PENDING"
          /\ Become(r, Failed(q))
       \/ \* nickname, job, address or consents rejected
          /\ Exists(u) /\ role[u] = "PENDING"
          /\ Become(r, Failed(q))
    /\ UNCHANGED <<tables, now, granted, history>>

CurrentSessions(q) == {s \in sessions : s.id = q.token.sid /\ s.user = q.user}

\* Mutation: the number of deleted rows is not checked.
ReplaceSessionUnchecked(r) ==
    LET q == req[r] IN
    /\ sessions' = (sessions \ CurrentSessions(q)) \cup {SessionOf(GrantOf(q))}
    /\ lineage' = lineage \cup {[child |-> q.sid, parent |-> q.token.sid]}
    /\ Become(r, [q EXCEPT !.pc = "reply"])

\* Delete the current session and insert the replacement, or roll back.
ReplaceSession(r) ==
    LET q == req[r] IN
    /\ CurrentSessions(q) # {}
    /\ sessions' = (sessions \ CurrentSessions(q)) \cup {SessionOf(GrantOf(q))}
    /\ lineage' = lineage \cup {[child |-> q.sid, parent |-> q.token.sid]}
    /\ Become(r, [q EXCEPT !.pc = "reply"])

RollBackJoin(r) ==
    /\ Become(r, Failed(req[r]))
    /\ UNCHANGED <<role, sessions, lineage>>

\* Mutation: the session is replaced although the update of the user failed.
CompleteRegistrationInTwo(r) ==
    LET q == req[r] IN
    /\ q.pc = "commit" /\ q.op = "join" /\ q.role = "PENDING"
    /\ \/ /\ Exists(q.user)
          /\ role' = [role EXCEPT ![q.user] = "USER"]
          /\ ReplaceSession(r)
       \/ /\ ~Exists(q.user) \/ CurrentSessions(q) = {}
          /\ RollBackJoin(r)
       \/ /\ role[q.user] = "PENDING"
          /\ ReplaceSession(r)
          /\ UNCHANGED role
    /\ UNCHANGED <<accounts, now, granted, exchanges, loggedOut>>

\* One transaction: the role, nickname and consents of a PENDING user and the
\* session; a user registered meanwhile only has its session replaced.
CompleteRegistration(r) ==
    LET q == req[r] IN
    /\ q.pc = "commit" /\ q.op = "join" /\ q.role = "PENDING"
    /\ \/ /\ Exists(q.user)
          /\ role' = [role EXCEPT ![q.user] = "USER"]
          /\ ReplaceSession(r)
       \/ /\ ~Exists(q.user) \/ CurrentSessions(q) = {}
          /\ RollBackJoin(r)
       \/ \* the unique key on nickname
          /\ role[q.user] = "PENDING"
          /\ RollBackJoin(r)
    /\ UNCHANGED <<accounts, now, granted, exchanges, loggedOut>>

ReissueRegisteredSession(r) ==
    LET q == req[r] IN
    /\ q.pc = "commit" /\ q.op = "join" /\ q.role = "USER"
    /\ \/ ReplaceSession(r) /\ UNCHANGED role
       \/ CurrentSessions(q) = {} /\ RollBackJoin(r)
    /\ UNCHANGED <<accounts, now, granted, exchanges, loggedOut>>

-----------------------------------------------------------------------------
(* Responses, failures and time *)

Reply(r) ==
    /\ req[r].pc = "reply"
    /\ granted' = granted \cup {GrantOf(req[r])}
    /\ Become(r, Idle)
    /\ UNCHANGED <<tables, now, history>>

\* The response that carries a committed pair never reaches its client.
LoseReply(r) ==
    /\ req[r].pc = "reply"
    /\ Become(r, Idle)
    /\ UNCHANGED <<tables, now, granted, history>>

Finish(r) ==
    /\ req[r].pc \in {"failed", "served"}
    /\ Become(r, Idle)
    /\ UNCHANGED <<tables, now, granted, history>>

\* The process dies: open requests are gone, committed rows stay.
Crash ==
    /\ \E r \in Requests : req[r].pc # "idle"
    /\ req' = [r \in Requests |-> Idle]
    /\ UNCHANGED <<tables, now, granted, history>>

Tick ==
    /\ now < MaxTime
    /\ now' = now + 1
    /\ UNCHANGED <<tables, req, granted, history>>

Init ==
    /\ role = [u \in Users |-> "free"]
    /\ accounts = {} /\ sessions = {} /\ now = 0
    /\ req = [r \in Requests |-> Idle]
    /\ granted = {} /\ exchanges = {} /\ lineage = {} /\ loggedOut = {}

Step(r) ==
    \/ StartLogin(r) \/ FindUserBySocialIdentity(r) \/ CreateAccount(r) \/ FindWinner(r)
    \/ Issue(r) \/ CreateSession(r)
    \/ StartRefresh(r) \/ FindUserById(r) \/ RotateSession(r)
    \/ StartAuthenticated(r) \/ IsSessionActive(r) \/ DeleteSession(r) \/ DeleteUser(r)
    \/ FindById(r) \/ CompleteRegistration(r) \/ ReissueRegisteredSession(r)
    \/ Reply(r) \/ LoseReply(r) \/ Finish(r)

Next == (\E r \in Requests : Step(r)) \/ Crash \/ Tick

Spec == Init /\ [][Next]_vars

-----------------------------------------------------------------------------
(* Properties *)

\* Whatever a login, refresh or join had read before a withdrawal committed,
\* no session and no social account is ever left of a user that is gone.
OwnersExist == \A x \in sessions \cup accounts : Exists(x.user)

\* Concurrent first logins of one social identity converge on one account.
OneAccountPerIdentity ==
    \A a, b \in accounts :
        a.provider = b.provider /\ a.providerUserId = b.providerUserId => a = b

\* No client holds a USER token of a user that is not registered, so a request
\* RegisteredUserGuard lets through is never one of a PENDING user.  The guard
\* trusts the token: the role was read before the pair was signed and stored.
UserTokensAreOfRegisteredUsers ==
    /\ \A g \in granted : g.role = "USER" => role[g.user] \in {"USER", "deleted"}
    /\ \A r \in Requests :
          req[r].pc = "served" => role[req[r].token.user] \in {"USER", "deleted"}

\* A refresh token that was exchanged for a different one is never stored
\* again, by a refresh that was in flight meanwhile or any later request.
SupersededTokensStayDead ==
    \A x \in exchanges : x.old # x.new => \A s \in sessions : s.hash # x.old

\* docs/migration: a refresh token that was used once is refused from then on.
RefreshTokenSingleUse == \A x \in exchanges : \A s \in sessions : s.hash # x.old

\* Joins that present the same session replace it once between them, and a
\* session its logout deleted has no successor.
SuccessionIsLinear ==
    \A l \in lineage : l.parent # None =>
        /\ l.parent \notin loggedOut
        /\ \A m \in lineage : m.parent = l.parent => m = l

\* An identity that may log in is refused only when a withdrawal committed
\* while its login was in flight; the race for the account never fails it.
LoginFailsOnlyByWithdrawal ==
    \A r \in Requests :
        (req[r].pc = "failed" /\ req[r].op = "login" /\ ValidNewIdentity(req[r].identity))
            => req[r].during = "withdrawal"

\* A session that left the table never comes back: no step of a request that
\* was in flight during its logout, replacement or withdrawal restores it.
SessionsNeverReturn ==
    [][\A s \in sessions' : \A l \in lineage :
          s.id = l.child => \E t \in sessions : t.id = s.id]_vars

\* A session that is still good ends only by its own logout or replacement or
\* by the withdrawal of its user: logins on other devices leave it alone.
LiveSessionsSurviveLogins ==
    [][\A s \in sessions : s.expiresAt > now =>
          \/ \E t \in sessions' : t.id = s.id /\ t.user = s.user
          \/ s.id \in loggedOut'
          \/ \E l \in lineage' : l.parent = s.id
          \/ role'[s.user] = "deleted"]_vars
=============================================================================
