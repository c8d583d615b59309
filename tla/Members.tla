-------------------------------- MODULE Members --------------------------------
(***************************************************************************)
(* Registered users: their nicknames, their consents and whom they follow. *)
(* A request reads, then writes in one transaction.  A transaction on the  *)
(* consents upserts one item after the other and holds no more than a KEY  *)
(* SHARE lock on its user, so two of one user run at the same time; it is  *)
(* modelled statement by statement, the others as one step.                *)
(*                                                                         *)
(* writes numbers the writing requests as they begin.  The number is the   *)
(* Date a service takes before its transaction, and bounds the behaviours. *)
(***************************************************************************)
EXTENDS Integers, FiniteSets

CONSTANTS Users, Nicknames,
          Items,               \* the consent catalogue, ids in order
          Required, Active,    \* items that are required, that may be chosen
          Marketing,           \* MARKETING and ADVERTISEMENT
          Selections,             \* consents that are sent: item -> agreed
          InitialNickname,     \* user -> nickname, or None: not registered yet
          Writers,             \* requests that write
          MaxWrites,           \* bound on them, in a behaviour
          None, Gone

\* Nothing in the code writes the catalogue; its seed has no required item.
ASSUME MembersAssumption ==
    /\ Items \subseteq Nat /\ Required \subseteq Active /\ Active \subseteq Items
    /\ Marketing \subseteq Active \ Required
    /\ \A c \in Selections : DOMAIN c \subseteq Items /\ \A i \in DOMAIN c : c[i] \in BOOLEAN
    /\ MaxWrites \in Nat
    /\ None # Gone /\ {None, Gone} \cap Nicknames = {}
    /\ \A agreed \in BOOLEAN, at \in 0 .. MaxWrites : None # [agreed |-> agreed, at |-> at]
    /\ InitialNickname \in [Users -> Nicknames \cup {None}]
    /\ \A u, v \in Users : InitialNickname[u] = InitialNickname[v] => u = v \/ InitialNickname[u] = None

VARIABLES nickname,   \* of each user; None: PENDING; Gone: withdrawn
          consents,   \* user -> item -> the row, or None
          follows,    \* <<follower, followed>>
          writes,     \* writing requests so far
          req,        \* requests in flight, their local variables and locks
          asked,      \* history: number of a request -> items it decides
          followings  \* history: follows answered as made, less those as ended

members == <<nickname, consents, follows, asked, followings>>

Registered(u) == nickname[u] \notin {None, Gone}
Pairs == {p \in Users \X Users : p[1] # p[2]}

Row == [agreed : BOOLEAN, at : 0 .. MaxWrites]
Idle == [op |-> "none", pc |-> "idle", user |-> None, at |-> 0, name |-> None, target |-> None,
         choice |-> <<>>, done |-> {}, locked |-> {}]
Become(r, q) == req' = [req EXCEPT ![r] = q]
End(r) == Become(r, Idle)

\* A request of user u begins, with its number.
Ready(r) == req[r].pc = "idle" /\ writes < MaxWrites
Begin(r, u, q) ==
    /\ writes' = writes + 1
    /\ Become(r, [q EXCEPT !.user = u, !.at = writes + 1])

\* A transaction of another request holds a lock on the user's row.
Shared(u) == \E r \in Writers : u \in req[r].locked

MembersTypeOK ==
    /\ nickname \in [Users -> Nicknames \cup {None, Gone}]
    /\ \A u, v \in Users : Registered(u) /\ nickname[u] = nickname[v] => u = v
    /\ consents \in [Users -> [Items -> Row \cup {None}]]
    /\ \A u \in Users, i \in Items : Registered(u) \/ consents[u][i] = None
    /\ follows \subseteq {p \in Pairs : Registered(p[1]) /\ Registered(p[2])}
    /\ writes \in 0 .. MaxWrites
    /\ asked \in [0 .. MaxWrites -> SUBSET Items]
    /\ followings \in [Pairs -> Int]

-----------------------------------------------------------------------------
(* Consents *)

ListActiveItems == Active
FindItemsByIds(ids) == Items \cap ids

\* Mutation: only the items sent are checked.
AcceptsWhatWasSent(c) ==
    LET items == FindItemsByIds(DOMAIN c) IN
    /\ DOMAIN c \subseteq items
    /\ items \subseteq Active
    /\ \A i \in items \cap Required : i \in DOMAIN c /\ c[i]

\* Of the items sent, which exist, and of all that are active, none is
\* inactive and the required ones are agreed to.
Accepts(c) ==
    LET items == FindItemsByIds(DOMAIN c) \cup ListActiveItems IN
    /\ DOMAIN c \subseteq items
    /\ items \subseteq Active
    /\ \A i \in items \cap Required : i \in DOMAIN c /\ c[i]

MarketingOnly(c) == DOMAIN c # {} /\ DOMAIN c \subseteq Marketing

\* PUT consents and PATCH marketing-consent, up to their transaction.
SendConsents(r) ==
    Ready(r) /\ \E u \in Users, c \in Selections :
        /\ Registered(u)
        /\ Accepts(c) \/ MarketingOnly(c)
        /\ Begin(r, u, [Idle EXCEPT !.op = "consents", !.pc = "lock", !.choice = c])
        /\ UNCHANGED members

LockUser(r) ==
    LET q == req[r] IN
    /\ q.op = "consents" /\ q.pc = "lock"
    /\ IF Registered(q.user) THEN Become(r, [q EXCEPT !.pc = "upsert", !.locked = {q.user}])
                             ELSE End(r)
    /\ UNCHANGED <<members, writes>>

Left(q) == DOMAIN q.choice \ q.done
Earliest(S) == CHOOSE i \in S : \A k \in S : i <= k

\* Rows of the user that other transactions wrote and did not commit.
Written(r, u) == UNION {req[s].done : s \in {t \in Writers \ {r} : req[t].user = u}}

Put(rows, items, c, at) ==
    [i \in Items |-> IF i \in items THEN [agreed |-> c[i], at |-> at] ELSE rows[i]]

\* Mutation: each upsert is a transaction of its own.
UpsertAlone(r) ==
    LET q == req[r]
        i == Earliest(Left(q))
    IN
    /\ q.op = "consents" /\ q.pc = "upsert"
    /\ Left(q) # {}
    /\ consents' = [consents EXCEPT ![q.user] = Put(@, {i}, q.choice, q.at)]
    /\ asked' = [asked EXCEPT ![q.at] = DOMAIN q.choice]
    /\ IF Left(q) = {i} THEN End(r)
       ELSE Become(r, [q EXCEPT !.choice = [k \in DOMAIN q.choice \ {i} |-> q.choice[k]]])
    /\ UNCHANGED <<nickname, follows, followings, writes>>

\* In the order of the ids; waits for the row if another has written it.
Upsert(r) ==
    LET q == req[r]
        i == Earliest(Left(q))
    IN
    /\ q.op = "consents" /\ q.pc = "upsert"
    /\ Left(q) # {}
    /\ i \notin Written(r, q.user)
    /\ Become(r, [q EXCEPT !.done = @ \cup {i}])
    /\ UNCHANGED <<members, writes>>

CommitConsents(r) ==
    LET q == req[r] IN
    /\ q.op = "consents" /\ q.pc = "upsert"
    /\ Left(q) = {}
    /\ consents' = [consents EXCEPT ![q.user] = Put(@, q.done, q.choice, q.at)]
    /\ asked' = [asked EXCEPT ![q.at] = q.done]
    /\ End(r)
    /\ UNCHANGED <<nickname, follows, followings, writes>>

-----------------------------------------------------------------------------
(* Nicknames *)

Taken(n) == \E u \in Users : nickname[u] = n

\* Nothing but a registration makes a PENDING user a USER.
CanCompleteRegistration(u) == nickname[u] = None

\* join validates; that the session is replaced is in AuthSession.
Join(r) ==
    Ready(r) /\ \E u \in Users, n \in Nicknames, c \in Selections :
        /\ CanCompleteRegistration(u)
        /\ Accepts(c)
        /\ Begin(r, u, [Idle EXCEPT !.op = "join", !.pc = "write", !.name = n, !.choice = c])
        /\ UNCHANGED members

\* One that finds the user registered by another join writes nothing here.
CompleteRegistration(r) ==
    LET q == req[r] IN
    /\ q.op = "join" /\ q.pc = "write"
    /\ ~Shared(q.user)
    /\ IF nickname[q.user] = None /\ ~Taken(q.name)
       THEN /\ nickname' = [nickname EXCEPT ![q.user] = q.name]
            /\ consents' = [consents EXCEPT ![q.user] = Put(@, DOMAIN q.choice, q.choice, q.at)]
            /\ asked' = [asked EXCEPT ![q.at] = DOMAIN q.choice]
       ELSE UNCHANGED <<nickname, consents, asked>>
    /\ End(r)
    /\ UNCHANGED <<follows, followings, writes>>

VerifyNickname(r) ==
    Ready(r) /\ \E u \in Users, n \in Nicknames :
        /\ Registered(u)
        /\ ~Taken(n)
        /\ Begin(r, u, [Idle EXCEPT !.op = "rename", !.pc = "write", !.name = n])
        /\ UNCHANGED members

\* Mutation: what verifyNickname found is trusted.
UpdateVerifiedNickname(r) ==
    LET q == req[r] IN
    /\ q.op = "rename" /\ q.pc = "write"
    /\ ~Shared(q.user)
    /\ IF Registered(q.user)
       THEN nickname' = [nickname EXCEPT ![q.user] = q.name]
       ELSE UNCHANGED nickname
    /\ End(r)
    /\ UNCHANGED <<consents, follows, asked, followings, writes>>

\* The unique key decides; a user may write the nickname it has.
UpdateNickname(r) ==
    LET q == req[r] IN
    /\ q.op = "rename" /\ q.pc = "write"
    /\ ~Shared(q.user)
    /\ IF Registered(q.user) /\ \A u \in Users \ {q.user} : nickname[u] # q.name
       THEN nickname' = [nickname EXCEPT ![q.user] = q.name]
       ELSE UNCHANGED nickname
    /\ End(r)
    /\ UNCHANGED <<consents, follows, asked, followings, writes>>

-----------------------------------------------------------------------------
(* Follows *)

FindUserByNickname(r) ==
    Ready(r) /\ \E p \in Pairs, op \in {"follow", "unfollow"} :
        /\ Registered(p[1]) /\ Registered(p[2])
        /\ Begin(r, p[1], [Idle EXCEPT !.op = op, !.pc = "write", !.target = p[2]])
        /\ UNCHANGED members

\* Both users are still there and the pair is new, or else an error.
CreateFollow(r) ==
    LET p == <<req[r].user, req[r].target>> IN
    /\ req[r].op = "follow" /\ req[r].pc = "write"
    /\ IF Registered(p[1]) /\ Registered(p[2]) /\ p \notin follows
       THEN /\ follows' = follows \cup {p}
            /\ followings' = [followings EXCEPT ![p] = @ + 1]
       ELSE UNCHANGED <<follows, followings>>
    /\ End(r)
    /\ UNCHANGED <<nickname, consents, asked, writes>>

\* A pair that is not there is an error.
DeleteFollow(r) ==
    LET p == <<req[r].user, req[r].target>> IN
    /\ req[r].op = "unfollow" /\ req[r].pc = "write"
    /\ IF p \in follows
       THEN /\ follows' = follows \ {p}
            /\ followings' = [followings EXCEPT ![p] = @ - 1]
       ELSE UNCHANGED <<follows, followings>>
    /\ End(r)
    /\ UNCHANGED <<nickname, consents, asked, writes>>

-----------------------------------------------------------------------------

\* What a withdrawal deletes here.
ForgetMember(u) ==
    /\ nickname' = [nickname EXCEPT ![u] = Gone]
    /\ consents' = [consents EXCEPT ![u] = [i \in Items |-> None]]
    /\ follows' = {p \in follows : u \notin {p[1], p[2]}}
    /\ followings' = [p \in Pairs |-> IF u \in {p[1], p[2]} THEN 0 ELSE followings[p]]
    /\ UNCHANGED asked

InitMembers ==
    /\ nickname = InitialNickname
    /\ consents = [u \in Users |-> [i \in Items |->
                     IF InitialNickname[u] # None /\ i \in Required THEN [agreed |-> TRUE, at |-> 0]
                     ELSE None]]
    /\ follows = {} /\ followings = [p \in Pairs |-> 0]
    /\ writes = 0 /\ asked = [n \in 0 .. MaxWrites |-> IF n = 0 THEN Required ELSE {}]

WriteOfMember(r) ==
    \/ SendConsents(r) \/ LockUser(r) \/ Upsert(r) \/ CommitConsents(r)
    \/ Join(r) \/ CompleteRegistration(r) \/ VerifyNickname(r) \/ UpdateNickname(r)
    \/ FindUserByNickname(r) \/ CreateFollow(r) \/ DeleteFollow(r)

-----------------------------------------------------------------------------
(* Properties *)

\* What is stored for two items that two requests both decided comes from one
\* of the two: requests that run at the same time are not mixed, although they
\* upsert the items one by one and do not exclude each other.
ConsentsAreWhole ==
    \A u \in Users : \A i, k \in {x \in Items : consents[u][x] # None} :
        LET a == consents[u][i].at
            b == consents[u][k].at
        IN  a # b => ~({i, k} \subseteq asked[a] /\ {i, k} \subseteq asked[b])

\* Whoever is registered agrees to every required item, through joins, changes
\* of all consents and changes of the marketing consents alone.
RequiredConsentsStand ==
    \A u \in Users, i \in Required :
        Registered(u) => consents[u][i] # None /\ consents[u][i].agreed
=============================================================================
