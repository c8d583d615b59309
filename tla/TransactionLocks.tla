--------------------------- MODULE TransactionLocks ---------------------------
(***************************************************************************)
(* The row locks of the write transactions: how the repository methods     *)
(* that share users, hierarchies and posts order their locks, so that a    *)
(* withdrawal or a deletion, which takes a whole tree, neither deadlocks   *)
(* with them nor leaves a row behind that refers to a deleted one.         *)
(*                                                                         *)
(* A transaction runs the statements of its Program in order.  A statement *)
(* sees the rows committed when it starts, then locks them one by one,     *)
(* passing over those deleted meanwhile (READ COMMITTED), and the code     *)
(* gives up when a row it needs was not returned.  Locks are kept to the   *)
(* end; effects become visible at the commit.  Only rows two transactions  *)
(* can contend for are modelled: schedules and weekdays are reached under  *)
(* the lock of their jogak, images under that of their post, and consents  *)
(* and social accounts are left out.                                       *)
(***************************************************************************)
EXTENDS Naturals, Sequences, FiniteSets

CONSTANTS Txs,          \* database connections that run transactions
          Rows,         \* every row that may ever exist, and the gate
          Table,        \* table of each row
          Id,           \* id of each row in its table
          Refs,         \* rows its foreign keys name
          Occurrence,   \* posts: the execution named, which has no foreign key
          Expired,      \* sessions that have expired
          Gate,         \* the advisory lock of withdrawals
          Operations,   \* calls made: [kind, row]
          InitiallyLive

Hierarchy == {"modarats", "mogaks", "jogaks", "executions"}
Leaves == {"comments", "likes", "follows", "sessions"}
Tables == {"gate", "users", "posts"} \cup Hierarchy \cup Leaves
Kinds == {"insert", "update", "delete", "toggle", "withdraw"}
Modes == {"key share", "no key update", "update"}

ASSUME RowsAssumption ==
    /\ Table \in [Rows -> Tables] /\ Id \in [Rows -> Nat]
    /\ Refs \in [Rows -> SUBSET Rows]
    /\ Gate \in InitiallyLive /\ Expired \subseteq Rows /\ InitiallyLive \subseteq Rows
    /\ Occurrence \in [{x \in Rows : Table[x] = "posts"} -> Rows]
    /\ Operations \subseteq [kind : Kinds, row : Rows]

\* The calls the repositories offer, by the table of the row they are about.
ASSUME CallsAssumption ==
    \A op \in Operations : <<op.kind, Table[op.row]>> \in
        ({"insert", "update"} \X (Hierarchy \cup {"posts", "comments", "sessions"})) \cup
        ({"delete"} \X {"modarats", "mogaks", "jogaks", "posts", "comments", "sessions"}) \cup
        ({"insert", "delete"} \X {"follows"}) \cup {<<"toggle", "likes">>} \cup
        ({"update", "withdraw"} \X {"users"})

\* The foreign keys: a row names one other of each table, a follow two users.
ForeignKeys ==
    ({"modarats", "posts"} \cup Leaves) \X {"users"} \cup {"comments", "likes"} \X {"posts"} \cup
    {<<"mogaks", "modarats">>, <<"jogaks", "mogaks">>, <<"executions", "jogaks">>}

ASSUME SchemaAssumption ==
    /\ \A y \in Rows : \A x \in Refs[y] : <<Table[y], Table[x]>> \in ForeignKeys
    /\ \A y \in Rows : \A w, x \in Refs[y] :
          Table[w] = Table[x] => w = x \/ Table[y] = "follows"
    /\ \A x, y \in Rows : Table[x] = Table[y] /\ Id[x] = Id[y] => x = y
    /\ \A p \in DOMAIN Occurrence : Table[Occurrence[p]] = "executions"
    /\ \A s \in Expired : Table[s] = "sessions"
    /\ \A x \in Rows : Table[x] = "gate" <=> x = Gate
    /\ \A x \in InitiallyLive : Refs[x] \subseteq InitiallyLive
    /\ IsFiniteSet(Txs)

VARIABLES live,   \* committed rows
          gone,   \* rows that were deleted
          tx,     \* what each connection runs: call, statement, rows still to lock
          held    \* row locks of each connection

vars == <<live, gone, tx, held>>

NoCall == [kind |-> "none", row |-> Gate]
Idle == [op |-> NoCall, at |-> 0, todo |-> {}]
Running(t) == tx[t].at > 0

-----------------------------------------------------------------------------
(* Rows and how they refer to each other *)

In(S, T) == {x \in S : Table[x] = T}
Up(S) == UNION {Refs[x] : x \in S}

\* The rows a row depends on: execution -> jogak -> mogak -> modarat -> user.
Ancestors ==
    [x \in Rows |->
        LET a == Refs[x]
            b == Up(a)
            c == Up(b)
        IN a \cup b \cup c \cup Up(c)]

Descendants == [x \in Rows |-> {y \in Rows : x \in Ancestors[y]}]

Above(x) == Ancestors[x]
Below(x) == Descendants[x]

\* Rows whose key identifies them, so that they may be inserted again.
Keyed(x) == Table[x] \in {"follows", "likes"}

PostOf(x) == IF Table[x] = "posts" THEN {x} ELSE In(Refs[x], "posts")

HierarchyOwner(p) ==
    IF Occurrence[p] \in live THEN In(Above(Occurrence[p]), "users") ELSE {}

-----------------------------------------------------------------------------
(* The statements of each call, in the order of the code: the owner, then  *)
(* the path from the modarat down, then what a delete takes along          *)

ModaratProgram(op) ==
    IF op.kind = "delete" THEN <<"users", "modarats", "mogaks", "jogaks", "executions">>
    ELSE <<"users", "modarats">>

MogakProgram(op) ==
    IF op.kind = "delete" THEN <<"users", "modarats", "mogaks", "jogaks", "executions">>
    ELSE <<"users", "modarats", "mogaks">>

\* Mutation: the jogak before its parents.
BottomUpProgram(op) ==
    IF op.kind = "delete" THEN <<"users", "jogaks", "mogaks", "modarats", "executions">>
    ELSE <<"users", "jogaks", "mogaks", "modarats">>

JogakProgram(op) ==
    IF op.kind = "delete" THEN <<"users", "modarats", "mogaks", "jogaks", "executions">>
    ELSE <<"users", "modarats", "mogaks", "jogaks">>

ExecutionProgram == <<"users", "modarats", "mogaks", "jogaks", "executions">>

\* Mutation: createForOccurrence trusts the jogak it read.
UnlockedPostProgram(op) ==
    CASE op.kind = "insert" -> <<"users", "executions", "posts">>
      [] op.kind = "delete" -> <<"users", "posts", "comments", "likes">>
      [] OTHER -> <<"users", "posts">>

PostProgram(op) ==
    CASE op.kind = "insert" ->
            <<"users", "modarats", "mogaks", "jogaks", "executions", "posts">>
      [] op.kind = "delete" -> <<"users", "posts", "comments", "likes">>
      [] OTHER -> <<"users", "posts">>

CommentProgram == <<"users", "posts", "comments">>
LikeProgram == <<"users", "posts", "likes">>
FollowProgram == <<"users", "follows">>

SessionProgram == <<"users", "sessions">>
ProfileProgram == <<"users">>

\* Mutation: withdrawals do not exclude each other.
UngatedProgram ==
    <<"users", "modarats", "mogaks", "jogaks", "executions", "posts",
      "comments", "likes", "follows", "sessions">>

WithdrawalProgram ==
    <<"gate", "users", "modarats", "mogaks", "jogaks", "executions", "posts",
      "comments", "likes", "follows", "sessions">>

Program(op) ==
    LET T == Table[op.row] IN
    IF op.kind = "withdraw" THEN WithdrawalProgram
    ELSE CASE T = "modarats" -> ModaratProgram(op)
           [] T = "mogaks" -> MogakProgram(op)
           [] T = "jogaks" -> JogakProgram(op)
           [] T = "executions" -> ExecutionProgram
           [] T = "posts" -> PostProgram(op)
           [] T = "comments" -> CommentProgram
           [] T = "likes" -> LikeProgram
           [] T = "follows" -> FollowProgram
           [] T = "sessions" -> SessionProgram
           [] T = "users" -> ProfileProgram

\* Strength of the lock a call takes on a row.
Mode(op, x) ==
    CASE Table[x] = "users" /\ Table[op.row] # "users" -> "key share"
      [] Table[x] = "posts" /\ Table[op.row] = "comments" -> "key share"
      [] Table[x] = "posts" /\ Table[op.row] = "likes" -> "no key update"
      [] op.kind = "update" /\ x = op.row /\ Table[x] \in Leaves \cup {"modarats", "executions"} ->
            "no key update"
      [] OTHER -> "update"

Conflict(m, n) ==
    \/ "update" \in {m, n}
    \/ m = "no key update" /\ n = "no key update"

\* Locks are transaction scoped: a connection that runs nothing holds nothing.
TypeOK ==
    /\ live \subseteq Rows /\ gone \subseteq Rows
    /\ tx \in [Txs -> [op : Operations \cup {NoCall}, at : 0 .. Len(WithdrawalProgram), todo : SUBSET Rows]]
    /\ held \in [Txs -> SUBSET Rows]
    /\ \A t \in Txs : ~Running(t) => tx[t] = Idle /\ held[t] = {}

-----------------------------------------------------------------------------
(* The rows each statement asks for *)

\* The users whose existence the call depends on.
Actors(op) ==
    LET x == op.row IN
    IF Table[x] = "users" THEN {x}
    ELSE IF Table[x] \in Hierarchy THEN In(Above(x), "users") ELSE In(Refs[x], "users")

\* A call on a post also locks its author and the owner of its occurrence.
PostParticipants(x) ==
    In(Up(PostOf(x)), "users") \cup UNION {HierarchyOwner(p) : p \in PostOf(x)}

\* The rows a call locks by name.
Path(op) ==
    LET x == op.row IN
    CASE Table[x] \in Hierarchy -> Above(x) \cup {x}
      [] Table[x] = "posts" /\ op.kind = "insert" ->
            {x} \cup Above(x) \cup Above(Occurrence[x]) \cup ({Occurrence[x]} \ live)
      [] Table[x] \in {"comments", "likes"} \/ (Table[x] = "posts" /\ op.kind # "insert") ->
            {x} \cup PostOf(x) \cup Actors(op) \cup PostParticipants(x)
      [] Table[x] \in {"users", "follows", "sessions"} -> {x} \cup Actors(op)

\* What goes with a deleted row: the rows that name one already locked.
Children(op, locked) ==
    {y \in live : Refs[y] \cap (locked \cap ({op.row} \cup Below(op.row))) # {}}

\* A login sweeps the expired sessions of its user.
ExpiredSessions(op) == {s \in live \cap Expired : Refs[s] = Refs[op.row]}

\* What deleteUser deletes of the posts: its own and those on its executions.
OwnedPosts(u) ==
    {p \in In(live, "posts") : u \in Refs[p] \cup HierarchyOwner(p)}

\* Mutation: the posts the user only commented on or liked are not locked.
OwnedPostsOnly(u) == OwnedPosts(u)

\* What it locks of them: also those whose comments or likes it deletes.
TargetPosts(u) ==
    OwnedPosts(u) \cup
    {p \in In(live, "posts") : \E y \in live : {p, u} \subseteq Refs[y]}

\* The statements of a withdrawal: the locks of lockWithdrawalTree, then the
\* deletes of purgePostDomain and purgeAccountRelations.
WithdrawalRows(u, T) ==
    CASE T = "gate" -> {Gate}
      [] T = "users" -> {u} \cap live
      [] T \in Hierarchy -> In(Below(u) \cap live, T)
      [] T = "posts" -> TargetPosts(u)
      [] T \in {"comments", "likes"} ->
            {y \in In(live, T) : Refs[y] \cap (OwnedPosts(u) \cup {u}) # {}}
      [] T \in {"follows", "sessions"} -> {y \in In(live, T) : u \in Refs[y]}

\* Rows a statement of the call can return: committed ones and its own inserts.
Present(op) ==
    live \cup (IF op.kind \notin {"insert", "toggle"} THEN {}
               ELSE IF Table[op.row] = "posts" THEN {op.row, Occurrence[op.row]}
               ELSE {op.row})

Wanted(op, T, locked) ==
    IF op.kind = "withdraw" THEN WithdrawalRows(op.row, T)
    ELSE In(Present(op) \cap
              (Path(op)
                 \cup (IF op.kind = "delete" THEN Children(op, locked) ELSE {})
                 \cup (IF op.kind = "insert" /\ T = "sessions"
                       THEN ExpiredSessions(op) ELSE {})), T)

\* Mutation: lockUsers is not asked whether the users were there.
RequiredRowOnly(op) == {op.row}

\* The rows without which the call gives up.
Required(op) ==
    IF op.kind = "withdraw" THEN {op.row}
    ELSE Actors(op) \cup {op.row} \cup
         {x \in Path(op) : Table[x] \in Tables \ {"users", "executions"}}

-----------------------------------------------------------------------------
(* Steps of a transaction *)

Statement(t) == Program(tx[t].op)[tx[t].at]

\* SELECT ... ORDER BY id FOR UPDATE takes the rows in order of their ids; a
\* DELETE, such as a login's sweep of sessions, meets them in any order.
Unordered(t) ==
    \/ Statement(t) \in Leaves
    \/ Statement(t) = "executions" /\ tx[t].op.kind = "delete"

NextRows(t) ==
    IF Unordered(t) THEN tx[t].todo
    ELSE {x \in tx[t].todo : \A y \in tx[t].todo : Id[x] <= Id[y]}

BlockedOn(t, x) ==
    {s \in Txs \ {t} : x \in held[s] /\ Conflict(Mode(tx[t].op, x), Mode(tx[s].op, x))}

\* A row the call needs that its last statement did not return; a follow that
\* exists already is refused.
Found(t) ==
    LET op == tx[t].op IN
    /\ In(Required(op), Statement(t)) \subseteq held[t]
    /\ ~(op.kind = "insert" /\ Statement(t) = "follows" /\ op.row \in live)

Done(t) == tx[t].todo = {} /\ tx[t].at = Len(Program(tx[t].op))

\* Mutation: pg_advisory_lock, held by the connection and not the transaction.
ReleaseRows(t) ==
    /\ tx' = [tx EXCEPT ![t] = Idle]
    /\ held' = [held EXCEPT ![t] = @ \cap {Gate}]

Release(t) ==
    /\ tx' = [tx EXCEPT ![t] = Idle]
    /\ held' = [held EXCEPT ![t] = {}]

\* Ids come from a sequence: a row that is inserted is nobody else's.
MayBegin(op) ==
    CASE op.kind = "insert" /\ ~Keyed(op.row) ->
            /\ op.row \notin live \cup gone
            /\ \A s \in Txs : tx[s].op # op
      [] op.kind \in {"update", "delete"} -> op.row \in live
      [] OTHER -> TRUE

Begin(t) ==
    /\ ~Running(t)
    /\ \E op \in Operations :
          /\ MayBegin(op)
          /\ tx' = [tx EXCEPT ![t] =
                [op |-> op, at |-> 1, todo |-> Wanted(op, Program(op)[1], {})]]
    /\ UNCHANGED <<live, gone, held>>

LockRow(t) ==
    /\ Running(t)
    /\ \E x \in NextRows(t) :
          /\ x \in Present(tx[t].op)
          /\ BlockedOn(t, x) = {}
          /\ held' = [held EXCEPT ![t] = @ \cup {x}]
          /\ tx' = [tx EXCEPT ![t].todo = @ \ {x}]
    /\ UNCHANGED <<live, gone>>

\* The row was deleted after the statement started.
PassOver(t) ==
    /\ Running(t)
    /\ \E x \in NextRows(t) :
          /\ x \notin Present(tx[t].op)
          /\ tx' = [tx EXCEPT ![t].todo = @ \ {x}]
    /\ UNCHANGED <<live, gone, held>>

NextStatement(t) ==
    LET op == tx[t].op IN
    /\ Running(t) /\ tx[t].todo = {} /\ ~Done(t) /\ Found(t)
    /\ tx' = [tx EXCEPT ![t].at = @ + 1,
                        ![t].todo = Wanted(op, Program(op)[tx[t].at + 1], held[t])]
    /\ UNCHANGED <<live, gone, held>>

GiveUp(t) ==
    /\ Running(t) /\ tx[t].todo = {} /\ ~Found(t)
    /\ Release(t)
    /\ UNCHANGED <<live, gone>>

\* The rows a call deletes, of those it locked.
Removed(t) ==
    LET op == tx[t].op IN
    held[t] \cap
    CASE op.kind = "withdraw" ->
            {x \in live \ {Gate} : Table[x] = "posts" => x \in OwnedPosts(op.row)}
      [] op.kind = "delete" -> {op.row} \cup Below(op.row)
      [] op.kind = "toggle" -> {op.row} \cap live
      [] op.kind = "insert" /\ Table[op.row] = "sessions" -> Expired \ {op.row}
      [] OTHER -> {}

\* The rows it inserts; a post of an occurrence that has one is a duplicate.
Inserted(t) ==
    LET op == tx[t].op IN
    CASE op.kind = "insert" /\ Table[op.row] = "posts" ->
            (held[t] \cap {Occurrence[op.row]}) \cup
            (IF \E p \in In(live, "posts") : Occurrence[p] = Occurrence[op.row]
             THEN {} ELSE {op.row})
      [] op.kind = "insert" /\ Table[op.row] # "posts" -> {op.row}
      [] op.kind = "toggle" -> {op.row} \ live
      [] OTHER -> {}

Commit(t) ==
    /\ Running(t) /\ Done(t) /\ Found(t)
    /\ live' = (live \ Removed(t)) \cup Inserted(t)
    /\ gone' = gone \cup Removed(t)
    /\ Release(t)

\* The connection is lost, or a statement fails, as PostgreSQL makes one of
\* those in a deadlock.
RollBack(t) ==
    /\ Running(t)
    /\ Release(t)
    /\ UNCHANGED <<live, gone>>

Init ==
    /\ live = InitiallyLive /\ gone = {}
    /\ tx = [t \in Txs |-> Idle]
    /\ held = [t \in Txs |-> {}]

Advance(t) == LockRow(t) \/ PassOver(t) \/ NextStatement(t) \/ GiveUp(t) \/ Commit(t)

Next == \E t \in Txs : Begin(t) \/ Advance(t) \/ RollBack(t)

Spec == Init /\ [][Next]_vars

\* PostgreSQL runs the statement of a connection that is not blocked.
FairSpec == Spec /\ \A t \in Txs : WF_vars(Advance(t))

-----------------------------------------------------------------------------
(* Properties *)

\* Transactions that may wait for one another, whichever of its next rows each
\* statement turns to.
MayWaitIn(t, S) ==
    Running(t) /\ \E x \in NextRows(t) : BlockedOn(t, x) \cap S # {}

WaitsWithin(S) == \A t \in S : MayWaitIn(t, S)

\* What the locking design concludes of its writers: no set of transactions
\* waits within itself.  It is so where no login sweeps.
NoDeadlock == \A S \in (SUBSET Txs) \ {{}} : ~WaitsWithin(S)

\* Logins of one user that sweep: its lock is shared, and the sweep is a DELETE
\* of several rows, without an order.
Sweeping(t) ==
    Running(t) /\ tx[t].op.kind = "insert" /\ Statement(t) = "sessions"

SweepsCross(S) ==
    /\ WaitsWithin(S)
    /\ S # {} /\ \A s, t \in S : Sweeping(t) /\ Refs[tx[s].op.row] = Refs[tx[t].op.row]

\* Whatever waits in a circle does so on account of logins of one user whose
\* sweeps cross: the order of the locks excludes every other deadlock.
OnlySweepsDeadlock ==
    \A S \in (SUBSET Txs) \ {{}} :
        WaitsWithin(S) => \E C \in SUBSET S : SweepsCross(C)

\* The rows left by every interleaving refer to rows that exist: no call relies
\* on a foreign key to abort it, in particular none that read its parent or its
\* user before a deletion and inserts after it.
ReferencesHold == \A x \in live : Refs[x] \subseteq live

\* Once a deletion holds the row it deletes, and a withdrawal its posts, no other
\* transaction is in its way: what it still deletes is reached only through
\* rows it holds.
DescentNeverWaits ==
    \A t \in Txs :
        LET op == tx[t].op IN
        (\/ op.kind = "delete" /\ op.row \in held[t]
         \/ op.kind = "withdraw" /\ Running(t) /\ Statement(t) \in Leaves)
            => \A x \in NextRows(t) : BlockedOn(t, x) = {}

\* A post is never inserted on an execution that a deletion of its jogak took
\* away, although no foreign key ties the two.
PostsStartOnLiveOccurrences ==
    [][\A p \in In(live', "posts") \ live : Occurrence[p] \in live']_vars

\* Transactions keep ending: a call under way never waits for good behind others
\* that do not end either, unless it is behind logins whose sweeps cross.
CallsKeepEnding ==
    \/ []<>(\A t \in Txs : ~Running(t))
    \/ []<><<\E t \in Txs : Running(t) /\ ~Running(t)'>>_vars
    \/ <>[](\E C \in SUBSET Txs : SweepsCross(C))
=============================================================================
