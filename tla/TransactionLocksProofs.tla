------------------------ MODULE TransactionLocksProofs ------------------------
(***************************************************************************)
(* Proofs about TransactionLocks, for any number of connections and any    *)
(* rows.  TInv adds to TypeOK that a connection runs a statement its call  *)
(* has.  Locked says what a transaction that runs knows (Fine): the rows   *)
(* it holds are there and lie in the order of the tables and ids (Holds),  *)
(* it has all rows it needed up to here (Got), holds nothing without a     *)
(* reason (Asked), and has missed no row its deletion has to take along    *)
(* (Whole); that no two transactions hold conflicting locks; and that the  *)
(* committed rows are closed under foreign keys.  A commit keeps Whole of  *)
(* the others because whoever adds a row holds the rows it names, and      *)
(* whoever deletes a tree holds those exclusively.                         *)
(***************************************************************************)
EXTENDS TransactionLocks, FiniteSetTheorems, WellFoundedInduction, TLAPS

AtStatement ==
    \A t \in Txs : Running(t) =>
        tx[t].op \in Operations /\ tx[t].at \in 1 .. Len(Program(tx[t].op))

TInv == TypeOK /\ AtStatement

-----------------------------------------------------------------------------
(* The statements of a call *)

LEMMA CallTables ==
    ASSUME NEW op \in Operations
    PROVE  /\ op.kind \in Kinds /\ op.row \in Rows
           /\ Table[op.row] \in Tables \ {"gate"}
           /\ op.kind = "withdraw" => Table[op.row] = "users"
BY RowsAssumption, CallsAssumption DEF Hierarchy, Tables

\* Every call has a program, no longer than a withdrawal's, over the tables.
ProgramOver(p) == p \in Seq(Tables) /\ Len(p) \in 1 .. 11

LEMMA Programs ==
    /\ ProgramOver(WithdrawalProgram) /\ ProgramOver(ExecutionProgram)
    /\ ProgramOver(CommentProgram) /\ ProgramOver(LikeProgram)
    /\ ProgramOver(FollowProgram) /\ ProgramOver(SessionProgram)
    /\ ProgramOver(ProfileProgram)
    /\ \A op : ProgramOver(ModaratProgram(op))
    /\ \A op : ProgramOver(MogakProgram(op))
    /\ \A op : ProgramOver(JogakProgram(op))
    /\ \A op : ProgramOver(PostProgram(op))
<1> USE DEF ProgramOver, Tables, Hierarchy, Leaves
<1>1. ProgramOver(WithdrawalProgram)
  BY DEF WithdrawalProgram
<1>2. ProgramOver(ExecutionProgram)
  BY DEF ExecutionProgram
<1>3. ProgramOver(CommentProgram) /\ ProgramOver(LikeProgram)
  BY DEF CommentProgram, LikeProgram
<1>4. ProgramOver(FollowProgram) /\ ProgramOver(SessionProgram) /\ ProgramOver(ProfileProgram)
  BY DEF FollowProgram, SessionProgram, ProfileProgram
<1>5. \A op : ProgramOver(ModaratProgram(op))
  <2>1. TAKE op
  <2>2. ProgramOver(<<"users", "modarats">>)
    OBVIOUS
  <2>3. QED BY <1>2, <2>2 DEF ModaratProgram, ExecutionProgram
<1>6. \A op : ProgramOver(MogakProgram(op))
  <2>1. TAKE op
  <2>2. ProgramOver(<<"users", "modarats", "mogaks">>)
    OBVIOUS
  <2>3. QED BY <1>2, <2>2 DEF MogakProgram, ExecutionProgram
<1>7. \A op : ProgramOver(JogakProgram(op))
  <2>1. TAKE op
  <2>2. ProgramOver(<<"users", "modarats", "mogaks", "jogaks">>)
    OBVIOUS
  <2>3. QED BY <1>2, <2>2 DEF JogakProgram, ExecutionProgram
<1>8. \A op : ProgramOver(PostProgram(op))
  <2>1. TAKE op
  <2>2. ProgramOver(<<"users", "modarats", "mogaks", "jogaks", "executions", "posts">>)
    OBVIOUS
  <2>3. ProgramOver(<<"users", "posts", "comments", "likes">>)
    OBVIOUS
  <2>4. ProgramOver(<<"users", "posts">>)
    OBVIOUS
  <2>5. QED BY <2>2, <2>3, <2>4 DEF PostProgram
<1>9. QED BY <1>1, <1>2, <1>3, <1>4, <1>5, <1>6, <1>7, <1>8

LEMMA ProgramType ==
    ASSUME NEW op \in Operations
    PROVE  Program(op) \in Seq(Tables) /\ Len(Program(op)) \in 1 .. Len(WithdrawalProgram)
<1>1. ProgramOver(Program(op))
  <2>1. CASE op.kind = "withdraw"
    BY <2>1, Programs DEF Program
  <2>2. CASE op.kind # "withdraw"
    BY <2>2, Programs, CallTables DEF Program, Tables, Hierarchy, Leaves
  <2>3. QED BY <2>1, <2>2
<1>2. Len(WithdrawalProgram) = 11
  BY DEF WithdrawalProgram
<1>3. QED BY <1>1, <1>2 DEF ProgramOver

-----------------------------------------------------------------------------
(* Type correctness *)

LEMMA PresentRows ==
    ASSUME TypeOK, NEW op \in Operations
    PROVE  Present(op) \subseteq Rows
BY CallTables, RowsAssumption DEF Present, TypeOK

\* A statement asks for rows only.
LEMMA WantedRows ==
    ASSUME TypeOK, NEW op \in Operations, NEW T \in Tables, NEW locked
    PROVE  Wanted(op, T, locked) \subseteq Rows
<1>1. CASE op.kind # "withdraw"
  BY <1>1, PresentRows DEF Wanted, In
<1>2. CASE op.kind = "withdraw"
  <2>1. OwnedPosts(op.row) \subseteq Rows /\ TargetPosts(op.row) \subseteq Rows
    BY DEF OwnedPosts, TargetPosts, In, TypeOK
  <2>2. WithdrawalRows(op.row, T) \subseteq Rows
    BY <2>1, RowsAssumption DEF WithdrawalRows, In, TypeOK, Tables, Hierarchy, Leaves
  <2>3. QED BY <1>2, <2>2 DEF Wanted
<1>3. QED BY <1>1, <1>2

LEMMA ProgramLength == Len(WithdrawalProgram) = 11
BY DEF WithdrawalProgram

LEMMA InitTInv == Init => TInv
<1> SUFFICES ASSUME Init PROVE TInv
  OBVIOUS
<1>1. \A t \in Txs : tx[t] = Idle /\ held[t] = {} /\ ~Running(t)
  BY DEF Init, Idle, Running
<1>2. Idle \in [op : Operations \cup {NoCall}, at : 0 .. Len(WithdrawalProgram),
                todo : SUBSET Rows]
  BY ProgramLength DEF Idle
<1>3. TypeOK
  BY <1>1, <1>2, RowsAssumption DEF Init, TypeOK
<1>4. QED BY <1>1, <1>3 DEF TInv, AtStatement

\* A step of one connection is well typed when what it leaves there is.
LEMMA OneTxTInv ==
    ASSUME TInv, NEW t \in Txs, live' \subseteq Rows, gone' \subseteq Rows,
           NEW q \in [op : Operations \cup {NoCall}, at : 0 .. Len(WithdrawalProgram),
                      todo : SUBSET Rows],
           NEW h \in SUBSET Rows,
           tx' = [tx EXCEPT ![t] = q], held' = [held EXCEPT ![t] = h],
           \/ q = Idle /\ h = {}
           \/ q.op \in Operations /\ q.at \in 1 .. Len(Program(q.op))
    PROVE  TInv'
<1>1. tx' \in [Txs -> [op : Operations \cup {NoCall}, at : 0 .. Len(WithdrawalProgram),
                      todo : SUBSET Rows]]
      /\ held' \in [Txs -> SUBSET Rows]
  BY DEF TInv, TypeOK
<1>2. ASSUME NEW s \in Txs
      PROVE  /\ ~Running(s)' => tx'[s] = Idle /\ held'[s] = {}
             /\ Running(s)' => tx'[s].op \in Operations
                               /\ tx'[s].at \in 1 .. Len(Program(tx'[s].op))
  <2>1. CASE s # t
    BY <2>1, <1>2 DEF TInv, TypeOK, AtStatement, Running
  <2>2. CASE s = t
    <3>1. tx'[s] = q /\ held'[s] = h
      BY <2>2 DEF TInv, TypeOK
    <3>2. CASE q = Idle /\ h = {}
      BY <3>1, <3>2 DEF Running, Idle
    <3>3. CASE q.op \in Operations /\ q.at \in 1 .. Len(Program(q.op))
      BY <3>1, <3>3 DEF Running
    <3>4. QED BY <3>2, <3>3
  <2>3. QED BY <2>1, <2>2
<1>3. TypeOK'
  BY <1>1, <1>2 DEF TypeOK
<1>4. AtStatement'
  BY <1>2 DEF AtStatement
<1>5. QED BY <1>3, <1>4 DEF TInv

LEMMA ReleaseTInv ==
    ASSUME TInv, NEW t \in Txs, Release(t), live' \subseteq Rows, gone' \subseteq Rows
    PROVE  TInv'
<1>1. Idle \in [op : Operations \cup {NoCall}, at : 0 .. Len(WithdrawalProgram),
                todo : SUBSET Rows]
  BY ProgramLength DEF Idle
<1>2. QED BY <1>1, OneTxTInv DEF Release

LEMMA InsertedRows ==
    ASSUME TInv, NEW t \in Txs, Running(t)
    PROVE  Inserted(t) \subseteq Rows /\ Removed(t) \subseteq Rows
<1>1. tx[t].op \in Operations /\ held[t] \subseteq Rows
  BY DEF TInv, AtStatement, TypeOK
<1>2. Removed(t) \subseteq Rows
  BY <1>1 DEF Removed
<1>3. Inserted(t) \subseteq Rows
  BY <1>1, CallTables DEF Inserted
<1>4. QED BY <1>2, <1>3

LEMMA NextTInv == TInv /\ [Next]_vars => TInv'
<1> SUFFICES ASSUME TInv, [Next]_vars PROVE TInv'
  OBVIOUS
<1>1. CASE UNCHANGED vars
  BY <1>1 DEF TInv, TypeOK, AtStatement, Running, Idle, vars
<1>2. ASSUME NEW t \in Txs, Begin(t)
      PROVE  TInv'
  <2>1. PICK op \in Operations :
          /\ tx' = [tx EXCEPT ![t] =
               [op |-> op, at |-> 1, todo |-> Wanted(op, Program(op)[1], {})]]
          /\ UNCHANGED <<live, gone, held>>
    BY <1>2 DEF Begin
  <2>2. Program(op)[1] \in Tables /\ 1 \in 1 .. Len(Program(op))
        /\ 1 \in 0 .. Len(WithdrawalProgram)
    BY ProgramType
  <2>3. Wanted(op, Program(op)[1], {}) \subseteq Rows
    BY <2>2, WantedRows DEF TInv
  <2> DEFINE q == [op |-> op, at |-> 1, todo |-> Wanted(op, Program(op)[1], {})]
  <2>4. /\ q \in [op : Operations \cup {NoCall}, at : 0 .. Len(WithdrawalProgram),
                  todo : SUBSET Rows]
        /\ q.op \in Operations /\ q.at \in 1 .. Len(Program(q.op))
    BY <2>2, <2>3
  <2>5. held[t] \in SUBSET Rows /\ held' = [held EXCEPT ![t] = held[t]]
    BY <2>1 DEF TInv, TypeOK
  <2>6. live' \subseteq Rows /\ gone' \subseteq Rows /\ tx' = [tx EXCEPT ![t] = q]
    BY <2>1 DEF TInv, TypeOK
  <2> HIDE DEF q
  <2>7. QED BY <2>4, <2>5, <2>6, OneTxTInv
<1>3. ASSUME NEW t \in Txs, LockRow(t) \/ PassOver(t)
      PROVE  TInv'
  <2>1. PICK x \in NextRows(t) :
          /\ tx' = [tx EXCEPT ![t].todo = @ \ {x}]
          /\ held' = held \/ held' = [held EXCEPT ![t] = @ \cup {x}]
          /\ UNCHANGED <<live, gone>>
    BY <1>3 DEF LockRow, PassOver
  <2>2. x \in Rows /\ Running(t)
    BY <1>3, <2>1 DEF NextRows, TInv, TypeOK, LockRow, PassOver
  <2> DEFINE q == [tx[t] EXCEPT !.todo = @ \ {x}]
  <2>3. /\ q \in [op : Operations \cup {NoCall}, at : 0 .. Len(WithdrawalProgram),
                  todo : SUBSET Rows]
        /\ q.op \in Operations /\ q.at \in 1 .. Len(Program(q.op))
    BY <2>2 DEF TInv, TypeOK, AtStatement
  <2>4. PICK h \in SUBSET Rows : held' = [held EXCEPT ![t] = h]
    <3>1. CASE held' = held
      BY <3>1 DEF TInv, TypeOK
    <3>2. CASE held' = [held EXCEPT ![t] = @ \cup {x}]
      BY <3>2, <2>2 DEF TInv, TypeOK
    <3>3. QED BY <2>1, <3>1, <3>2
  <2>5. tx' = [tx EXCEPT ![t] = q]
    BY <2>1 DEF TInv, TypeOK
  <2>6. live' \subseteq Rows /\ gone' \subseteq Rows
    BY <2>1 DEF TInv, TypeOK
  <2> HIDE DEF q
  <2>7. QED BY <2>3, <2>4, <2>5, <2>6, OneTxTInv
<1>4. ASSUME NEW t \in Txs, NextStatement(t)
      PROVE  TInv'
  <2> DEFINE op == tx[t].op
             next == tx[t].at + 1
  <2>1. op \in Operations /\ tx[t].at \in 1 .. Len(Program(op))
    BY <1>4 DEF NextStatement, TInv, AtStatement
  <2>2. next \in 1 .. Len(Program(op)) /\ next \in 0 .. Len(WithdrawalProgram)
    BY <1>4, <2>1, ProgramType DEF NextStatement, Done
  <2>3. Wanted(op, Program(op)[next], held[t]) \subseteq Rows
    BY <2>1, <2>2, ProgramType, WantedRows DEF TInv
  <2> DEFINE q == [tx[t] EXCEPT !.at = @ + 1,
                          !.todo = Wanted(op, Program(op)[next], held[t])]
  <2>4. /\ q \in [op : Operations \cup {NoCall}, at : 0 .. Len(WithdrawalProgram),
                  todo : SUBSET Rows]
        /\ q.op \in Operations /\ q.at \in 1 .. Len(Program(q.op))
    BY <2>1, <2>2, <2>3 DEF TInv, TypeOK
  <2>5. held[t] \in SUBSET Rows /\ held' = [held EXCEPT ![t] = held[t]]
    BY <1>4 DEF TInv, TypeOK, NextStatement
  <2>6. live' \subseteq Rows /\ gone' \subseteq Rows /\ tx' = [tx EXCEPT ![t] = q]
    BY <1>4 DEF TInv, TypeOK, NextStatement
  <2> HIDE DEF q
  <2>7. QED BY <2>4, <2>5, <2>6, OneTxTInv
<1>5. ASSUME NEW t \in Txs, GiveUp(t) \/ RollBack(t)
      PROVE  TInv'
  BY <1>5, ReleaseTInv DEF GiveUp, RollBack, TInv, TypeOK
<1>6. ASSUME NEW t \in Txs, Commit(t)
      PROVE  TInv'
  BY <1>6, ReleaseTInv, InsertedRows DEF Commit, TInv, TypeOK
<1>7. QED BY <1>1, <1>2, <1>3, <1>4, <1>5, <1>6 DEF Next, Advance

\* Every reachable state is well typed, and a connection that runs no transaction
\* holds no lock: none is carried into a later request.
THEOREM LocksTypeCorrect == Spec => []TypeOK
<1>1. TInv => TypeOK
  BY DEF TInv
<1>2. QED BY InitTInv, NextTInv, <1>1, PTL DEF Spec

-----------------------------------------------------------------------------
(* Levels: the order in which the programs visit the tables *)

Level(T) ==
    CASE T = "gate" -> 1
      [] T = "users" -> 2
      [] T = "modarats" -> 3
      [] T = "mogaks" -> 4
      [] T = "jogaks" -> 5
      [] T = "executions" -> 6
      [] T = "posts" -> 7
      [] T = "comments" -> 8
      [] T = "likes" -> 9
      [] T = "follows" -> 10
      [] T = "sessions" -> 11

Lv(x) == Level(Table[x])

InProgram(op, T) == \E i \in 1 .. Len(Program(op)) : Program(op)[i] = T

\* The rows a call names, whatever rows there are, other than users.
Rigid(op) ==
    LET x == op.row IN
    CASE Table[x] \in Hierarchy -> Above(x) \cup {x}
      [] Table[x] = "posts" /\ op.kind = "insert" -> {x} \cup Above(x) \cup Above(Occurrence[x])
      [] Table[x] \in {"comments", "likes"} \/ (Table[x] = "posts" /\ op.kind # "insert") ->
            {x} \cup PostOf(x)
      [] OTHER -> {x}

NewPost(op) == op.kind = "insert" /\ Table[op.row] = "posts"

Named(op) == Rigid(op) \cup (IF NewPost(op) THEN {Occurrence[op.row]} ELSE {})

Needs(op) ==
    IF op.kind = "withdraw" THEN {op.row}
    ELSE Actors(op) \cup {op.row} \cup {x \in Rigid(op) : Table[x] \notin {"users", "executions"}}

Tree(op) == {op.row} \cup Below(op.row)

-----------------------------------------------------------------------------
(* What a transaction that runs knows, q and h being its statement and its  *)
(* locks and V the committed rows                                           *)

PresentIn(V, op) ==
    V \cup (IF op.kind \notin {"insert", "toggle"} THEN {}
            ELSE IF Table[op.row] = "posts" THEN {op.row, Occurrence[op.row]}
            ELSE {op.row})

OwnedIn(V, u) ==
    {p \in In(V, "posts") : u \in Refs[p] \/ (Occurrence[p] \in V /\ u \in Above(Occurrence[p]))}

TargetIn(V, u) ==
    OwnedIn(V, u) \cup {p \in In(V, "posts") : \E y \in V : {p, u} \subseteq Refs[y]}

\* What a withdrawal of u has to lock.
Doomed(V, u, y) ==
    /\ Table[y] \in {"gate", "users"} => y \in {Gate, u}
    /\ Table[y] \in Hierarchy => u \in Above(y)
    /\ Table[y] = "posts" => y \in TargetIn(V, u)
    /\ Table[y] \in {"comments", "likes"} => Refs[y] \cap (OwnedIn(V, u) \cup {u}) # {}
    /\ Table[y] \in {"follows", "sessions"} => u \in Refs[y]

\* Why a call locks a row, when it holds h.
Reason(op, h, y) ==
    IF op.kind = "withdraw"
    THEN /\ Table[y] = "users" => y = op.row
         /\ Table[y] \in Hierarchy => op.row \in Above(y)
         /\ Table[y] \in {"comments", "likes"} =>
               op.row \in Refs[y] \/ \E p \in Refs[y] \cap h : Table[p] = "posts"
         /\ Table[y] \in {"follows", "sessions"} => op.row \in Refs[y]
    ELSE \/ Table[y] = "users"
         \/ y \in Named(op)
         \/ op.kind = "delete" /\ Refs[y] \cap h \cap Tree(op) # {}
         \/ Table[y] = "sessions" /\ op.kind = "insert" /\ Refs[y] = Refs[op.row]

At(q) == Program(q.op)[q.at]
Now(q) == Level(At(q))

AnyOrder(q) == At(q) \in Leaves \/ (At(q) = "executions" /\ q.op.kind = "delete")

Placed(q, h) ==
    /\ q.op \in Operations /\ q.at \in 1 .. Len(Program(q.op))
    /\ h \subseteq Rows /\ q.todo \subseteq In(Rows, At(q))

Holds(V, q, h) ==
    /\ \A x \in h : Lv(x) <= Now(q) /\ x \in PresentIn(V, q.op) /\ x \notin q.todo
    /\ ~AnyOrder(q) => \A x \in h, y \in q.todo : Table[x] = Table[y] => Id[x] < Id[y]

Got(q, h) == \A x \in Needs(q.op) : Lv(x) < Now(q) => x \in h

Asked(q, h) == \A y \in h \cup q.todo : Reason(q.op, h, y)

\* No row that has to be locked was missed.
Whole(V, q, h) ==
    /\ q.op.kind = "delete" =>
          \A y \in V : Lv(y) <= Now(q) /\ Refs[y] \cap h \cap Tree(q.op) # {} => y \in h \cup q.todo
    /\ q.op.kind = "withdraw" =>
          \A y \in V : Lv(y) <= Now(q) /\ Doomed(V, q.op.row, y) => y \in h \cup q.todo
    /\ NewPost(q.op) /\ Level("executions") <= Now(q) =>
          Occurrence[q.op.row] \in V \cup h \cup q.todo

Fine(V, q, h) == Placed(q, h) /\ Holds(V, q, h) /\ Got(q, h) /\ Asked(q, h) /\ Whole(V, q, h)

Knowing == \A t \in Txs : Running(t) => Fine(live, tx[t], held[t])

\* No two transactions hold conflicting locks.
Compatible ==
    \A s, t \in Txs : s # t =>
        \A x \in held[s] \cap held[t] : ~Conflict(Mode(tx[s].op, x), Mode(tx[t].op, x))

Locked == Knowing /\ Compatible /\ ReferencesHold /\ Gate \in live
-----------------------------------------------------------------------------
(* The shape of the tables *)

LEMMA Levels ==
    /\ Level("gate") = 1 /\ Level("users") = 2 /\ Level("modarats") = 3 /\ Level("mogaks") = 4
    /\ Level("jogaks") = 5 /\ Level("executions") = 6 /\ Level("posts") = 7
    /\ Level("comments") = 8 /\ Level("likes") = 9 /\ Level("follows") = 10
    /\ Level("sessions") = 11
BY DEF Level

LEMMA LevelOrder ==
    /\ \A T \in Tables : Level(T) \in 1 .. 11
    /\ \A S, T \in Tables : Level(S) = Level(T) => S = T
BY Levels DEF Tables, Hierarchy, Leaves

LEMMA RowTables ==
    ASSUME NEW x \in Rows
    PROVE  Table[x] \in Tables /\ Lv(x) \in 1 .. 11 /\ Refs[x] \subseteq Rows
BY RowsAssumption, LevelOrder DEF Lv

\* A row names rows of the tables its own table has foreign keys to.
LEMMA Keys ==
    ASSUME NEW y \in Rows, NEW x \in Refs[y]
    PROVE  /\ x \in Rows /\ Lv(x) < Lv(y)
           /\ Table[y] \in {"modarats", "posts", "follows", "sessions"} => Table[x] = "users"
           /\ Table[y] = "mogaks" => Table[x] = "modarats"
           /\ Table[y] = "jogaks" => Table[x] = "mogaks"
           /\ Table[y] = "executions" => Table[x] = "jogaks"
           /\ Table[y] \in {"comments", "likes"} => Table[x] \in {"users", "posts"}
           /\ Table[y] \notin {"gate", "users"}
           /\ Table[x] \in {"users", "modarats", "mogaks", "jogaks", "posts"}
<1>1. x \in Rows /\ <<Table[y], Table[x]>> \in ForeignKeys
  BY RowsAssumption, SchemaAssumption
<1> DEFINE S == Table[y]
           T == Table[x]
<1>2. \/ S \in {"modarats", "posts", "comments", "likes", "follows", "sessions"} /\ T = "users"
      \/ S \in {"comments", "likes"} /\ T = "posts"
      \/ S = "mogaks" /\ T = "modarats"
      \/ S = "jogaks" /\ T = "mogaks"
      \/ S = "executions" /\ T = "jogaks"
  BY <1>1 DEF ForeignKeys, Leaves
<1>3. Level(T) < Level(S)
  BY <1>2, Levels
<1>4. Lv(x) < Lv(y)
  BY <1>3 DEF Lv
<1>5. QED BY <1>1, <1>2, <1>4

\* How far a row can be from the users it depends on.
Depth(x) ==
    LET T == Table[x] IN
    IF T \in {"gate", "users"} THEN 0
    ELSE IF T \in {"modarats", "posts", "follows", "sessions"} THEN 1
    ELSE IF T \in {"mogaks", "comments", "likes"} THEN 2
    ELSE IF T = "jogaks" THEN 3 ELSE 4

LEMMA Depths ==
    /\ \A x \in Rows : Depth(x) \in 0 .. 4 /\ (Depth(x) = 0 => Refs[x] = {})
    /\ \A y \in Rows : \A x \in Refs[y] : x \in Rows /\ Depth(x) < Depth(y)
<1>1. ASSUME NEW x \in Rows
      PROVE  Depth(x) \in 0 .. 4 /\ (Depth(x) = 0 => Refs[x] = {})
  <2>1. Depth(x) \in 0 .. 4
    BY DEF Depth
  <2>2. Depth(x) = 0 => Table[x] \in {"gate", "users"}
    BY DEF Depth
  <2>3. QED BY <2>1, <2>2, Keys
<1>2. ASSUME NEW y \in Rows, NEW x \in Refs[y] PROVE x \in Rows /\ Depth(x) < Depth(y)
  <2>1. Table[y] \in {"modarats", "posts", "follows", "sessions", "mogaks", "comments", "likes",
                      "jogaks", "executions"}
    BY Keys, RowTables DEF Tables, Hierarchy, Leaves
  <2>2. QED BY <2>1, Keys DEF Depth
<1>3. QED BY <1>1, <1>2

LEMMA Ups ==
    ASSUME NEW n \in 0 .. 4, NEW S \in SUBSET Rows, \A z \in S : Depth(z) <= n
    PROVE  /\ Up(S) \in SUBSET Rows
           /\ n > 0 => \A z \in Up(S) : Depth(z) <= n - 1
           /\ n = 0 => Up(S) = {}
           /\ \A z \in S : Refs[z] \subseteq Up(S)
           /\ \A x \in Up(S) : \E z \in S : x \in Refs[z]
<1>1. /\ \A z \in S : Refs[z] \subseteq Up(S)
      /\ \A x \in Up(S) : \E z \in S : x \in Refs[z]
  BY DEF Up
<1>2. \A x \in Up(S) : x \in Rows
  BY <1>1, Depths
<1>3. ASSUME n > 0, NEW x \in Up(S) PROVE Depth(x) <= n - 1
  <2>1. PICK z \in S : x \in Refs[z]
    BY <1>1
  <2>2. Depth(x) < Depth(z) /\ Depth(z) <= n /\ Depth(x) \in 0 .. 4 /\ Depth(z) \in 0 .. 4
    BY <2>1, Depths
  <2>3. QED BY <2>2
<1>4. ASSUME n = 0 PROVE Up(S) = {}
  <2>1. \A z \in S : Refs[z] = {}
    <3>1. ASSUME NEW z \in S PROVE Depth(z) = 0
      BY <1>4, Depths
    <3>2. QED BY <3>1, Depths
  <2>2. QED BY <1>1, <2>1
<1>5. QED BY <1>1, <1>2, <1>3, <1>4

\* The rows a row depends on are closed under foreign keys.
LEMMA Closure ==
    ASSUME NEW y \in Rows
    PROVE  /\ Above(y) \subseteq Rows /\ Refs[y] \subseteq Above(y)
           /\ \A z \in Above(y) : Refs[z] \subseteq Above(y)
           /\ \A x \in Above(y) : x \in Refs[y] \/ \E z \in Refs[y] : x \in Above(z)
<1> DEFINE a == Refs[y]
           b == Up(a)
           c == Up(b)
           d == Up(c)
<1>1. Above(y) = a \cup b \cup c \cup d
  BY DEF Above, Ancestors
<1>2. a \in SUBSET Rows /\ \A z \in a : Depth(z) <= 3
  <2>1. \A z \in a : z \in Rows /\ Depth(z) < Depth(y) /\ Depth(z) \in 0 .. 4 /\ Depth(y) \in 0 .. 4
    BY Depths
  <2>2. QED BY <2>1
<1> HIDE DEF a
<1>3. /\ b \in SUBSET Rows /\ \A z \in b : Depth(z) <= 2
      /\ \A z \in a : Refs[z] \subseteq b
      /\ \A x \in b : \E z \in a : x \in Refs[z]
  <2>1. 3 \in 0 .. 4 /\ 3 > 0 /\ 3 - 1 = 2
    OBVIOUS
  <2>2. QED BY <1>2, <2>1, Ups
<1> HIDE DEF b
<1>4. /\ c \in SUBSET Rows /\ \A z \in c : Depth(z) <= 1
      /\ \A z \in b : Refs[z] \subseteq c
      /\ \A x \in c : \E z \in b : x \in Refs[z]
  <2>1. 2 \in 0 .. 4 /\ 2 > 0 /\ 2 - 1 = 1
    OBVIOUS
  <2>2. QED BY <1>3, <2>1, Ups
<1> HIDE DEF c
<1>5. /\ d \in SUBSET Rows /\ \A z \in d : Depth(z) <= 0
      /\ \A z \in c : Refs[z] \subseteq d
      /\ \A x \in d : \E z \in c : x \in Refs[z]
  <2>1. 1 \in 0 .. 4 /\ 1 > 0 /\ 1 - 1 = 0
    OBVIOUS
  <2>2. QED BY <1>4, <2>1, Ups
<1> HIDE DEF d
<1>6. \A z \in d : Refs[z] = {}
  <2>1. ASSUME NEW z \in d PROVE Depth(z) = 0
    <3>1. Depth(z) \in 0 .. 4 /\ Depth(z) <= 0
      BY <1>5, Depths
    <3>2. QED BY <3>1
  <2>2. QED BY <1>5, <2>1, Depths
<1>7. \A z \in Above(y) : Refs[z] \subseteq Above(y)
  BY <1>1, <1>3, <1>4, <1>5, <1>6
<1>8. \A z \in Rows : Above(z) = Refs[z] \cup Up(Refs[z]) \cup Up(Up(Refs[z])) \cup Up(Up(Up(Refs[z])))
  BY DEF Above, Ancestors
<1>9. ASSUME NEW x \in Above(y) PROVE x \in Refs[y] \/ \E z \in Refs[y] : x \in Above(z)
  <2>0. \A S, v, w : v \in S /\ w \in Refs[v] => w \in Up(S)
    BY DEF Up
  <2>1. CASE x \in a
    BY <2>1 DEF a
  <2>2. CASE x \in b
    BY <1>2, <1>3, <1>8, <2>2 DEF a
  <2>3. CASE x \in c
    <3>1. PICK v \in b : x \in Refs[v]
      BY <1>4, <2>3
    <3>2. PICK z \in a : v \in Refs[z]
      BY <1>3
    <3>3. x \in Up(Refs[z])
      BY <2>0, <3>1, <3>2
    <3>4. QED BY <1>2, <1>8, <3>2, <3>3 DEF a
  <2>4. CASE x \in d
    <3>1. PICK w \in c : x \in Refs[w]
      BY <1>5, <2>4
    <3>2. PICK v \in b : w \in Refs[v]
      BY <1>4
    <3>3. PICK z \in a : v \in Refs[z]
      BY <1>3
    <3>4. x \in Up(Up(Refs[z]))
      BY <2>0, <3>1, <3>2, <3>3
    <3>5. QED BY <1>2, <1>8, <3>3, <3>4 DEF a
  <2>5. QED BY <1>1, <1>9, <2>1, <2>2, <2>3, <2>4
<1>10. QED BY <1>1, <1>2, <1>3, <1>4, <1>5, <1>7, <1>9 DEF a

LEMMA Belows ==
    ASSUME NEW x \in Rows
    PROVE  Below(x) = {y \in Rows : x \in Above(y)}
BY DEF Below, Descendants, Above

\* What the rows a row names depend on, it depends on.
LEMMA AboveUp ==
    ASSUME NEW y \in Rows, NEW z \in Refs[y]
    PROVE  Above(z) \subseteq Above(y)
<1> DEFINE A(v) == Refs[v] \cup Up(Refs[v]) \cup Up(Up(Refs[v])) \cup Up(Up(Up(Refs[v])))
<1>1. z \in Rows
  BY Keys
<1>2. \A v \in Rows : Above(v) = A(v)
  BY DEF Above, Ancestors
<1>3. \A S, U : U \subseteq S => Up(U) \subseteq Up(S)
  BY DEF Up
<1>4. Refs[z] \subseteq Up(Refs[y])
  BY DEF Up
<1>5. /\ Up(Refs[z]) \subseteq Up(Up(Refs[y])) /\ Up(Up(Refs[z])) \subseteq Up(Up(Up(Refs[y])))
      /\ Up(Up(Up(Refs[z]))) \subseteq Up(Up(Up(Up(Refs[y]))))
  <2>1. Up(Refs[z]) \subseteq Up(Up(Refs[y]))
    BY <1>3, <1>4
  <2>2. Up(Up(Refs[z])) \subseteq Up(Up(Up(Refs[y])))
    BY <1>3, <2>1
  <2>3. QED BY <1>3, <2>1, <2>2
<1>6. Up(Up(Up(Up(Refs[y])))) \subseteq Above(y)
  <2>1. Up(Up(Up(Refs[y]))) \subseteq Above(y)
    BY <1>2
  <2>2. \A v \in Above(y) : Refs[v] \subseteq Above(y)
    BY Closure
  <2>3. \A w \in Up(Up(Up(Up(Refs[y])))) : \E v \in Up(Up(Up(Refs[y]))) : w \in Refs[v]
    <3> HIDE DEF A
    <3> DEFINE S == Up(Up(Up(Refs[y])))
    <3>1. \A w \in Up(S) : \E v \in S : w \in Refs[v]
      <4> HIDE DEF S
      <4>1. QED BY DEF Up
    <3>2. QED BY <3>1
  <2>4. QED BY <2>1, <2>2, <2>3
<1>7. QED BY <1>1, <1>2, <1>4, <1>5, <1>6

LEMMA Lower ==
    ASSUME NEW y \in Rows, NEW x \in Above(y)
    PROVE  /\ x \in Rows /\ Lv(x) < Lv(y)
           /\ Table[x] \in {"users", "modarats", "mogaks", "jogaks", "posts"}
<1>1. \A v \in Rows : \A w \in Refs[v] :
         /\ w \in Rows /\ Lv(w) < Lv(v) /\ Lv(w) \in 1 .. 11 /\ Lv(v) \in 1 .. 11
         /\ Table[w] \in {"users", "modarats", "mogaks", "jogaks", "posts"}
  BY Keys, RowTables
<1>2. \A z \in Refs[y] : \A v \in Above(z) : v \in Refs[z] \/ \E w \in Refs[z] : v \in Above(w)
  BY <1>1, Closure
<1>3. x \in Refs[y] \/ \E z \in Refs[y] : x \in Above(z)
  BY Closure
<1>4. \A v \in Rows : \A w \in Above(v) : w \in Refs[v] \/ \E z \in Refs[v] : w \in Above(z)
  BY Closure
<1> DEFINE Low(v, w) == w \in Rows /\ Lv(w) < Lv(v)
                        /\ Table[w] \in {"users", "modarats", "mogaks", "jogaks", "posts"}
<1>5. ASSUME NEW v \in Rows, NEW w \in Refs[v] PROVE Low(v, w)
  BY <1>1
<1>6. \A u, v, w \in Rows : Low(u, v) /\ Low(v, w) => Low(u, w)
  BY RowTables
<1>7. ASSUME NEW v \in Rows, NEW w \in Above(v), Depth(v) <= 1 PROVE w \in Refs[v]
  <2>1. ASSUME NEW z \in Refs[v] PROVE Above(z) = {}
    <3>1. z \in Rows /\ Depth(z) < Depth(v) /\ Depth(z) \in 0 .. 4 /\ Depth(v) \in 0 .. 4
      BY Depths
    <3>2. Refs[z] = {}
      BY <1>7, <3>1, Depths
    <3>3. QED BY <3>1, <3>2, Closure
  <2>2. QED BY <1>4, <2>1
<1>8. ASSUME NEW n \in 0 .. 4, \A v \in Rows : \A w \in Above(v) : Depth(v) <= n => Low(v, w)
      PROVE  \A v \in Rows : \A w \in Above(v) : Depth(v) <= n + 1 => Low(v, w)
  <2> SUFFICES ASSUME NEW v \in Rows, NEW w \in Above(v), Depth(v) <= n + 1 PROVE Low(v, w)
    OBVIOUS
  <2>1. CASE w \in Refs[v]
    BY <1>5, <2>1
  <2>2. CASE \E z \in Refs[v] : w \in Above(z)
    <3>1. PICK z \in Refs[v] : w \in Above(z)
      BY <2>2
    <3>2. z \in Rows /\ Depth(z) < Depth(v) /\ Depth(z) \in 0 .. 4 /\ Depth(v) \in 0 .. 4
      BY Depths
    <3>3. Depth(z) <= n
      BY <3>2
    <3>4. Low(z, w) /\ Low(v, z)
      BY <1>5, <1>8, <3>1, <3>2, <3>3
    <3> HIDE DEF Low
    <3>5. w \in Rows
      BY Closure
    <3>6. QED BY <1>6, <3>2, <3>4, <3>5
  <2>3. QED BY <1>4, <2>1, <2>2
<1>9. \A v \in Rows : \A w \in Above(v) : Depth(v) <= 0 => Low(v, w)
  <2> SUFFICES ASSUME NEW v \in Rows, NEW w \in Above(v), Depth(v) <= 0 PROVE Low(v, w)
    OBVIOUS
  <2>1. Depth(v) <= 1
    BY Depths
  <2>2. QED BY <1>5, <1>7, <2>1
<1> HIDE DEF Low
<1>10. /\ 0 \in 0 .. 4 /\ 1 \in 0 .. 4 /\ 2 \in 0 .. 4 /\ 3 \in 0 .. 4
       /\ 0 + 1 = 1 /\ 1 + 1 = 2 /\ 2 + 1 = 3 /\ 3 + 1 = 4
  OBVIOUS
<1>11. \A v \in Rows : \A w \in Above(v) : Depth(v) <= 1 => Low(v, w)
  BY <1>8, <1>9, <1>10
<1>12. \A v \in Rows : \A w \in Above(v) : Depth(v) <= 2 => Low(v, w)
  BY <1>8, <1>10, <1>11
<1>13. \A v \in Rows : \A w \in Above(v) : Depth(v) <= 3 => Low(v, w)
  BY <1>8, <1>10, <1>12
<1>14. \A v \in Rows : \A w \in Above(v) : Depth(v) <= 4 => Low(v, w)
  BY <1>8, <1>10, <1>13
<1>15. Depth(y) <= 4
  BY Depths
<1>16. QED BY <1>14, <1>15 DEF Low

-----------------------------------------------------------------------------
(* Every program climbs through the tables *)

Climbs(p) == \A i, j \in 1 .. Len(p) : i < j => Level(p[i]) < Level(p[j])

\* The shapes a program has.
OwnerPath == <<"users", "modarats">>
MogakPath == <<"users", "modarats", "mogaks">>
JogakPath == <<"users", "modarats", "mogaks", "jogaks">>
NewPostPath == <<"users", "modarats", "mogaks", "jogaks", "executions", "posts">>
PostDelete == <<"users", "posts", "comments", "likes">>
PostPath == <<"users", "posts">>

LEMMA Shapes ==
    /\ Climbs(OwnerPath) /\ Climbs(MogakPath) /\ Climbs(JogakPath) /\ Climbs(ExecutionProgram)
    /\ Climbs(NewPostPath) /\ Climbs(PostDelete) /\ Climbs(PostPath)
    /\ Climbs(CommentProgram) /\ Climbs(LikeProgram) /\ Climbs(FollowProgram)
    /\ Climbs(SessionProgram) /\ Climbs(ProfileProgram) /\ Climbs(WithdrawalProgram)
<1>1. Climbs(OwnerPath) /\ Climbs(MogakPath) /\ Climbs(JogakPath)
  BY Levels DEF Climbs, OwnerPath, MogakPath, JogakPath
<1>2. Climbs(ExecutionProgram)
  BY Levels DEF Climbs, ExecutionProgram
<1>3. Climbs(NewPostPath)
  BY Levels DEF Climbs, NewPostPath
<1>4. Climbs(PostDelete) /\ Climbs(PostPath)
  BY Levels DEF Climbs, PostDelete, PostPath
<1>5. Climbs(CommentProgram) /\ Climbs(LikeProgram) /\ Climbs(FollowProgram)
      /\ Climbs(SessionProgram) /\ Climbs(ProfileProgram)
  BY Levels DEF Climbs, CommentProgram, LikeProgram, FollowProgram, SessionProgram, ProfileProgram
<1>6. Climbs(WithdrawalProgram)
  <2>1. \A i \in 1 .. 11 : Level(WithdrawalProgram[i]) = i
    BY Levels DEF WithdrawalProgram
  <2>2. QED BY <2>1, ProgramLength DEF Climbs
<1>7. QED BY <1>1, <1>2, <1>3, <1>4, <1>5, <1>6

LEMMA ProgramShapes ==
    ASSUME NEW op \in Operations
    PROVE  /\ op.kind = "withdraw" => Program(op) = WithdrawalProgram
           /\ op.kind = "delete" /\ Table[op.row] \in {"modarats", "mogaks", "jogaks"} =>
                 Program(op) = ExecutionProgram
           /\ op.kind # "withdraw" =>
                 /\ Table[op.row] = "modarats" /\ op.kind # "delete" => Program(op) = OwnerPath
                 /\ Table[op.row] = "mogaks" /\ op.kind # "delete" => Program(op) = MogakPath
                 /\ Table[op.row] = "jogaks" /\ op.kind # "delete" => Program(op) = JogakPath
                 /\ Table[op.row] = "executions" => Program(op) = ExecutionProgram
                 /\ Table[op.row] = "posts" =>
                       Program(op) = IF op.kind = "insert" THEN NewPostPath
                                     ELSE IF op.kind = "delete" THEN PostDelete ELSE PostPath
                 /\ Table[op.row] = "comments" => Program(op) = CommentProgram
                 /\ Table[op.row] = "likes" => Program(op) = LikeProgram
                 /\ Table[op.row] = "follows" => Program(op) = FollowProgram
                 /\ Table[op.row] = "sessions" => Program(op) = SessionProgram
                 /\ Table[op.row] = "users" => Program(op) = ProfileProgram
BY DEF Program, ModaratProgram, MogakProgram, JogakProgram, PostProgram, ExecutionProgram,
       OwnerPath, MogakPath, JogakPath, NewPostPath, PostDelete, PostPath

LEMMA ProgramClimbs ==
    ASSUME NEW op \in Operations
    PROVE  Climbs(Program(op))
<1>1. Table[op.row] \in Tables \ {"gate"} /\ op.kind \in Kinds
  BY CallTables
<1>2. CASE op.kind = "withdraw"
  BY <1>2, ProgramShapes, Shapes
<1>3. CASE op.kind # "withdraw"
  <2>1. CASE Table[op.row] \in {"modarats", "mogaks", "jogaks"}
    BY <1>3, <2>1, ProgramShapes, Shapes
  <2>2. CASE Table[op.row] = "posts"
    BY <1>3, <2>2, ProgramShapes, Shapes
  <2>3. CASE Table[op.row] \notin {"modarats", "mogaks", "jogaks", "posts"}
    BY <1>1, <1>3, <2>3, ProgramShapes, Shapes DEF Tables, Hierarchy, Leaves
  <2>4. QED BY <2>1, <2>2, <2>3
<1>4. QED BY <1>2, <1>3

\* A table of the program is behind, the current one, or ahead.
LEMMA Climbing ==
    ASSUME NEW op \in Operations, NEW T, InProgram(op, T), NEW i \in 1 .. Len(Program(op))
    PROVE  /\ T \in Tables /\ Program(op)[i] \in Tables
           /\ Level(Program(op)[1]) <= Level(T)
           /\ Level(T) <= Level(Program(op)[Len(Program(op))])
           /\ i + 1 \in 1 .. Len(Program(op)) =>
                 /\ Level(Program(op)[i]) < Level(Program(op)[i + 1])
                 /\ Level(T) < Level(Program(op)[i + 1]) => Level(T) <= Level(Program(op)[i])
<1> DEFINE p == Program(op)
           n == Len(p)
<1>1. p \in Seq(Tables) /\ n \in Nat /\ 1 <= n /\ Climbs(p)
  BY ProgramType, ProgramClimbs
<1>2. PICK k \in 1 .. n : p[k] = T
  BY DEF InProgram
<1> HIDE DEF p, n
<1>3. \A j \in 1 .. n : p[j] \in Tables /\ Level(p[j]) \in 1 .. 11
  BY <1>1, LevelOrder DEF n
<1>4. \A a, b \in 1 .. n : a < b => Level(p[a]) < Level(p[b])
  BY <1>1 DEF Climbs, n
<1>5. i \in 1 .. n /\ 1 \in 1 .. n /\ n \in 1 .. n /\ i \in Nat /\ k \in Nat
  BY <1>1 DEF n, p
<1>6. 1 < k \/ k = 1
  BY <1>2
<1>7. Level(p[1]) <= Level(T)
  <2>1. 1 < k => Level(p[1]) < Level(T)
    BY <1>2, <1>4, <1>5
  <2>2. k = 1 => p[1] = T
    BY <1>2
  <2>3. Level(p[1]) \in 1 .. 11 /\ Level(T) \in 1 .. 11
    BY <1>2, <1>3, <1>5
  <2>4. QED BY <1>6, <2>1, <2>2, <2>3
<1>8. Level(T) <= Level(p[n])
  <2>1. k < n \/ k = n
    BY <1>1, <1>2
  <2>2. k < n => Level(T) < Level(p[n])
    BY <1>2, <1>4, <1>5
  <2>3. k = n => T = p[n]
    BY <1>2
  <2>4. Level(p[n]) \in 1 .. 11 /\ Level(T) \in 1 .. 11
    BY <1>2, <1>3, <1>5
  <2>5. QED BY <2>1, <2>2, <2>3, <2>4
<1>9. ASSUME i + 1 \in 1 .. n
      PROVE  /\ Level(p[i]) < Level(p[i + 1])
             /\ Level(T) < Level(p[i + 1]) => Level(T) <= Level(p[i])
  <2>1. Level(p[i]) < Level(p[i + 1])
    BY <1>4, <1>5, <1>9
  <2>2. k < i \/ k = i \/ k = i + 1 \/ i + 1 < k
    BY <1>5
  <2>3. k < i => Level(T) < Level(p[i])
    <3>1. k < i => Level(p[k]) < Level(p[i])
      BY <1>4, <1>5
    <3>2. QED BY <1>2, <3>1
  <2>4. i + 1 < k => Level(p[i + 1]) < Level(T)
    <3>1. i + 1 < k => Level(p[i + 1]) < Level(p[k])
      BY <1>2, <1>4, <1>9
    <3>2. QED BY <1>2, <3>1
  <2>5. Level(T) \in 1 .. 11 /\ Level(p[i]) \in 1 .. 11 /\ Level(p[i + 1]) \in 1 .. 11
    BY <1>2, <1>3, <1>5, <1>9
  <2>6. (k = i => T = p[i]) /\ (k = i + 1 => T = p[i + 1])
    BY <1>2
  <2>7. CASE k < i
    BY <2>1, <2>3, <2>5, <2>7
  <2>8. CASE k = i
    BY <2>1, <2>5, <2>6, <2>8
  <2>9. CASE k = i + 1
    BY <2>1, <2>5, <2>6, <2>9
  <2>10. CASE i + 1 < k
    BY <2>1, <2>4, <2>5, <2>10
  <2>11. QED BY <2>2, <2>7, <2>8, <2>9, <2>10
<1>10. QED BY <1>2, <1>3, <1>5, <1>7, <1>8, <1>9 DEF p, n

Visits(p, T) == \E i \in 1 .. Len(p) : p[i] = T

LEMMA ShapeTables ==
    /\ \A T \in {"users", "modarats"} : Visits(OwnerPath, T)
    /\ \A T \in {"users", "modarats", "mogaks"} : Visits(MogakPath, T)
    /\ \A T \in {"users", "modarats", "mogaks", "jogaks"} : Visits(JogakPath, T)
    /\ \A T \in {"users"} \cup Hierarchy : Visits(ExecutionProgram, T)
    /\ \A T \in {"users", "posts"} \cup Hierarchy : Visits(NewPostPath, T)
    /\ \A T \in {"users", "posts", "comments", "likes"} : Visits(PostDelete, T)
    /\ \A T \in {"users", "posts"} : Visits(PostPath, T)
    /\ \A T \in {"users", "posts", "comments"} : Visits(CommentProgram, T)
    /\ \A T \in {"users", "posts", "likes"} : Visits(LikeProgram, T)
    /\ \A T \in {"users", "follows"} : Visits(FollowProgram, T)
    /\ \A T \in {"users", "sessions"} : Visits(SessionProgram, T)
    /\ Visits(ProfileProgram, "users")
    /\ \A T \in Tables : Visits(WithdrawalProgram, T)
<1>1. \A T \in {"users", "modarats"} : Visits(OwnerPath, T)
  BY DEF Visits, OwnerPath
<1>2. \A T \in {"users", "modarats", "mogaks"} : Visits(MogakPath, T)
  BY DEF Visits, MogakPath
<1>3. \A T \in {"users", "modarats", "mogaks", "jogaks"} : Visits(JogakPath, T)
  BY DEF Visits, JogakPath
<1>4. \A T \in {"users"} \cup Hierarchy : Visits(ExecutionProgram, T)
  BY DEF Visits, ExecutionProgram, Hierarchy
<1>5. \A T \in {"users", "posts"} \cup Hierarchy : Visits(NewPostPath, T)
  BY DEF Visits, NewPostPath, Hierarchy
<1>6. \A T \in {"users", "posts", "comments", "likes"} : Visits(PostDelete, T)
  BY DEF Visits, PostDelete
<1>7. /\ \A T \in {"users", "posts"} : Visits(PostPath, T)
      /\ \A T \in {"users", "posts", "comments"} : Visits(CommentProgram, T)
      /\ \A T \in {"users", "posts", "likes"} : Visits(LikeProgram, T)
  BY DEF Visits, PostPath, CommentProgram, LikeProgram
<1>8. /\ \A T \in {"users", "follows"} : Visits(FollowProgram, T)
      /\ \A T \in {"users", "sessions"} : Visits(SessionProgram, T)
      /\ Visits(ProfileProgram, "users")
  BY DEF Visits, FollowProgram, SessionProgram, ProfileProgram
<1>9. \A T \in Tables : Visits(WithdrawalProgram, T)
  <2>1. ASSUME NEW T \in Tables PROVE Level(T) \in 1 .. 11 /\ WithdrawalProgram[Level(T)] = T
    BY Levels DEF WithdrawalProgram, Tables, Hierarchy, Leaves
  <2>2. QED BY <2>1, ProgramLength DEF Visits
<1>10. QED BY <1>1, <1>2, <1>3, <1>4, <1>5, <1>6, <1>7, <1>8, <1>9

\* The rows a call names, and those of them it must find.
LEMMA NamedRows ==
    ASSUME NEW op \in Operations, op.kind # "withdraw"
    PROVE  /\ Named(op) \subseteq Rows /\ Needs(op) \subseteq Rows
           /\ \A x \in Named(op) : x # op.row =>
                 Lv(x) < Lv(op.row) /\ Table[x] \notin {"comments", "likes", "follows", "sessions"}
           /\ \A x \in Named(op) : Table[x] = "executions" =>
                 x = op.row \/ (NewPost(op) /\ x = Occurrence[op.row])
           /\ \A x \in Named(op) : \A z \in Refs[x] : Table[z] # "users" => z \in Needs(op)
           /\ Refs[op.row] \subseteq Needs(op) /\ op.row \in Needs(op)
           /\ NewPost(op) => \A z \in Refs[Occurrence[op.row]] : z \in Needs(op)
<1> DEFINE x == op.row
           e == Occurrence[op.row]
<1>1. x \in Rows /\ Table[x] \in Tables \ {"gate"} /\ op.kind \in Kinds
  BY CallTables
<1>2. NewPost(op) => e \in Rows /\ Table[e] = "executions" /\ Table[x] = "posts"
  BY <1>1, RowsAssumption, SchemaAssumption DEF NewPost
<1>3. Needs(op) = Actors(op) \cup {x} \cup {z \in Rigid(op) : Table[z] \notin {"users", "executions"}}
  BY DEF Needs
<1>4. \A y \in Rows : \A z \in Refs[y] : z \in Rows /\ Lv(z) < Lv(y) /\ z \in Above(y)
  BY Keys, Closure
<1>5. \A y \in Rows : \A z \in Above(y) :
         /\ z \in Rows /\ Lv(z) < Lv(y) /\ Refs[z] \subseteq Above(y)
         /\ Table[z] \in {"users", "modarats", "mogaks", "jogaks", "posts"}
  BY Closure, Lower
<1>6. \A y \in Rows : \A z \in Refs[y] : Table[z] \in {"users", "modarats", "mogaks", "jogaks", "posts"}
  BY Keys
<1>7. CASE Table[x] \in Hierarchy
  <2>1. ~NewPost(op) /\ Named(op) = Above(x) \cup {x} /\ Rigid(op) = Above(x) \cup {x}
    BY <1>7 DEF NewPost, Named, Rigid, Hierarchy
  <2>2. Actors(op) = In(Above(x), "users")
    BY <1>7 DEF Actors, Hierarchy
  <2>3. Needs(op) = In(Above(x), "users") \cup {x} \cup {z \in Above(x) \cup {x} : Table[z] \notin {"users", "executions"}}
    BY <1>3, <2>1, <2>2
  <2> HIDE DEF x, e
  <2>4. Named(op) \subseteq Rows /\ Needs(op) \subseteq Rows
    BY <1>1, <1>5, <2>1, <2>3 DEF In
  <2>5. \A z \in Refs[x] : z \in Needs(op)
    BY <1>1, <1>4, <1>6, <2>3 DEF In
  <2>6. \A y \in Named(op) : \A z \in Refs[y] : Table[z] # "users" => z \in Needs(op)
    <3>1. ASSUME NEW y \in Named(op), NEW z \in Refs[y], Table[z] # "users"
          PROVE  z \in Needs(op)
      <4>1. z \in Above(x) /\ Table[z] # "executions"
        BY <1>1, <1>4, <1>5, <1>6, <2>1, <2>4
      <4>2. QED BY <2>3, <3>1, <4>1
    <3>2. QED BY <3>1
  <2>7. \A y \in Named(op) : y # x => Lv(y) < Lv(x) /\ Table[y] \notin {"comments", "likes", "follows", "sessions"}
                                      /\ Table[y] # "executions"
    BY <1>1, <1>5, <2>1
  <2>8. QED BY <2>1, <2>3, <2>4, <2>5, <2>6, <2>7 DEF x
<1>8. CASE NewPost(op)
  <2>1. Table[x] = "posts" /\ op.kind = "insert" /\ e \in Rows /\ Table[e] = "executions"
    BY <1>2, <1>8 DEF NewPost
  <2>2. Rigid(op) = {x} \cup Above(x) \cup Above(e) /\ Named(op) = {x, e} \cup Above(x) \cup Above(e)
    BY <1>8, <2>1 DEF Named, Rigid, Hierarchy
  <2>3. Actors(op) = In(Refs[x], "users")
    BY <2>1 DEF Actors, Hierarchy
  <2>4. Needs(op) = In(Refs[x], "users") \cup {x} \cup
                    {z \in {x} \cup Above(x) \cup Above(e) : Table[z] \notin {"users", "executions"}}
    BY <1>3, <2>2, <2>3
  <2> HIDE DEF x, e
  <2>5. Named(op) \subseteq Rows /\ Needs(op) \subseteq Rows
    BY <1>1, <1>4, <1>5, <2>1, <2>2, <2>4 DEF In
  <2>6. \A z \in Refs[x] : Table[z] = "users"
    BY <1>1, <2>1, Keys
  <2>7. \A y \in Named(op) : \A z \in Refs[y] : Table[z] # "users" => z \in Needs(op)
    <3>1. ASSUME NEW y \in Named(op), NEW z \in Refs[y], Table[z] # "users"
          PROVE  z \in Needs(op)
      <4>1. z \in Above(x) \cup Above(e) /\ Table[z] # "executions"
        BY <1>1, <1>4, <1>5, <1>6, <2>1, <2>2, <2>5
      <4>2. QED BY <2>4, <3>1, <4>1
    <3>2. QED BY <3>1
  <2>8. \A z \in Refs[e] : Table[z] = "jogaks"
    BY <2>1, Keys
  <2>9. Lv(e) < Lv(x) /\ \A y \in Above(e) : Lv(y) < Lv(x)
    <3>1. Lv(e) = 6 /\ Lv(x) = 7
      BY <2>1, Levels DEF Lv
    <3>2. ASSUME NEW y \in Above(e) PROVE Lv(y) < Lv(x)
      <4>1. y \in Rows /\ Lv(y) < Lv(e) /\ Lv(y) \in 1 .. 11
        BY <1>5, <2>1, RowTables
      <4>2. QED BY <3>1, <4>1
    <3>3. QED BY <3>1, <3>2
  <2>10. \A y \in Named(op) : y # x => Lv(y) < Lv(x) /\ Table[y] \notin {"comments", "likes", "follows", "sessions"}
    BY <1>1, <1>5, <2>1, <2>2, <2>9
  <2>11. \A y \in Named(op) : Table[y] = "executions" => y = e
    BY <1>1, <1>5, <2>1, <2>2
  <2>12. e \in Named(op) /\ \A z \in Refs[e] : z \in Needs(op)
    BY <2>2, <2>7, <2>8
  <2>13. Refs[x] \subseteq Needs(op)
    BY <2>4, <2>6 DEF In
  <2>14. QED BY <1>8, <2>4, <2>5, <2>7, <2>10, <2>11, <2>12, <2>13 DEF x, e
<1>9. CASE Table[x] \in {"comments", "likes"} \/ (Table[x] = "posts" /\ ~NewPost(op))
  <2>1. ~NewPost(op) /\ Named(op) = {x} \cup PostOf(x) /\ Rigid(op) = {x} \cup PostOf(x)
    BY <1>9 DEF NewPost, Named, Rigid, Hierarchy
  <2>2. Actors(op) = In(Refs[x], "users")
    BY <1>9 DEF Actors, Hierarchy
  <2>3. PostOf(x) = IF Table[x] = "posts" THEN {x} ELSE In(Refs[x], "posts")
    BY DEF PostOf
  <2>4. Needs(op) = In(Refs[x], "users") \cup {x} \cup
                    {z \in {x} \cup PostOf(x) : Table[z] \notin {"users", "executions"}}
    BY <1>3, <2>1, <2>2
  <2>5. \A z \in Refs[x] : Table[z] \in {"users", "posts"} /\ (Table[x] = "posts" => Table[z] = "users")
    BY <1>1, <1>9, Keys
  <2>6. Table[x] # "executions" /\ Table[x] # "users"
    BY <1>9
  <2> HIDE DEF x, e
  <2>7. Named(op) \subseteq Rows /\ Needs(op) \subseteq Rows
    BY <1>1, <1>4, <2>1, <2>3, <2>4 DEF In
  <2>8. Refs[x] \subseteq Needs(op)
    BY <2>3, <2>4, <2>5 DEF In
  <2>9. \A y \in Named(op) : y # x => y \in Refs[x] /\ Table[y] = "posts"
    BY <2>1, <2>3 DEF In
  <2>10. \A y \in Rows : Table[y] = "posts" => \A z \in Refs[y] : Table[z] = "users"
    BY Keys
  <2>11. \A y \in Named(op) : \A z \in Refs[y] : Table[z] # "users" => z \in Needs(op)
    BY <2>7, <2>8, <2>9, <2>10
  <2>12. \A y \in Named(op) : y # x => Lv(y) < Lv(x)
    BY <1>1, <1>4, <2>9
  <2>13. QED BY <2>1, <2>4, <2>6, <2>7, <2>8, <2>9, <2>11, <2>12 DEF x
<1>10. CASE Table[x] \in {"users", "follows", "sessions"}
  <2>1. ~NewPost(op) /\ Named(op) = {x} /\ Rigid(op) = {x}
    BY <1>10 DEF NewPost, Named, Rigid, Hierarchy
  <2>2. Actors(op) = IF Table[x] = "users" THEN {x} ELSE In(Refs[x], "users")
    BY <1>10 DEF Actors, Hierarchy
  <2>3. \A z \in Refs[x] : Table[z] = "users" /\ Table[x] # "users"
    BY <1>1, <1>10, Keys
  <2>4. Table[x] # "executions"
    BY <1>10
  <2> HIDE DEF x, e
  <2>5. Refs[x] \subseteq Needs(op) /\ x \in Needs(op) /\ Needs(op) \subseteq Rows
    BY <1>1, <1>3, <1>4, <2>1, <2>2, <2>3 DEF In
  <2>6. QED BY <1>1, <2>1, <2>3, <2>4, <2>5 DEF x
<1>11. Table[x] = "posts" => (NewPost(op) \/ ~NewPost(op))
  OBVIOUS
<1>12. QED BY <1>1, <1>7, <1>8, <1>9, <1>10, <1>11 DEF Tables, Leaves

LEMMA NeedsRequired ==
    ASSUME NEW op \in Operations
    PROVE  Needs(op) \subseteq Required(op)
<1>1. op.row \in Rows /\ Table[op.row] \in Tables \ {"gate"}
  BY CallTables
<1>2. CASE op.kind = "withdraw"
  BY <1>2 DEF Needs, Required
<1>3. CASE op.kind # "withdraw"
  <2>1. Rigid(op) \subseteq Path(op)
    BY <1>1 DEF Rigid, Path, Tables, Hierarchy, Leaves
  <2>2. \A z \in Rigid(op) : z \in Rows
    BY <1>3, NamedRows DEF Named
  <2>3. \A z \in Rigid(op) : Table[z] \in Tables
    BY <2>2, RowTables
  <2>4. QED BY <1>3, <2>1, <2>3 DEF Needs, Required
<1>4. QED BY <1>2, <1>3

\* A call visits the tables of the rows it needs and of those it deletes.
LEMMA ProgramCovers ==
    ASSUME NEW op \in Operations
    PROVE  /\ op.kind = "withdraw" => \A T \in Tables : InProgram(op, T)
           /\ \A x \in Needs(op) : InProgram(op, Table[x])
           /\ op.kind = "delete" => \A y \in Below(op.row) : InProgram(op, Table[y])
           /\ NewPost(op) => InProgram(op, "executions")
<1> DEFINE x == op.row
           S == Table[x]
<1>1. x \in Rows /\ S \in Tables \ {"gate"} /\ op.kind \in Kinds
  BY CallTables
<1>2. \A T : InProgram(op, T) <=> Visits(Program(op), T)
  BY DEF InProgram, Visits
<1>3. op.kind = "withdraw" => \A T \in Tables : InProgram(op, T)
  BY <1>2, ProgramShapes, ShapeTables
<1>4. ASSUME op.kind # "withdraw"
      PROVE  /\ S = "modarats" => \A T \in {"users", "modarats"} : InProgram(op, T)
             /\ S = "mogaks" => \A T \in {"users", "modarats", "mogaks"} : InProgram(op, T)
             /\ S = "jogaks" => \A T \in {"users", "modarats", "mogaks", "jogaks"} : InProgram(op, T)
             /\ S = "executions" => \A T \in {"users"} \cup Hierarchy : InProgram(op, T)
             /\ S = "posts" => \A T \in {"users", "posts"} : InProgram(op, T)
             /\ S = "comments" => \A T \in {"users", "posts", "comments"} : InProgram(op, T)
             /\ S = "likes" => \A T \in {"users", "posts", "likes"} : InProgram(op, T)
             /\ S = "follows" => \A T \in {"users", "follows"} : InProgram(op, T)
             /\ S = "sessions" => \A T \in {"users", "sessions"} : InProgram(op, T)
             /\ S = "users" => InProgram(op, "users")
             /\ S = "posts" /\ op.kind = "insert" => \A T \in Hierarchy : InProgram(op, T)
             /\ S = "posts" /\ op.kind = "delete" => \A T \in {"comments", "likes"} : InProgram(op, T)
             /\ op.kind = "delete" /\ S \in {"modarats", "mogaks", "jogaks"} =>
                   \A T \in Hierarchy : InProgram(op, T)
  <2>1. /\ S = "modarats" => Program(op) \in {OwnerPath, ExecutionProgram}
        /\ S = "mogaks" => Program(op) \in {MogakPath, ExecutionProgram}
        /\ S = "jogaks" => Program(op) \in {JogakPath, ExecutionProgram}
    BY <1>4, ProgramShapes
  <2>2. /\ S = "modarats" => \A T \in {"users", "modarats"} : InProgram(op, T)
        /\ S = "mogaks" => \A T \in {"users", "modarats", "mogaks"} : InProgram(op, T)
        /\ S = "jogaks" => \A T \in {"users", "modarats", "mogaks", "jogaks"} : InProgram(op, T)
    BY <1>2, <2>1, ShapeTables DEF Hierarchy
  <2>3. /\ S = "executions" => \A T \in {"users"} \cup Hierarchy : InProgram(op, T)
        /\ op.kind = "delete" /\ S \in {"modarats", "mogaks", "jogaks"} =>
                   \A T \in Hierarchy : InProgram(op, T)
    BY <1>2, <1>4, ProgramShapes, ShapeTables
  <2>4. /\ S = "posts" => \A T \in {"users", "posts"} : InProgram(op, T)
        /\ S = "posts" /\ op.kind = "insert" => \A T \in Hierarchy : InProgram(op, T)
        /\ S = "posts" /\ op.kind = "delete" => \A T \in {"comments", "likes"} : InProgram(op, T)
    BY <1>2, <1>4, ProgramShapes, ShapeTables
  <2>5. /\ S = "comments" => \A T \in {"users", "posts", "comments"} : InProgram(op, T)
        /\ S = "likes" => \A T \in {"users", "posts", "likes"} : InProgram(op, T)
        /\ S = "follows" => \A T \in {"users", "follows"} : InProgram(op, T)
        /\ S = "sessions" => \A T \in {"users", "sessions"} : InProgram(op, T)
        /\ S = "users" => InProgram(op, "users")
    BY <1>2, <1>4, ProgramShapes, ShapeTables
  <2>6. QED BY <2>2, <2>3, <2>4, <2>5
<1>5. \A y \in Rows : \A z \in Above(y) :
         z \in Rows /\ Lv(z) < Lv(y) /\ Table[z] \in {"users", "modarats", "mogaks", "jogaks", "posts"}
  BY Lower
<1>6. ASSUME NEW z \in Needs(op) PROVE InProgram(op, Table[z])
  <2>1. CASE op.kind = "withdraw"
    BY <1>1, <1>3, <2>1 DEF Needs
  <2>2. CASE op.kind # "withdraw"
    <3>1. z \in Rows /\ Table[z] \in Tables
      BY <2>2, NamedRows, RowTables
    <3>2. S = Table[z] \/ Table[z] = "users"
             \/ (z \in Rigid(op) /\ z # x /\ Table[z] \notin {"users", "executions"})
      BY <2>2 DEF Needs, Actors, In
    <3>3. ASSUME z \in Rigid(op), z # x, Table[z] \notin {"users", "executions"}
          PROVE  \/ S \in Hierarchy /\ z \in Above(x)
                 \/ NewPost(op) /\ (z \in Above(x) \/ z \in Above(Occurrence[x]))
                 \/ S \in {"comments", "likes"} /\ Table[z] = "posts"
      BY <3>3 DEF Rigid, NewPost, PostOf, In
    <3>4. InProgram(op, S) /\ InProgram(op, "users")
      BY <1>1, <1>4, <2>2 DEF Tables, Hierarchy, Leaves
    <3>5. ASSUME z \in Above(x), S \in Hierarchy, Table[z] # "users" PROVE InProgram(op, Table[z])
      <4>1. Lv(z) < Lv(x) /\ Table[z] \in {"users", "modarats", "mogaks", "jogaks", "posts"}
        BY <1>1, <1>5, <3>5
      <4>2. \/ S = "modarats" /\ FALSE
            \/ S = "mogaks" /\ Table[z] = "modarats"
            \/ S = "jogaks" /\ Table[z] \in {"modarats", "mogaks"}
            \/ S = "executions" /\ Table[z] \in {"modarats", "mogaks", "jogaks"}
        BY <3>5, <4>1, Levels DEF Lv, Hierarchy
      <4>3. QED BY <1>4, <2>2, <4>2 DEF Hierarchy
    <3>6. ASSUME NewPost(op), z \in Above(x) \/ z \in Above(Occurrence[x]), Table[z] # "users"
          PROVE  InProgram(op, Table[z])
      <4>1. S = "posts" /\ op.kind = "insert" /\ Occurrence[x] \in Rows
        BY <1>1, <3>6, RowsAssumption DEF NewPost
      <4>2. Table[z] \in {"users", "modarats", "mogaks", "jogaks", "posts"}
        BY <1>1, <1>5, <3>6, <4>1
      <4>3. QED BY <1>4, <2>2, <3>6, <4>1, <4>2 DEF Hierarchy
    <3>7. S \in {"comments", "likes"} => InProgram(op, "posts")
      BY <1>4, <2>2
    <3>8. QED BY <3>2, <3>3, <3>4, <3>5, <3>6, <3>7
  <2>3. QED BY <2>1, <2>2
<1>7. ASSUME op.kind = "delete", NEW y \in Below(x) PROVE InProgram(op, Table[y])
  <2>1. y \in Rows /\ x \in Above(y)
    BY <1>1, <1>7, Belows
  <2>2. Lv(x) < Lv(y) /\ S \in {"users", "modarats", "mogaks", "jogaks", "posts"}
    BY <1>5, <2>1
  <2>3. S # "users"
    BY <1>7, CallsAssumption
  <2>4. x \in Refs[y] \/ \E z \in Refs[y] : x \in Above(z)
    BY <2>1, Closure
  <2>5. S \in {"modarats", "mogaks", "jogaks"} => Table[y] \in Hierarchy
    <3>1. ASSUME NEW z \in Refs[y], x \in Above(z), S \in {"modarats", "mogaks", "jogaks"}
          PROVE  Table[y] \in Hierarchy
      <4>1. z \in Rows /\ Lv(x) < Lv(z)
        BY <1>5, <2>1, <3>1, Keys
      <4>2. Table[z] \in {"users", "modarats", "mogaks", "jogaks", "posts"}
        BY <2>1, Keys
      <4>3. Table[z] # "users"
        BY <3>1, <4>1, Levels DEF Lv
      <4>4. Table[z] # "posts"
        <5>1. Table[z] = "posts" => Refs[z] = {} \/ \A w \in Refs[z] : Table[w] = "users"
          BY <4>1, Keys
        <5>2. SUFFICES ASSUME Table[z] = "posts" PROVE FALSE
          OBVIOUS
        <5>3. x \in Refs[z] \/ \E w \in Refs[z] : x \in Above(w)
          BY <3>1, <4>1, Closure
        <5>4. x \notin Refs[z]
          BY <3>1, <5>1, <5>2
        <5>5. PICK w \in Refs[z] : x \in Above(w)
          BY <5>3, <5>4
        <5>6. w \in Rows /\ Table[w] = "users" /\ Lv(x) < Lv(w)
          BY <1>5, <4>1, <5>1, <5>2, <5>5, Keys
        <5>7. QED BY <3>1, <5>6, Levels DEF Lv
      <4>5. Table[y] \in Tables
        BY <2>1, RowTables
      <4>6. QED BY <2>1, <4>2, <4>3, <4>4, <4>5, Keys DEF Tables, Hierarchy, Leaves
    <3>2. ASSUME x \in Refs[y], S \in {"modarats", "mogaks", "jogaks"} PROVE Table[y] \in Hierarchy
      <4>1. Table[y] \in Tables
        BY <2>1, RowTables
      <4>2. QED BY <2>1, <3>2, <4>1, Keys DEF Tables, Hierarchy, Leaves
    <3>3. QED BY <2>4, <3>1, <3>2
  <2>6. S = "posts" => Table[y] \in {"comments", "likes"}
    <3>1. SUFFICES ASSUME S = "posts" PROVE Table[y] \in {"comments", "likes"}
      OBVIOUS
    <3>2. Lv(y) > 7 /\ Table[y] \in Tables
      BY <2>1, <2>2, <3>1, Levels, RowTables DEF Lv
    <3>3. Table[y] \in Leaves
      BY <3>2, Levels DEF Lv, Tables, Hierarchy, Leaves
    <3>4. Table[y] \notin {"follows", "sessions"}
      <4>1. ASSUME Table[y] \in {"follows", "sessions"} PROVE FALSE
        <5>1. \A w \in Refs[y] : w \in Rows /\ Table[w] = "users"
          BY <2>1, <4>1, Keys
        <5>2. PICK w \in Refs[y] : x \in Above(w)
          BY <2>4, <3>1, <5>1
        <5>3. Lv(x) < Lv(w) /\ Lv(w) = 2 /\ Lv(x) = 7
          BY <1>5, <3>1, <5>1, <5>2, Levels DEF Lv
        <5>4. QED BY <5>3
      <4>2. QED BY <4>1
    <3>5. QED BY <3>3, <3>4 DEF Leaves
  <2>7. op.kind # "withdraw"
    BY <1>7
  <2>8. QED BY <1>4, <1>7, <2>2, <2>3, <2>5, <2>6, <2>7
<1>8. NewPost(op) => InProgram(op, "executions")
  BY <1>4 DEF NewPost, Hierarchy
<1>9. QED BY <1>3, <1>6, <1>7, <1>8

-----------------------------------------------------------------------------
(* What a statement asks for *)

LEMMA Views ==
    ASSUME live \subseteq Rows
    PROVE  /\ \A op : Present(op) = PresentIn(live, op)
           /\ \A u \in Rows : Table[u] = "users" =>
                 OwnedPosts(u) = OwnedIn(live, u) /\ TargetPosts(u) = TargetIn(live, u)
<1>1. \A op : Present(op) = PresentIn(live, op)
  BY DEF Present, PresentIn
<1>2. ASSUME NEW u \in Rows, Table[u] = "users" PROVE OwnedPosts(u) = OwnedIn(live, u)
  <2>1. \A p : u \in HierarchyOwner(p) <=> Occurrence[p] \in live /\ u \in Above(Occurrence[p])
    BY <1>2 DEF HierarchyOwner, In
  <2>2. QED BY <2>1 DEF OwnedPosts, OwnedIn
<1>3. ASSUME NEW u \in Rows, Table[u] = "users" PROVE TargetPosts(u) = TargetIn(live, u)
  BY <1>2, <1>3 DEF TargetPosts, TargetIn
<1>4. QED BY <1>1, <1>2, <1>3

LEMMA PathNamed ==
    ASSUME NEW op \in Operations, op.kind # "withdraw", NEW y \in Path(op)
    PROVE  Table[y] = "users" \/ y \in Named(op)
<1> DEFINE x == op.row
<1>1. x \in Rows /\ Table[x] \in Tables \ {"gate"}
  BY CallTables
<1>2. CASE Table[x] \in Hierarchy
  BY <1>2 DEF Path, Named, Rigid, Hierarchy
<1>3. CASE NewPost(op)
  BY <1>3 DEF Path, Named, Rigid, NewPost, Hierarchy
<1>4. CASE Table[x] \in {"comments", "likes"} \/ (Table[x] = "posts" /\ ~NewPost(op))
  <2>1. Path(op) = {x} \cup PostOf(x) \cup Actors(op) \cup PostParticipants(x)
    BY <1>4 DEF Path, NewPost, Hierarchy
  <2>2. \A z \in Actors(op) : Table[z] = "users"
    BY <1>4 DEF Actors, In, Hierarchy
  <2>3. \A z \in PostParticipants(x) : Table[z] = "users"
    BY DEF PostParticipants, In, HierarchyOwner
  <2>4. Rigid(op) = {x} \cup PostOf(x)
    BY <1>4 DEF Rigid, NewPost, Hierarchy
  <2>5. QED BY <2>1, <2>2, <2>3, <2>4 DEF Named
<1>5. CASE Table[x] \in {"users", "follows", "sessions"}
  <2>1. Path(op) = {x} \cup Actors(op)
    BY <1>5 DEF Path, Hierarchy
  <2>2. \A z \in Actors(op) : Table[z] = "users"
    BY <1>5 DEF Actors, In, Hierarchy
  <2>3. x \in Named(op)
    BY <1>5 DEF Rigid, Named, Hierarchy
  <2>4. QED BY <2>1, <2>2, <2>3
<1>6. QED BY <1>1, <1>2, <1>3, <1>4, <1>5 DEF Tables, Leaves

LEMMA Asks ==
    ASSUME live \subseteq Rows, Gate \in live, NEW op \in Operations, NEW T \in Tables,
           NEW h \in SUBSET Rows,
           op.kind = "withdraw" /\ T \in {"comments", "likes"} => OwnedIn(live, op.row) \subseteq h
    PROVE  /\ Wanted(op, T, h) \subseteq In(Rows, T)
           /\ \A y \in Wanted(op, T, h) : Reason(op, h, y)
           /\ op.kind = "delete" =>
                 \A y \in live : Table[y] = T /\ Refs[y] \cap h \cap Tree(op) # {}
                    => y \in Wanted(op, T, h)
           /\ op.kind = "withdraw" =>
                 \A y \in live : Table[y] = T /\ Doomed(live, op.row, y) => y \in Wanted(op, T, h)
           /\ NewPost(op) /\ T = "executions" =>
                 Occurrence[op.row] \in live \cup Wanted(op, T, h)
<1> DEFINE x == op.row
           W == Wanted(op, T, h)
<1>1. /\ x \in Rows /\ Table[x] \in Tables \ {"gate"}
      /\ op.kind = "withdraw" => Table[x] = "users"
  BY CallTables
<1>2. CASE op.kind = "withdraw"
  <2>1. W = WithdrawalRows(x, T) /\ Table[x] = "users"
    BY <1>1, <1>2 DEF Wanted
  <2>2. OwnedPosts(x) = OwnedIn(live, x) /\ TargetPosts(x) = TargetIn(live, x)
    BY <1>1, <2>1, Views
  <2>3. /\ T = "gate" => W = {Gate}
        /\ T = "users" => W = {x} \cap live
        /\ T \in Hierarchy => W = In(Below(x) \cap live, T)
        /\ T = "posts" => W = TargetIn(live, x)
        /\ T \in {"comments", "likes"} =>
              W = {y \in In(live, T) : Refs[y] \cap (OwnedIn(live, x) \cup {x}) # {}}
        /\ T \in {"follows", "sessions"} => W = {y \in In(live, T) : x \in Refs[y]}
    BY <2>1, <2>2 DEF WithdrawalRows, Hierarchy
  <2>4. \A y \in live : y \in Below(x) <=> x \in Above(y)
    BY <1>1, Belows
  <2>5. \A p \in OwnedIn(live, x) : p \in live /\ Table[p] = "posts"
    BY DEF OwnedIn, In
  <2>6. \A p \in TargetIn(live, x) : p \in live /\ Table[p] = "posts"
    BY <2>5 DEF TargetIn, In
  <2>7. Table[Gate] = "gate"
    BY SchemaAssumption, RowsAssumption
  <2> HIDE DEF x, W
  <2>8. W \subseteq In(Rows, T)
    BY <1>1, <2>1, <2>3, <2>6, <2>7 DEF In, Tables, Leaves
  <2>9. ASSUME NEW y \in W PROVE Reason(op, h, y)
    <3>1. Table[y] = T /\ y \in Rows
      BY <2>8, <2>9 DEF In
    <3>2. T \in Hierarchy => x \in Above(y)
      BY <2>3, <2>4, <2>9 DEF In
    <3>3. T \in {"comments", "likes"} => x \in Refs[y] \/ \E p \in Refs[y] \cap h : Table[p] = "posts"
      BY <1>2, <2>3, <2>5, <2>9 DEF x
    <3>4. T \in {"follows", "sessions"} => x \in Refs[y]
      BY <2>3, <2>9
    <3>5. T = "users" => y = x
      BY <2>3, <2>9
    <3>6. QED BY <1>2, <3>1, <3>2, <3>3, <3>4, <3>5 DEF Reason, x
  <2>10. ASSUME NEW y \in live, Table[y] = T, Doomed(live, x, y) PROVE y \in W
    <3>1. T \in {"gate", "users"} => y \in {Gate, x}
      BY <2>10 DEF Doomed
    <3>2. T = "gate" => y = Gate
      BY <2>10, SchemaAssumption
    <3>3. T = "users" => y = x
      BY <2>7, <2>10, <3>1
    <3>4. T \in Hierarchy => y \in Below(x)
      BY <2>4, <2>10 DEF Doomed
    <3>5. T = "posts" => y \in TargetIn(live, x)
      BY <2>10 DEF Doomed
    <3>6. T \in {"comments", "likes"} => Refs[y] \cap (OwnedIn(live, x) \cup {x}) # {}
      BY <2>10 DEF Doomed
    <3>7. T \in {"follows", "sessions"} => x \in Refs[y]
      BY <2>10 DEF Doomed
    <3>8. QED BY <2>3, <2>10, <3>2, <3>3, <3>4, <3>5, <3>6, <3>7 DEF In, Tables, Leaves
  <2>11. op.kind # "delete" /\ ~NewPost(op)
    BY <1>2 DEF NewPost
  <2>12. QED BY <2>8, <2>9, <2>10, <2>11 DEF x, W
<1>3. CASE op.kind # "withdraw"
  <2>1. W = In(Present(op) \cap
               (Path(op) \cup (IF op.kind = "delete" THEN Children(op, h) ELSE {})
                  \cup (IF op.kind = "insert" /\ T = "sessions" THEN ExpiredSessions(op) ELSE {})), T)
    BY <1>3 DEF Wanted
  <2>2. Present(op) \subseteq Rows
    BY <1>1, RowsAssumption DEF Present
  <2>3. Children(op, h) = {y \in live : Refs[y] \cap h \cap Tree(op) # {}}
    BY DEF Children, Tree
  <2>4. \A s \in ExpiredSessions(op) : Table[s] = "sessions" /\ Refs[s] = Refs[x]
    BY SchemaAssumption DEF ExpiredSessions
  <2>5. \A y \in Path(op) : Table[y] = "users" \/ y \in Named(op)
    BY <1>3, PathNamed
  <2>6. live \subseteq Present(op)
    BY DEF Present
  <2>7. NewPost(op) => Occurrence[x] \in Present(op) /\ Occurrence[x] \in Path(op) \cup live
                       /\ Table[Occurrence[x]] = "executions"
    <3>1. SUFFICES ASSUME NewPost(op)
                   PROVE  Occurrence[x] \in Present(op) /\ Occurrence[x] \in Path(op) \cup live
                          /\ Table[Occurrence[x]] = "executions"
      OBVIOUS
    <3>2. Table[x] = "posts" /\ op.kind = "insert"
      BY <3>1 DEF NewPost
    <3>3. Table[Occurrence[x]] = "executions"
      BY <1>1, <3>2, SchemaAssumption, RowsAssumption
    <3>4. QED BY <3>2, <3>3 DEF Present, Path, Hierarchy
  <2> HIDE DEF x, W
  <2>8. W \subseteq In(Rows, T)
    BY <2>1, <2>2 DEF In
  <2>9. ASSUME NEW y \in W PROVE Reason(op, h, y)
    <3>1. \/ y \in Path(op)
          \/ op.kind = "delete" /\ Refs[y] \cap h \cap Tree(op) # {}
          \/ op.kind = "insert" /\ y \in ExpiredSessions(op)
      BY <2>1, <2>3, <2>9 DEF In
    <3>2. QED BY <1>3, <2>4, <2>5, <3>1 DEF Reason, x
  <2>10. op.kind = "delete" =>
            \A y \in live : Table[y] = T /\ Refs[y] \cap h \cap Tree(op) # {} => y \in W
    BY <2>1, <2>3, <2>6 DEF In
  <2>11. NewPost(op) /\ T = "executions" => Occurrence[x] \in live \cup W
    BY <2>1, <2>7 DEF In
  <2>12. QED BY <1>3, <2>8, <2>9, <2>10, <2>11 DEF x, W
<1>4. QED BY <1>2, <1>3

-----------------------------------------------------------------------------
(* The steps of a transaction keep what it knows *)

LEMMA Starts ==
    ASSUME live \subseteq Rows, Gate \in live, NEW q, q.op \in Operations, q.at = 1,
           q.todo = Wanted(q.op, Program(q.op)[1], {})
    PROVE  Fine(live, q, {})
<1> DEFINE op == q.op
           T == Program(op)[1]
<1>1. 1 \in 1 .. Len(Program(op)) /\ T \in Tables
  BY ProgramType
<1>2. \A S : InProgram(op, S) => S \in Tables /\ Level(T) <= Level(S)
  BY <1>1, Climbing
<1>3. op.kind = "withdraw" => T = "gate"
  BY ProgramShapes DEF WithdrawalProgram
<1> DEFINE h == {}
<1>4. /\ q.todo \subseteq In(Rows, T)
      /\ \A y \in q.todo : Reason(op, h, y)
      /\ op.kind = "withdraw" =>
            \A y \in live : Table[y] = T /\ Doomed(live, op.row, y) => y \in q.todo
      /\ NewPost(op) /\ T = "executions" => Occurrence[op.row] \in live \cup q.todo
  <2>1. h \in SUBSET Rows /\ q.todo = Wanted(op, T, h)
    OBVIOUS
  <2>2. ~(op.kind = "withdraw" /\ T \in {"comments", "likes"})
    BY <1>3
  <2> HIDE DEF op, T, h
  <2>3. op \in Operations
    BY DEF op
  <2>4. QED BY <1>1, <2>1, <2>2, <2>3, Asks
<1>5. At(q) = T /\ Now(q) = Level(T)
  BY DEF At, Now
<1>6. Placed(q, h)
  BY <1>1, <1>4, <1>5 DEF Placed
<1>7. Holds(live, q, h)
  BY DEF Holds
<1>8. Got(q, h)
  <2>1. ASSUME NEW x \in Needs(op), Lv(x) < Level(T) PROVE FALSE
    <3>1. InProgram(op, Table[x])
      BY ProgramCovers
    <3>2. Table[x] \in Tables /\ Level(T) <= Lv(x)
      BY <1>2, <3>1 DEF Lv
    <3>3. Lv(x) \in 1 .. 11 /\ Level(T) \in 1 .. 11
      BY <1>1, <3>2, LevelOrder DEF Lv
    <3>4. QED BY <2>1, <3>2, <3>3
  <2>2. QED BY <1>5, <2>1 DEF Got
<1>9. Asked(q, h)
  BY <1>4 DEF Asked
<1>10. \A S : InProgram(op, S) /\ Level(S) <= Level(T) => S = T
  <2>1. ASSUME NEW S, InProgram(op, S), Level(S) <= Level(T) PROVE S = T
    <3>1. S \in Tables /\ Level(T) <= Level(S)
      BY <1>2, <2>1
    <3>2. Level(S) \in 1 .. 11 /\ Level(T) \in 1 .. 11
      BY <1>1, <3>1, LevelOrder
    <3>3. QED BY <1>1, <2>1, <3>1, <3>2, LevelOrder
  <2>2. QED BY <2>1
<1>11. Whole(live, q, h)
  <2>1. op.kind = "withdraw" =>
           \A y \in live : Lv(y) <= Now(q) /\ Doomed(live, op.row, y) => y \in h \cup q.todo
    <3>1. ASSUME op.kind = "withdraw", NEW y \in live, Lv(y) <= Now(q), Doomed(live, op.row, y)
          PROVE  y \in q.todo
      <4>1. InProgram(op, Table[y])
        BY <3>1, ProgramCovers, RowTables
      <4>2. Table[y] = T
        BY <1>5, <1>10, <3>1, <4>1 DEF Lv
      <4>3. QED BY <1>4, <3>1, <4>2
    <3>2. QED BY <3>1
  <2>2. NewPost(op) /\ Level("executions") <= Now(q) => Occurrence[op.row] \in live \cup h \cup q.todo
    BY <1>4, <1>5, <1>10, ProgramCovers
  <2>3. op.kind = "delete" =>
           \A y \in live : Lv(y) <= Now(q) /\ Refs[y] \cap h \cap Tree(op) # {} => y \in h \cup q.todo
    OBVIOUS
  <2>4. QED BY <2>1, <2>2, <2>3 DEF Whole
<1>12. QED BY <1>6, <1>7, <1>8, <1>9, <1>11 DEF Fine

\* The levels a transaction works with.
LEMMA Standing ==
    ASSUME NEW q, NEW h, Placed(q, h)
    PROVE  /\ At(q) \in Tables /\ Now(q) \in 1 .. 11 /\ q.op \in Operations
           /\ \A x \in q.todo : x \in Rows /\ Table[x] = At(q) /\ Lv(x) = Now(q)
           /\ \A x \in Rows : Lv(x) = Now(q) => Table[x] = At(q)
<1>1. At(q) \in Tables
  BY ProgramType DEF Placed, At
<1>2. Now(q) \in 1 .. 11
  BY <1>1, LevelOrder DEF Now
<1>3. \A x \in q.todo : x \in Rows /\ Table[x] = At(q)
  BY DEF Placed, In
<1>4. \A x \in Rows : Table[x] \in Tables
  BY RowTables
<1>5. \A x \in Rows : Lv(x) = Now(q) => Table[x] = At(q)
  BY <1>1, <1>4, LevelOrder DEF Lv, Now
<1>6. \A x \in q.todo : Lv(x) = Now(q)
  BY <1>3 DEF Lv, Now
<1>7. QED BY <1>1, <1>2, <1>3, <1>5, <1>6 DEF Placed

LEMMA Takes ==
    ASSUME NEW V \in SUBSET Rows, NEW q, NEW h, Fine(V, q, h),
           NEW x \in q.todo, x \in PresentIn(V, q.op),
           ~AnyOrder(q) => \A y \in q.todo : Id[x] <= Id[y],
           NEW g, g.op = q.op, g.at = q.at, g.todo = q.todo \ {x}
    PROVE  Fine(V, g, h \cup {x})
<1> DEFINE k == h \cup {x}
<1>1. Placed(q, h) /\ Holds(V, q, h) /\ Got(q, h) /\ Asked(q, h) /\ Whole(V, q, h)
  BY DEF Fine
<1>2. /\ At(q) \in Tables /\ Now(q) \in 1 .. 11 /\ q.op \in Operations
      /\ \A y \in q.todo : y \in Rows /\ Table[y] = At(q) /\ Lv(y) = Now(q)
  BY <1>1, Standing
<1>3. At(g) = At(q) /\ Now(g) = Now(q) /\ (AnyOrder(g) <=> AnyOrder(q))
  BY DEF At, Now, AnyOrder
<1>4. Placed(g, k)
  BY <1>1, <1>2, <1>3 DEF Placed
<1>5. Holds(V, g, k)
  <2>1. \A y \in k : Lv(y) <= Now(g) /\ y \in PresentIn(V, g.op) /\ y \notin g.todo
    BY <1>1, <1>2, <1>3 DEF Holds
  <2>2. ASSUME ~AnyOrder(g), NEW y \in k, NEW z \in g.todo, Table[y] = Table[z]
        PROVE  Id[y] < Id[z]
    <3>1. CASE y \in h
      BY <1>1, <1>3, <2>2, <3>1 DEF Holds
    <3>2. CASE y = x
      <4>1. Id[x] <= Id[z] /\ x # z /\ x \in Rows /\ z \in Rows
        BY <1>2, <1>3, <2>2
      <4>2. Id[x] # Id[z] /\ Id[x] \in Nat /\ Id[z] \in Nat
        BY <2>2, <3>2, <4>1, SchemaAssumption, RowsAssumption
      <4>3. QED BY <3>2, <4>1, <4>2
    <3>3. QED BY <2>2, <3>1, <3>2
  <2>3. QED BY <2>1, <2>2 DEF Holds
<1>6. Got(g, k)
  BY <1>1, <1>3 DEF Got
<1>7. \A y : Reason(q.op, h, y) => Reason(q.op, k, y)
  BY DEF Reason
<1>8. Asked(g, k)
  BY <1>1, <1>7 DEF Asked
<1>9. Whole(V, g, k)
  <2>1. \A y \in V : x \in Refs[y] => ~(Lv(y) <= Now(q))
    <3>1. ASSUME NEW y \in V, x \in Refs[y] PROVE ~(Lv(y) <= Now(q))
      <4>1. Lv(x) < Lv(y) /\ Lv(y) \in 1 .. 11 /\ Lv(x) = Now(q)
        BY <1>2, <3>1, Keys, RowTables
      <4>2. QED BY <1>2, <4>1
    <3>2. QED BY <3>1
  <2>2. ASSUME q.op.kind = "delete", NEW y \in V, Lv(y) <= Now(q), Refs[y] \cap k \cap Tree(q.op) # {}
        PROVE  y \in k \cup g.todo
    <3>1. Refs[y] \cap h \cap Tree(q.op) # {}
      BY <2>1, <2>2
    <3>2. y \in h \cup q.todo
      BY <1>1, <2>2, <3>1 DEF Whole
    <3>3. QED BY <3>2
  <2>3. h \cup q.todo = k \cup g.todo
    OBVIOUS
  <2>4. V \cup h \cup q.todo = V \cup k \cup g.todo
    OBVIOUS
  <2>5. QED BY <1>1, <1>3, <2>2, <2>3, <2>4 DEF Whole
<1>10. QED BY <1>4, <1>5, <1>6, <1>8, <1>9 DEF Fine

LEMMA Passes ==
    ASSUME NEW V \in SUBSET Rows, NEW q, NEW h, Fine(V, q, h),
           NEW x \in q.todo, x \notin PresentIn(V, q.op),
           NEW g, g.op = q.op, g.at = q.at, g.todo = q.todo \ {x}
    PROVE  Fine(V, g, h)
<1>1. Placed(q, h) /\ Holds(V, q, h) /\ Got(q, h) /\ Asked(q, h) /\ Whole(V, q, h)
  BY DEF Fine
<1>2. At(g) = At(q) /\ Now(g) = Now(q) /\ (AnyOrder(g) <=> AnyOrder(q))
  BY DEF At, Now, AnyOrder
<1>3. Placed(g, h)
  BY <1>1, <1>2 DEF Placed
<1>4. Holds(V, g, h)
  BY <1>1, <1>2 DEF Holds
<1>5. Got(g, h) /\ Asked(g, h)
  BY <1>1, <1>2 DEF Got, Asked
<1>6. x \notin V /\ (NewPost(q.op) => x # Occurrence[q.op.row])
  BY DEF PresentIn, NewPost
<1>7. Whole(V, g, h)
  BY <1>1, <1>2, <1>6 DEF Whole
<1>8. QED BY <1>3, <1>4, <1>5, <1>7 DEF Fine

LEMMA Moves ==
    ASSUME live \subseteq Rows, Gate \in live, NEW q, NEW h, Fine(live, q, h), q.todo = {},
           q.at + 1 \in 1 .. Len(Program(q.op)), In(Needs(q.op), At(q)) \subseteq h,
           NEW g, g.op = q.op, g.at = q.at + 1, g.todo = Wanted(q.op, Program(q.op)[q.at + 1], h)
    PROVE  Fine(live, g, h)
<1> DEFINE op == q.op
           T == Program(op)[q.at + 1]
<1>1. Placed(q, h) /\ Holds(live, q, h) /\ Got(q, h) /\ Asked(q, h) /\ Whole(live, q, h)
  BY DEF Fine
<1>2. /\ At(q) \in Tables /\ Now(q) \in 1 .. 11 /\ op \in Operations /\ h \in SUBSET Rows
  BY <1>1, Standing DEF Placed
<1>3. q.at \in 1 .. Len(Program(op))
  BY <1>1 DEF Placed
<1>4. At(g) = T /\ Now(g) = Level(T) /\ At(q) = Program(op)[q.at] /\ Now(q) = Level(At(q))
  BY DEF At, Now
<1>5. \A S : InProgram(op, S) =>
         /\ S \in Tables /\ T \in Tables /\ Now(q) < Level(T)
         /\ Level(S) < Level(T) => Level(S) <= Now(q)
  <2>1. InProgram(op, T)
    BY DEF InProgram
  <2>2. T \in Tables
    BY <1>2, <1>3, <2>1, Climbing
  <2>3. QED BY <1>2, <1>3, <1>4, <2>2, Climbing
<1>6. T \in Tables /\ Level(T) \in 1 .. 11 /\ Now(q) < Level(T)
  <2>1. InProgram(op, T)
    BY DEF InProgram
  <2>2. QED BY <1>5, <2>1, LevelOrder
<1> HIDE DEF T
<1>7. op.kind = "withdraw" /\ T \in {"comments", "likes"} => OwnedIn(live, op.row) \subseteq h
  <2>1. SUFFICES ASSUME op.kind = "withdraw", T \in {"comments", "likes"},
                        NEW p \in OwnedIn(live, op.row)
                 PROVE  p \in h
    OBVIOUS
  <2>2. p \in live /\ Table[p] = "posts" /\ p \in TargetIn(live, op.row)
    BY <2>1 DEF OwnedIn, TargetIn, In
  <2>3. Level("posts") < Level(T) /\ InProgram(op, "posts")
    BY <1>2, <2>1, Levels, ProgramCovers DEF Tables
  <2>4. Lv(p) <= Now(q)
    BY <1>5, <2>2, <2>3 DEF Lv
  <2>5. Doomed(live, op.row, p)
    BY <2>2 DEF Doomed, Hierarchy
  <2>6. QED BY <1>1, <2>1, <2>2, <2>4, <2>5 DEF Whole
<1>8. /\ g.todo \subseteq In(Rows, T)
      /\ \A y \in g.todo : Reason(op, h, y)
      /\ op.kind = "delete" =>
            \A y \in live : Table[y] = T /\ Refs[y] \cap h \cap Tree(op) # {} => y \in g.todo
      /\ op.kind = "withdraw" =>
            \A y \in live : Table[y] = T /\ Doomed(live, op.row, y) => y \in g.todo
      /\ NewPost(op) /\ T = "executions" => Occurrence[op.row] \in live \cup g.todo
  <2>1. g.todo = Wanted(op, T, h)
    BY DEF T
  <2> HIDE DEF op
  <2>2. QED BY <1>2, <1>6, <1>7, <2>1, Asks
<1>9. Placed(g, h)
  BY <1>2, <1>4, <1>8 DEF Placed
<1>10. \A x \in h : Lv(x) <= Now(q) /\ x \in Rows /\ Lv(x) \in 1 .. 11 /\ Lv(x) < Level(T)
  <2>1. \A x \in h : Lv(x) <= Now(q) /\ x \in Rows /\ Lv(x) \in 1 .. 11
    BY <1>1, <1>2, RowTables DEF Holds
  <2>2. QED BY <1>2, <1>6, <2>1
<1>11. Holds(live, g, h)
  <2>1. \A x \in h : x \notin g.todo
    BY <1>8, <1>10 DEF In, Lv
  <2>2. \A x \in h, y \in g.todo : Table[x] # Table[y]
    BY <1>8, <1>10 DEF In, Lv
  <2>3. \A x \in h : Lv(x) <= Now(g) /\ x \in PresentIn(live, g.op)
    BY <1>1, <1>4, <1>6, <1>10 DEF Holds
  <2>4. QED BY <2>1, <2>2, <2>3 DEF Holds
<1>12. Got(g, h)
  <2>1. ASSUME NEW x \in Needs(op), Lv(x) < Level(T) PROVE x \in h
    <3>1. InProgram(op, Table[x])
      BY <1>2, ProgramCovers
    <3>2. Table[x] \in Tables /\ Lv(x) <= Now(q) /\ Lv(x) \in 1 .. 11
      BY <1>5, <2>1, <3>1, LevelOrder DEF Lv
    <3>3. CASE Lv(x) < Now(q)
      BY <1>1, <2>1, <3>3 DEF Got
    <3>4. CASE Lv(x) = Now(q)
      <4>1. Table[x] = At(q)
        BY <1>2, <1>4, <3>2, <3>4, LevelOrder DEF Lv
      <4>2. QED BY <2>1, <4>1 DEF In
    <3>5. QED BY <1>2, <3>2, <3>3, <3>4
  <2>2. QED BY <1>4, <2>1 DEF Got
<1>13. Asked(g, h)
  BY <1>1, <1>8 DEF Asked
<1>14. \A S : InProgram(op, S) /\ Level(S) <= Level(T) => Level(S) <= Now(q) \/ S = T
  <2>1. ASSUME NEW S, InProgram(op, S), Level(S) <= Level(T), S # T PROVE Level(S) <= Now(q)
    <3>1. S \in Tables /\ Level(S) \in 1 .. 11 /\ Level(S) # Level(T)
      BY <1>5, <1>6, <2>1, LevelOrder
    <3>2. Level(S) < Level(T)
      BY <1>6, <2>1, <3>1
    <3>3. QED BY <1>5, <2>1, <3>2
  <2>2. QED BY <2>1
<1>15. Whole(live, g, h)
  <2>1. ASSUME op.kind = "withdraw", NEW y \in live, Lv(y) <= Level(T), Doomed(live, op.row, y)
        PROVE  y \in h \cup g.todo
    <3>1. InProgram(op, Table[y])
      BY <1>2, <2>1, ProgramCovers, RowTables
    <3>2. Lv(y) <= Now(q) \/ Table[y] = T
      BY <1>14, <2>1, <3>1 DEF Lv
    <3>3. QED BY <1>1, <1>8, <2>1, <3>2 DEF Whole
  <2>2. ASSUME op.kind = "delete", NEW y \in live, Lv(y) <= Level(T), Refs[y] \cap h \cap Tree(op) # {}
        PROVE  y \in h \cup g.todo
    <3>1. PICK z \in Refs[y] : z \in Tree(op)
      BY <2>2
    <3>2. y \in Rows /\ z \in Rows /\ op.row \in Rows
      BY <1>2, <2>2, CallTables, Keys
    <3>3. op.row \in Above(y)
      <4>1. z \in Above(y) /\ Refs[y] \subseteq Above(y)
        BY <3>1, <3>2, Closure
      <4>2. CASE z = op.row
        BY <4>1, <4>2
      <4>3. CASE z \in Below(op.row)
        <5>1. op.row \in Above(z)
          BY <3>2, <4>3, Belows
        <5>2. QED BY <3>1, <3>2, <5>1, AboveUp
      <4>4. QED BY <3>1, <4>2, <4>3 DEF Tree
    <3>4. InProgram(op, Table[y])
      BY <1>2, <2>2, <3>2, <3>3, Belows, ProgramCovers
    <3>5. Lv(y) <= Now(q) \/ Table[y] = T
      BY <1>14, <2>2, <3>4 DEF Lv
    <3>6. QED BY <1>1, <1>8, <2>2, <3>5 DEF Whole
  <2>3. ASSUME NewPost(op), Level("executions") <= Level(T)
        PROVE  Occurrence[op.row] \in live \cup h \cup g.todo
    <3>1. InProgram(op, "executions")
      BY <1>2, <2>3, ProgramCovers
    <3>2. Level("executions") <= Now(q) \/ T = "executions"
      BY <1>14, <2>3, <3>1
    <3>3. QED BY <1>1, <1>8, <2>3, <3>2 DEF Whole
  <2>4. QED BY <1>4, <2>1, <2>2, <2>3 DEF Whole
<1>16. QED BY <1>9, <1>11, <1>12, <1>13, <1>15 DEF Fine

-----------------------------------------------------------------------------
(* What a commit takes away and what it adds *)

Ended(q, h) ==
    q.todo = {} /\ q.at = Len(Program(q.op)) /\ In(Needs(q.op), At(q)) \subseteq h

Loses(V, op, h) ==
    h \cap
    CASE op.kind = "withdraw" ->
            {x \in V \ {Gate} : Table[x] = "posts" => x \in OwnedIn(V, op.row)}
      [] op.kind = "delete" -> {op.row} \cup Below(op.row)
      [] op.kind = "toggle" -> {op.row} \cap V
      [] op.kind = "insert" /\ Table[op.row] = "sessions" -> Expired \ {op.row}
      [] OTHER -> {}

Gains(V, op, h) ==
    CASE op.kind = "insert" /\ Table[op.row] = "posts" ->
            (h \cap {Occurrence[op.row]}) \cup
            (IF \E p \in In(V, "posts") : Occurrence[p] = Occurrence[op.row]
             THEN {} ELSE {op.row})
      [] op.kind = "insert" /\ Table[op.row] # "posts" -> {op.row}
      [] op.kind = "toggle" -> {op.row} \ V
      [] OTHER -> {}

Closed(V) == \A x \in V : Refs[x] \subseteq V

\* Two transactions hold no conflicting locks.
Friends(q, h, r, k) == \A x \in h \cap k : ~Conflict(Mode(q.op, x), Mode(r.op, x))

LEMMA Tops ==
    ASSUME NEW y \in Rows, Table[y] \in {"gate", "users"}
    PROVE  Refs[y] = {} /\ Above(y) = {}
BY Keys, Closure

LEMMA Trees ==
    ASSUME NEW op \in Operations, op.kind = "delete", NEW x \in Tree(op)
    PROVE  /\ x \in Rows /\ Table[x] \notin {"gate", "users"}
           /\ x # op.row => Lv(op.row) < Lv(x)
           /\ \A y \in Rows : x \in Refs[y] => y \in Below(op.row)
<1>1. /\ op.row \in Rows /\ op.row \in Rows
      /\ Table[op.row] \in {"modarats", "mogaks", "jogaks", "posts", "comments", "sessions", "follows"}
  BY CallTables, CallsAssumption
<1>2. x = op.row \/ (x \in Rows /\ op.row \in Above(x))
  BY <1>1, Belows DEF Tree
<1>3. x # op.row => Lv(op.row) < Lv(x)
  BY <1>2, Lower
<1>4. Table[x] \notin {"gate", "users"}
  BY <1>1, <1>2, Tops
<1>5. ASSUME NEW y \in Rows, x \in Refs[y] PROVE y \in Below(op.row)
  <2>1. x \in Above(y) /\ Above(x) \subseteq Above(y)
    BY <1>5, Closure, AboveUp
  <2>2. op.row \in Above(y)
    BY <1>2, <2>1
  <2>3. QED BY <1>1, <2>2, Belows
<1>6. QED BY <1>1, <1>2, <1>3, <1>4, <1>5

LEMMA UpdateModes ==
    ASSUME NEW op \in Operations, NEW x \in Rows
    PROVE  /\ op.kind = "withdraw" => Mode(op, x) = "update"
           /\ op.kind = "delete" /\ x \in Tree(op) => Mode(op, x) = "update"
           /\ op.kind \in {"insert", "toggle"} /\ Table[x] \in {"likes", "sessions"} =>
                 Mode(op, x) = "update"
<1>1. op.kind = "withdraw" => Table[op.row] = "users"
  BY CallTables
<1>2. op.kind = "withdraw" => Mode(op, x) = "update"
  BY <1>1 DEF Mode
<1>3. ASSUME op.kind = "delete", x \in Tree(op) PROVE Mode(op, x) = "update"
  <2>1. Table[x] # "users"
    BY <1>3, Trees
  <2>2. ASSUME Table[op.row] \in {"comments", "likes"}, Table[x] = "posts" PROVE FALSE
    <3>1. Lv(op.row) < Lv(x)
      BY <1>3, <2>2, Trees
    <3>2. QED BY <2>2, <3>1, Levels DEF Lv
  <2>3. QED BY <1>3, <2>1, <2>2 DEF Mode
<1>4. ASSUME op.kind \in {"insert", "toggle"}, Table[x] \in {"likes", "sessions"}
      PROVE  Mode(op, x) = "update"
  BY <1>4 DEF Mode
<1>5. QED BY <1>2, <1>3, <1>4

\* A transaction whose program has ended holds whatever it needs.
LEMMA Ends ==
    ASSUME NEW V \in SUBSET Rows, NEW q, NEW h, Fine(V, q, h), Ended(q, h)
    PROVE  /\ q.op \in Operations /\ h \subseteq Rows /\ Needs(q.op) \subseteq h
           /\ \A T : InProgram(q.op, T) => Level(T) <= Now(q)
           /\ \A x \in h : x \in PresentIn(V, q.op)
           /\ \A y \in h : Reason(q.op, h, y)
<1>1. Placed(q, h) /\ Holds(V, q, h) /\ Got(q, h) /\ Asked(q, h)
  BY DEF Fine
<1>2. /\ q.op \in Operations /\ h \subseteq Rows /\ q.at \in 1 .. Len(Program(q.op))
      /\ Now(q) \in 1 .. 11 /\ \A x \in Rows : Lv(x) = Now(q) => Table[x] = At(q)
  BY <1>1, Standing DEF Placed
<1>3. Now(q) = Level(Program(q.op)[Len(Program(q.op))])
  BY DEF Now, At, Ended
<1>4. \A T : InProgram(q.op, T) => Level(T) <= Now(q) /\ T \in Tables
  BY <1>2, <1>3, Climbing
<1>5. ASSUME NEW x \in Needs(q.op) PROVE x \in h
  <2>1. Lv(x) <= Now(q) /\ x \in Rows
    <3>1. InProgram(q.op, Table[x])
      BY <1>2, ProgramCovers
    <3>2. x \in Rows
      BY <1>2, NamedRows, CallTables DEF Needs
    <3>3. QED BY <1>4, <3>1, <3>2 DEF Lv
  <2>2. CASE Lv(x) < Now(q)
    BY <1>1, <1>5, <2>2 DEF Got
  <2>3. CASE Lv(x) = Now(q)
    BY <1>2, <1>5, <2>1, <2>3 DEF Ended, In
  <2>4. Lv(x) \in 1 .. 11
    BY <2>1, RowTables
  <2>5. QED BY <1>2, <2>1, <2>2, <2>3, <2>4
<1>6. QED BY <1>1, <1>2, <1>4, <1>5 DEF Holds, Asked, Ended

\* It takes away rows it holds exclusively.
LEMMA Losses ==
    ASSUME NEW V \in SUBSET Rows, NEW q, NEW h, Fine(V, q, h), Ended(q, h)
    PROVE  /\ Loses(V, q.op, h) \subseteq h /\ Loses(V, q.op, h) \subseteq V
           /\ Gate \notin Loses(V, q.op, h)
           /\ \A x \in Loses(V, q.op, h) : Mode(q.op, x) = "update"
           /\ q.op.kind \in {"insert", "toggle"} =>
                 \A x \in Loses(V, q.op, h) : Table[x] \in {"likes", "sessions"}
           /\ q.op.kind \notin {"insert", "toggle", "delete", "withdraw"} => Loses(V, q.op, h) = {}
<1> DEFINE op == q.op
           D == Loses(V, op, h)
<1>1. op \in Operations /\ h \subseteq Rows /\ \A x \in h : x \in PresentIn(V, op)
  BY Ends
<1>2. op.row \in Rows /\ Table[op.row] # "gate" /\ (op.kind = "toggle" => Table[op.row] = "likes")
  BY <1>1, CallTables, CallsAssumption
<1>3. Table[Gate] = "gate" /\ Gate \in Rows /\ \A s \in Expired : Table[s] = "sessions"
  BY SchemaAssumption, RowsAssumption
<1> HIDE DEF op
<1>4. CASE op.kind = "withdraw"
  <2>1. D = h \cap {x \in V \ {Gate} : Table[x] = "posts" => x \in OwnedIn(V, op.row)}
    BY <1>4 DEF Loses
  <2>2. QED BY <1>1, <1>4, <2>1, UpdateModes DEF op
<1>5. CASE op.kind = "delete"
  <2>1. D = h \cap Tree(op)
    BY <1>5 DEF Loses, Tree
  <2>2. \A x \in D : x \in V
    BY <1>1, <1>5, <2>1 DEF PresentIn
  <2>3. Gate \notin D
    BY <1>1, <1>3, <1>5, <2>1, Trees
  <2>4. QED BY <1>1, <1>5, <2>1, <2>2, <2>3, UpdateModes DEF op
<1>6. CASE op.kind = "toggle"
  <2>1. D = h \cap ({op.row} \cap V)
    BY <1>6 DEF Loses
  <2>2. QED BY <1>1, <1>2, <1>3, <1>6, <2>1, UpdateModes DEF op
<1>7. CASE op.kind = "insert" /\ Table[op.row] = "sessions"
  <2>1. D = h \cap (Expired \ {op.row})
    BY <1>7 DEF Loses
  <2>2. \A x \in D : x \in V
    BY <1>1, <1>7, <2>1 DEF PresentIn
  <2>3. \A x \in D : Table[x] = "sessions" /\ x \in Rows
    BY <1>1, <1>3, <2>1
  <2>4. QED BY <1>1, <1>3, <1>7, <2>1, <2>2, <2>3, UpdateModes DEF op
<1>8. CASE op.kind \notin {"withdraw", "delete", "toggle"} /\ ~(op.kind = "insert" /\ Table[op.row] = "sessions")
  <2>1. D = {}
    BY <1>8 DEF Loses
  <2>2. QED BY <1>8, <2>1 DEF op
<1>9. QED BY <1>4, <1>5, <1>6, <1>7, <1>8

\* It adds rows whose parents exist, and holds those.
LEMMA Gained ==
    ASSUME NEW V \in SUBSET Rows, NEW q, NEW h, Fine(V, q, h), Ended(q, h),
           NEW y \in Gains(V, q.op, h)
    PROVE  /\ y \in Rows /\ Refs[y] \subseteq h /\ Refs[y] \subseteq V
           /\ Refs[y] \cap Loses(V, q.op, h) = {}
           /\ y = q.op.row \/ (NewPost(q.op) /\ y = Occurrence[q.op.row] /\ y \in h)
           /\ q.op.kind \in {"insert", "toggle"}
           /\ Table[y] \notin {"gate", "users"}
           /\ NewPost(q.op) => \A z \in Refs[Occurrence[q.op.row]] : z \in h /\ z \in V
<1> DEFINE op == q.op
           e == Occurrence[op.row]
<1>1. op \in Operations /\ h \subseteq Rows /\ Needs(op) \subseteq h /\ \A x \in h : x \in PresentIn(V, op)
  BY Ends
<1>2. op.row \in Rows /\ Table[op.row] \in Tables \ {"gate"} /\ op.kind \in Kinds
  BY <1>1, CallTables
<1>3. op.kind \in {"insert", "toggle"} /\ (y = op.row \/ (NewPost(op) /\ y = e /\ y \in h))
  BY DEF Gains, NewPost
<1>4. Table[op.row] # "users"
  BY <1>1, <1>3, CallsAssumption DEF Hierarchy
<1>5. NewPost(op) => Table[e] = "executions" /\ e \in Rows /\ Table[op.row] = "posts"
  BY <1>2, SchemaAssumption, RowsAssumption DEF NewPost
<1>6. Refs[op.row] \subseteq Needs(op) /\ (NewPost(op) => \A z \in Refs[e] : z \in Needs(op))
  BY <1>1, <1>3, NamedRows
<1>7. ASSUME NEW z, z \in Refs[op.row] \/ (NewPost(op) /\ z \in Refs[e])
      PROVE  z \in h /\ z \in V /\ Table[z] \notin {"likes", "sessions"}
  <2>1. z \in h /\ z \in Rows
    BY <1>1, <1>6, <1>7
  <2>2. Table[z] \in {"users", "modarats", "mogaks", "jogaks", "posts"}
    BY <1>2, <1>5, <1>7, Keys
  <2>3. z # op.row
    <3>1. CASE z \in Refs[op.row]
      <4>1. Lv(z) < Lv(op.row) /\ Lv(z) \in 1 .. 11
        BY <1>2, <2>1, <3>1, Keys, RowTables
      <4>2. QED BY <4>1
    <3>2. CASE NewPost(op) /\ z \in Refs[e]
      <4>1. Table[z] = "jogaks" /\ Table[op.row] = "posts"
        BY <1>5, <3>2, Keys
      <4>2. QED BY <4>1
    <3>3. QED BY <1>7, <3>1, <3>2
  <2>4. NewPost(op) => z # e
    BY <1>5, <2>2
  <2>5. z \in PresentIn(V, op)
    BY <1>1, <2>1
  <2>6. z \in V
    <3>1. Table[op.row] = "posts" => NewPost(op)
      BY <1>1, <1>3, CallsAssumption DEF NewPost, Hierarchy
    <3>2. QED BY <2>3, <2>4, <2>5, <3>1 DEF PresentIn
  <2>7. QED BY <2>1, <2>2, <2>6
<1>8. \A x \in Loses(V, op, h) : Table[x] \in {"likes", "sessions"}
  BY <1>3, Losses
<1>9. QED BY <1>2, <1>3, <1>4, <1>5, <1>7, <1>8

LEMMA GainedParents ==
    ASSUME NEW V \in SUBSET Rows, NEW q, NEW h, Fine(V, q, h), Ended(q, h),
           NEW y \in Gains(V, q.op, h)
    PROVE  Refs[y] \subseteq h /\ Refs[y] \subseteq V
BY Gained

\* With a row goes every row that names it.
LEMMA NoneMissed ==
    ASSUME NEW V \in SUBSET Rows, NEW q, NEW h, Fine(V, q, h), Ended(q, h),
           NEW y \in V, NEW z \in Refs[y], z \in Loses(V, q.op, h)
    PROVE  y \in Loses(V, q.op, h)
<1> DEFINE op == q.op
           u == op.row
<1>1. op \in Operations /\ h \subseteq Rows /\ \A T : InProgram(op, T) => Level(T) <= Now(q)
  BY Ends
<1>2. Whole(V, q, h) /\ h \cup q.todo = h
  BY DEF Fine, Ended
<1>3. z \in h /\ z \in V /\ z \in Rows /\ y \in Rows
  BY Losses, Keys
<1>4. op.kind \in Kinds /\ u \in Rows
  BY <1>1, CallTables
<1>5. Table[z] \in {"users", "modarats", "mogaks", "jogaks", "posts"}
  BY Keys
<1>6. op.kind \in {"delete", "withdraw"}
  BY <1>5, Losses
<1>7. CASE op.kind = "delete"
  <2>1. z \in Tree(op) /\ \A x \in h : x \in Tree(op) => x \in Loses(V, op, h)
    BY <1>7 DEF Loses, Tree
  <2>2. y \in Below(op.row)
    BY <1>1, <1>3, <1>7, <2>1, Trees
  <2>3. Lv(y) <= Now(q)
    BY <1>1, <1>7, <2>2, ProgramCovers DEF Lv
  <2>4. y \in h
    BY <1>2, <1>3, <1>7, <2>1, <2>3 DEF Whole
  <2>5. QED BY <2>1, <2>2, <2>4 DEF Tree
<1>8. CASE op.kind = "withdraw"
  <2>1. Loses(V, op, h) = h \cap {x \in V \ {Gate} : Table[x] = "posts" => x \in OwnedIn(V, u)}
    BY <1>8 DEF Loses
  <2>2. z # Gate /\ (Table[z] = "posts" => z \in OwnedIn(V, u))
    BY <2>1
  <2>3. /\ Table[z] = "users" => z = u
        /\ Table[z] \in Hierarchy => u \in Above(z)
    <3>1. Reason(op, h, z)
      BY <1>3, Ends
    <3>2. QED BY <1>8, <3>1 DEF Reason
  <2>4. Table[z] \in Hierarchy => u \in Above(y)
    BY <1>3, <2>3, AboveUp
  <2>5. z \in Above(y)
    BY <1>3, Closure
  <2>6. Table[y] \in {"modarats", "mogaks", "jogaks", "executions", "posts", "comments", "likes",
                      "follows", "sessions"}
    BY <1>3, Keys, RowTables DEF Tables, Hierarchy, Leaves
  <2>7. /\ Table[y] \in Hierarchy => u \in Above(y)
        /\ Table[y] = "posts" => u \in Refs[y]
        /\ Table[y] \in {"comments", "likes"} => u \in Refs[y] \/ Table[z] = "posts"
        /\ Table[y] \in {"follows", "sessions"} => u \in Refs[y]
    BY <1>3, <2>3, <2>4, <2>5, Keys DEF Hierarchy
  <2>8. Table[y] = "posts" => y \in OwnedIn(V, u)
    BY <2>7 DEF OwnedIn, In
  <2>9. Doomed(V, u, y)
    BY <2>2, <2>6, <2>7, <2>8 DEF Doomed, TargetIn, Hierarchy
  <2>10. Lv(y) <= Now(q)
    BY <1>1, <1>3, <1>8, ProgramCovers, RowTables DEF Lv
  <2>11. y \in h
    BY <1>2, <1>8, <2>9, <2>10 DEF Whole
  <2>12. y # Gate
    BY <2>6, SchemaAssumption
  <2>13. QED BY <2>1, <2>8, <2>11, <2>12
<1>9. QED BY <1>6, <1>7, <1>8

\* What is left refers to rows that are left.
LEMMA StillClosed ==
    ASSUME NEW V \in SUBSET Rows, NEW q, NEW h, Fine(V, q, h), Ended(q, h), Closed(V)
    PROVE  Closed((V \ Loses(V, q.op, h)) \cup Gains(V, q.op, h))
BY Gained, NoneMissed DEF Closed

-----------------------------------------------------------------------------
(* A commit leaves the others knowing what they knew: q and h commit, r and *)
(* k are another transaction's                                              *)

After(V, q, h) == (V \ Loses(V, q.op, h)) \cup Gains(V, q.op, h)

LEMMA NotShared ==
    ASSUME NEW V \in SUBSET Rows, NEW q, NEW h, Fine(V, q, h), Ended(q, h),
           NEW r, NEW k, Fine(V, r, k), Friends(q, h, r, k)
    PROVE  /\ k \cap Loses(V, q.op, h) = {}
           /\ q.op.kind = "withdraw" => k \cap h = {}
           /\ q.op.kind = "delete" => k \cap h \cap Tree(q.op) = {}
           /\ r.op.kind = "withdraw" => k \cap h = {}
           /\ r.op.kind = "delete" => k \cap h \cap Tree(r.op) = {}
<1>1. \A x \in h \cap k : Mode(q.op, x) # "update" /\ Mode(r.op, x) # "update"
  BY DEF Friends, Conflict
<1>2. q.op \in Operations /\ r.op \in Operations /\ h \subseteq Rows /\ k \subseteq Rows
  BY DEF Fine, Placed
<1>3. k \cap Loses(V, q.op, h) = {}
  BY <1>1, Losses
<1>4. QED BY <1>1, <1>2, <1>3, UpdateModes

\* A withdrawal past the jogaks keeps the occurrences of its user as they were.
LEMMA NoNewOwner ==
    ASSUME NEW V \in SUBSET Rows, NEW q, NEW h, Fine(V, q, h), Ended(q, h), Closed(V),
           NEW r, NEW k, Fine(V, r, k), Friends(q, h, r, k),
           r.op.kind = "withdraw", Now(r) > 5,
           NEW e \in Rows, Table[e] = "executions", r.op.row \in Above(e),
           Refs[e] \subseteq h, Refs[e] \subseteq V
    PROVE  FALSE
<1> DEFINE u == r.op.row
<1>1. r.op \in Operations /\ u \in Rows /\ Table[u] = "users"
  BY CallTables DEF Fine, Placed
<1>2. \A j \in Refs[e] : j \in Rows /\ Table[j] = "jogaks"
  BY Keys
<1>3. PICK j \in Refs[e] : u \in Above(j)
  BY <1>1, <1>2, Closure
<1>4. Doomed(V, u, j)
  BY <1>2, <1>3 DEF Doomed, Hierarchy
<1>5. Lv(j) = 5
  BY <1>2, Levels DEF Lv
<1>6. /\ Now(r) \in 1 .. 11
      /\ \A x \in r.todo : Lv(x) = Now(r)
  BY Standing DEF Fine
<1>7. j \in k
  <2>1. j \in k \cup r.todo
    BY <1>3, <1>4, <1>5, <1>6 DEF Fine, Whole
  <2>2. QED BY <1>5, <1>6, <2>1
<1>8. QED BY <1>3, <1>7, NotShared

LEMMA OwnedBefore ==
    ASSUME NEW V \in SUBSET Rows, NEW q, NEW h, Fine(V, q, h), Ended(q, h), Closed(V),
           NEW r, NEW k, Fine(V, r, k), Friends(q, h, r, k),
           r.op.kind = "withdraw", Now(r) > 5
    PROVE  \A p \in OwnedIn(After(V, q, h), r.op.row) \cap V : p \in OwnedIn(V, r.op.row)
<1> DEFINE u == r.op.row
<1> SUFFICES ASSUME NEW p \in OwnedIn(After(V, q, h), u), p \in V PROVE p \in OwnedIn(V, u)
  OBVIOUS
<1>1. Table[p] = "posts" /\ (u \in Refs[p] \/ (Occurrence[p] \in After(V, q, h) /\ u \in Above(Occurrence[p])))
  BY DEF OwnedIn, In
<1>2. ASSUME Occurrence[p] \in After(V, q, h), u \in Above(Occurrence[p]), Occurrence[p] \notin V
      PROVE  FALSE
  <2>1. Occurrence[p] \in Gains(V, q.op, h)
    BY <1>2 DEF After
  <2>2. Occurrence[p] \in Rows /\ Table[Occurrence[p]] = "executions"
    BY <1>1, SchemaAssumption, RowsAssumption
  <2>3. Refs[Occurrence[p]] \subseteq h /\ Refs[Occurrence[p]] \subseteq V
    BY <2>1, GainedParents
  <2>4. QED BY <1>2, <2>2, <2>3, NoNewOwner
<1>3. QED BY <1>1, <1>2 DEF OwnedIn, In

LEMMA WithdrawalWhole ==
    ASSUME NEW V \in SUBSET Rows, NEW q, NEW h, Fine(V, q, h), Ended(q, h), Closed(V), Gate \in V,
           NEW r, NEW k, Fine(V, r, k), Friends(q, h, r, k), r.op.kind = "withdraw",
           NEW y \in After(V, q, h), Lv(y) <= Now(r), Doomed(After(V, q, h), r.op.row, y)
    PROVE  y \in k \cup r.todo
<1> DEFINE u == r.op.row
           W == After(V, q, h)
           Ours(z) == z \in V /\ Doomed(V, u, z) /\ Lv(z) <= Now(r)
<1>1. r.op \in Operations /\ u \in Rows /\ Table[u] = "users" /\ k \subseteq Rows /\ Placed(r, k)
  BY CallTables DEF Fine, Placed
<1>2. Now(r) \in 1 .. 11 /\ \A x \in r.todo : Lv(x) = Now(r)
  BY <1>1, Standing
<1>3. ASSUME NEW z, Ours(z) PROVE z \in k \cup r.todo /\ (Lv(z) < Now(r) => z \in k)
  <2>1. z \in k \cup r.todo
    BY <1>3 DEF Fine, Whole
  <2>2. Lv(z) \in 1 .. 11
    BY <1>3, RowTables
  <2>3. QED BY <1>2, <2>1, <2>2
<1>4. k \cap h = {}
  BY NotShared
<1>0. ASSUME NEW w \in Gains(V, q.op, h)
      PROVE  /\ w \in Rows /\ Refs[w] \subseteq h /\ Refs[w] \subseteq V
             /\ Table[w] \notin {"gate", "users"} /\ q.op.kind \in {"insert", "toggle"}
             /\ w = q.op.row \/ (NewPost(q.op) /\ w = Occurrence[q.op.row])
             /\ NewPost(q.op) => Refs[Occurrence[q.op.row]] \subseteq h
                                /\ Refs[Occurrence[q.op.row]] \subseteq V
  <2>1. w \in Rows /\ Refs[w] \subseteq h /\ Refs[w] \subseteq V
    BY <1>0, Gained
  <2>4. w = q.op.row \/ (NewPost(q.op) /\ w = Occurrence[q.op.row])
    BY <1>0 DEF Gains, NewPost
  <2>5. Table[w] \notin {"gate", "users"} /\ q.op.kind \in {"insert", "toggle"}
    BY <1>0, Gained
  <2>2. NewPost(q.op) => \A z \in Refs[Occurrence[q.op.row]] : z \in h /\ z \in V
    BY <1>0, Gained
  <2>3. QED BY <2>1, <2>2, <2>4, <2>5
<1>5. y \in V \/ y \in Gains(V, q.op, h)
  BY DEF After
<1>6. y \in Rows /\ Table[y] \in Tables /\ Lv(y) \in 1 .. 11
  BY <1>5, <1>0, RowTables
<1>7. Table[Gate] = "gate"
  BY SchemaAssumption, RowsAssumption
<1>8. CASE Table[y] \in {"gate", "users"}
  <2>1. y \in V
    BY <1>5, <1>8, <1>0
  <2>2. Doomed(V, u, y)
    BY <1>8 DEF Doomed, Hierarchy
  <2>3. QED BY <1>3, <2>1, <2>2
<1>9. CASE Table[y] \notin {"gate", "users"}
  <2>1. Lv(y) > 2
    BY <1>6, <1>9, Levels DEF Lv, Tables, Hierarchy, Leaves
  <2>2. u \in k
    <3>1. u \in Needs(r.op)
      BY DEF Needs
    <3>2. Lv(u) < Now(r)
      BY <1>1, <1>2, <1>6, <2>1, Levels DEF Lv
    <3>3. QED BY <3>1, <3>2 DEF Fine, Got
  <2>3. u \notin h
    BY <1>4, <2>2
  <2>4. CASE Table[y] \in Hierarchy
    <3>1. u \in Above(y)
      BY <2>4 DEF Doomed
    <3>2. CASE y \in V
      <4>1. Doomed(V, u, y)
        BY <2>4, <3>1 DEF Doomed, Hierarchy
      <4>2. QED BY <1>3, <3>2, <4>1
    <3>3. CASE y \in Gains(V, q.op, h)
      <4>1. Refs[y] \subseteq h /\ Refs[y] \subseteq V
        BY <3>3, <1>0
      <4>2. PICK z \in Refs[y] : u \in Above(z)
        BY <1>6, <2>3, <3>1, <4>1, Closure
      <4>3. z \in Rows /\ Lv(z) < Lv(y) /\ Table[z] \in {"users", "modarats", "mogaks", "jogaks", "posts"}
        BY <1>6, Keys
      <4>4. Table[z] \in Hierarchy
        <5>1. Table[z] # "users"
          BY <4>2, <4>3, Tops
        <5>2. Table[z] # "posts"
          BY <1>6, <2>4, Keys DEF Hierarchy
        <5>3. QED BY <4>3, <5>1, <5>2 DEF Hierarchy
      <4>5. Doomed(V, u, z)
        BY <4>2, <4>4 DEF Doomed, Hierarchy
      <4>6. Lv(z) \in 1 .. 11 /\ Lv(z) < Now(r)
        BY <1>2, <1>6, <4>3, RowTables
      <4>7. z \in V /\ Lv(z) <= Now(r)
        BY <1>2, <4>1, <4>2, <4>6
      <4>9. z \in k
        BY <1>3, <4>5, <4>6, <4>7
      <4>8. QED BY <1>4, <4>1, <4>2, <4>9
    <3>4. QED BY <1>5, <3>2, <3>3
  <2>5. CASE Table[y] \in {"follows", "sessions"}
    <3>1. u \in Refs[y]
      BY <2>5 DEF Doomed
    <3>2. y \in V
      BY <1>5, <2>3, <3>1, <1>0
    <3>3. Doomed(V, u, y)
      BY <2>5, <3>1 DEF Doomed, Hierarchy
    <3>4. QED BY <1>3, <3>2, <3>3
  <2>6. CASE Table[y] = "posts"
    <3>1. Now(r) > 5
      BY <1>2, <2>6, Levels DEF Lv
    <3>2. y \in TargetIn(W, u)
      BY <2>6 DEF Doomed
    <3>3. CASE y \in V
      <4>1. ASSUME NEW w \in W, {y, u} \subseteq Refs[w] PROVE w \in V
        BY <2>3, <4>1, <1>0 DEF After
      <4>2. y \in TargetIn(V, u)
        <5>1. CASE y \in OwnedIn(W, u)
          BY <3>1, <3>3, <5>1, OwnedBefore DEF TargetIn
        <5>2. CASE \E w \in W : {y, u} \subseteq Refs[w]
          BY <2>6, <3>3, <4>1, <5>2 DEF TargetIn, In
        <5>3. QED BY <3>2, <5>1, <5>2 DEF TargetIn
      <4>3. Doomed(V, u, y)
        BY <2>6, <4>2 DEF Doomed, Hierarchy
      <4>4. QED BY <1>3, <3>3, <4>3
    <3>4. CASE y \notin V
      <4>1. y \in Gains(V, q.op, h) /\ Refs[y] \subseteq h
        BY <1>5, <3>4, <1>0
      <4>2. CASE \E w \in W : {y, u} \subseteq Refs[w]
        <5>1. PICK w \in W : {y, u} \subseteq Refs[w]
          BY <4>2
        <5>2. w \notin V
          BY <3>4, <5>1 DEF Closed
        <5>3. QED BY <2>3, <5>1, <5>2, <1>0 DEF After
      <4>3. CASE y \in OwnedIn(W, u)
        <5>1. u \notin Refs[y]
          BY <2>3, <4>1
        <5>2. u \in Above(Occurrence[y])
          BY <4>3, <5>1 DEF OwnedIn
        <5>3. Occurrence[y] \in Rows /\ Table[Occurrence[y]] = "executions"
          BY <1>6, <2>6, SchemaAssumption, RowsAssumption
        <5>4. NewPost(q.op) /\ y = q.op.row
          <6>1. q.op \in Operations /\ q.op.kind \in {"insert", "toggle"}
            BY <4>1, <1>0 DEF Fine, Placed
          <6>2. NewPost(q.op) => Table[Occurrence[q.op.row]] = "executions"
            BY <6>1, CallTables, SchemaAssumption, RowsAssumption DEF NewPost
          <6>3. y = q.op.row
            BY <2>6, <4>1, <6>2, <1>0
          <6>4. q.op.kind = "insert"
            BY <2>6, <6>1, <6>3, CallsAssumption DEF Hierarchy
          <6>5. QED BY <2>6, <6>3, <6>4 DEF NewPost
        <5>5. Refs[Occurrence[y]] \subseteq h /\ Refs[Occurrence[y]] \subseteq V
          BY <4>1, <5>4, <1>0
        <5>6. QED BY <3>1, <5>2, <5>3, <5>5, NoNewOwner
      <4>4. QED BY <3>2, <4>2, <4>3 DEF TargetIn
    <3>5. QED BY <3>3, <3>4
  <2>7. CASE Table[y] \in {"comments", "likes"}
    <3>1. Now(r) > 7 /\ Lv(y) > 7
      BY <1>2, <1>6, <2>7, Levels DEF Lv
    <3>2. PICK p \in Refs[y] : p = u \/ p \in OwnedIn(W, u)
      BY <2>7 DEF Doomed
    <3>3. p \in V
      BY <1>1, <1>5, <3>2, <1>0 DEF Closed
    <3>4. p = u \/ p \in OwnedIn(V, u)
      BY <1>2, <3>1, <3>2, <3>3, OwnedBefore
    <3>5. CASE y \in V
      <4>1. Doomed(V, u, y)
        BY <2>7, <3>2, <3>4 DEF Doomed, Hierarchy
      <4>2. QED BY <1>3, <3>5, <4>1
    <3>6. CASE y \in Gains(V, q.op, h)
      <4>1. p \in h /\ p # u
        BY <2>3, <3>2, <3>6, <1>0
      <4>2. p \in OwnedIn(V, u) /\ Table[p] = "posts"
        BY <3>4, <4>1 DEF OwnedIn, In
      <4>3. Doomed(V, u, p) /\ Lv(p) = 7
        BY <4>2, Levels DEF Doomed, TargetIn, Hierarchy, Lv
      <4>4. p \in k
        BY <1>2, <1>3, <3>1, <3>3, <4>3
      <4>5. QED BY <1>4, <4>1, <4>4
    <3>7. QED BY <1>5, <3>5, <3>6
  <2>8. QED BY <1>6, <1>9, <2>4, <2>5, <2>6, <2>7 DEF Tables, Leaves
<1>10. QED BY <1>8, <1>9

\* The execution a new post is about is not taken away before its insertion.
LEMMA OccurrenceStays ==
    ASSUME NEW V \in SUBSET Rows, NEW q, NEW h, Fine(V, q, h), Ended(q, h),
           NEW r, NEW k, Fine(V, r, k), Friends(q, h, r, k), NewPost(r.op), Now(r) > 5
    PROVE  Occurrence[r.op.row] \notin Loses(V, q.op, h)
<1> DEFINE e == Occurrence[r.op.row]
           op == q.op
<1> SUFFICES ASSUME e \in Loses(V, op, h) PROVE FALSE
  OBVIOUS
<1>1. r.op \in Operations /\ op \in Operations /\ r.op.row \in Rows /\ op.row \in Rows
      /\ Table[r.op.row] = "posts" /\ r.op.kind = "insert"
  BY CallTables DEF Fine, Placed, NewPost
<1>2. e \in Rows /\ Table[e] = "executions"
  BY <1>1, SchemaAssumption, RowsAssumption
<1>3. \A x \in Above(e) : Table[x] # "users" => x \in k /\ Lv(x) < 6 /\ x \in V
  <2>1. ASSUME NEW x \in Above(e), Table[x] # "users"
        PROVE  x \in k /\ Lv(x) < 6 /\ x \in V
    <3>1. x \in Rows /\ Lv(x) < Lv(e) /\ Lv(e) = 6
          /\ Table[x] \in {"users", "modarats", "mogaks", "jogaks", "posts"}
      BY <1>2, Lower, Levels DEF Lv
    <3>2. x \in Rigid(r.op) /\ Table[x] # "executions"
      BY <1>1, <3>1 DEF Rigid, Hierarchy
    <3>3. x \in Needs(r.op)
      BY <1>1, <2>1, <3>2 DEF Needs
    <3>4. Lv(x) < Now(r)
      <4>1. Lv(x) \in 1 .. 11 /\ Now(r) \in 1 .. 11
        BY <3>1, RowTables, Standing DEF Fine
      <4>2. QED BY <3>1, <4>1
    <3>5. x \in k /\ x \in PresentIn(V, r.op)
      BY <3>3, <3>4 DEF Fine, Got, Holds
    <3>6. Table[x] # "posts"
      BY <3>1, Levels DEF Lv
    <3>7. x \in V
      BY <1>1, <1>2, <3>2, <3>5, <3>6 DEF PresentIn
    <3>8. QED BY <3>1, <3>5, <3>7
  <2>2. QED BY <2>1
<1>4. e \in h /\ op.kind \in Kinds
  BY <1>1, Losses, CallTables
<1>5. op.kind \in {"delete", "withdraw"}
  BY <1>2, Losses
<1>6. CASE op.kind = "delete"
  <2>1. e \in Tree(op)
    BY <1>6 DEF Loses, Tree
  <2>2. op.row # e /\ Table[op.row] # "users"
    BY <1>1, <1>2, <1>6, CallsAssumption DEF Hierarchy
  <2>3. op.row \in Above(e)
    BY <1>1, <2>1, <2>2, Belows DEF Tree
  <2>4. op.row \in h /\ op.row \in Tree(op)
    <3>1. op.row \in Needs(op)
      BY <1>6 DEF Needs
    <3>2. QED BY <3>1, Ends DEF Tree
  <2>5. QED BY <1>3, <1>6, <2>2, <2>3, <2>4, NotShared
<1>7. CASE op.kind = "withdraw"
  <2>1. op.row \in Above(e) /\ Table[op.row] = "users"
    <3>1. Reason(op, h, e)
      BY <1>4, Ends
    <3>2. Table[op.row] = "users"
      BY <1>1, <1>7, CallTables
    <3>3. QED BY <1>2, <1>7, <3>1, <3>2 DEF Reason, Hierarchy
  <2>2. \A j \in Refs[e] : j \in Rows /\ Table[j] = "jogaks" /\ j \in Above(e)
    BY <1>2, Keys, Closure
  <2>3. PICK j \in Refs[e] : op.row \in Above(j)
    BY <1>2, <2>1, <2>2, Closure
  <2>4. j \in k /\ j \in V
    BY <1>3, <2>2
  <2>5. Doomed(V, op.row, j)
    BY <2>2, <2>3 DEF Doomed, Hierarchy
  <2>6. Lv(j) <= Now(q)
    BY <1>1, <1>7, <2>2, ProgramCovers, Ends, RowTables DEF Lv
  <2>7. j \in h
    BY <1>7, <2>4, <2>5, <2>6 DEF Fine, Whole, Ended
  <2>8. QED BY <1>7, <2>4, <2>7, NotShared
<1>8. QED BY <1>5, <1>6, <1>7

LEMMA OthersFine ==
    ASSUME NEW V \in SUBSET Rows, NEW q, NEW h, Fine(V, q, h), Ended(q, h), Closed(V), Gate \in V,
           NEW r, NEW k, Fine(V, r, k), Friends(q, h, r, k)
    PROVE  Fine(After(V, q, h), r, k)
<1> DEFINE W == After(V, q, h)
<1>1. Placed(r, k) /\ Holds(V, r, k) /\ Got(r, k) /\ Asked(r, k) /\ Whole(V, r, k)
  BY DEF Fine
<1>2. k \cap Loses(V, q.op, h) = {}
  BY NotShared
<1>3. Holds(W, r, k)
  <2>1. \A x \in k : x \in PresentIn(V, r.op) => x \in PresentIn(W, r.op)
    BY <1>2 DEF PresentIn, After
  <2>2. QED BY <1>1, <2>1 DEF Holds
<1>4. ASSUME r.op.kind = "delete", NEW y \in W, Lv(y) <= Now(r), Refs[y] \cap k \cap Tree(r.op) # {}
      PROVE  y \in k \cup r.todo
  <2>1. k \cap h \cap Tree(r.op) = {}
    BY <1>4, NotShared
  <2>2. y \in V
    BY <1>4, <2>1, Gained DEF After
  <2>3. QED BY <1>1, <1>4, <2>2 DEF Whole
<1>5. ASSUME NewPost(r.op), Level("executions") <= Now(r)
      PROVE  Occurrence[r.op.row] \in W \cup k \cup r.todo
  <2>1. Now(r) > 5
    BY <1>1, <1>5, Levels, Standing
  <2>2. Occurrence[r.op.row] \in V \cup k \cup r.todo
    BY <1>1, <1>5 DEF Whole
  <2>3. QED BY <1>5, <2>1, <2>2, OccurrenceStays DEF After
<1>6. ASSUME r.op.kind = "withdraw", NEW y \in W, Lv(y) <= Now(r), Doomed(W, r.op.row, y)
      PROVE  y \in k \cup r.todo
  BY <1>6, WithdrawalWhole
<1>7. Whole(W, r, k)
  BY <1>4, <1>5, <1>6 DEF Whole
<1>8. QED BY <1>1, <1>3, <1>7 DEF Fine

-----------------------------------------------------------------------------
(* Locked is inductive *)

LEMMA ConflictSymmetric == \A m, n : Conflict(m, n) <=> Conflict(n, m)
BY DEF Conflict

\* What a step of one connection leaves to show.
LEMMA OneTxLocked ==
    ASSUME Locked, NEW t \in Txs,
           \A s \in Txs : s # t => tx'[s] = tx[s] /\ held'[s] = held[s],
           \A s \in Txs : s # t /\ Running(s) => Fine(live', tx[s], held[s]),
           tx'[t].at > 0 => Fine(live', tx'[t], held'[t]),
           \A s \in Txs : s # t => \A x \in held'[t] \cap held[s] :
                ~Conflict(Mode(tx'[t].op, x), Mode(tx[s].op, x)),
           Closed(live'), Gate \in live'
    PROVE  Locked'
<1>1. ASSUME NEW s \in Txs, Running(s)' PROVE Fine(live', tx'[s], held'[s])
  <2>1. CASE s = t
    BY <1>1, <2>1 DEF Running
  <2>2. CASE s # t
    <3>1. Running(s)
      BY <1>1, <2>2 DEF Running
    <3>2. QED BY <2>2, <3>1
  <2>3. QED BY <2>1, <2>2
<1>2. Knowing'
  BY <1>1 DEF Knowing
<1>3. ASSUME NEW r \in Txs, NEW s \in Txs, r # s, NEW x \in held'[r] \cap held'[s]
      PROVE  ~Conflict(Mode(tx'[r].op, x), Mode(tx'[s].op, x))
  <2>1. CASE r = t
    BY <1>3, <2>1
  <2>2. CASE s = t
    BY <1>3, <2>2, ConflictSymmetric
  <2>3. CASE r # t /\ s # t
    BY <1>3, <2>3 DEF Locked, Compatible
  <2>4. QED BY <2>1, <2>2, <2>3
<1>4. Compatible'
  BY <1>3 DEF Compatible
<1>5. ReferencesHold'
  BY DEF Closed, ReferencesHold
<1>6. QED BY <1>2, <1>4, <1>5 DEF Locked

\* A connection that releases its locks leaves the others compatible.
LEMMA ReleaseLocked ==
    ASSUME TInv, Locked, NEW t \in Txs, Release(t),
           \A s \in Txs : s # t /\ Running(s) => Fine(live', tx[s], held[s]),
           Closed(live'), Gate \in live'
    PROVE  Locked'
<1>1. tx'[t] = Idle /\ held'[t] = {}
  BY DEF Release, TInv, TypeOK
<1>2. \A s \in Txs : s # t => tx'[s] = tx[s] /\ held'[s] = held[s]
  BY DEF Release, TInv, TypeOK
<1>3. ~(tx'[t].at > 0)
  BY <1>1 DEF Idle
<1>4. QED BY <1>1, <1>2, <1>3, OneTxLocked

LEMMA InitLocked == Init => Locked
<1> SUFFICES ASSUME Init PROVE Locked
  OBVIOUS
<1>1. \A t \in Txs : ~Running(t) /\ held[t] = {}
  BY DEF Init, Idle, Running
<1>2. Knowing /\ Compatible
  BY <1>1 DEF Knowing, Compatible
<1>3. ReferencesHold
  BY SchemaAssumption DEF Init, ReferencesHold
<1>4. Gate \in live
  BY RowsAssumption DEF Init
<1>5. QED BY <1>2, <1>3, <1>4 DEF Locked

LEMMA CommitViews ==
    ASSUME TInv, Locked, NEW t \in Txs, Commit(t)
    PROVE  /\ Fine(live, tx[t], held[t]) /\ Ended(tx[t], held[t])
           /\ live' = After(live, tx[t], held[t])
           /\ Removed(t) = Loses(live, tx[t].op, held[t])
<1> DEFINE op == tx[t].op
<1>1. Fine(live, tx[t], held[t]) /\ op \in Operations
  BY DEF Commit, Locked, Knowing, TInv, AtStatement
<1>2. Ended(tx[t], held[t])
  <2>1. In(Required(op), At(tx[t])) \subseteq held[t]
    BY DEF Commit, Found, Statement, At
  <2>2. In(Needs(op), At(tx[t])) \subseteq held[t]
    BY <1>1, <2>1, NeedsRequired DEF In
  <2>3. QED BY <2>2 DEF Ended, Commit, Done
<1>3. op.row \in Rows /\ (op.kind = "withdraw" => OwnedPosts(op.row) = OwnedIn(live, op.row))
  BY <1>1, CallTables, Views DEF TInv, TypeOK
<1>4. Removed(t) = Loses(live, op, held[t])
  BY <1>3 DEF Removed, Loses
<1>5. Inserted(t) = Gains(live, op, held[t])
  BY DEF Inserted, Gains
<1>6. QED BY <1>1, <1>2, <1>4, <1>5 DEF Commit, After

LEMMA NextLocked == TInv /\ Locked /\ [Next]_vars => Locked'
<1> SUFFICES ASSUME TInv, Locked, [Next]_vars PROVE Locked'
  OBVIOUS
<1>1. /\ live \in SUBSET Rows /\ Gate \in live /\ Closed(live) /\ Knowing /\ Compatible
      /\ tx \in [Txs -> [op : Operations \cup {NoCall}, at : 0 .. Len(WithdrawalProgram), todo : SUBSET Rows]]
      /\ held \in [Txs -> SUBSET Rows]
  BY DEF TInv, TypeOK, Locked, ReferencesHold, Closed
<1>2. CASE UNCHANGED vars
  BY <1>2 DEF vars, Locked, Knowing, Running, Compatible, ReferencesHold
<1>3. \A s \in Txs : Running(s) => Fine(live, tx[s], held[s]) /\ tx[s].op \in Operations
  BY <1>1 DEF Knowing, TInv, AtStatement
<1>4. \A r, s \in Txs : r # s => \A x \in held[r] \cap held[s] :
         ~Conflict(Mode(tx[r].op, x), Mode(tx[s].op, x))
  BY <1>1 DEF Compatible
<1>5. ASSUME NEW t \in Txs, Begin(t) PROVE Locked'
  <2>1. PICK op \in Operations :
          /\ tx' = [tx EXCEPT ![t] =
               [op |-> op, at |-> 1, todo |-> Wanted(op, Program(op)[1], {})]]
          /\ UNCHANGED <<live, gone, held>>
    BY <1>5 DEF Begin
  <2>2. PICK q : q = [op |-> op, at |-> 1, todo |-> Wanted(op, Program(op)[1], {})]
    OBVIOUS
  <2>3. tx'[t] = q /\ \A s \in Txs : s # t => tx'[s] = tx[s] /\ held'[s] = held[s]
    BY <1>1, <2>1, <2>2
  <2>4. held'[t] = {}
    BY <1>5, <2>1 DEF Begin, TInv, TypeOK
  <2>5. q.op \in Operations /\ q.at = 1 /\ q.todo = Wanted(q.op, Program(q.op)[1], {})
    BY <2>2
  <2>6. Fine(live, q, {})
    BY <1>1, <2>5, Starts
  <2>7. live' = live
    BY <2>1
  <2>8. QED BY <1>1, <1>3, <2>3, <2>4, <2>6, <2>7, OneTxLocked
<1>6. ASSUME NEW t \in Txs, LockRow(t) PROVE Locked'
  <2>1. PICK x \in NextRows(t) :
          /\ x \in Present(tx[t].op) /\ BlockedOn(t, x) = {}
          /\ held' = [held EXCEPT ![t] = @ \cup {x}]
          /\ tx' = [tx EXCEPT ![t].todo = @ \ {x}]
    BY <1>6 DEF LockRow
  <2>2. PICK q, h : q = tx[t] /\ h = held[t]
    OBVIOUS
  <2>3. PICK g : g = [q EXCEPT !.todo = @ \ {x}]
    OBVIOUS
  <2>4. tx'[t] = g /\ held'[t] = h \cup {x}
        /\ \A s \in Txs : s # t => tx'[s] = tx[s] /\ held'[s] = held[s]
    BY <1>1, <2>1, <2>2, <2>3
  <2>5. g.op = q.op /\ g.at = q.at /\ g.todo = q.todo \ {x}
    BY <1>1, <2>2, <2>3
  <2>6. Fine(live, q, h)
    BY <1>3, <1>6, <2>2 DEF LockRow
  <2>7. x \in q.todo /\ (~AnyOrder(q) => \A y \in q.todo : Id[x] <= Id[y])
    <3>1. AnyOrder(q) <=> Unordered(t)
      BY <2>2 DEF AnyOrder, Unordered, At, Statement
    <3>2. QED BY <2>1, <2>2, <3>1 DEF NextRows
  <2>8. x \in PresentIn(live, q.op)
    BY <1>1, <2>1, <2>2, Views
  <2>9. Fine(live, g, h \cup {x})
    BY <1>1, <2>5, <2>6, <2>7, <2>8, Takes
  <2>10. ASSUME NEW s \in Txs, s # t, NEW y \in held'[t] \cap held[s]
         PROVE  ~Conflict(Mode(tx'[t].op, y), Mode(tx[s].op, y))
    <3>1. tx'[t].op = tx[t].op
      BY <2>2, <2>4, <2>5
    <3>2. CASE y \in h
      BY <1>4, <2>2, <2>10, <3>1, <3>2
    <3>3. CASE y = x
      BY <2>1, <2>10, <3>1, <3>3 DEF BlockedOn
    <3>4. QED BY <2>4, <2>10, <3>2, <3>3
  <2>11. live' = live
    BY <1>6 DEF LockRow
  <2>12. QED BY <1>1, <1>3, <2>4, <2>9, <2>10, <2>11, OneTxLocked
<1>7. ASSUME NEW t \in Txs, PassOver(t) PROVE Locked'
  <2>1. PICK x \in NextRows(t) :
          x \notin Present(tx[t].op) /\ tx' = [tx EXCEPT ![t].todo = @ \ {x}]
    BY <1>7 DEF PassOver
  <2>2. PICK q, h : q = tx[t] /\ h = held[t]
    OBVIOUS
  <2>3. PICK g : g = [q EXCEPT !.todo = @ \ {x}]
    OBVIOUS
  <2>4. live' = live /\ held' = held
    BY <1>7 DEF PassOver
  <2>5. tx'[t] = g /\ held'[t] = h
        /\ \A s \in Txs : s # t => tx'[s] = tx[s] /\ held'[s] = held[s]
    BY <1>1, <2>1, <2>2, <2>3, <2>4
  <2>6. g.op = q.op /\ g.at = q.at /\ g.todo = q.todo \ {x}
    BY <1>1, <2>2, <2>3
  <2>7. Fine(live, q, h)
    BY <1>3, <1>7, <2>2 DEF PassOver
  <2>8. x \in q.todo /\ x \notin PresentIn(live, q.op)
    BY <1>1, <2>1, <2>2, Views DEF NextRows
  <2>9. Fine(live, g, h)
    BY <1>1, <2>6, <2>7, <2>8, Passes
  <2>10. tx'[t].op = tx[t].op
    BY <2>2, <2>5, <2>6
  <2>11. QED BY <1>1, <1>3, <1>4, <2>2, <2>4, <2>5, <2>9, <2>10, OneTxLocked
<1>8. ASSUME NEW t \in Txs, NextStatement(t) PROVE Locked'
  <2>1. PICK q, h : q = tx[t] /\ h = held[t]
    OBVIOUS
  <2>2. PICK g : g = [q EXCEPT !.at = @ + 1, !.todo = Wanted(q.op, Program(q.op)[q.at + 1], h)]
    OBVIOUS
  <2>3. live' = live /\ held' = held
    BY <1>8 DEF NextStatement
  <2>4. tx' = [tx EXCEPT ![t].at = @ + 1, ![t].todo = Wanted(q.op, Program(q.op)[q.at + 1], h)]
    BY <1>8, <2>1 DEF NextStatement
  <2>5. tx'[t] = g /\ held'[t] = h
        /\ \A s \in Txs : s # t => tx'[s] = tx[s] /\ held'[s] = held[s]
    BY <1>1, <2>1, <2>2, <2>3, <2>4
  <2>6. g.op = q.op /\ g.at = q.at + 1 /\ g.todo = Wanted(q.op, Program(q.op)[q.at + 1], h)
    BY <1>1, <2>1, <2>2
  <2>7. Fine(live, q, h) /\ q.todo = {} /\ q.op \in Operations
    BY <1>3, <1>8, <2>1 DEF NextStatement
  <2>8. q.at + 1 \in 1 .. Len(Program(q.op))
    <3>1. q.at \in 1 .. Len(Program(q.op)) /\ q.at # Len(Program(q.op))
      BY <1>8, <2>1, <2>7 DEF NextStatement, Done, Fine, Placed
    <3>2. QED BY <2>7, <3>1, ProgramType
  <2>9. In(Needs(q.op), At(q)) \subseteq h
    <3>1. In(Required(q.op), At(q)) \subseteq h
      BY <1>8, <2>1 DEF NextStatement, Found, Statement, At
    <3>2. QED BY <2>7, <3>1, NeedsRequired DEF In
  <2>10. Fine(live, g, h)
    BY <1>1, <2>6, <2>7, <2>8, <2>9, Moves
  <2>11. tx'[t].op = tx[t].op
    BY <2>1, <2>5, <2>6
  <2>12. QED BY <1>1, <1>3, <1>4, <2>1, <2>3, <2>5, <2>10, <2>11, OneTxLocked
<1>9. ASSUME NEW t \in Txs, GiveUp(t) \/ RollBack(t) PROVE Locked'
  <2>1. live' = live /\ Release(t)
    BY <1>9 DEF GiveUp, RollBack
  <2>2. QED BY <1>1, <1>3, <2>1, ReleaseLocked
<1>10. ASSUME NEW t \in Txs, Commit(t) PROVE Locked'
  <2>1. PICK q, h : q = tx[t] /\ h = held[t]
    OBVIOUS
  <2>2. Fine(live, q, h) /\ Ended(q, h) /\ live' = After(live, q, h)
    BY <1>10, <2>1, CommitViews
  <2>3. Closed(live')
    BY <1>1, <2>2, StillClosed DEF After
  <2>4. Gate \in live'
    BY <1>1, <2>2, Losses DEF After
  <2>5. ASSUME NEW s \in Txs, s # t, Running(s) PROVE Fine(live', tx[s], held[s])
    <3>1. PICK r, k : r = tx[s] /\ k = held[s]
      OBVIOUS
    <3>2. Fine(live, r, k)
      BY <1>3, <2>5, <3>1
    <3>3. Friends(q, h, r, k)
      BY <1>4, <2>1, <2>5, <3>1 DEF Friends
    <3>4. Fine(After(live, q, h), r, k)
      BY <1>1, <2>2, <3>2, <3>3, OthersFine
    <3>5. QED BY <2>2, <3>1, <3>4
  <2>6. Release(t)
    BY <1>10 DEF Commit
  <2>7. QED BY <2>3, <2>4, <2>5, <2>6, ReleaseLocked
<1>11. QED BY <1>2, <1>5, <1>6, <1>7, <1>8, <1>9, <1>10 DEF Next, Advance

LEMMA SpecLocked == Spec => [](TInv /\ Locked)
<1>1. Init => TInv /\ Locked
  BY InitTInv, InitLocked
<1>2. TInv /\ Locked /\ [Next]_vars => (TInv /\ Locked)'
  BY NextTInv, NextLocked
<1>3. QED BY <1>1, <1>2, PTL DEF Spec

\* Whatever the transactions and however they interleave, no committed row names
\* one that is gone: the locks alone keep the foreign keys.
THEOREM NoRowIsOrphaned == Spec => []ReferencesHold
<1>1. Locked => ReferencesHold
  BY DEF Locked
<1>2. QED BY <1>1, SpecLocked, PTL

\* Whatever deletions run beside it, a post is inserted on an execution that exists,
\* although no foreign key ties it to one.
THEOREM PostsFindTheirOccurrence == Spec => PostsStartOnLiveOccurrences
<1> DEFINE Started == \A p \in In(live', "posts") \ live : Occurrence[p] \in live'
<1>1. ASSUME TInv, Locked, [Next]_vars PROVE [Started]_vars
  <2> SUFFICES ASSUME NEW p \in In(live', "posts") \ live PROVE Occurrence[p] \in live'
    OBVIOUS
  <2>1. Table[p] = "posts" /\ p \in live' /\ p \notin live
    BY DEF In
  <2>2. PICK t \in Txs : Commit(t)
    <3>1. live' # live
      BY <2>1
    <3>2. QED BY <1>1, <3>1 DEF Next, Advance, Begin, LockRow, PassOver, NextStatement, GiveUp,
                                RollBack, vars
  <2>3. PICK q, h : q = tx[t] /\ h = held[t]
    OBVIOUS
  <2>4. Fine(live, q, h) /\ Ended(q, h) /\ live' = After(live, q, h)
    BY <1>1, <2>2, <2>3, CommitViews
  <2>5. live \in SUBSET Rows
    BY <1>1 DEF TInv, TypeOK
  <2>6. p \in Gains(live, q.op, h)
    BY <2>1, <2>4 DEF After
  <2>7. q.op \in Operations /\ q.op.kind \in {"insert", "toggle"}
    BY <2>4, <2>5, <2>6, Ends, Gained
  <2>8. NewPost(q.op) => Table[Occurrence[q.op.row]] = "executions"
    BY <2>7, CallTables, SchemaAssumption, RowsAssumption DEF NewPost
  <2>9. p = q.op.row
    BY <2>1, <2>6, <2>8 DEF Gains, NewPost
  <2>10. q.op.kind = "insert"
    BY <2>1, <2>7, <2>9, CallsAssumption DEF Hierarchy
  <2>11. NewPost(q.op) /\ Occurrence[p] = Occurrence[q.op.row]
    BY <2>1, <2>9, <2>10 DEF NewPost
  <2>12. Table[Occurrence[p]] = "executions"
    BY <2>8, <2>11
  <2>13. Occurrence[p] \notin Loses(live, q.op, h)
    BY <2>4, <2>5, <2>10, <2>12, Losses
  <2>14. Occurrence[p] \in live \cup h
    <3>1. InProgram(q.op, "executions")
      BY <2>7, <2>11, ProgramCovers
    <3>2. Level("executions") <= Now(q)
      BY <2>4, <2>5, <3>1, Ends
    <3>3. QED BY <2>4, <2>11, <3>2 DEF Fine, Whole, Ended
  <2>15. Occurrence[p] \in h => Occurrence[p] \in Gains(live, q.op, h)
    BY <2>11 DEF Gains, NewPost
  <2>16. QED BY <2>4, <2>13, <2>14, <2>15 DEF After
<1>2. QED BY <1>1, SpecLocked, PTL DEF PostsStartOnLiveOccurrences, Spec

-----------------------------------------------------------------------------
(* Who waits for whom *)

\* A row names one other at most that is not a user.
LEMMA OneParent ==
    ASSUME NEW y \in Rows, NEW w \in Refs[y], NEW z \in Refs[y],
           Table[w] # "users", Table[z] # "users"
    PROVE  w = z
<1>1. Table[w] = Table[z] /\ Table[y] # "follows"
  <2>1. Table[y] \in {"mogaks", "jogaks", "executions", "comments", "likes"}
    BY Keys, RowTables DEF Tables, Hierarchy, Leaves
  <2>2. QED BY <2>1, Keys
<1>2. QED BY <1>1, SchemaAssumption

\* Whoever holds a row holds what it names, users aside.
LEMMA HoldsParent ==
    ASSUME NEW V \in SUBSET Rows, Closed(V), NEW r, NEW k, Fine(V, r, k),
           NEW x \in k, NEW z \in Refs[x], Table[z] # "users"
    PROVE  z \in k
<1> DEFINE op == r.op
           u == op.row
<1>1. Placed(r, k) /\ Holds(V, r, k) /\ Got(r, k) /\ Asked(r, k) /\ Whole(V, r, k)
  BY DEF Fine
<1>2. op \in Operations /\ k \subseteq Rows /\ Now(r) \in 1 .. 11
      /\ \A y \in r.todo : Lv(y) = Now(r)
  BY <1>1, Standing DEF Placed
<1>3. x \in Rows /\ z \in Rows /\ Lv(z) < Lv(x) /\ Lv(z) \in 1 .. 11 /\ Lv(x) \in 1 .. 11
  BY <1>2, Keys, RowTables
<1>4. Lv(z) < Now(r)
  BY <1>1, <1>2, <1>3 DEF Holds
<1>5. Reason(op, k, x) /\ u \in Rows
  BY <1>1, <1>2, CallTables DEF Asked
<1>6. CASE op.kind = "withdraw"
  <2>1. x \in V /\ z \in V
    BY <1>1, <1>6 DEF Holds, PresentIn, Closed
  <2>2. ASSUME Doomed(V, u, z) PROVE z \in k
    <3>1. z \notin r.todo /\ Lv(z) <= Now(r)
      BY <1>2, <1>3, <1>4
    <3>2. QED BY <1>1, <1>6, <2>1, <2>2, <3>1 DEF Whole
  <2>3. Table[u] = "users"
    BY <1>2, <1>6, CallTables
  <2>4. CASE Table[x] \in Hierarchy
    <3>1. u \in Above(x)
      BY <1>5, <1>6, <2>4 DEF Reason
    <3>2. u \notin Refs[x]
      BY <1>3, <2>3, <2>4, Keys DEF Hierarchy
    <3>3. PICK w \in Refs[x] : u \in Above(w)
      BY <1>3, <3>1, <3>2, Closure
    <3>4. Table[w] # "users"
      BY <1>3, <3>3, Tops, Keys
    <3>5. u \in Above(z)
      BY <1>3, <3>3, <3>4, OneParent
    <3>6. Table[z] \in Hierarchy
      BY <1>3, <2>4, Keys DEF Hierarchy
    <3>7. QED BY <2>2, <3>5, <3>6 DEF Doomed, Hierarchy
  <2>5. CASE Table[x] \in {"comments", "likes"}
    <3>1. Table[z] = "posts"
      BY <1>3, <2>5, Keys
    <3>2. CASE u \in Refs[x]
      <4>1. z \in TargetIn(V, u)
        BY <2>1, <3>1, <3>2 DEF TargetIn, In
      <4>2. QED BY <2>2, <3>1, <4>1 DEF Doomed, Hierarchy
    <3>3. CASE \E p \in Refs[x] \cap k : Table[p] = "posts"
      BY <1>3, <3>3, OneParent
    <3>4. QED BY <1>5, <1>6, <2>5, <3>2, <3>3 DEF Reason
  <2>6. CASE Table[x] \notin Hierarchy \cup {"comments", "likes"}
    BY <1>3, <2>6, Keys, RowTables DEF Tables, Hierarchy, Leaves
  <2>7. QED BY <2>4, <2>5, <2>6
<1>7. CASE op.kind # "withdraw"
  <2>1. CASE x \in Named(op)
    <3>1. z \in Needs(op)
      BY <1>2, <1>7, <2>1, NamedRows
    <3>2. QED BY <1>1, <1>4, <3>1 DEF Got
  <2>2. CASE op.kind = "delete" /\ Refs[x] \cap k \cap Tree(op) # {}
    <3>1. PICK w \in Refs[x] : w \in k /\ w \in Tree(op)
      BY <2>2
    <3>2. Table[w] # "users"
      BY <1>2, <2>2, <3>1, Trees
    <3>3. QED BY <1>3, <3>1, <3>2, OneParent
  <2>3. Table[x] \notin {"users", "sessions"}
    BY <1>3, Keys
  <2>4. QED BY <1>5, <1>7, <2>1, <2>2, <2>3 DEF Reason
<1>8. QED BY <1>6, <1>7

\* A deletion that holds its row, and a withdrawal that is past the posts.
Descends(q, h) ==
    \/ q.op.kind = "delete" /\ q.op.row \in h
    \/ q.op.kind = "withdraw" /\ Now(q) > 7

\* Whoever deletes a row because of one it names holds the row it was called on.
LEMMA RootHeld ==
    ASSUME NEW V \in SUBSET Rows, NEW q, NEW h, Fine(V, q, h), q.op.kind = "delete",
           NEW x, Refs[x] \cap h \cap Tree(q.op) # {}
    PROVE  q.op.row \in h
<1> DEFINE op == q.op
<1>1. PICK w \in h : w \in Tree(op)
  OBVIOUS
<1>2. op \in Operations /\ op.row \in Rows /\ op.row \in Needs(op) /\ Now(q) \in 1 .. 11
  BY CallTables, Standing DEF Needs, Fine, Placed
<1>3. CASE w = op.row
  BY <1>1, <1>3
<1>4. CASE w # op.row
  <2>1. w \in Rows /\ Lv(op.row) < Lv(w) /\ Lv(w) <= Now(q)
    BY <1>1, <1>2, <1>4, Trees DEF Fine, Holds
  <2>2. Lv(op.row) < Now(q)
    BY <1>2, <2>1, RowTables
  <2>3. QED BY <1>2, <2>2 DEF Fine, Got
<1>5. QED BY <1>3, <1>4

\* Nobody else holds the next rows of one that descends.
LEMMA NobodyBelow ==
    ASSUME NEW V \in SUBSET Rows, Closed(V), Gate \in V,
           NEW q, NEW h, Fine(V, q, h), NEW r, NEW k, Fine(V, r, k), Friends(q, h, r, k),
           Descends(q, h), NEW x \in q.todo
    PROVE  x \notin k
<1> SUFFICES ASSUME x \in k PROVE FALSE
  OBVIOUS
<1> DEFINE op == q.op
           u == op.row
<1>1. /\ op \in Operations /\ r.op \in Operations /\ h \subseteq Rows /\ k \subseteq Rows
      /\ Now(q) \in 1 .. 11 /\ Now(r) \in 1 .. 11
      /\ x \in Rows /\ Lv(x) = Now(q) /\ Lv(x) <= Now(r) /\ x \notin h /\ Table[x] = At(q)
      /\ \A y \in q.todo : Lv(y) = Now(q)
      /\ \A y \in r.todo : Lv(y) = Now(r)
      /\ \A y \in h : Lv(y) <= Now(q)
  BY Standing DEF Fine, Placed, Holds
<1>2. \A y \in h \cap k : Mode(op, y) # "update" /\ Mode(r.op, y) # "update"
  BY DEF Friends, Conflict
<1>3. Reason(op, h, x) /\ Reason(r.op, k, x)
  BY DEF Fine, Asked
<1>4. op.row \in Rows /\ r.op.row \in Rows
  BY <1>1, CallTables
<1>5. CASE op.kind = "delete" /\ op.row \in h
  <2>1. Lv(op.row) <= Now(q) /\ Table[op.row] \notin {"gate", "users"} /\ op.row # x
    BY <1>1, <1>5, CallsAssumption DEF Hierarchy
  <2>2. Lv(op.row) > 2
    BY <1>4, <2>1, Levels, RowTables DEF Lv, Tables, Hierarchy, Leaves
  <2>3. Table[x] # "users"
    <3>1. Table[x] = "users" => Lv(x) = 2
      BY Levels DEF Lv
    <3>2. Lv(op.row) \in 1 .. 11
      BY <1>4, RowTables
    <3>3. QED BY <1>1, <2>1, <2>2, <3>1, <3>2
  <2>4. x \notin Named(op)
    <3>1. x \in Named(op) => Lv(x) < Lv(op.row)
      BY <1>1, <1>5, <2>1, NamedRows
    <3>2. QED BY <1>1, <1>4, <2>1, <3>1, RowTables
  <2>5. PICK z \in Refs[x] : z \in h /\ z \in Tree(op)
    BY <1>3, <1>5, <2>3, <2>4 DEF Reason
  <2>6. Table[z] # "users"
    BY <1>1, <1>5, <2>5, Trees
  <2>7. z \in k
    BY <2>5, <2>6, HoldsParent
  <2>8. QED BY <1>1, <1>2, <1>5, <2>5, <2>7, UpdateModes
<1>6. CASE op.kind = "withdraw" /\ Now(q) > 7
  <2>1. Table[u] = "users" /\ Table[Gate] = "gate" /\ Lv(u) = 2 /\ Lv(Gate) = 1
    BY <1>1, <1>6, CallTables, SchemaAssumption, RowsAssumption, Levels DEF Lv
  <2>2. h \cap k = {}
    BY <1>1, <1>2, <1>6, UpdateModes
  <2>3. u \in h
    <3>1. u \in Needs(op)
      BY <1>6 DEF Needs
    <3>2. QED BY <1>1, <1>6, <2>1, <3>1 DEF Fine, Got
  <2>4. \A v : Doomed(V, v, Gate)
    BY <2>1 DEF Doomed, Hierarchy
  <2>5. r.op.kind # "withdraw"
    <3>1. Gate \in h
      BY <1>1, <1>6, <2>1, <2>4 DEF Fine, Whole
    <3>2. r.op.kind = "withdraw" => Gate \in k
      BY <1>1, <1>6, <2>1, <2>4 DEF Fine, Whole
    <3>3. QED BY <2>2, <3>1, <3>2
  <2>6. u \notin k
    BY <2>2, <2>3
  <2>7. Table[x] \in Leaves
    BY <1>1, <1>6, Levels, RowTables DEF Lv, Tables, Hierarchy, Leaves
  <2>8. \A z \in Needs(r.op) : Table[z] = "users" => z \in k
    <3>1. \A z \in Needs(r.op) : Table[z] = "users" => Lv(z) < Now(r)
      BY <1>1, <1>6, Levels DEF Lv
    <3>2. QED BY <3>1 DEF Fine, Got
  <2>9. Refs[r.op.row] \subseteq Needs(r.op)
    BY <1>1, <2>5, NamedRows
  <2>10. u \notin Refs[r.op.row]
    BY <2>1, <2>6, <2>8, <2>9
  <2>11. x \in Named(r.op) => x = r.op.row
    BY <1>1, <2>5, <2>7, NamedRows DEF Leaves
  <2>12. ASSUME u \in Refs[x] PROVE FALSE
    <3>1. r.op.kind = "delete" /\ Refs[x] \cap k \cap Tree(r.op) # {}
      BY <1>3, <2>5, <2>7, <2>10, <2>11, <2>12 DEF Reason, Leaves
    <3>2. PICK w \in Refs[x] : w \in k /\ w \in Tree(r.op)
      BY <3>1
    <3>3. Table[w] # "users"
      BY <1>1, <3>1, <3>2, Trees
    <3>4. Table[w] = "posts" /\ w \in Rows
      BY <1>1, <2>7, <3>2, <3>3, Keys DEF Leaves
    <3>5. x \in V /\ w \in V
      BY <3>1, <3>2 DEF Fine, Holds, PresentIn
    <3>6. w \in TargetIn(V, u)
      BY <2>12, <3>2, <3>4, <3>5 DEF TargetIn, In
    <3>7. Doomed(V, u, w) /\ Lv(w) = 7
      BY <3>4, <3>6, Levels DEF Doomed, Hierarchy, Lv
    <3>8. w \in h
      BY <1>1, <1>6, <3>5, <3>7 DEF Fine, Whole
    <3>9. QED BY <2>2, <3>2, <3>8
  <2>13. Table[x] \in {"comments", "likes"}
    BY <1>3, <1>6, <2>7, <2>12 DEF Reason, Leaves
  <2>14. PICK p \in Refs[x] : p \in h /\ Table[p] = "posts"
    BY <1>3, <1>6, <2>12, <2>13 DEF Reason
  <2>15. p \in k
    BY <2>14, HoldsParent
  <2>16. QED BY <2>2, <2>14, <2>15
<1>7. QED BY <1>5, <1>6 DEF Descends

LEMMA LockedDescent == TInv /\ Locked => DescentNeverWaits
<1> SUFFICES ASSUME TInv, Locked, NEW t \in Txs,
                    \/ tx[t].op.kind = "delete" /\ tx[t].op.row \in held[t]
                    \/ tx[t].op.kind = "withdraw" /\ Running(t) /\ Statement(t) \in Leaves,
                    NEW x \in NextRows(t), NEW s \in BlockedOn(t, x)
             PROVE  FALSE
  BY DEF DescentNeverWaits
<1>1. live \in SUBSET Rows /\ Closed(live) /\ Gate \in live
  BY DEF TInv, TypeOK, Locked, ReferencesHold, Closed
<1>2. Running(t) /\ s \in Txs /\ s # t /\ x \in held[s] /\ x \in tx[t].todo
  BY DEF TInv, TypeOK, BlockedOn, NextRows
<1>3. Running(s)
  BY <1>2 DEF TInv, TypeOK
<1>4. Fine(live, tx[t], held[t]) /\ Fine(live, tx[s], held[s])
  BY <1>2, <1>3 DEF Locked, Knowing
<1>5. Friends(tx[t], held[t], tx[s], held[s])
  BY <1>2 DEF Locked, Compatible, Friends
<1>6. Descends(tx[t], held[t])
  <2>1. Statement(t) \in Leaves => Now(tx[t]) > 7
    BY Levels DEF Leaves, Statement, Now, At
  <2>2. QED BY <2>1 DEF Descends
<1>7. QED BY <1>1, <1>2, <1>4, <1>5, <1>6, NobodyBelow

\* Whatever else runs, a deletion that holds its row, and a withdrawal that holds the
\* posts, find everything below them unlocked.
THEOREM DescentsAreFree == Spec => []DescentNeverWaits
BY SpecLocked, LockedDescent, PTL

-----------------------------------------------------------------------------
(* Waiting follows the order of the tables, and of the ids in a table *)

Before(x, y) == Lv(x) < Lv(y) \/ (Lv(x) = Lv(y) /\ Id[x] < Id[y])

LEMMA BeforeOrder ==
    /\ \A x \in Rows : ~Before(x, x)
    /\ \A x, y, z \in Rows : Before(x, y) /\ Before(y, z) => Before(x, z)
<1>1. \A x \in Rows : Lv(x) \in 1 .. 11 /\ Id[x] \in Nat
  BY RowTables, RowsAssumption
<1>2. QED BY <1>1 DEF Before

\* Whoever may wait for a row, but a login that sweeps, waits for one that comes
\* after all it holds.
LEMMA WaitsRise ==
    ASSUME NEW V \in SUBSET Rows, NEW q, NEW h, Fine(V, q, h), ~Descends(q, h),
           ~(q.op.kind = "insert" /\ At(q) = "sessions"), NEW y \in q.todo, NEW x \in h
    PROVE  Before(x, y)
<1> DEFINE op == q.op
<1>1. /\ op \in Operations /\ Now(q) \in 1 .. 11 /\ h \subseteq Rows
      /\ \A z \in q.todo : z \in Rows /\ Lv(z) = Now(q) /\ Table[z] = At(q)
      /\ \A z \in Rows : Lv(z) = Now(q) => Table[z] = At(q)
  BY Standing DEF Fine, Placed
<1>2. Lv(x) <= Now(q) /\ x \notin q.todo /\ x \in Rows
      /\ (~AnyOrder(q) /\ Table[x] = Table[y] => Id[x] < Id[y])
  BY <1>1 DEF Fine, Holds
<1>3. Lv(x) \in 1 .. 11 /\ Lv(y) = Now(q) /\ Reason(op, h, x) /\ Reason(op, h, y)
  BY <1>1, <1>2, RowTables DEF Fine, Asked
<1>4. CASE Lv(x) < Now(q)
  BY <1>3, <1>4 DEF Before
<1>5. CASE Lv(x) = Now(q) /\ ~AnyOrder(q)
  BY <1>1, <1>2, <1>3, <1>5 DEF Before
<1>6. CASE Lv(x) = Now(q) /\ AnyOrder(q)
  <2>1. Table[x] = At(q) /\ Table[y] = At(q)
    BY <1>1, <1>2, <1>6
  <2>2. At(q) \in Leaves \/ (At(q) = "executions" /\ op.kind = "delete")
    BY <1>6 DEF AnyOrder
  <2>3. op.kind # "withdraw"
    <3>1. At(q) \in Leaves => Now(q) > 7
      BY Levels DEF Now, Leaves
    <3>2. QED BY <2>2, <3>1 DEF Descends
  <2>4. ASSUME NEW z \in {x, y} PROVE z = op.row
    <3>1. z \in Named(op)
      <4>1. ~(op.kind = "delete" /\ Refs[z] \cap h \cap Tree(op) # {})
        BY RootHeld DEF Descends
      <4>2. QED BY <1>3, <2>1, <2>2, <2>3, <2>4, <4>1 DEF Reason, Leaves
    <3>2. ~(NewPost(op) /\ Table[z] = "executions")
      BY <2>1, <2>2, <2>4 DEF NewPost, Leaves
    <3>3. QED BY <1>1, <2>1, <2>2, <2>3, <2>4, <3>1, <3>2, NamedRows DEF Leaves
  <2>5. QED BY <1>2, <2>4
<1>7. QED BY <1>1, <1>2, <1>3, <1>4, <1>5, <1>6

\* Of finitely many rows one comes last.
LEMMA LastRow ==
    ASSUME NEW S, IsFiniteSet(S), S # {}, NEW w \in [S -> Rows]
    PROVE  \E t \in S : \A s \in S : ~Before(w[t], w[s])
<1> DEFINE Later(t) == {s \in S : Before(w[t], w[s])}
           C == [t \in S |-> Cardinality(Later(t))]
           N == {C[t] : t \in S}
<1>1. ASSUME NEW t \in S
      PROVE  IsFiniteSet(Later(t)) /\ C[t] \in Nat /\ C[t] = Cardinality(Later(t))
  <2>1. IsFiniteSet(Later(t))
    BY FS_Subset
  <2>2. QED BY <2>1, FS_CardinalityType
<1> HIDE DEF C
<1>2. N \subseteq Nat /\ N # {}
  BY <1>1
<1>3. PICK n \in N : \A m \in N : ~(<<m, n>> \in OpToRel(<, Nat))
  BY <1>2, NatLessThanWellFounded, WFMin
<1>4. \A m \in N : ~(m < n)
  BY <1>2, <1>3 DEF OpToRel
<1>5. PICK t \in S : C[t] = n
  OBVIOUS
<1>6. ASSUME NEW s \in S, Before(w[t], w[s]) PROVE FALSE
  <2>1. Later(s) \in SUBSET Later(t)
    <3>1. w[t] \in Rows /\ w[s] \in Rows /\ \A r \in S : w[r] \in Rows
      OBVIOUS
    <3>2. QED BY <1>6, <3>1, BeforeOrder
  <2>2. s \in Later(t) /\ s \notin Later(s)
    BY <1>6, BeforeOrder
  <2>3. C[s] <= C[t] /\ C[s] # C[t]
    <3>1. Later(s) # Later(t)
      BY <2>2
    <3> HIDE DEF Later
    <3>2. QED BY <1>1, <2>1, <3>1, FS_Subset
  <2>4. C[s] \in N /\ C[s] \in Nat /\ C[t] \in Nat
    BY <1>1
  <2>5. QED BY <1>4, <1>5, <2>3, <2>4
<1>7. QED BY <1>6

\* Whoever waits among those that wait for one another does not descend.
LEMMA WaitersAreFine ==
    ASSUME TInv, Locked, NEW S \in SUBSET Txs, WaitsWithin(S), NEW s \in S
    PROVE  /\ Running(s) /\ tx[s].todo # {} /\ tx[s].todo \subseteq Rows
           /\ Fine(live, tx[s], held[s]) /\ ~Descends(tx[s], held[s])
<1>1. live \in SUBSET Rows /\ Closed(live) /\ Gate \in live
  BY DEF TInv, TypeOK, Locked, ReferencesHold, Closed
<1>2. ASSUME NEW t \in S
      PROVE  Running(t) /\ \E x \in tx[t].todo : BlockedOn(t, x) \cap S # {}
  BY DEF WaitsWithin, MayWaitIn, NextRows
<1>3. \A t \in S : Fine(live, tx[t], held[t])
  BY <1>2 DEF Locked, Knowing
<1>4. PICK x \in tx[s].todo : BlockedOn(s, x) \cap S # {}
  BY <1>2
<1>5. PICK r \in S : r \in BlockedOn(s, x)
  BY <1>4
<1>6. r # s /\ r \in Txs /\ x \in held[r]
  BY <1>5 DEF BlockedOn
<1>7. Friends(tx[s], held[s], tx[r], held[r])
  BY <1>6 DEF Locked, Compatible, Friends
<1>8. ~Descends(tx[s], held[s])
  BY <1>1, <1>3, <1>4, <1>6, <1>7, NobodyBelow
<1>9. tx[s].todo \subseteq Rows
  BY DEF TInv, TypeOK
<1>10. QED BY <1>2, <1>3, <1>4, <1>8, <1>9

\* Among those that wait for one another, a login that sweeps waits for another
\* one of its user that sweeps: nobody else is as far and waits still.
LEMMA SweeperWaits ==
    ASSUME TInv, Locked, NEW S \in SUBSET Txs, WaitsWithin(S), NEW t \in S, Sweeping(t),
           NEW x \in NextRows(t), NEW s \in S, s \in BlockedOn(t, x)
    PROVE  Sweeping(s) /\ Refs[tx[s].op.row] = Refs[tx[t].op.row]
<1> DEFINE op == tx[s].op
<1>1. /\ Running(s) /\ Fine(live, tx[s], held[s]) /\ ~Descends(tx[s], held[s])
      /\ Fine(live, tx[t], held[t]) /\ \E y : y \in tx[s].todo
  BY WaitersAreFine
<1>2. x \in tx[t].todo /\ x \in held[s]
  BY DEF NextRows, BlockedOn
<1>3. At(tx[t]) = "sessions" /\ tx[t].op.kind = "insert"
  BY DEF Sweeping, Statement, At
<1>4. /\ x \in Rows /\ Table[x] = "sessions" /\ Lv(x) = 11 /\ tx[t].op \in Operations
      /\ Reason(tx[t].op, held[t], x)
  <2>1. Placed(tx[t], held[t]) /\ Asked(tx[t], held[t])
    BY <1>1 DEF Fine
  <2>2. QED BY <1>2, <1>3, <2>1, Standing, Levels DEF Lv, Asked
<1>5. At(tx[s]) = "sessions" /\ Now(tx[s]) = 11 /\ op \in Operations
  <2>1. Lv(x) <= Now(tx[s]) /\ Now(tx[s]) \in 1 .. 11 /\ At(tx[s]) \in Tables /\ op \in Operations
    BY <1>1, <1>2, Standing DEF Fine, Holds
  <2>2. Now(tx[s]) = 11
    BY <1>4, <2>1
  <2>3. "sessions" \in Tables /\ Level("sessions") = 11
    BY Levels DEF Tables, Leaves
  <2>4. QED BY <2>1, <2>2, <2>3, LevelOrder DEF Now
<1>6. op.kind # "withdraw"
  BY <1>1, <1>5 DEF Descends
<1>7. PICK y \in tx[s].todo : y # x /\ Table[y] = "sessions" /\ Reason(op, held[s], y)
  <2>1. PICK y : y \in tx[s].todo
    BY <1>1
  <2>2. x \notin tx[s].todo
    BY <1>1, <1>2 DEF Fine, Holds
  <2>3. Placed(tx[s], held[s]) /\ Reason(op, held[s], y)
    BY <1>1, <2>1 DEF Fine, Asked
  <2>4. Table[y] = "sessions"
    BY <1>5, <2>1, <2>3, Standing
  <2>5. QED BY <2>1, <2>2, <2>3, <2>4
<1>8. Reason(op, held[s], x)
  BY <1>1, <1>2 DEF Fine, Asked
<1>9. ASSUME NEW z \in {x, y} PROVE z = op.row \/ (op.kind = "insert" /\ Refs[z] = Refs[op.row])
  <2>1. Table[z] = "sessions" /\ Reason(op, held[s], z)
    BY <1>4, <1>7, <1>8
  <2>2. ~(op.kind = "delete" /\ Refs[z] \cap held[s] \cap Tree(op) # {})
    <3>1. live \in SUBSET Rows
      BY DEF TInv, TypeOK
    <3>2. QED BY <1>1, <3>1, RootHeld DEF Descends
  <2>3. z \in Named(op) => z = op.row
    BY <1>5, <1>6, <2>1, NamedRows
  <2>4. QED BY <1>6, <2>1, <2>2, <2>3 DEF Reason
<1>10. op.kind = "insert" /\ Refs[x] = Refs[op.row]
  BY <1>7, <1>9
<1>11. Refs[x] = Refs[tx[t].op.row]
  <2>1. x \in Named(tx[t].op) => x = tx[t].op.row
    BY <1>3, <1>4, NamedRows
  <2>2. QED BY <1>3, <1>4, <2>1 DEF Reason
<1>12. Sweeping(s)
  BY <1>1, <1>5, <1>10 DEF Sweeping, Statement, At
<1>13. QED BY <1>10, <1>11, <1>12

\* Where no login sweeps, the last of the rows that are waited for is held by
\* one that waits for a later one.
LEMMA NoCircle ==
    ASSUME TInv, Locked, NEW S \in SUBSET Txs, S # {}, WaitsWithin(S),
           \A t \in S : ~Sweeping(t)
    PROVE  FALSE
<1>1. live \in SUBSET Rows
  BY DEF TInv, TypeOK
<1>2. IsFiniteSet(S)
  BY SchemaAssumption, FS_Subset
<1> DEFINE W(t) == CHOOSE x : x \in NextRows(t) /\ BlockedOn(t, x) \cap S # {}
           w == [t \in S |-> W(t)]
<1>3. ASSUME NEW t \in S
      PROVE  /\ Running(t) /\ w[t] \in tx[t].todo /\ w[t] \in Rows
             /\ BlockedOn(t, w[t]) \cap S # {}
  <2>1. Running(t) /\ \E x : x \in NextRows(t) /\ BlockedOn(t, x) \cap S # {}
    BY DEF WaitsWithin, MayWaitIn
  <2>2. W(t) \in NextRows(t) /\ BlockedOn(t, W(t)) \cap S # {}
    BY <2>1
  <2>3. w[t] = W(t)
    OBVIOUS
  <2> HIDE DEF w, W
  <2>4. \A x \in NextRows(t) : x \in tx[t].todo /\ x \in Rows
    BY DEF NextRows, TInv, TypeOK
  <2>5. QED BY <2>1, <2>2, <2>3, <2>4
<1>4. w \in [S -> Rows]
  BY <1>3
<1> HIDE DEF w, W
<1>5. PICK t \in S : \A s \in S : ~Before(w[t], w[s])
  BY <1>2, <1>4, LastRow
<1>6. PICK s \in S : s \in BlockedOn(t, w[t])
  BY <1>3
<1>7. w[t] \in held[s]
  BY <1>6 DEF BlockedOn
<1>8. Running(s) /\ Fine(live, tx[s], held[s]) /\ ~Descends(tx[s], held[s])
  BY WaitersAreFine
<1>9. ~(tx[s].op.kind = "insert" /\ At(tx[s]) = "sessions")
  BY <1>8 DEF Sweeping, Statement, At
<1>10. Before(w[t], w[s])
  BY <1>1, <1>3, <1>7, <1>8, <1>9, WaitsRise
<1>11. QED BY <1>5, <1>10

LEMMA LockedWaits == TInv /\ Locked => OnlySweepsDeadlock
<1> SUFFICES ASSUME TInv, Locked, NEW S \in SUBSET Txs, S # {}, WaitsWithin(S)
             PROVE  \E C \in SUBSET S : SweepsCross(C)
  BY DEF OnlySweepsDeadlock
<1>1. PICK t \in S : Sweeping(t)
  BY NoCircle
<1> DEFINE C == {s \in S : Sweeping(s) /\ Refs[tx[s].op.row] = Refs[tx[t].op.row]}
<1>2. ASSUME NEW s \in C PROVE MayWaitIn(s, C)
  <2>1. PICK x \in NextRows(s) : BlockedOn(s, x) \cap S # {}
    BY DEF WaitsWithin, MayWaitIn
  <2>2. PICK r \in S : r \in BlockedOn(s, x)
    BY <2>1
  <2>3. Sweeping(s) /\ s \in S /\ Refs[tx[s].op.row] = Refs[tx[t].op.row]
    OBVIOUS
  <2>4. Sweeping(r) /\ Refs[tx[r].op.row] = Refs[tx[s].op.row]
    BY <2>2, <2>3, SweeperWaits
  <2>5. r \in C
    BY <2>3, <2>4
  <2>6. Running(s)
    BY <2>3 DEF Sweeping
  <2> HIDE DEF C
  <2>7. QED BY <2>2, <2>5, <2>6 DEF MayWaitIn
<1>3. C \in SUBSET S /\ t \in C
  BY <1>1
<1>4. \A s, r \in C : Sweeping(s) /\ Refs[tx[s].op.row] = Refs[tx[r].op.row]
  OBVIOUS
<1> HIDE DEF C
<1>5. QED BY <1>2, <1>3, <1>4 DEF SweepsCross, WaitsWithin

\* However many transactions run and whatever they are called on, those that wait
\* for one another do so on account of logins of one user whose sweeps of expired
\* sessions cross: the order of the locks rules every other deadlock out.
THEOREM OnlySweepsCanDeadlock == Spec => []OnlySweepsDeadlock
BY SpecLocked, LockedWaits, PTL

=============================================================================
