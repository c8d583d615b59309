----------------------------- MODULE CommunityProofs -----------------------------
(***************************************************************************)
(* Proofs about Community and the part of Members it is composed with, for *)
(* any users, posts, consents, page size and number of requests.  The      *)
(* argument rests on what each request in flight knows (Fits): whose rows  *)
(* its locks hold, what it was checked for, and what it found; and on two  *)
(* facts about pairs of requests: their numbers differ, and no two toggle  *)
(* one post (Apart).  A client in the middle of a feed has missed no more  *)
(* of the ranks it has read than was displaced since it began (Paged):     *)
(* rows that neither go nor change their key keep their order, so they     *)
(* move up only into places that others left.                              *)
(***************************************************************************)
EXTENDS Community, FiniteSetTheorems, WellFoundedInduction, TLAPS

Ops == {"none", "consents", "join", "rename", "follow", "unfollow", "post", "like", "comment"}
Pcs == {"idle", "lock", "upsert", "write", "insert", "create", "update", "delete"}
Request == [op : Ops, pc : Pcs, user : Users \cup {None}, at : 0 .. MaxWrites,
            name : Nicknames \cup {None}, target : Users \cup PostIds \cup CommentIds \cup {None},
            choice : Selections \cup {<<>>}, done : SUBSET Items, locked : SUBSET Users]

Underway(q) == q.pc # "idle" => q.user \in Users /\ 1 <= q.at /\ q.at <= writes

\* A lock keeps its user registered; what writes for a user holds one.
Locks(q) ==
    /\ \A u \in q.locked : Registered(u)
    /\ q.locked # {} => q.pc # "idle"
    /\ q.op = "consents" /\ q.pc = "upsert" => q.user \in q.locked
    /\ q.op = "post" => q.user \in q.locked
    /\ q.op = "like" /\ q.pc \in {"insert", "delete"} => q.user \in q.locked

\* What the checks of a request established of its input.
Chosen(q) ==
    /\ q.done \subseteq DOMAIN q.choice /\ DOMAIN q.choice \subseteq Items
    /\ q.op \in {"consents", "join"} =>
          q.choice \in Selections /\ \A i \in Required \cap DOMAIN q.choice : q.choice[i]
    /\ q.op = "join" => Required \subseteq DOMAIN q.choice
    /\ q.op \in {"join", "rename"} => q.name \in Nicknames

\* What a request found is still there, if it locked it.
Aimed(q) ==
    /\ q.op \in {"follow", "unfollow"} => <<q.user, q.target>> \in Pairs
    /\ q.op = "like" => q.target \in PostIds
    /\ q.op = "like" /\ q.pc \in {"insert", "delete"} => Exists(q.target)
    /\ q.op = "like" /\ q.pc = "delete" => <<q.target, q.user>> \in likes

Fits(q) == q \in Request /\ Underway(q) /\ Locks(q) /\ Chosen(q) /\ Aimed(q)

Toggles(q) == q.op = "like" /\ q.locked # {}

ReqFits ==
    /\ req = [r \in Writers |-> req[r]]
    /\ \A r \in Writers : Fits(req[r])

Apart ==
    \A r, s \in Writers : r # s =>
        /\ req[r].pc # "idle" /\ req[s].pc # "idle" => req[r].at # req[s].at
        /\ Toggles(req[r]) /\ Toggles(req[s]) => req[r].target # req[s].target

\* No row bears the number of a request that is to come or still runs.
Fresh ==
    \A u \in Users, i \in Items : consents[u][i] # None =>
        /\ consents[u][i].at <= writes
        /\ \A r \in Writers : req[r].pc # "idle" => consents[u][i].at # req[r].at

FollowsAddUp == \A p \in Pairs : followings[p] = IF p \in follows THEN 1 ELSE 0
LikesAddUp == \A k \in PostIds \X Users : likings[k] = IF k \in likes THEN 1 ELSE 0

MemberTables == MembersTypeOK /\ ConsentsAreWhole /\ RequiredConsentsStand /\ FollowsAddUp

PostTables ==
    /\ posts \subseteq PostRows /\ comments \subseteq CommentRows
    /\ IsFiniteSet(posts) /\ IsFiniteSet(likes)
    /\ used \subseteq PostIds \cup CommentIds
    /\ \A x \in posts : x.id \in used
    /\ likes \subseteq {<<x.id, u>> : x \in posts, u \in {v \in Users : Registered(v)}}
    /\ \A x, y \in posts : x.id = y.id => x = y
    /\ \A x \in posts \cup comments : Registered(x.author)
    /\ \A c \in comments : Exists(c.post)
    /\ likings \in [PostIds \X Users -> Int] /\ LikesAddUp

FeedRow == [pc : {"idle", "reading"}, sort : {"createdAt", "likeCnt", None}, page : Nat, first : SUBSET PostIds,
            seen : SUBSET PostIds, last : BOOLEAN, removed : Nat, liked : Nat]

Base == MemberTables /\ PostTables /\ ReqFits /\ Apart /\ Fresh /\ feed \in [Readers -> FeedRow]

-----------------------------------------------------------------------------
(* Requests *)

IdleFacts == /\ Idle \in Request /\ Idle.op = "none" /\ Idle.pc = "idle"
             /\ Idle.locked = {} /\ Idle.done = {} /\ DOMAIN Idle.choice = {}

LEMMA IdleIs == IdleFacts
<1>1. <<>> \in Selections \cup {<<>>} /\ None \in Users \cup {None} /\ 0 \in 0 .. MaxWrites
      /\ None \in Nicknames \cup {None}
      /\ None \in Users \cup PostIds \cup CommentIds \cup {None}
  BY MembersAssumption
<1>2. ASSUME NEW c \in Selections \cup {<<>>}
      PROVE  [op |-> "none", pc |-> "idle", user |-> None, at |-> 0, name |-> None, target |-> None,
              choice |-> c, done |-> {}, locked |-> {}] \in Request
  BY <1>1 DEF Request, Ops, Pcs
<1>3. Idle \in Request
  BY <1>1, <1>2 DEF Idle
<1>4. QED BY <1>3 DEF IdleFacts, Idle

LEMMA IdleFits == ASSUME NEW q, q = Idle PROVE Fits(q) /\ ~Toggles(q)
BY IdleIs DEF IdleFacts, Fits, Underway, Locks, Chosen, Aimed, Toggles

\* A request that runs goes on to fit if what it locked and found stays.
LEMMA FitsStill ==
    ASSUME NEW s \in Writers, Fits(req[s]), req'[s] = req[s], writes <= writes', writes' \in Nat,
           writes \in Nat,
           \A u \in req[s].locked : Registered(u)',
           req[s].op = "like" /\ req[s].pc \in {"insert", "delete"} => (\E x \in posts' : x.id = req[s].target),
           req[s].op = "like" /\ req[s].pc = "delete" => <<req[s].target, req[s].user>> \in likes'
    PROVE  Fits(req[s])'
<1>1. req'[s] \in Request /\ Chosen(req[s])'
  BY DEF Fits, Chosen
<1>2. Underway(req[s])'
  BY DEF Fits, Underway, Request
<1>3. Locks(req[s])'
  BY DEF Fits, Locks
<1>4. Aimed(req[s])'
  BY DEF Fits, Aimed, Exists
<1>5. QED BY <1>1, <1>2, <1>3, <1>4 DEF Fits

\* What a step must leave to the requests it is not one of.
Kept(S) ==
    \A s \in S :
        /\ \A u \in req[s].locked : Registered(u)'
        /\ req[s].op = "like" /\ req[s].pc \in {"insert", "delete"} => \E x \in posts' : x.id = req[s].target
        /\ req[s].op = "like" /\ req[s].pc = "delete" => <<req[s].target, req[s].user>> \in likes'

\* A step of a request r.
LEMMA StepOn ==
    ASSUME ReqFits, Apart, NEW r \in Writers, NEW q, Become(r, q), Fits(req[r])',
           writes <= writes', writes' \in Nat, writes \in Nat, Kept(Writers \ {r}),
           q.pc # "idle" => (req[r].pc # "idle" /\ q.at = req[r].at) \/ writes < q.at,
           Toggles(q) => \A s \in Writers \ {r} :
                            Toggles(req[s]) => req[s].target # q.target
    PROVE  ReqFits' /\ Apart'
<1>1. req' = [s \in Writers |-> IF s = r THEN q ELSE req[s]]
  BY DEF Become, ReqFits
<1>2. ASSUME NEW s \in Writers, s # r PROVE Fits(req[s])'
  <2>1. Fits(req[s]) /\ req'[s] = req[s]
    BY <1>1, <1>2 DEF ReqFits
  <2>2. QED BY <1>2, <2>1, FitsStill DEF Kept
<1>3. ReqFits'
  BY <1>1, <1>2 DEF ReqFits
<1>4. req'[r] = q
  BY <1>1
<1>5. ASSUME NEW s \in Writers, s # r
      PROVE  /\ req'[s] = req[s]
             /\ q.pc # "idle" /\ req[s].pc # "idle" => q.at # req[s].at
             /\ Toggles(q) /\ Toggles(req[s]) => q.target # req[s].target
  <2>1. req'[s] = req[s]
    BY <1>1, <1>5
  <2>2. Toggles(q) /\ Toggles(req[s]) => q.target # req[s].target
    BY <1>5
  <2>3. req[s].pc # "idle" => req[s].at <= writes /\ req[s].at \in Nat
    BY DEF ReqFits, Fits, Underway, Request
  <2>4. q.at \in Nat
    <3>1. q \in Request
      BY <1>4 DEF Fits, Request
    <3>2. QED BY <3>1, MembersAssumption DEF Request
  <2>5. ASSUME q.pc # "idle", req[s].pc # "idle" PROVE q.at # req[s].at
    <3>1. CASE req[r].pc # "idle" /\ q.at = req[r].at
      BY <1>5, <2>5, <3>1 DEF Apart
    <3>2. CASE writes < q.at
      BY <2>3, <2>4, <2>5, <3>2
    <3>3. QED BY <2>5, <3>1, <3>2
  <2>6. QED BY <2>1, <2>2, <2>5
<1>6. Apart'
  <2>1. ASSUME NEW s \in Writers, NEW t \in Writers, s # t
        PROVE  /\ req'[s].pc # "idle" /\ req'[t].pc # "idle" => req'[s].at # req'[t].at
               /\ (req'[s].op = "like" /\ req'[s].locked # {}) /\ (req'[t].op = "like" /\ req'[t].locked # {})
                     => req'[s].target # req'[t].target
    <3>1. CASE s = r
      BY <1>4, <1>5, <2>1, <3>1 DEF Toggles
    <3>2. CASE t = r
      BY <1>4, <1>5, <2>1, <3>2 DEF Toggles
    <3>3. CASE s # r /\ t # r
      BY <1>5, <2>1, <3>3 DEF Apart, Toggles
    <3>4. QED BY <3>1, <3>2, <3>3
  <2>2. QED BY <2>1 DEF Apart, Toggles
<1>7. QED BY <1>3, <1>6

\* A request that ends.
LEMMA Ends ==
    ASSUME ReqFits, Apart, NEW r \in Writers, End(r), writes' = writes, writes \in Nat,
           Kept(Writers \ {r})
    PROVE  ReqFits' /\ Apart' /\ req'[r] = Idle /\ \A s \in Writers \ {r} : req'[s] = req[s]
<1>1. Become(r, Idle)
  BY DEF End
<1>2. req' = [s \in Writers |-> IF s = r THEN Idle ELSE req[s]]
  BY <1>1 DEF Become, ReqFits
<1>3. Fits(req[r])'
  <2>1. req'[r] = Idle
    BY <1>2
  <2>2. req'[r] \in Request
    BY <2>1, IdleIs DEF IdleFacts
  <2>3. Underway(req[r])' /\ Locks(req[r])' /\ Chosen(req[r])' /\ Aimed(req[r])'
    BY <2>1, IdleIs DEF IdleFacts, Underway, Locks, Chosen, Aimed
  <2>4. QED BY <2>2, <2>3 DEF Fits, Request
<1>4. ~Toggles(Idle) /\ Idle.pc = "idle"
  BY IdleIs DEF IdleFacts, Toggles
<1>5. ReqFits' /\ Apart'
  BY <1>1, <1>3, <1>4, StepOn
<1>6. QED BY <1>2, <1>5

\* No request takes a step.
LEMMA Waits ==
    ASSUME ReqFits, Apart, req' = req, writes <= writes', writes' \in Nat, writes \in Nat,
           Kept(Writers)
    PROVE  ReqFits' /\ Apart'
<1>1. ASSUME NEW s \in Writers PROVE Fits(req[s])'
  BY FitsStill DEF Kept, ReqFits
<1>2. QED BY <1>1 DEF ReqFits, Apart, Toggles

\* The tables stay, and so does what the requests know of them.
LEMMA KeptAlike ==
    ASSUME ReqFits, UNCHANGED <<nickname, posts, likes>>, NEW S \in SUBSET Writers
    PROVE  Kept(S)
<1>1. ASSUME NEW s \in S
      PROVE  /\ \A u \in req[s].locked : Registered(u)
             /\ req[s].op = "like" /\ req[s].pc \in {"insert", "delete"} => Exists(req[s].target)
             /\ req[s].op = "like" /\ req[s].pc = "delete" => <<req[s].target, req[s].user>> \in likes
  BY DEF ReqFits, Fits, Locks, Aimed
<1>2. /\ \A u : Registered(u)' <=> Registered(u)
      /\ posts' = posts
      /\ likes' = likes
  BY DEF Registered, Exists
<1>3. QED BY <1>1, <1>2 DEF Kept, Exists

-----------------------------------------------------------------------------
(* Steps on the tables *)

LEMMA MembersStand ==
    ASSUME MemberTables, UNCHANGED members, writes' \in 0 .. MaxWrites
    PROVE  MemberTables'
<1>1. /\ nickname' = nickname /\ consents' = consents /\ follows' = follows
      /\ asked' = asked /\ followings' = followings
  BY DEF members
<1>2. MembersTypeOK'
  BY <1>1 DEF MemberTables, MembersTypeOK, Registered
<1>3. ConsentsAreWhole' /\ RequiredConsentsStand' /\ FollowsAddUp'
  BY <1>1 DEF MemberTables, ConsentsAreWhole, RequiredConsentsStand, FollowsAddUp, Registered
<1>4. QED BY <1>2, <1>3 DEF MemberTables

LEMMA PostsStand ==
    ASSUME PostTables, UNCHANGED tables, \A u \in Users : Registered(u) => Registered(u)'
    PROVE  PostTables'
<1>1. /\ posts' = posts /\ likes' = likes /\ comments' = comments
      /\ used' = used /\ likings' = likings
  BY DEF tables
<1>2. likes' \subseteq {<<x.id, u>> : x \in posts', u \in {v \in Users : Registered(v)'}}
  BY <1>1 DEF PostTables
<1>3. \A x \in posts \cup comments : Registered(x.author)'
  BY DEF PostTables, PostRows, CommentRows
<1>4. QED BY <1>1, <1>2, <1>3 DEF PostTables, LikesAddUp, Exists

\* What only grows is kept.
LEMMA KeptGrowing ==
    ASSUME ReqFits, \A u \in Users : Registered(u) => Registered(u)',
           posts \subseteq posts', likes \subseteq likes', NEW S \in SUBSET Writers
    PROVE  Kept(S)
<1>1. ASSUME NEW s \in S
      PROVE  /\ \A u \in req[s].locked : u \in Users /\ Registered(u)
             /\ req[s].op = "like" /\ req[s].pc \in {"insert", "delete"} => Exists(req[s].target)
             /\ req[s].op = "like" /\ req[s].pc = "delete" => <<req[s].target, req[s].user>> \in likes
  BY DEF ReqFits, Fits, Locks, Aimed, Request
<1>2. QED BY <1>1 DEF Kept, Exists

LEMMA Numbers == Base => writes \in Nat /\ writes \in 0 .. MaxWrites /\ MaxWrites \in Nat
BY MembersAssumption DEF Base, MemberTables, MembersTypeOK

\* A step of a request that leaves the tables alone.
LEMMA MoveOn ==
    ASSUME Base, NEW r \in Writers, NEW q, Become(r, q), UNCHANGED <<members, tables, feed>>,
           writes <= writes', writes' \in 0 .. MaxWrites,
           q \in Request, q.pc # "idle" => q.user \in Users /\ 1 <= q.at /\ q.at <= writes',
           Locks(q), Chosen(q), Aimed(q),
           q.pc # "idle" => (req[r].pc # "idle" /\ q.at = req[r].at) \/ writes < q.at,
           Toggles(q) => \A s \in Writers \ {r} :
                            Toggles(req[s]) => req[s].target # q.target
    PROVE  Base'
<1>1. req' = [s \in Writers |-> IF s = r THEN q ELSE req[s]]
  BY DEF Become, Base, ReqFits
<1>2. req'[r] = q
  BY <1>1
<1>3. /\ nickname' = nickname /\ posts' = posts /\ likes' = likes /\ consents' = consents
  BY DEF members, tables
<1>4. Fits(req[r])'
  <2>1. Locks(req[r])' /\ Chosen(req[r])' /\ Aimed(req[r])'
    BY <1>2, <1>3 DEF Locks, Chosen, Aimed, Registered, Exists
  <2>2. req'[r] \in Request /\ Underway(req[r])'
    BY <1>2 DEF Underway
  <2>3. QED BY <2>1, <2>2 DEF Fits, Request
<1>5. Kept(Writers \ {r})
  BY <1>3, KeptAlike DEF Base
<1>6. ReqFits' /\ Apart'
  BY <1>4, <1>5, Numbers, StepOn, MembersAssumption DEF Base
<1>7. MemberTables' /\ PostTables'
  BY <1>3, MembersStand, PostsStand DEF Base, Registered
<1>8. Fresh'
  <2>1. ASSUME NEW u \in Users, NEW i \in Items, consents[u][i] # None
        PROVE  /\ consents[u][i].at <= writes'
               /\ \A s \in Writers : req'[s].pc # "idle" => consents[u][i].at # req'[s].at
    <3>1. /\ consents[u][i].at <= writes
          /\ \A s \in Writers : req[s].pc # "idle" => consents[u][i].at # req[s].at
      BY <2>1 DEF Base, Fresh
    <3>2. consents[u][i].at \in Nat
      <4>1. consents[u][i] \in Row
        BY <2>1 DEF Base, MemberTables, MembersTypeOK
      <4>2. QED BY <4>1, MembersAssumption DEF Row
    <3>3. writes \in Nat /\ writes' \in Nat /\ q.at \in Nat
      BY Numbers, MembersAssumption DEF Request
    <3>4. q.pc # "idle" => consents[u][i].at # q.at
      BY <3>1, <3>2, <3>3
    <3>5. QED BY <1>1, <3>1, <3>2, <3>3, <3>4
  <2>2. QED BY <1>3, <2>1 DEF Fresh
<1>9. QED BY <1>6, <1>7, <1>8 DEF Base

\* The rows of consents after a step are those before, or of the request r.
Signed(r) ==
    \A u \in Users, i \in Items :
        \/ consents'[u][i] = consents[u][i]
        \/ consents'[u][i] = None
        \/ consents'[u][i].at = req[r].at /\ req[r].pc # "idle"

\* A request that ends, whatever it wrote.
LEMMA Finish ==
    ASSUME Base, NEW r \in Writers, End(r), writes' = writes, Kept(Writers \ {r}),
           MemberTables', PostTables', Signed(r), feed' \in [Readers -> FeedRow]
    PROVE  Base'
<1>1. /\ ReqFits' /\ Apart' /\ req'[r] = Idle
      /\ \A s \in Writers \ {r} : req'[s] = req[s]
  BY Ends, Numbers DEF Base
<1>2. Fresh'
  <2>1. ASSUME NEW u \in Users, NEW i \in Items, consents'[u][i] # None
        PROVE  /\ consents'[u][i].at <= writes
               /\ \A s \in Writers : req'[s].pc # "idle" => consents'[u][i].at # req'[s].at
    <3>1. CASE consents'[u][i] = consents[u][i]
      BY <1>1, <2>1, <3>1, IdleIs DEF Base, Fresh, IdleFacts
    <3>2. CASE consents'[u][i].at = req[r].at /\ req[r].pc # "idle"
      <4>1. req[r].at <= writes
        BY <3>2 DEF Base, ReqFits, Fits, Underway
      <4>2. \A s \in Writers \ {r} : req[s].pc # "idle" => req[s].at # req[r].at
        BY <3>2 DEF Base, Apart
      <4>3. QED BY <1>1, <3>2, <4>1, <4>2, IdleIs DEF IdleFacts
    <3>3. QED BY <2>1, <3>1, <3>2 DEF Signed
  <2>2. QED BY <2>1 DEF Fresh
<1>3. QED BY <1>1, <1>2 DEF Base

\* A request that ends having written nothing.
LEMMA FinishAlike ==
    ASSUME Base, NEW r \in Writers, End(r), UNCHANGED <<members, writes, tables, feed>>
    PROVE  Base'
<1>1. /\ nickname' = nickname /\ posts' = posts /\ likes' = likes /\ consents' = consents
  BY DEF members, tables
<1>2. Kept(Writers \ {r})
  BY <1>1, KeptAlike DEF Base
<1>3. MemberTables' /\ PostTables'
  BY <1>1, MembersStand, PostsStand, Numbers DEF Base, Registered
<1>4. QED BY <1>1, <1>2, <1>3, Finish DEF Base, Signed

\* A step of members that ends a request: it registers users and removes none.
LEMMA FinishMember ==
    ASSUME Base, NEW r \in Writers, End(r), writes' = writes, UNCHANGED <<tables, feed>>,
           \A u \in Users : Registered(u) => Registered(u)', MemberTables', Signed(r)
    PROVE  Base'
<1>1. Kept(Writers \ {r})
  BY KeptGrowing DEF Base, tables
<1>2. QED BY <1>1, PostsStand, Finish DEF Base

-----------------------------------------------------------------------------
(* The steps of members *)

LEMMA ConsentRows ==
    ASSUME Base, NEW u \in Users, NEW i \in Items
    PROVE  consents[u] \in [Items -> Row \cup {None}] /\ (consents[u][i] = None \/ consents[u][i] \in Row)
<1>1. consents[u] \in [Items -> Row \cup {None}]
  BY DEF Base, MemberTables, MembersTypeOK
<1>2. consents[u][i] \in Row \cup {None}
  BY <1>1
<1>3. QED BY <1>1, <1>2

\* A request begins: it has a new number, holds nothing yet, or its author.
LEMMA Begins ==
    ASSUME Base, NEW r \in Writers, Ready(r), NEW u \in Users, NEW q, Become(r, q),
           writes' = writes + 1, UNCHANGED <<members, tables, feed>>,
           q \in Request, q.user = u, q.at = writes + 1,
           Locks(q), Chosen(q), Aimed(q), ~Toggles(q)
    PROVE  Base'
<1>1. writes \in Nat /\ MaxWrites \in Nat /\ writes < MaxWrites
  BY Numbers DEF Ready
<1>2. writes <= writes' /\ writes' \in 0 .. MaxWrites /\ 1 <= q.at /\ q.at <= writes' /\ writes < q.at
  BY <1>1
<1>3. QED BY <1>2, MoveOn

LEMMA SendConsentsFits ==
    ASSUME Base, NEW r \in Writers, SendConsents(r), UNCHANGED <<tables, feed>>
    PROVE  Base'
<1>1. PICK u \in Users, c \in Selections :
         /\ Accepts(c) \/ MarketingOnly(c)
         /\ Begin(r, u, [Idle EXCEPT !.op = "consents", !.pc = "lock", !.choice = c])
         /\ UNCHANGED members
  BY DEF SendConsents
<1> DEFINE q == [[Idle EXCEPT !.op = "consents", !.pc = "lock", !.choice = c]
                    EXCEPT !.user = u, !.at = writes + 1]
<1>2. Ready(r) /\ Become(r, q) /\ writes' = writes + 1
  BY <1>1 DEF SendConsents, Begin
<1>3. writes + 1 \in 0 .. MaxWrites
  BY <1>2, Numbers DEF Ready
<1>4. /\ q \in Request /\ q.op = "consents" /\ q.pc = "lock" /\ q.choice = c /\ q.user = u
      /\ q.at = writes + 1 /\ q.done = {} /\ q.locked = {}
  BY <1>3, IdleIs DEF IdleFacts, Request, Ops, Pcs
<1> HIDE DEF q
<1>5. DOMAIN c \subseteq Items /\ \A i \in Required \cap DOMAIN c : c[i]
  BY <1>1, MembersAssumption DEF Accepts, MarketingOnly, FindItemsByIds, ListActiveItems
<1>6. Locks(q) /\ Chosen(q) /\ Aimed(q) /\ ~Toggles(q)
  BY <1>4, <1>5 DEF Locks, Chosen, Aimed, Toggles
<1>7. QED BY <1>1, <1>2, <1>4, <1>6, Begins

LEMMA JoinFits ==
    ASSUME Base, NEW r \in Writers, Join(r), UNCHANGED <<tables, feed>>
    PROVE  Base'
<1>1. PICK u \in Users, n \in Nicknames, c \in Selections :
         /\ Accepts(c)
         /\ Begin(r, u, [Idle EXCEPT !.op = "join", !.pc = "write", !.name = n, !.choice = c])
         /\ UNCHANGED members
  BY DEF Join
<1> DEFINE q == [[Idle EXCEPT !.op = "join", !.pc = "write", !.name = n, !.choice = c]
                    EXCEPT !.user = u, !.at = writes + 1]
<1>2. Ready(r) /\ Become(r, q) /\ writes' = writes + 1
  BY <1>1 DEF Join, Begin
<1>3. writes + 1 \in 0 .. MaxWrites
  BY <1>2, Numbers DEF Ready
<1>4. /\ q \in Request /\ q.op = "join" /\ q.pc = "write" /\ q.choice = c /\ q.user = u
      /\ q.at = writes + 1 /\ q.name = n /\ q.done = {} /\ q.locked = {}
  BY <1>3, IdleIs DEF IdleFacts, Request, Ops, Pcs
<1> HIDE DEF q
<1>5. /\ DOMAIN c \subseteq Items /\ Required \subseteq DOMAIN c
      /\ \A i \in Required \cap DOMAIN c : c[i]
  BY <1>1, MembersAssumption DEF Accepts, FindItemsByIds, ListActiveItems
<1>6. Locks(q) /\ Chosen(q) /\ Aimed(q) /\ ~Toggles(q)
  BY <1>4, <1>5 DEF Locks, Chosen, Aimed, Toggles
<1>7. QED BY <1>1, <1>2, <1>4, <1>6, Begins

LEMMA VerifyNicknameFits ==
    ASSUME Base, NEW r \in Writers, VerifyNickname(r), UNCHANGED <<tables, feed>>
    PROVE  Base'
<1>1. PICK u \in Users, n \in Nicknames :
         /\ Begin(r, u, [Idle EXCEPT !.op = "rename", !.pc = "write", !.name = n])
         /\ UNCHANGED members
  BY DEF VerifyNickname
<1> DEFINE q == [[Idle EXCEPT !.op = "rename", !.pc = "write", !.name = n]
                    EXCEPT !.user = u, !.at = writes + 1]
<1>2. Ready(r) /\ Become(r, q) /\ writes' = writes + 1
  BY <1>1 DEF VerifyNickname, Begin
<1>3. writes + 1 \in 0 .. MaxWrites
  BY <1>2, Numbers DEF Ready
<1>4. /\ q \in Request /\ q.op = "rename" /\ q.pc = "write" /\ q.user = u /\ q.choice = Idle.choice
      /\ q.at = writes + 1 /\ q.name = n /\ q.done = {} /\ q.locked = {}
  BY <1>3, IdleIs DEF IdleFacts, Request, Ops, Pcs
<1> HIDE DEF q
<1>5. Locks(q) /\ Chosen(q) /\ Aimed(q) /\ ~Toggles(q)
  BY <1>4, IdleIs DEF Locks, Chosen, Aimed, Toggles, IdleFacts
<1>6. QED BY <1>1, <1>2, <1>4, <1>5, Begins

LEMMA FindUserByNicknameFits ==
    ASSUME Base, NEW r \in Writers, FindUserByNickname(r), UNCHANGED <<tables, feed>>
    PROVE  Base'
<1>1. PICK p \in Pairs, op \in {"follow", "unfollow"} :
         /\ Begin(r, p[1], [Idle EXCEPT !.op = op, !.pc = "write", !.target = p[2]])
         /\ UNCHANGED members
  BY DEF FindUserByNickname
<1> DEFINE u == p[1]
           v == p[2]
           q == [[Idle EXCEPT !.op = op, !.pc = "write", !.target = v]
                    EXCEPT !.user = u, !.at = writes + 1]
<1>2. Ready(r) /\ Become(r, q) /\ writes' = writes + 1
  BY <1>1 DEF FindUserByNickname, Begin
<1>3. writes + 1 \in 0 .. MaxWrites
  BY <1>2, Numbers DEF Ready
<1>p. u \in Users /\ v \in Users /\ <<u, v>> \in Pairs
  BY DEF Pairs
<1> HIDE DEF u, v
<1>4. /\ q \in Request /\ q.op = op /\ q.pc = "write" /\ q.user = u /\ q.choice = Idle.choice
      /\ q.at = writes + 1 /\ q.target = v /\ q.done = {} /\ q.locked = {}
  BY <1>3, <1>p, IdleIs DEF IdleFacts, Request, Ops, Pcs
<1> HIDE DEF q
<1>5. Locks(q) /\ Chosen(q) /\ Aimed(q) /\ ~Toggles(q)
  BY <1>4, <1>p, IdleIs DEF Locks, Chosen, Aimed, Toggles, IdleFacts
<1>6. QED BY <1>1, <1>p, <1>2, <1>4, <1>5, Begins

LEMMA LockUserFits ==
    ASSUME Base, NEW r \in Writers, LockUser(r), UNCHANGED <<tables, feed>>
    PROVE  Base'
<1>1. UNCHANGED <<members, writes, tables, feed>> /\ req[r].op = "consents" /\ req[r].pc = "lock"
  BY DEF LockUser
<1>2. CASE End(r)
  BY <1>1, <1>2, FinishAlike
<1>3. CASE /\ Registered(req[r].user)
           /\ Become(r, [req[r] EXCEPT !.pc = "upsert", !.locked = {req[r].user}])
  <2> DEFINE q == [req[r] EXCEPT !.pc = "upsert", !.locked = {req[r].user}]
  <2>1. Fits(req[r])
    BY DEF Base, ReqFits
  <2>2. req[r].user \in Users
    BY <1>1, <2>1 DEF Fits, Underway
  <2>3. /\ q \in Request /\ q.op = "consents" /\ q.pc = "upsert" /\ q.user = req[r].user
        /\ q.at = req[r].at /\ q.locked = {req[r].user}
        /\ q.choice = req[r].choice /\ q.done = req[r].done
    BY <1>1, <2>1, <2>2 DEF Fits, Request, Pcs
  <2>4. Become(r, q)
    BY <1>3
  <2> HIDE DEF q
  <2>5. Locks(q) /\ Chosen(q) /\ Aimed(q) /\ ~Toggles(q)
    BY <1>1, <1>3, <2>1, <2>3 DEF Fits, Locks, Chosen, Aimed, Toggles
  <2>6. 1 <= q.at /\ q.at <= writes /\ writes \in 0 .. MaxWrites /\ writes <= writes
    BY <1>1, <2>1, <2>3, Numbers DEF Fits, Underway
  <2>7. QED BY <1>1, <2>2, <2>3, <2>4, <2>5, <2>6, MoveOn
<1>4. QED BY <1>2, <1>3 DEF LockUser

\* The smallest of some numbers: those up to one of them are finitely many.
LEMMA EarliestIs ==
    ASSUME NEW S \in SUBSET Nat, S # {}
    PROVE  Earliest(S) \in S
<1> DEFINE Up(n) == {m \in S : m <= n}
           T == {Up(n) : n \in S}
<1>1. T \subseteq FiniteSubsetsOf(S)
  <2>1. ASSUME NEW n \in S PROVE IsFiniteSet(Up(n)) /\ Up(n) \in SUBSET S
    BY FS_BoundedSetOfNaturals
  <2>2. QED BY <2>1 DEF FiniteSubsetsOf
<1>2. T # {}
  OBVIOUS
<1>3. PICK P \in T : \A Q \in T : ~(<<Q, P>> \in StrictSubsetOrdering(S))
  <2> HIDE DEF T
  <2>1. QED BY <1>1, <1>2, FS_StrictSubsetOrderingWellFounded, WFMin
<1>4. PICK n \in S : P = Up(n)
  BY <1>3
<1>5. \A m \in S : n <= m
  <2> SUFFICES ASSUME NEW m \in S, m < n PROVE FALSE
    OBVIOUS
  <2>a. n \in Nat /\ m \in Nat /\ \A k \in S : k \in Nat
    OBVIOUS
  <2>b. n <= n /\ ~(n <= m) /\ \A k \in Nat : k <= m => k <= n
    BY <2>a
  <2>1. Up(m) \subseteq Up(n) /\ n \in Up(n) /\ n \notin Up(m)
    BY <2>a, <2>b
  <2>2. <<Up(m), Up(n)>> \in StrictSubsetOrdering(S)
    BY <2>1 DEF StrictSubsetOrdering
  <2>3. QED BY <1>3, <1>4, <2>2
<1>6. QED BY <1>5 DEF Earliest

LEMMA UpsertFits ==
    ASSUME Base, NEW r \in Writers, Upsert(r), UNCHANGED <<tables, feed>>
    PROVE  Base'
<1> DEFINE i == Earliest(Left(req[r]))
           q == [req[r] EXCEPT !.done = req[r].done \cup {i}]
<1>1. /\ UNCHANGED <<members, writes, tables, feed>>
      /\ req[r].op = "consents" /\ req[r].pc = "upsert" /\ Left(req[r]) # {} /\ Become(r, q)
  BY DEF Upsert
<1>2. Fits(req[r])
  BY DEF Base, ReqFits
<1>3. i \in DOMAIN req[r].choice /\ DOMAIN req[r].choice \subseteq Items
  <2>1. Left(req[r]) \in SUBSET Nat /\ DOMAIN req[r].choice \subseteq Items
    BY <1>2, MembersAssumption DEF Fits, Chosen, Left
  <2>2. i \in Left(req[r])
    BY <1>1, <2>1, EarliestIs
  <2>3. QED BY <2>1, <2>2 DEF Left
<1> HIDE DEF i
<1>4. /\ q \in Request /\ q.op = "consents" /\ q.pc = "upsert" /\ q.user = req[r].user
      /\ q.at = req[r].at /\ q.locked = req[r].locked
      /\ q.choice = req[r].choice /\ q.done = req[r].done \cup {i}
  BY <1>1, <1>2, <1>3 DEF Fits, Request
<1> HIDE DEF q
<1>5. Locks(q) /\ Chosen(q) /\ Aimed(q) /\ ~Toggles(q)
  BY <1>1, <1>2, <1>3, <1>4 DEF Fits, Locks, Chosen, Aimed, Toggles
<1>6. /\ q.user \in Users /\ 1 <= q.at /\ q.at <= writes
      /\ writes \in 0 .. MaxWrites /\ writes <= writes
  BY <1>1, <1>2, <1>4, Numbers DEF Fits, Underway
<1>7. QED BY <1>1, <1>4, <1>5, <1>6, MoveOn

\* Consents that a request writes all at once, under its own number.
Writes(u, D, c, n) ==
    /\ D \subseteq DOMAIN c /\ \A i \in Required \cap D : c[i]
    /\ \A v \in Users, i \in Items : consents[v][i] # None => consents[v][i].at # n
    /\ Registered(u) \/ Required \subseteq D
    /\ consents' = [consents EXCEPT ![u] = Put(consents[u], D, c, n)]
    /\ asked' = [asked EXCEPT ![n] = D]
    /\ nickname'[u] \notin {None, Gone}
    /\ \A v \in Users \ {u} : Registered(v)' <=> Registered(v)

\* What the consents are after that.
Wrote(n) ==
    /\ consents' \in [Users -> [Items -> Row \cup {None}]]
    /\ \A v \in Users, i \in Items : Registered(v)' \/ consents'[v][i] = None
    /\ asked' \in [0 .. MaxWrites -> SUBSET Items]
    /\ ConsentsAreWhole' /\ RequiredConsentsStand'
    /\ \A v \in Users, i \in Items :
          consents'[v][i] = consents[v][i] \/ consents'[v][i].at = n

LEMMA PutConsents ==
    ASSUME MemberTables, NEW u \in Users, NEW D \in SUBSET Items, NEW c \in Selections,
           NEW n \in 0 .. MaxWrites, Writes(u, D, c, n)
    PROVE  Wrote(n)
<1>w. /\ D \subseteq DOMAIN c /\ \A i \in Required \cap D : c[i]
      /\ \A v \in Users, i \in Items : consents[v][i] # None => consents[v][i].at # n
      /\ Registered(u) \/ Required \subseteq D
      /\ consents' = [consents EXCEPT ![u] = Put(consents[u], D, c, n)]
      /\ asked' = [asked EXCEPT ![n] = D]
      /\ Registered(u)' /\ \A v \in Users \ {u} : Registered(v)' <=> Registered(v)
  BY DEF Writes, Registered
<1>1. /\ consents \in [Users -> [Items -> Row \cup {None}]]
      /\ asked \in [0 .. MaxWrites -> SUBSET Items]
      /\ \A v \in Users, i \in Items : Registered(v) \/ consents[v][i] = None
  BY DEF MemberTables, MembersTypeOK
<1> DEFINE W(i) == [agreed |-> c[i], at |-> n]
<1>2. \A i \in D : W(i) \in Row /\ W(i) # None /\ W(i).at = n /\ W(i).agreed = c[i]
  <2>1. \A i \in D : c[i] \in BOOLEAN
    BY <1>w, MembersAssumption
  <2>2. QED BY <2>1, MembersAssumption DEF Row
<1>3. Put(consents[u], D, c, n) = [i \in Items |-> IF i \in D THEN W(i) ELSE consents[u][i]]
  BY DEF Put
<1> HIDE DEF W
<1>4. Put(consents[u], D, c, n) \in [Items -> Row \cup {None}]
  <2>1. \A i \in Items : (IF i \in D THEN W(i) ELSE consents[u][i]) \in Row \cup {None}
    BY <1>1, <1>2
  <2>2. QED BY <1>3, <2>1
<1>5. /\ \A v \in Users \ {u} : consents'[v] = consents[v]
      /\ \A i \in Items : consents'[u][i] = IF i \in D THEN W(i) ELSE consents[u][i]
  BY <1>w, <1>1, <1>3
<1>6. consents' \in [Users -> [Items -> Row \cup {None}]]
  BY <1>w, <1>1, <1>4
<1>7. \A m \in 0 .. MaxWrites : asked'[m] = IF m = n THEN D ELSE asked[m]
  BY <1>w, <1>1
<1>8. asked' \in [0 .. MaxWrites -> SUBSET Items]
  BY <1>w, <1>1
<1>9. \A v \in Users, i \in Items : Registered(v)' \/ consents'[v][i] = None
  BY <1>w, <1>1, <1>5
<1>10. RequiredConsentsStand'
  <2>1. \A v \in Users, i \in Required : Registered(v) => consents[v][i] # None /\ consents[v][i].agreed
    BY DEF MemberTables, RequiredConsentsStand
  <2>2. ASSUME NEW v \in Users, NEW i \in Required, Registered(v)'
        PROVE  consents'[v][i] # None /\ consents'[v][i].agreed
    <3>1. i \in Items
      BY MembersAssumption
    <3>2. CASE v # u
      BY <1>w, <1>5, <2>1, <2>2, <3>2
    <3>3. CASE v = u /\ i \in D
      BY <1>w, <1>2, <1>5, <3>1, <3>3
    <3>4. CASE v = u /\ i \notin D
      BY <1>w, <1>5, <2>1, <3>1, <3>4
    <3>5. QED BY <3>2, <3>3, <3>4
  <2>3. QED BY <2>2 DEF RequiredConsentsStand
<1>11. ConsentsAreWhole'
  <2> SUFFICES ASSUME NEW v \in Users, NEW i \in Items, NEW k \in Items,
                      consents'[v][i] # None, consents'[v][k] # None,
                      consents'[v][i].at # consents'[v][k].at,
                      {i, k} \subseteq asked'[consents'[v][i].at],
                      {i, k} \subseteq asked'[consents'[v][k].at]
               PROVE  FALSE
    BY DEF ConsentsAreWhole
  <2>1. \A x \in Items : consents[v][x] # None =>
           consents[v][x].at \in 0 .. MaxWrites /\ consents[v][x].at # n
    <3>1. \A x \in Items : consents[v][x] \in Row \cup {None}
      BY <1>1
    <3>2. QED BY <1>w, <3>1 DEF Row
  <2>2. ASSUME consents'[v][i] = consents[v][i], consents'[v][k] = consents[v][k]
        PROVE  FALSE
    <3>1. /\ {i, k} \subseteq asked[consents[v][i].at]
          /\ {i, k} \subseteq asked[consents[v][k].at]
      BY <1>7, <2>1, <2>2
    <3>2. QED BY <2>2, <3>1 DEF MemberTables, ConsentsAreWhole
  <2>3. CASE v # u
    BY <1>5, <2>2, <2>3
  <2>4. CASE v = u
    <3>1. CASE i \notin D /\ k \notin D
      BY <1>5, <2>2, <2>4, <3>1
    <3>2. CASE i \in D /\ k \in D
      BY <1>2, <1>5, <2>4, <3>2
    <3>3. CASE i \in D /\ k \notin D
      BY <1>2, <1>5, <1>7, <2>4, <3>3
    <3>4. CASE i \notin D /\ k \in D
      BY <1>2, <1>5, <1>7, <2>4, <3>4
    <3>5. QED BY <3>1, <3>2, <3>3, <3>4
  <2>5. QED BY <2>3, <2>4
<1>12. \A v \in Users, i \in Items : consents'[v][i] = consents[v][i] \/ consents'[v][i].at = n
  BY <1>2, <1>5
<1>13. QED BY <1>6, <1>8, <1>9, <1>10, <1>11, <1>12 DEF Wrote

\* What a request that runs knows of itself.
LEMMA Runs ==
    ASSUME Base, NEW r \in Writers, req[r].pc # "idle"
    PROVE  /\ Fits(req[r]) /\ req[r].user \in Users /\ req[r].at \in 0 .. MaxWrites
           /\ \A v \in Users, i \in Items : consents[v][i] # None => consents[v][i].at # req[r].at
<1>1. Fits(req[r])
  BY DEF Base, ReqFits
<1>2. QED BY <1>1 DEF Fits, Underway, Request, Base, Fresh

LEMMA CommitConsentsFits ==
    ASSUME Base, NEW r \in Writers, CommitConsents(r), UNCHANGED <<tables, feed>>
    PROVE  Base'
<1> DEFINE q == req[r]
<1>1. /\ q.op = "consents" /\ q.pc = "upsert" /\ Left(q) = {} /\ End(r)
      /\ consents' = [consents EXCEPT ![q.user] = Put(@, q.done, q.choice, q.at)]
      /\ asked' = [asked EXCEPT ![q.at] = q.done]
      /\ nickname' = nickname /\ follows' = follows /\ followings' = followings /\ writes' = writes
  BY DEF CommitConsents
<1>2. Fits(q) /\ q.user \in Users /\ q.at \in 0 .. MaxWrites
  BY <1>1, Runs
<1>3. /\ q.choice \in Selections /\ q.done \in SUBSET Items /\ q.done \subseteq DOMAIN q.choice
      /\ \A i \in Required \cap q.done : q.choice[i]
  BY <1>1, <1>2 DEF Fits, Chosen, Request
<1>4. Registered(q.user) /\ \A v \in Users : Registered(v)' <=> Registered(v)
  BY <1>1, <1>2 DEF Fits, Locks, Registered
<1>5. \A v \in Users, i \in Items : consents[v][i] # None => consents[v][i].at # q.at
  BY <1>1, Runs
<1> PICK u \in Users, c \in Selections, D \in SUBSET Items, n \in 0 .. MaxWrites :
         u = q.user /\ c = q.choice /\ D = q.done /\ n = q.at
  BY <1>2, <1>3
<1> HIDE DEF q
<1>6. Wrote(n)
  <2>1. Registered(u) /\ Registered(u)'
    BY <1>4
  <2>2. /\ D \subseteq DOMAIN c /\ \A i \in Required \cap D : c[i]
        /\ \A v \in Users, i \in Items : consents[v][i] # None => consents[v][i].at # n
        /\ consents' = [consents EXCEPT ![u] = Put(@, D, c, n)]
        /\ asked' = [asked EXCEPT ![n] = D]
    BY <1>1, <1>3, <1>5
  <2>3. nickname'[u] \notin {None, Gone}
    BY <2>1 DEF Registered
  <2>4. Writes(u, D, c, n)
    BY <1>4, <2>1, <2>2, <2>3 DEF Writes
  <2>5. QED BY <2>4, PutConsents DEF Base
<1>7. MemberTables'
  BY <1>1, <1>6 DEF Base, MemberTables, MembersTypeOK, FollowsAddUp, Registered, Wrote
<1>8. Signed(r)
  BY <1>1, <1>6 DEF Signed, Wrote, q
<1>9. QED BY <1>1, <1>4, <1>7, <1>8, FinishMember

LEMMA CompleteRegistrationFits ==
    ASSUME Base, NEW r \in Writers, CompleteRegistration(r), UNCHANGED <<tables, feed>>
    PROVE  Base'
<1> DEFINE q == req[r]
<1>1. /\ q.op = "join" /\ q.pc = "write" /\ End(r)
      /\ follows' = follows /\ followings' = followings /\ writes' = writes
  BY DEF CompleteRegistration
<1>2. /\ Fits(q) /\ q.user \in Users /\ q.at \in 0 .. MaxWrites
      /\ \A v \in Users, i \in Items : consents[v][i] # None => consents[v][i].at # q.at
  BY <1>1, Runs
<1>3. /\ q.choice \in Selections /\ DOMAIN q.choice \in SUBSET Items /\ q.name \in Nicknames
      /\ Required \subseteq DOMAIN q.choice /\ \A i \in Required \cap DOMAIN q.choice : q.choice[i]
  BY <1>1, <1>2 DEF Fits, Chosen
<1>4. CASE UNCHANGED <<nickname, consents, asked>>
  <2>1. UNCHANGED <<members, writes, tables, feed>>
    BY <1>1, <1>4 DEF members
  <2>2. QED BY <1>1, <2>1, FinishAlike
<1>5. CASE /\ nickname[q.user] = None /\ ~Taken(q.name)
           /\ nickname' = [nickname EXCEPT ![q.user] = q.name]
           /\ consents' = [consents EXCEPT ![q.user] = Put(@, DOMAIN q.choice, q.choice, q.at)]
           /\ asked' = [asked EXCEPT ![q.at] = DOMAIN q.choice]
  <2> PICK u \in Users, c \in Selections, name \in Nicknames, n \in 0 .. MaxWrites :
           u = q.user /\ c = q.choice /\ name = q.name /\ n = q.at
    BY <1>2, <1>3
  <2>0. /\ nickname[u] = None /\ ~Taken(name)
        /\ nickname' = [nickname EXCEPT ![u] = name]
        /\ consents' = [consents EXCEPT ![u] = Put(@, DOMAIN c, c, n)]
        /\ asked' = [asked EXCEPT ![n] = DOMAIN c]
        /\ DOMAIN c \in SUBSET Items /\ Required \subseteq DOMAIN c
        /\ \A i \in Required \cap DOMAIN c : c[i]
        /\ \A v \in Users, i \in Items : consents[v][i] # None => consents[v][i].at # n
    BY <1>2, <1>3, <1>5
  <2> HIDE DEF q
  <2>1. nickname \in [Users -> Nicknames \cup {None, Gone}]
    BY DEF Base, MemberTables, MembersTypeOK
  <2>2. \A v \in Users : nickname'[v] = IF v = u THEN name ELSE nickname[v]
    BY <2>0, <2>1
  <2>3. Registered(u)' /\ \A v \in Users \ {u} : Registered(v)' <=> Registered(v)
    BY <2>0, <2>2, MembersAssumption DEF Registered
  <2>4. ~Registered(u)
    BY <2>0 DEF Registered
  <2>w. Writes(u, DOMAIN c, c, n)
    BY <2>0, <2>2, <2>3, MembersAssumption DEF Writes
  <2>5. Wrote(n)
    BY <2>0, <2>w, PutConsents DEF Base
  <2>6. nickname' \in [Users -> Nicknames \cup {None, Gone}]
    BY <2>0, <2>1
  <2>7. ASSUME NEW w \in Users, NEW v \in Users, Registered(w)', nickname'[w] = nickname'[v]
        PROVE  w = v
    BY <2>0, <2>2, <2>3, <2>7 DEF Base, MemberTables, MembersTypeOK, Taken
  <2>8. follows' \subseteq {p \in Pairs : Registered(p[1])' /\ Registered(p[2])'}
    <3>1. \A p \in follows : p \in Pairs /\ Registered(p[1]) /\ Registered(p[2])
      BY DEF Base, MemberTables, MembersTypeOK
    <3>2. \A p \in Pairs : p[1] \in Users /\ p[2] \in Users
      BY DEF Pairs
    <3>3. QED BY <1>1, <2>3, <2>4, <3>1, <3>2
  <2>9. MembersTypeOK'
    BY <1>1, <2>5, <2>6, <2>7, <2>8 DEF Base, MemberTables, MembersTypeOK, Wrote
  <2>10. MemberTables'
    BY <1>1, <2>5, <2>9 DEF Base, MemberTables, FollowsAddUp, Wrote
  <2>11. Signed(r)
    BY <1>1, <2>5 DEF Signed, Wrote, q
  <2>12. \A v \in Users : Registered(v) => Registered(v)'
    BY <2>3, <2>4
  <2>13. QED BY <1>1, <2>10, <2>11, <2>12, FinishMember
<1>6. QED BY <1>4, <1>5 DEF CompleteRegistration

LEMMA UpdateNicknameFits ==
    ASSUME Base, NEW r \in Writers, UpdateNickname(r), UNCHANGED <<tables, feed>>
    PROVE  Base'
<1> DEFINE q == req[r]
<1>1. /\ q.op = "rename" /\ q.pc = "write" /\ End(r) /\ consents' = consents /\ asked' = asked
      /\ follows' = follows /\ followings' = followings /\ writes' = writes
  BY DEF UpdateNickname
<1>2. Fits(q) /\ q.user \in Users /\ q.name \in Nicknames
  BY <1>1, Runs DEF Fits, Chosen
<1>3. CASE UNCHANGED nickname
  <2>1. UNCHANGED <<members, writes, tables, feed>>
    BY <1>1, <1>3 DEF members
  <2>2. QED BY <1>1, <2>1, FinishAlike
<1>4. CASE /\ Registered(q.user) /\ \A u \in Users \ {q.user} : nickname[u] # q.name
           /\ nickname' = [nickname EXCEPT ![q.user] = q.name]
  <2> HIDE DEF q
  <2>1. nickname \in [Users -> Nicknames \cup {None, Gone}]
    BY DEF Base, MemberTables, MembersTypeOK
  <2>2. \A v \in Users : nickname'[v] = IF v = q.user THEN q.name ELSE nickname[v]
    BY <1>4, <2>1
  <2>3. \A v \in Users : Registered(v)' <=> Registered(v)
    BY <1>2, <1>4, <2>2, MembersAssumption DEF Registered
  <2>4. nickname' \in [Users -> Nicknames \cup {None, Gone}]
    BY <1>2, <1>4, <2>1
  <2>5. ASSUME NEW u \in Users, NEW v \in Users, Registered(u)', nickname'[u] = nickname'[v]
        PROVE  u = v
    BY <1>4, <2>2, <2>3, <2>5 DEF Base, MemberTables, MembersTypeOK
  <2>6. follows' \subseteq {p \in Pairs : Registered(p[1])' /\ Registered(p[2])'}
    <3>1. \A p \in follows : p \in Pairs /\ Registered(p[1]) /\ Registered(p[2])
      BY DEF Base, MemberTables, MembersTypeOK
    <3>2. \A p \in Pairs : p[1] \in Users /\ p[2] \in Users
      BY DEF Pairs
    <3>3. QED BY <1>1, <2>3, <3>1, <3>2
  <2>7. MembersTypeOK'
    BY <1>1, <2>3, <2>4, <2>5, <2>6 DEF Base, MemberTables, MembersTypeOK
  <2>8. MemberTables'
    BY <1>1, <2>3, <2>7
       DEF Base, MemberTables, FollowsAddUp, ConsentsAreWhole, RequiredConsentsStand
  <2>9. Signed(r)
    BY <1>1 DEF Signed
  <2>10. QED BY <1>1, <2>3, <2>8, <2>9, FinishMember
<1>5. QED BY <1>3, <1>4 DEF UpdateNickname

LEMMA FollowFits ==
    ASSUME Base, NEW r \in Writers, CreateFollow(r) \/ DeleteFollow(r), UNCHANGED <<tables, feed>>
    PROVE  Base'
<1> DEFINE p == <<req[r].user, req[r].target>>
<1>1. /\ req[r].op \in {"follow", "unfollow"} /\ req[r].pc = "write" /\ End(r)
      /\ nickname' = nickname /\ consents' = consents /\ asked' = asked /\ writes' = writes
  BY DEF CreateFollow, DeleteFollow
<1>2. p \in Pairs
  BY <1>1, Runs DEF Fits, Aimed
<1>3. /\ \/ UNCHANGED <<follows, followings>>
         \/ /\ Registered(p[1]) /\ Registered(p[2]) /\ p \notin follows
            /\ follows' = follows \cup {p} /\ followings' = [followings EXCEPT ![p] = @ + 1]
         \/ /\ p \in follows
            /\ follows' = follows \ {p} /\ followings' = [followings EXCEPT ![p] = @ - 1]
  BY DEF CreateFollow, DeleteFollow
<1> HIDE DEF p
<1>4. /\ followings \in [Pairs -> Int] /\ FollowsAddUp
      /\ follows \subseteq {x \in Pairs : Registered(x[1]) /\ Registered(x[2])}
  BY DEF Base, MemberTables, MembersTypeOK
<1>5. followings' \in [Pairs -> Int]
  BY <1>2, <1>3, <1>4
<1>6. FollowsAddUp'
  BY <1>2, <1>3, <1>4 DEF FollowsAddUp
<1>7. follows' \subseteq {x \in Pairs : Registered(x[1]) /\ Registered(x[2])}
  BY <1>2, <1>3, <1>4
<1>8. \A u : Registered(u)' <=> Registered(u)
  BY <1>1 DEF Registered
<1>9. MemberTables'
  BY <1>1, <1>5, <1>6, <1>7, <1>8
     DEF Base, MemberTables, MembersTypeOK, ConsentsAreWhole, RequiredConsentsStand
<1>10. Signed(r)
  BY <1>1 DEF Signed
<1>11. QED BY <1>1, <1>8, <1>9, <1>10, FinishMember

LEMMA WriteOfMemberFits ==
    ASSUME Base, NEW r \in Writers, WriteOfMember(r), UNCHANGED <<tables, feed>>
    PROVE  Base'
BY SendConsentsFits, LockUserFits, UpsertFits, CommitConsentsFits, JoinFits,
   CompleteRegistrationFits, VerifyNicknameFits, UpdateNicknameFits, FindUserByNicknameFits,
   FollowFits DEF WriteOfMember

-----------------------------------------------------------------------------
(* Posts and likes *)

LEMMA Displaced ==
    ASSUME feed \in [Readers -> FeedRow], NEW n \in Nat, NEW m \in Nat, Displace(n, m)
    PROVE  feed' \in [Readers -> FeedRow]
<1>1. ASSUME NEW f \in FeedRow
      PROVE  [f EXCEPT !.removed = @ + n, !.liked = @ + m] \in FeedRow
  <2>1. \A x, y \in Nat : [f EXCEPT !.removed = x, !.liked = y] \in FeedRow
    BY DEF FeedRow
  <2> DEFINE x == f.removed + n
             y == f.liked + m
  <2>2. x \in Nat /\ y \in Nat
    BY DEF FeedRow
  <2> HIDE DEF x, y
  <2>3. [f EXCEPT !.removed = x, !.liked = y] \in FeedRow
    BY <2>1, <2>2
  <2>4. QED BY <2>3 DEF x, y
<1>2. ASSUME NEW c \in Readers
      PROVE  (IF feed[c].pc = "idle" THEN feed[c]
              ELSE [feed[c] EXCEPT !.removed = @ + n, !.liked = @ + m]) \in FeedRow
  BY <1>1
<1>3. QED BY <1>2 DEF Displace

\* The members are as they were.
LEMMA SameMembers ==
    ASSUME Base, UNCHANGED members, writes' \in 0 .. MaxWrites
    PROVE  /\ MemberTables' /\ \A u : Registered(u)' <=> Registered(u)
           /\ \A r : Signed(r)
<1>1. MemberTables'
  BY MembersStand DEF Base
<1>2. \A u : Registered(u)' <=> Registered(u)
  BY DEF members, Registered
<1>3. \A r : Signed(r)
  BY DEF members, Signed
<1>4. QED BY <1>1, <1>2, <1>3

LEMMA BeginPostFits ==
    ASSUME Base, NEW r \in Writers, BeginPost(r)
    PROVE  Base'
<1>1. PICK u \in Users :
         /\ Registered(u)
         /\ Begin(r, u, [Idle EXCEPT !.op = "post", !.pc = "write", !.locked = {u}])
         /\ UNCHANGED <<members, tables, feed>>
  BY DEF BeginPost
<1> DEFINE q == [[Idle EXCEPT !.op = "post", !.pc = "write", !.locked = {u}]
                    EXCEPT !.user = u, !.at = writes + 1]
<1>2. Ready(r) /\ Become(r, q) /\ writes' = writes + 1
  BY <1>1 DEF BeginPost, Begin
<1>3. writes + 1 \in 0 .. MaxWrites
  BY <1>2, Numbers DEF Ready
<1>4. /\ q \in Request /\ q.op = "post" /\ q.pc = "write" /\ q.user = u /\ q.choice = Idle.choice
      /\ q.at = writes + 1 /\ q.done = {} /\ q.locked = {u}
  BY <1>3, IdleIs DEF IdleFacts, Request, Ops, Pcs
<1> HIDE DEF q
<1>5. Locks(q) /\ Chosen(q) /\ Aimed(q) /\ ~Toggles(q)
  BY <1>1, <1>4, IdleIs DEF Locks, Chosen, Aimed, Toggles, IdleFacts
<1>6. QED BY <1>1, <1>2, <1>4, <1>5, Begins

LEMMA InsertPostFits ==
    ASSUME Base, NEW r \in Writers, InsertPost(r)
    PROVE  Base'
<1> DEFINE id == Earliest(PostIds \ used)
           x == [id |-> id, author |-> req[r].user, at |-> req[r].at]
<1>1. /\ req[r].op = "post" /\ req[r].pc = "write" /\ PostIds \ used # {} /\ End(r)
      /\ posts' = posts \cup {x} /\ used' = used \cup {id}
      /\ UNCHANGED <<members, writes, likes, comments, likings, feed>>
  BY DEF InsertPost
<1>2. Fits(req[r]) /\ req[r].user \in Users /\ req[r].at \in 0 .. MaxWrites
  BY <1>1, Runs
<1>3. Registered(req[r].user)
  BY <1>1, <1>2 DEF Fits, Locks
<1>4. id \in PostIds \ used
  <2>1. PostIds \subseteq Nat
    BY CommunityAssumption
  <2>2. PostIds \ used \in SUBSET Nat
    BY <2>1
  <2>3. QED BY <1>1, <2>2, EarliestIs
<1> HIDE DEF id
<1>5. x \in PostRows /\ x.id = id /\ x.author = req[r].user
  BY <1>2, <1>4 DEF PostRows
<1>6. /\ MemberTables' /\ Signed(r) /\ \A u : Registered(u)' <=> Registered(u)
  BY <1>1, SameMembers, Numbers
<1> HIDE DEF x
<1>7. PostTables'
  <2>1. PostTables
    BY DEF Base
  <2>2. IsFiniteSet(posts')
    BY <1>1, <2>1, FS_AddElement DEF PostTables
  <2>3. likes' \subseteq {<<y.id, u>> : y \in posts', u \in {v \in Users : Registered(v)'}}
    BY <1>1, <1>6, <2>1 DEF PostTables
  <2>4. \A y, z \in posts' : y.id = z.id => y = z
    BY <1>1, <1>4, <1>5, <2>1 DEF PostTables
  <2>5. \A y \in posts' \cup comments' : Registered(y.author)'
    BY <1>1, <1>3, <1>5, <1>6, <2>1 DEF PostTables
  <2>6. \A c \in comments' : \E y \in posts' : y.id = c.post
    BY <1>1, <2>1 DEF PostTables, Exists
  <2>7. posts' \subseteq PostRows /\ used' \subseteq PostIds \cup CommentIds /\ \A y \in posts' : y.id \in used'
    BY <1>1, <1>4, <1>5, <2>1 DEF PostTables
  <2>8. QED BY <1>1, <2>1, <2>2, <2>3, <2>4, <2>5, <2>6, <2>7 DEF PostTables, LikesAddUp, Exists
<1>8. Kept(Writers \ {r})
  BY <1>1, <1>6, KeptGrowing DEF Base
<1>9. QED BY <1>1, <1>6, <1>7, <1>8, Finish DEF Base

LEMMA FindPostFits ==
    ASSUME Base, NEW r \in Writers, FindPost(r)
    PROVE  Base'
<1>1. PICK u \in Users, x \in posts :
         /\ Begin(r, u, [Idle EXCEPT !.op = "like", !.pc = "lock", !.target = x.id])
         /\ UNCHANGED <<members, tables, feed>>
  BY DEF FindPost
<1> DEFINE p == x.id
           q == [[Idle EXCEPT !.op = "like", !.pc = "lock", !.target = p]
                    EXCEPT !.user = u, !.at = writes + 1]
<1>2. Ready(r) /\ Become(r, q) /\ writes' = writes + 1
  BY <1>1 DEF FindPost, Begin
<1>3. writes + 1 \in 0 .. MaxWrites
  BY <1>2, Numbers DEF Ready
<1>p. p \in PostIds
  BY DEF Base, PostTables, PostRows
<1> HIDE DEF p
<1>4. /\ q \in Request /\ q.op = "like" /\ q.pc = "lock" /\ q.user = u /\ q.choice = Idle.choice
      /\ q.at = writes + 1 /\ q.target = p /\ q.done = {} /\ q.locked = {}
  BY <1>3, <1>p, IdleIs DEF IdleFacts, Request, Ops, Pcs
<1> HIDE DEF q
<1>5. Locks(q) /\ Chosen(q) /\ Aimed(q) /\ ~Toggles(q)
  BY <1>4, <1>p, IdleIs DEF Locks, Chosen, Aimed, Toggles, IdleFacts
<1>6. QED BY <1>1, <1>2, <1>4, <1>5, Begins

LEMMA PostRowIs ==
    ASSUME PostTables, NEW p, Exists(p)
    PROVE  PostRow(p) \in posts /\ PostRow(p).id = p
BY DEF Exists, PostRow

LEMMA LockPostFits ==
    ASSUME Base, NEW r \in Writers, LockPost(r)
    PROVE  Base'
<1>1. UNCHANGED <<members, writes, tables, feed>> /\ req[r].op = "like" /\ req[r].pc = "lock"
  BY DEF LockPost
<1>2. CASE End(r)
  BY <1>1, <1>2, FinishAlike
<1>3. CASE /\ ~Toggling(req[r].target) /\ Exists(req[r].target) /\ Registered(req[r].user)
           /\ Become(r, [req[r] EXCEPT !.pc = "insert",
                                       !.locked = Participants(req[r].user, req[r].target)])
  <2> DEFINE L == Participants(req[r].user, req[r].target)
             q == [req[r] EXCEPT !.pc = "insert", !.locked = L]
  <2>1. Fits(req[r]) /\ req[r].user \in Users
    BY <1>1, Runs
  <2>2. L \in SUBSET Users /\ req[r].user \in L /\ \A u \in L : Registered(u)
    <3>1. PostRow(req[r].target) \in posts
      BY <1>3, PostRowIs DEF Base
    <3>2. /\ PostRow(req[r].target).author \in Users
          /\ Registered(PostRow(req[r].target).author)
      BY <3>1 DEF Base, PostTables, PostRows
    <3>3. QED BY <1>3, <2>1, <3>2 DEF Participants
  <2> HIDE DEF L
  <2>3. /\ q \in Request /\ q.op = "like" /\ q.pc = "insert" /\ q.user = req[r].user
        /\ q.at = req[r].at /\ q.locked = L /\ q.target = req[r].target
        /\ q.choice = req[r].choice /\ q.done = req[r].done
    BY <1>1, <2>1, <2>2 DEF Fits, Request, Pcs
  <2>4. Become(r, q)
    BY <1>3 DEF L
  <2> HIDE DEF q
  <2>5. Locks(q) /\ Chosen(q) /\ Aimed(q)
    BY <1>1, <1>3, <2>1, <2>2, <2>3 DEF Fits, Locks, Chosen, Aimed
  <2>6. 1 <= q.at /\ q.at <= writes /\ writes \in 0 .. MaxWrites /\ writes <= writes
    BY <1>1, <2>1, <2>3, Numbers DEF Fits, Underway
  <2>7. \A s \in Writers \ {r} : Toggles(req[s]) => req[s].target # q.target
    BY <1>3, <2>3 DEF Toggles, Toggling
  <2>8. QED BY <1>1, <2>1, <2>3, <2>4, <2>5, <2>6, <2>7, MoveOn
<1>4. QED BY <1>2, <1>3 DEF LockPost

\* Likes that change for one pair, whose post and user are there.
LEMMA LikesChange ==
    ASSUME Base, UNCHANGED <<members, writes, posts, comments, used>>,
           NEW p \in PostIds, NEW u \in Users, Exists(p), Registered(u),
           \/ /\ <<p, u>> \notin likes /\ likes' = likes \cup {<<p, u>>}
              /\ likings' = [likings EXCEPT ![<<p, u>>] = @ + 1]
           \/ /\ <<p, u>> \in likes /\ likes' = likes \ {<<p, u>>}
              /\ likings' = [likings EXCEPT ![<<p, u>>] = @ - 1]
    PROVE  PostTables'
<1>1. PostTables
  BY DEF Base
<1>2. \A v : Registered(v)' <=> Registered(v)
  BY DEF members, Registered
<1>3. IsFiniteSet(likes')
  <2>1. IsFiniteSet(likes)
    BY <1>1 DEF PostTables
  <2>2. IsFiniteSet(likes \cup {<<p, u>>}) /\ IsFiniteSet(likes \ {<<p, u>>})
    BY <2>1, FS_AddElement, FS_RemoveElement
  <2>3. QED BY <2>2
<1>4. likes' \subseteq {<<x.id, v>> : x \in posts', v \in {w \in Users : Registered(w)'}}
  BY <1>1, <1>2 DEF PostTables, Exists
<1>5. likings' \in [PostIds \X Users -> Int]
  <2>1. likings \in [PostIds \X Users -> Int]
    BY <1>1 DEF PostTables
  <2>2. QED BY <2>1
<1>6. LikesAddUp'
  <2>1. <<p, u>> \in PostIds \X Users /\ likings \in [PostIds \X Users -> Int]
    BY <1>1 DEF PostTables
  <2>2. \A k \in PostIds \X Users : likings[k] = IF k \in likes THEN 1 ELSE 0
    BY <1>1 DEF PostTables, LikesAddUp
  <2>3. QED BY <2>1, <2>2 DEF LikesAddUp
<1>7. QED BY <1>1, <1>2, <1>3, <1>4, <1>5, <1>6 DEF PostTables, Exists

LEMMA InsertLikeFits ==
    ASSUME Base, NEW r \in Writers, InsertLike(r)
    PROVE  Base'
<1> DEFINE like == <<req[r].target, req[r].user>>
<1>1. UNCHANGED <<members, writes, posts, comments, used>> /\ req[r].op = "like" /\ req[r].pc = "insert"
  BY DEF InsertLike
<1>2. Fits(req[r]) /\ req[r].user \in Users
  BY <1>1, Runs
<1>3. /\ req[r].target \in PostIds /\ Exists(req[r].target) /\ Registered(req[r].user)
      /\ req[r].locked # {}
  BY <1>1, <1>2 DEF Fits, Aimed, Locks
<1>4. CASE /\ like \in likes /\ Become(r, [req[r] EXCEPT !.pc = "delete"])
           /\ UNCHANGED <<likes, likings, feed>>
  <2> DEFINE q == [req[r] EXCEPT !.pc = "delete"]
  <2>1. /\ q \in Request /\ q.op = "like" /\ q.pc = "delete" /\ q.user = req[r].user
        /\ q.at = req[r].at /\ q.locked = req[r].locked /\ q.target = req[r].target
        /\ q.choice = req[r].choice /\ q.done = req[r].done
    BY <1>1, <1>2 DEF Fits, Request, Pcs
  <2>2. Become(r, q) /\ UNCHANGED <<members, writes, tables, feed>>
    BY <1>1, <1>4 DEF tables
  <2> HIDE DEF q
  <2>3. Locks(q) /\ Chosen(q) /\ Aimed(q)
    BY <1>1, <1>2, <1>4, <2>1 DEF Fits, Locks, Chosen, Aimed
  <2>4. 1 <= q.at /\ q.at <= writes /\ writes \in 0 .. MaxWrites /\ writes <= writes
    BY <1>1, <1>2, <2>1, Numbers DEF Fits, Underway
  <2>5. \A s \in Writers \ {r} : Toggles(req[s]) => req[s].target # q.target
    BY <1>1, <1>3, <2>1 DEF Base, Apart, Toggles
  <2>6. QED BY <1>1, <1>2, <2>1, <2>2, <2>3, <2>4, <2>5, MoveOn
<1>5. CASE /\ like \notin likes /\ likes' = likes \cup {like}
           /\ likings' = [likings EXCEPT ![like] = @ + 1]
           /\ Displace(0, 1) /\ End(r)
  <2>1. PostTables'
    BY <1>1, <1>2, <1>3, <1>5, LikesChange
  <2>2. MemberTables' /\ Signed(r) /\ \A u : Registered(u)' <=> Registered(u)
    BY <1>1, SameMembers, Numbers
  <2>3. feed' \in [Readers -> FeedRow]
    BY <1>5, Displaced DEF Base
  <2>4. Kept(Writers \ {r})
    BY <1>1, <1>5, <2>2, KeptGrowing DEF Base
  <2>5. QED BY <1>1, <1>5, <2>1, <2>2, <2>3, <2>4, Finish
<1>6. QED BY <1>4, <1>5 DEF InsertLike

LEMMA DeleteLikeFits ==
    ASSUME Base, NEW r \in Writers, DeleteLike(r)
    PROVE  Base'
<1> DEFINE like == <<req[r].target, req[r].user>>
<1>1. /\ UNCHANGED <<members, writes, posts, comments, used>>
      /\ req[r].op = "like" /\ req[r].pc = "delete"
      /\ likes' = likes \ {like} /\ likings' = [likings EXCEPT ![like] = @ - 1]
      /\ Displace(0, 1) /\ End(r)
  BY DEF DeleteLike
<1>2. Fits(req[r]) /\ req[r].user \in Users
  BY <1>1, Runs
<1>3. /\ req[r].target \in PostIds /\ Exists(req[r].target) /\ Registered(req[r].user)
      /\ req[r].locked # {} /\ like \in likes
  BY <1>1, <1>2 DEF Fits, Aimed, Locks
<1>4. PostTables'
  BY <1>1, <1>2, <1>3, LikesChange
<1>5. MemberTables' /\ Signed(r) /\ \A u : Registered(u)' <=> Registered(u)
  BY <1>1, SameMembers, Numbers
<1>6. feed' \in [Readers -> FeedRow]
  BY <1>1, Displaced DEF Base
<1>7. Kept(Writers \ {r})
  <2>1. ASSUME NEW s \in Writers \ {r}
        PROVE  /\ \A u \in req[s].locked : Registered(u)
               /\ req[s].op = "like" /\ req[s].pc \in {"insert", "delete"} =>
                     Exists(req[s].target) /\ req[s].target # req[r].target
               /\ req[s].op = "like" /\ req[s].pc = "delete" => <<req[s].target, req[s].user>> \in likes
    <3>1. Fits(req[s])
      BY DEF Base, ReqFits
    <3>2. req[s].op = "like" /\ req[s].pc \in {"insert", "delete"} => req[s].target # req[r].target
      BY <1>1, <1>3, <3>1 DEF Base, Apart, Toggles, Fits, Locks
    <3>3. QED BY <3>1, <3>2 DEF Fits, Locks, Aimed
  <2>2. QED BY <1>1, <1>5, <2>1 DEF Kept, Exists
<1>8. QED BY <1>1, <1>4, <1>5, <1>6, <1>7, Finish

-----------------------------------------------------------------------------
(* Comments *)

LEMMA BeginCommentFits ==
    ASSUME Base, NEW r \in Writers, BeginComment(r)
    PROVE  Base'
<1>1. UNCHANGED <<members, tables, feed>> /\ Ready(r)
  BY DEF BeginComment
<1>2. PICK u \in Users, t \in PostIds \cup CommentIds, pc \in {"create", "update", "delete"} :
         Begin(r, u, [Idle EXCEPT !.op = "comment", !.pc = pc, !.target = t])
  <2>1. \A x \in posts : x.id \in PostIds
    BY DEF Base, PostTables, PostRows
  <2>2. \A c \in comments : c.id \in CommentIds
    BY DEF Base, PostTables, CommentRows
  <2>3. QED BY <2>1, <2>2 DEF BeginComment
<1> DEFINE q == [[Idle EXCEPT !.op = "comment", !.pc = pc, !.target = t]
                    EXCEPT !.user = u, !.at = writes + 1]
<1>3. Become(r, q) /\ writes' = writes + 1
  BY <1>2 DEF Begin
<1>4. writes + 1 \in 0 .. MaxWrites
  BY <1>1, Numbers DEF Ready
<1>5. /\ q \in Request /\ q.op = "comment" /\ q.user = u /\ q.choice = Idle.choice
      /\ q.at = writes + 1 /\ q.target = t /\ q.done = {} /\ q.locked = {}
  BY <1>4, IdleIs DEF IdleFacts, Request, Ops, Pcs
<1> HIDE DEF q
<1>6. Locks(q) /\ Chosen(q) /\ Aimed(q) /\ ~Toggles(q)
  BY <1>5, IdleIs DEF Locks, Chosen, Aimed, Toggles, IdleFacts
<1>7. QED BY <1>1, <1>3, <1>5, <1>6, Begins

\* A request that ends and changed no more than the comments.
LEMMA CommentsChange ==
    ASSUME Base, NEW r \in Writers, End(r), UNCHANGED <<members, writes, posts, likes, likings, feed>>,
           comments' \subseteq CommentRows, used' \subseteq PostIds \cup CommentIds, used \subseteq used',
           \A c \in comments' : Exists(c.post) /\ Registered(c.author)
    PROVE  Base'
<1>1. /\ MemberTables' /\ Signed(r) /\ \A u : Registered(u)' <=> Registered(u)
  BY SameMembers, Numbers
<1>2. Kept(Writers \ {r})
  BY <1>1, KeptGrowing DEF Base
<1>3. PostTables
  BY DEF Base
<1>4. \A x \in posts' \cup comments' : Registered(x.author)'
  BY <1>1, <1>3 DEF PostTables
<1>5. likes' \subseteq {<<y.id, u>> : y \in posts', u \in {v \in Users : Registered(v)'}}
  BY <1>1, <1>3 DEF PostTables
<1>6. PostTables'
  BY <1>3, <1>4, <1>5 DEF PostTables, LikesAddUp, Exists
<1>7. QED BY <1>1, <1>2, <1>6, Finish DEF Base

LEMMA CreateCommentFits ==
    ASSUME Base, NEW r \in Writers, CreateComment(r)
    PROVE  Base'
<1>1. /\ req[r].op = "comment" /\ req[r].pc = "create" /\ End(r)
      /\ UNCHANGED <<members, writes, posts, likes, likings, feed>>
  BY DEF CreateComment
<1>2. req[r].user \in Users
  BY <1>1, Runs
<1>3. /\ comments \subseteq CommentRows /\ used \subseteq PostIds \cup CommentIds
      /\ \A c \in comments : Exists(c.post) /\ Registered(c.author)
  BY DEF Base, PostTables
<1>4. CASE UNCHANGED <<comments, used>>
  BY <1>1, <1>3, <1>4, CommentsChange
<1>5. CASE /\ Exists(req[r].target) /\ Registered(req[r].user)
           /\ \E id \in CommentIds \ used :
                 /\ comments' = comments \cup {[id |-> id, post |-> req[r].target, author |-> req[r].user]}
                 /\ used' = used \cup {id}
  <2>1. req[r].target \in PostIds
    BY <1>5 DEF Exists, Base, PostTables, PostRows
  <2>2. PICK id \in CommentIds :
           /\ comments' = comments \cup {[id |-> id, post |-> req[r].target, author |-> req[r].user]}
           /\ used' = used \cup {id}
    BY <1>5
  <2> DEFINE c == [id |-> id, post |-> req[r].target, author |-> req[r].user]
  <2>3. c \in CommentRows /\ c.post = req[r].target /\ c.author = req[r].user
    BY <1>2, <2>1 DEF CommentRows
  <2>4. comments' = comments \cup {c}
    BY <2>2
  <2> HIDE DEF c
  <2>5. /\ comments' \subseteq CommentRows
        /\ \A d \in comments' : Exists(d.post) /\ Registered(d.author)
    BY <1>3, <1>5, <2>3, <2>4
  <2>6. used' \subseteq PostIds \cup CommentIds /\ used \subseteq used'
    BY <1>3, <2>2
  <2>7. QED BY <1>1, <2>5, <2>6, CommentsChange
<1>6. QED BY <1>4, <1>5 DEF CreateComment

LEMMA ChangeCommentFits ==
    ASSUME Base, NEW r \in Writers, ChangeComment(r)
    PROVE  Base'
<1>1. /\ End(r) /\ UNCHANGED <<members, writes, posts, likes, used, likings, feed>>
      /\ comments' \subseteq comments
  BY DEF ChangeComment
<1>2. /\ comments \subseteq CommentRows /\ used \subseteq PostIds \cup CommentIds
      /\ \A c \in comments : Exists(c.post) /\ Registered(c.author)
  BY DEF Base, PostTables
<1>3. /\ comments' \subseteq CommentRows /\ used' \subseteq PostIds \cup CommentIds
      /\ used \subseteq used' /\ \A c \in comments' : Exists(c.post) /\ Registered(c.author)
  BY <1>1, <1>2
<1>4. QED BY <1>1, <1>3, CommentsChange

-----------------------------------------------------------------------------
(* Feeds and deletions *)

\* No request takes a step, and the consents of no user change, or they go.
LEMMA Aside ==
    ASSUME Base, req' = req, writes <= writes', writes' \in 0 .. MaxWrites, Kept(Writers),
           MemberTables', PostTables', feed' \in [Readers -> FeedRow],
           \A u \in Users, i \in Items : consents'[u][i] \in {consents[u][i], None}
    PROVE  Base'
<1>1. writes \in Nat /\ writes' \in Nat
  BY Numbers
<1>2. ReqFits' /\ Apart'
  BY <1>1, Waits DEF Base
<1>3. Fresh'
  <2>1. ASSUME NEW u \in Users, NEW i \in Items, consents'[u][i] # None
        PROVE  /\ consents'[u][i].at <= writes'
               /\ \A r \in Writers : req'[r].pc # "idle" => consents'[u][i].at # req'[r].at
    <3>1. consents'[u][i] = consents[u][i]
      BY <2>1
    <3>2. /\ consents[u][i].at <= writes
          /\ \A r \in Writers : req[r].pc # "idle" => consents[u][i].at # req[r].at
      BY <2>1, <3>1 DEF Base, Fresh
    <3>3. consents[u][i].at \in Nat
      <4>1. consents[u][i] \in Row
        BY <2>1, <3>1, ConsentRows
      <4>2. QED BY <4>1, MembersAssumption DEF Row
    <3>4. QED BY <1>1, <3>1, <3>2, <3>3
  <2>2. QED BY <2>1 DEF Fresh
<1>4. QED BY <1>2, <1>3 DEF Base

LEMMA Displays ==
    ASSUME PostTables, NEW sort, NEW page
    PROVE  Shown(sort, page) \subseteq PostIds
BY DEF Shown, Rows, PostTables, PostRows

LEMMA FeedFits ==
    ASSUME Base, NEW c \in Readers, ReadPage(c) \/ EndFeed(c)
    PROVE  Base'
<1>1. UNCHANGED <<members, writes, req, tables>>
  BY DEF ReadPage, EndFeed
<1>2. feed' \in [Readers -> FeedRow]
  <2>1. CASE EndFeed(c)
    <3>1. NoFeed \in FeedRow
      BY DEF NoFeed, FeedRow
    <3>2. QED BY <2>1, <3>1 DEF EndFeed, Base
  <2>2. CASE ReadPage(c)
    <3> DEFINE f == feed[c]
               page == IF f.pc = "idle" THEN 0 ELSE f.page + 1
    <3>1. PICK sort \in {"createdAt", "likeCnt"} :
             feed' = [feed EXCEPT ![c] =
                [f EXCEPT !.pc = "reading", !.sort = sort, !.page = page,
                          !.seen = f.seen \cup Shown(sort, page),
                          !.first = IF f.pc = "idle" THEN {x.id : x \in posts} ELSE f.first,
                          !.last = Cardinality(Rows(sort, page)) <= PageSize]]
      BY <2>2 DEF ReadPage
    <3>2. f \in FeedRow
      BY DEF Base
    <3> DEFINE seen == f.seen \cup Shown(sort, page)
               first == IF f.pc = "idle" THEN {x.id : x \in posts} ELSE f.first
               last == Cardinality(Rows(sort, page)) <= PageSize
    <3>3. page \in Nat /\ seen \in SUBSET PostIds
      BY <3>2, Displays DEF FeedRow, Base
    <3>4. first \in SUBSET PostIds
      BY <3>2 DEF FeedRow, Base, PostTables, PostRows
    <3>5. last \in BOOLEAN
      OBVIOUS
    <3>6. feed' = [feed EXCEPT ![c] = [f EXCEPT !.pc = "reading", !.sort = sort, !.page = page,
                                                !.seen = seen, !.first = first, !.last = last]]
      BY <3>1
    <3> HIDE DEF f, page, seen, first, last
    <3>7. [f EXCEPT !.pc = "reading", !.sort = sort, !.page = page,
                    !.seen = seen, !.first = first, !.last = last] \in FeedRow
      BY <3>2, <3>3, <3>4, <3>5 DEF FeedRow
    <3>8. QED BY <3>6, <3>7 DEF Base
  <2>3. QED BY <2>1, <2>2
<1>3. MemberTables' /\ \A u : Registered(u)' <=> Registered(u)
  BY <1>1, SameMembers, Numbers
<1>4. PostTables'
  BY <1>1, <1>3, PostsStand DEF Base
<1>5. Kept(Writers)
  BY <1>1, <1>3, KeptGrowing DEF Base, tables
<1>6. consents' = consents
  BY <1>1 DEF members
<1>7. QED BY <1>1, <1>2, <1>3, <1>4, <1>5, <1>6, Aside, Numbers

\* Posts that go take their likes and comments with them, and the likes and
\* comments of users may go too.
Goes(gone, G, own) ==
    /\ own = {x.id : x \in gone}
    /\ \A x \in posts : x.author \in G => x \in gone
    /\ \A u \in Users : Registered(u) /\ u \notin G => nickname'[u] \notin {None, Gone}
    /\ posts' = posts \ gone /\ used' = used
    /\ likes' = {k \in likes : k[1] \notin own /\ k[2] \notin G}
    /\ comments' = {c \in comments : c.post \notin own /\ c.author \notin G}
    /\ likings' = [k \in PostIds \X Users |-> IF k[1] \in own \/ k[2] \in G THEN 0 ELSE likings[k]]

LEMMA PostsGo ==
    ASSUME PostTables, NEW gone \in SUBSET posts, NEW G \in SUBSET Users,
           NEW own, Goes(gone, G, own)
    PROVE  PostTables'
<1>g. /\ own = {x.id : x \in gone}
      /\ \A x \in posts : x.author \in G => x \in gone
      /\ \A u \in Users : Registered(u) /\ u \notin G => Registered(u)'
      /\ posts' = posts \ gone /\ used' = used
      /\ likes' = {k \in likes : k[1] \notin own /\ k[2] \notin G}
      /\ comments' = {c \in comments : c.post \notin own /\ c.author \notin G}
      /\ likings' = [k \in PostIds \X Users |->
                        IF k[1] \in own \/ k[2] \in G THEN 0 ELSE likings[k]]
  BY DEF Goes, Registered
<1>1. posts' \subseteq posts /\ likes' \subseteq likes /\ comments' \subseteq comments
  BY <1>g
<1>2. IsFiniteSet(posts') /\ IsFiniteSet(likes')
  BY <1>1, FS_Subset DEF PostTables
<1>3. likes' \subseteq {<<x.id, u>> : x \in posts', u \in {v \in Users : Registered(v)'}}
  <2> SUFFICES ASSUME NEW k \in likes'
               PROVE  \E x \in posts', u \in {v \in Users : Registered(v)'} : k = <<x.id, u>>
    OBVIOUS
  <2>1. PICK x \in posts, u \in {v \in Users : Registered(v)} : k = <<x.id, u>>
    BY <1>1 DEF PostTables
  <2>2. x \in posts' /\ u \notin G
    BY <1>g, <2>1
  <2>3. QED BY <1>g, <2>1, <2>2
<1>4. \A x \in posts' \cup comments' : Registered(x.author)'
  <2>1. \A x \in posts \cup comments : x.author \in Users /\ Registered(x.author)
    BY DEF PostTables, PostRows, CommentRows
  <2>2. \A x \in posts' \cup comments' : x.author \notin G
    BY <1>g
  <2>3. QED BY <1>g, <1>1, <2>1, <2>2
<1>5. \A c \in comments' : \E x \in posts' : x.id = c.post
  BY <1>g DEF PostTables, Exists
<1>6. likings' \in [PostIds \X Users -> Int] /\ LikesAddUp'
  BY <1>g DEF PostTables, LikesAddUp
<1>7. QED BY <1>g, <1>1, <1>2, <1>3, <1>4, <1>5, <1>6 DEF PostTables, Exists

LEMMA DeleteOwnedPostFits ==
    ASSUME Base, DeleteOwnedPost
    PROVE  Base'
<1>1. PICK x \in posts :
         /\ ~Toggling(x.id)
         /\ posts' = posts \ {x}
         /\ likes' = {k \in likes : k[1] # x.id}
         /\ comments' = {c \in comments : c.post # x.id}
         /\ likings' = [k \in PostIds \X Users |-> IF k[1] = x.id THEN 0 ELSE likings[k]]
  BY DEF DeleteOwnedPost
<1>2. /\ writes < MaxWrites /\ writes' = writes + 1 /\ Displace(1, 0)
      /\ UNCHANGED <<members, req, used>>
  BY DEF DeleteOwnedPost
<1>3. writes <= writes' /\ writes' \in 0 .. MaxWrites
  BY <1>2, Numbers
<1>4. MemberTables' /\ \A u : Registered(u)' <=> Registered(u)
  BY <1>2, <1>3, SameMembers
<1>5. PostTables'
  <2> PICK own : own = {x.id}
    OBVIOUS
  <2>1. \A u \in Users : Registered(u) => nickname'[u] \notin {None, Gone}
    BY <1>2 DEF members, Registered
  <2>2. own = {y.id : y \in {x}}
    OBVIOUS
  <2>3. Goes({x}, {}, own)
    BY <1>1, <1>2, <2>1, <2>2 DEF Goes
  <2>4. QED BY <2>3, PostsGo DEF Base
<1>6. feed' \in [Readers -> FeedRow]
  BY <1>2, Displaced DEF Base
<1>7. Kept(Writers)
  <2>1. ASSUME NEW s \in Writers
        PROVE  /\ \A u \in req[s].locked : Registered(u)
               /\ req[s].op = "like" /\ req[s].pc \in {"insert", "delete"} =>
                     Exists(req[s].target) /\ req[s].target # x.id
               /\ req[s].op = "like" /\ req[s].pc = "delete" => <<req[s].target, req[s].user>> \in likes
    <3>1. Fits(req[s])
      BY DEF Base, ReqFits
    <3>2. req[s].op = "like" /\ req[s].pc \in {"insert", "delete"} => req[s].target # x.id
      BY <1>1, <3>1 DEF Toggling, Fits, Locks
    <3>3. QED BY <3>1, <3>2 DEF Fits, Locks, Aimed
  <2>2. QED BY <1>1, <1>4, <2>1 DEF Kept, Exists
<1>8. consents' = consents
  BY <1>2 DEF members
<1>9. QED BY <1>2, <1>3, <1>4, <1>5, <1>6, <1>7, <1>8, Aside

LEMMA ForgetMemberFits ==
    ASSUME MemberTables, NEW u \in Users, ForgetMember(u), writes' \in 0 .. MaxWrites
    PROVE  /\ MemberTables' /\ ~Registered(u)'
           /\ \A v \in Users \ {u} : Registered(v)' <=> Registered(v)
           /\ \A v \in Users, i \in Items : consents'[v][i] \in {consents[v][i], None}
<1>1. /\ nickname \in [Users -> Nicknames \cup {None, Gone}]
      /\ consents \in [Users -> [Items -> Row \cup {None}]]
      /\ followings \in [Pairs -> Int] /\ FollowsAddUp
  BY DEF MemberTables, MembersTypeOK
<1>2. /\ nickname' = [nickname EXCEPT ![u] = Gone]
      /\ consents' = [consents EXCEPT ![u] = [i \in Items |-> None]]
      /\ follows' = {p \in follows : u \notin {p[1], p[2]}}
      /\ followings' = [p \in Pairs |-> IF u \in {p[1], p[2]} THEN 0 ELSE followings[p]]
      /\ asked' = asked
  BY DEF ForgetMember
<1>3. \A v \in Users : nickname'[v] = IF v = u THEN Gone ELSE nickname[v]
  BY <1>1, <1>2
<1>4. ~Registered(u)' /\ \A v \in Users \ {u} : Registered(v)' <=> Registered(v)
  BY <1>3 DEF Registered
<1>5. /\ \A v \in Users \ {u} : consents'[v] = consents[v]
      /\ \A i \in Items : consents'[u][i] = None
  BY <1>1, <1>2
<1>6. consents' \in [Users -> [Items -> Row \cup {None}]]
  BY <1>1, <1>2
<1>7. nickname' \in [Users -> Nicknames \cup {None, Gone}]
  BY <1>1, <1>2
<1>8. \A v, w \in Users : Registered(v)' /\ nickname'[v] = nickname'[w] => v = w
  BY <1>3, <1>4 DEF MemberTables, MembersTypeOK, Registered
<1>9. \A v \in Users, i \in Items : Registered(v)' \/ consents'[v][i] = None
  BY <1>4, <1>5 DEF MemberTables, MembersTypeOK
<1>10. follows' \subseteq {p \in Pairs : Registered(p[1])' /\ Registered(p[2])'}
  <2>1. \A p \in follows : p \in Pairs /\ Registered(p[1]) /\ Registered(p[2])
    BY DEF MemberTables, MembersTypeOK
  <2>2. \A p \in Pairs : p[1] \in Users /\ p[2] \in Users
    BY DEF Pairs
  <2>3. QED BY <1>2, <1>4, <2>1, <2>2
<1>11. followings' \in [Pairs -> Int] /\ FollowsAddUp'
  BY <1>1, <1>2 DEF FollowsAddUp
<1>12. MembersTypeOK'
  BY <1>2, <1>6, <1>7, <1>8, <1>9, <1>10, <1>11 DEF MemberTables, MembersTypeOK
<1>13. RequiredConsentsStand'
  BY <1>4, <1>5 DEF MemberTables, RequiredConsentsStand
<1>14. ConsentsAreWhole'
  BY <1>2, <1>5 DEF MemberTables, ConsentsAreWhole
<1>15. \A v \in Users, i \in Items : consents'[v][i] \in {consents[v][i], None}
  BY <1>5
<1>16. QED BY <1>4, <1>11, <1>12, <1>13, <1>14, <1>15 DEF MemberTables

\* The ids of some posts are as many as the posts, or fewer.
LEMMA IdsFinite ==
    ASSUME NEW S, IsFiniteSet(S), NEW own, own = {x.id : x \in S}
    PROVE  IsFiniteSet(own) /\ Cardinality(own) \in Nat
<1> DEFINE f == [x \in S |-> x.id]
<1>1. f \in Surjection(S, own)
  BY DEF Surjection
<1>2. QED BY <1>1, FS_Surjection, FS_CardinalityType

LEMMA DeleteUserFits ==
    ASSUME Base, DeleteUser
    PROVE  Base'
<1> DEFINE Gone1(u) == {y \in posts : y.author = u}
           Own(u) == {x.id : x \in Gone1(u)}
           Unliked(u) == {k \in likes : k[1] \notin Own(u) /\ k[2] = u}
<1>1. PICK u \in Users :
         /\ writes < MaxWrites /\ writes' = writes + 1 /\ ~Shared(u)
         /\ \A p \in Own(u) \cup {k[1] : k \in {l \in likes : l[2] = u}} : ~Toggling(p)
         /\ ForgetMember(u)
         /\ posts' = {x \in posts : x.id \notin Own(u)}
         /\ likes' = {k \in likes : k[1] \notin Own(u) /\ k[2] # u}
         /\ comments' = {c \in comments : c.post \notin Own(u) /\ c.author # u}
         /\ likings' = [k \in PostIds \X Users |-> IF k[1] \in Own(u) \/ k[2] = u THEN 0 ELSE likings[k]]
         /\ Displace(Cardinality(Own(u)), Cardinality(Unliked(u)))
         /\ UNCHANGED <<used, req>>
  BY DEF DeleteUser
<1>2. writes <= writes' /\ writes' \in 0 .. MaxWrites
  BY <1>1, Numbers
<1>3. /\ MemberTables' /\ ~Registered(u)'
      /\ \A v \in Users \ {u} : Registered(v)' <=> Registered(v)
      /\ \A v \in Users, i \in Items : consents'[v][i] \in {consents[v][i], None}
  BY <1>1, <1>2, ForgetMemberFits DEF Base
<1>4. PostTables
  BY DEF Base
<1>5. posts' = posts \ Gone1(u) /\ Gone1(u) \in SUBSET posts
  BY <1>1, <1>4 DEF PostTables
<1>6. feed' \in [Readers -> FeedRow]
  <2>1. IsFiniteSet(Gone1(u)) /\ IsFiniteSet(Unliked(u))
    BY <1>4, FS_Subset DEF PostTables
  <2>2. Cardinality(Own(u)) \in Nat /\ Cardinality(Unliked(u)) \in Nat
    BY <2>1, IdsFinite, FS_CardinalityType
  <2>3. QED BY <1>1, <2>2, Displaced DEF Base
<1>7. PICK own : own = Own(u)
  OBVIOUS
<1>8. PostTables'
  <2> DEFINE G == {u}
  <2>1. \A x \in posts : x.author \in G => x \in Gone1(u)
    OBVIOUS
  <2>2. \A v \in Users : Registered(v) /\ v \notin G => Registered(v)'
    BY <1>3
  <2>3. /\ likes' = {k \in likes : k[1] \notin own /\ k[2] \notin G}
        /\ comments' = {c \in comments : c.post \notin own /\ c.author \notin G}
        /\ likings' = [k \in PostIds \X Users |-> IF k[1] \in own \/ k[2] \in G THEN 0 ELSE likings[k]]
    BY <1>1, <1>7
  <2>4. PICK gone \in SUBSET posts : gone = Gone1(u)
    BY <1>5
  <2>5. own = {x.id : x \in gone}
    BY <1>7, <2>4
  <2> HIDE DEF Gone1, G, Own
  <2>6. G \in SUBSET Users
    BY DEF G
  <2>7. \A v \in Users : Registered(v) /\ v \notin G => nickname'[v] \notin {None, Gone}
    BY <2>2 DEF Registered
  <2>8. Goes(gone, G, own)
    BY <1>1, <1>5, <2>1, <2>3, <2>4, <2>5, <2>7 DEF Goes
  <2>9. QED BY <1>4, <2>6, <2>8, PostsGo
<1>9. Kept(Writers)
  <2>1. ASSUME NEW s \in Writers
        PROVE  /\ \A v \in req[s].locked : v \in Users \ {u} /\ Registered(v)
               /\ req[s].op = "like" /\ req[s].pc \in {"insert", "delete"} =>
                     Exists(req[s].target) /\ req[s].target \notin own
               /\ req[s].op = "like" /\ req[s].pc = "delete" =>
                     <<req[s].target, req[s].user>> \in likes /\ req[s].user # u
    <3>1. Fits(req[s])
      BY DEF Base, ReqFits
    <3>2. u \notin req[s].locked
      BY <1>1 DEF Shared
    <3>3. req[s].op = "like" /\ req[s].pc \in {"insert", "delete"} => req[s].target \notin own
      BY <1>1, <1>7, <3>1 DEF Toggling, Fits, Locks
    <3>4. QED BY <3>1, <3>2, <3>3 DEF Fits, Locks, Aimed, Request
  <2>2. likes' = {k \in likes : k[1] \notin own /\ k[2] # u} /\ posts' = {x \in posts : x.id \notin own}
    BY <1>1, <1>7
  <2> HIDE DEF Own
  <2>3. QED BY <1>3, <2>1, <2>2 DEF Kept, Exists
<1>10. QED BY <1>1, <1>2, <1>3, <1>6, <1>8, <1>9, Aside

-----------------------------------------------------------------------------

LEMMA InitBase == Init => Base
<1> SUFFICES ASSUME Init PROVE Base
  OBVIOUS
<1>1. /\ nickname = InitialNickname /\ follows = {} /\ followings = [p \in Pairs |-> 0]
      /\ consents = [u \in Users |-> [i \in Items |->
                        IF InitialNickname[u] # None /\ i \in Required THEN [agreed |-> TRUE, at |-> 0]
                        ELSE None]]
      /\ writes = 0 /\ asked = [n \in 0 .. MaxWrites |-> IF n = 0 THEN Required ELSE {}]
      /\ req = [r \in Writers |-> Idle]
      /\ posts = {[id |-> p, author |-> InitialPosts[p], at |-> 0] : p \in DOMAIN InitialPosts}
      /\ used = DOMAIN InitialPosts /\ likes = InitialLikes /\ comments = {}
      /\ likings = [k \in PostIds \X Users |-> IF k \in InitialLikes THEN 1 ELSE 0]
      /\ feed = [c \in Readers |-> NoFeed]
  BY DEF Init, InitMembers
<1>2. 0 \in 0 .. MaxWrites /\ Required \subseteq Items
  BY MembersAssumption
<1> DEFINE W == [agreed |-> TRUE, at |-> 0]
<1>3. W \in Row /\ W # None /\ W.at = 0 /\ W.agreed
  <2>1. W \in Row
    BY <1>2 DEF Row
  <2>2. \A agreed \in BOOLEAN, at \in 0 .. MaxWrites : None # [agreed |-> agreed, at |-> at]
    BY MembersAssumption
  <2>3. None # [agreed |-> TRUE, at |-> 0]
    BY <1>2, <2>2
  <2>4. QED BY <2>1, <2>3
<1>4. \A u \in Users, i \in Items :
         consents[u][i] = IF InitialNickname[u] # None /\ i \in Required THEN W ELSE None
  BY <1>1
<1> HIDE DEF W
<1>5. \A u \in Users : Registered(u) <=> InitialNickname[u] # None
  BY <1>1, MembersAssumption DEF Registered
<1>6. MembersTypeOK
  <2>1. consents \in [Users -> [Items -> Row \cup {None}]]
    BY <1>1, <1>3 DEF W
  <2>2. nickname \in [Users -> Nicknames \cup {None, Gone}]
    BY <1>1, MembersAssumption
  <2>3. \A u, v \in Users : Registered(u) /\ nickname[u] = nickname[v] => u = v
    BY <1>1, <1>5, MembersAssumption
  <2>4. \A u \in Users, i \in Items : Registered(u) \/ consents[u][i] = None
    BY <1>4, <1>5
  <2>5. writes \in 0 .. MaxWrites /\ asked \in [0 .. MaxWrites -> SUBSET Items]
    BY <1>1, <1>2
  <2>6. followings \in [Pairs -> Int] /\ follows \subseteq {p \in Pairs : Registered(p[1]) /\ Registered(p[2])}
    BY <1>1
  <2>7. QED BY <2>1, <2>2, <2>3, <2>4, <2>5, <2>6 DEF MembersTypeOK
<1>7. MemberTables
  <2>1. ConsentsAreWhole
    BY <1>3, <1>4 DEF ConsentsAreWhole
  <2>2. RequiredConsentsStand
    BY <1>2, <1>3, <1>4, <1>5 DEF RequiredConsentsStand
  <2>3. FollowsAddUp
    BY <1>1 DEF FollowsAddUp
  <2>4. QED BY <1>6, <2>1, <2>2, <2>3 DEF MemberTables
<1>8. PostTables
  <2> DEFINE P(p) == [id |-> p, author |-> InitialPosts[p], at |-> 0]
             f == [p \in DOMAIN InitialPosts |-> P(p)]
  <2>1. /\ DOMAIN InitialPosts \subseteq PostIds /\ IsFiniteSet(DOMAIN InitialPosts)
        /\ IsFiniteSet(InitialLikes)
        /\ \A p \in DOMAIN InitialPosts :
              InitialPosts[p] \in Users /\ InitialNickname[InitialPosts[p]] \in Nicknames
        /\ InitialLikes \subseteq {<<p, u>> : p \in DOMAIN InitialPosts,
                                             u \in {v \in Users : InitialNickname[v] # None}}
    BY CommunityAssumption
  <2>2. \A p \in DOMAIN InitialPosts :
           P(p) \in PostRows /\ P(p).id = p /\ P(p).author = InitialPosts[p]
    BY <1>2, <2>1 DEF PostRows
  <2>3. posts = {P(p) : p \in DOMAIN InitialPosts} /\ f \in Surjection(DOMAIN InitialPosts, posts)
    BY <1>1 DEF Surjection
  <2>4. IsFiniteSet(posts)
    BY <2>1, <2>3, FS_Surjection
  <2> HIDE DEF P, f
  <2>5. \A x \in posts : x.id \in used /\ x.id \in PostIds /\ Registered(x.author)
    <3>1. \A p \in DOMAIN InitialPosts : InitialNickname[InitialPosts[p]] # None
      BY <2>1, MembersAssumption
    <3>2. QED BY <1>1, <1>5, <2>1, <2>2, <2>3, <3>1
  <2>6. likes \subseteq {<<x.id, u>> : x \in posts, u \in {v \in Users : Registered(v)}}
    <3> SUFFICES ASSUME NEW k \in likes
                 PROVE  \E x \in posts, u \in {v \in Users : Registered(v)} : k = <<x.id, u>>
      OBVIOUS
    <3>1. PICK p \in DOMAIN InitialPosts, u \in {v \in Users : InitialNickname[v] # None} : k = <<p, u>>
      BY <1>1, <2>1
    <3>2. P(p) \in posts /\ P(p).id = p /\ Registered(u)
      BY <1>5, <2>2, <2>3
    <3>3. QED BY <3>1, <3>2
  <2>7. \A x, y \in posts : x.id = y.id => x = y
    BY <2>2, <2>3
  <2>8. likings \in [PostIds \X Users -> Int] /\ LikesAddUp
    BY <1>1 DEF LikesAddUp
  <2>9. posts \subseteq PostRows /\ used \subseteq PostIds \cup CommentIds
    BY <1>1, <2>1, <2>2, <2>3
  <2>10. IsFiniteSet(likes)
    BY <1>1, <2>1
  <2>11. QED BY <1>1, <2>4, <2>5, <2>6, <2>7, <2>8, <2>9, <2>10 DEF PostTables
<1>9. ReqFits
  BY <1>1, IdleFits DEF ReqFits
<1>10. Apart /\ Fresh
  <2>1. \A r \in Writers : req[r].pc = "idle" /\ ~Toggles(req[r])
    BY <1>1, IdleIs, IdleFits DEF IdleFacts
  <2>2. \A u \in Users, i \in Items : consents[u][i] # None => consents[u][i].at <= writes
    BY <1>1, <1>3, <1>4
  <2>3. QED BY <2>1, <2>2 DEF Apart, Fresh
<1>11. feed \in [Readers -> FeedRow]
  <2>1. NoFeed \in FeedRow
    BY DEF NoFeed, FeedRow
  <2>2. QED BY <1>1, <2>1
<1>12. QED BY <1>7, <1>8, <1>9, <1>10, <1>11 DEF Base

LEMMA FailFits ==
    ASSUME Base, NEW r \in Writers, Fail(r)
    PROVE  Base'
BY FinishAlike DEF Fail

LEMMA NextBase == Base /\ [Next]_vars => Base'
<1> SUFFICES ASSUME Base, [Next]_vars PROVE Base'
  OBVIOUS
<1>1. ASSUME NEW r \in Writers, Write(r) PROVE Base'
  BY <1>1, WriteOfMemberFits, BeginPostFits, InsertPostFits, FindPostFits, LockPostFits,
     InsertLikeFits, DeleteLikeFits, BeginCommentFits, CreateCommentFits, ChangeCommentFits,
     FailFits DEF Write
<1>2. ASSUME NEW c \in Readers, ReadPage(c) \/ EndFeed(c) PROVE Base'
  BY <1>2, FeedFits
<1>3. CASE UNCHANGED vars
  <2>1. UNCHANGED <<members, writes, req, tables, feed>>
    BY <1>3 DEF vars
  <2>2. MemberTables' /\ \A u : Registered(u)' <=> Registered(u)
    BY <2>1, SameMembers, Numbers
  <2>3. PostTables'
    BY <2>1, <2>2, PostsStand DEF Base
  <2>4. Kept(Writers)
    BY <2>1, <2>2, KeptGrowing DEF Base, tables
  <2>5. consents' = consents
    BY <2>1 DEF members
  <2>6. feed' \in [Readers -> FeedRow]
    BY <2>1 DEF Base
  <2>7. QED BY <2>1, <2>2, <2>3, <2>4, <2>5, <2>6, Aside, Numbers
<1>4. QED BY <1>1, <1>2, <1>3, DeleteOwnedPostFits, DeleteUserFits DEF Next

LEMMA BaseHolds == Spec => []Base
<1>1. QED BY InitBase, NextBase, PTL DEF Spec

\* The tables keep their types and references: a post, a like, a comment and a
\* follow are of registered users and of posts that are there, a nickname is of
\* one user, and the rows of a user that is not registered are gone.
THEOREM CommunityTypeCorrect == Spec => []TypeOK
<1>1. Base => TypeOK
  <2> SUFFICES ASSUME Base PROVE TypeOK
    OBVIOUS
  <2>1. \A r \in Writers : DOMAIN req[r] = DOMAIN Idle /\ req[r].locked \subseteq Users
    BY DEF Base, ReqFits, Fits, Request, Idle
  <2>2. \A c \in Readers : DOMAIN feed[c] = DOMAIN NoFeed
    BY DEF Base, FeedRow, NoFeed
  <2>3. QED BY <2>1, <2>2 DEF Base, MemberTables, PostTables, TypeOK
<1>2. QED BY <1>1, BaseHolds, PTL

\* Consents that two requests both decided are all of one of them.
THEOREM ConsentsStayWhole == Spec => []ConsentsAreWhole
<1>1. Base => ConsentsAreWhole
  BY DEF Base, MemberTables
<1>2. QED BY <1>1, BaseHolds, PTL

\* Whoever is registered agrees to what is required.
THEOREM RequiredConsentsRemain == Spec => []RequiredConsentsStand
<1>1. Base => RequiredConsentsStand
  BY DEF Base, MemberTables
<1>2. QED BY <1>1, BaseHolds, PTL

\* Likes and follows are there exactly if the answers say so.
THEOREM AnswersMatchTables == Spec => []AnswersAddUp
<1>1. Base => AnswersAddUp
  BY DEF Base, MemberTables, PostTables, AnswersAddUp, LikesAddUp, FollowsAddUp
<1>2. QED BY <1>1, BaseHolds, PTL

-----------------------------------------------------------------------------
(* The order of a feed *)

Ahead(key, x, y) == key[x] > key[y] \/ (key[x] = key[y] /\ x.id > y.id)
RankBy(P, key, x) == Cardinality({y \in P : Ahead(key, y, x)})

\* Posts in a set, by a key and then their ids, have the ranks 0, 1, 2, ...
Ranked(P, key) ==
    /\ \A x \in P : RankBy(P, key, x) \in Nat
    /\ \A x, y \in P : RankBy(P, key, x) < RankBy(P, key, y) <=> Ahead(key, x, y)
    /\ \A x, y \in P : RankBy(P, key, x) = RankBy(P, key, y) => x = y
    /\ \A x \in P, j \in Nat : j <= RankBy(P, key, x) => \E y \in P : RankBy(P, key, y) = j

LEMMA RanksAre ==
    ASSUME NEW P, IsFiniteSet(P), NEW key \in [P -> Nat],
           \A x \in P : x.id \in Nat, \A x, y \in P : x.id = y.id => x = y
    PROVE  Ranked(P, key)
<1> DEFINE Pre(x) == {y \in P : Ahead(key, y, x)}
           n == Cardinality(P)
<1>1. /\ \A x \in P : ~Ahead(key, x, x)
      /\ \A x, y \in P : x # y => Ahead(key, x, y) \/ Ahead(key, y, x)
      /\ \A x, y, z \in P : Ahead(key, x, y) /\ Ahead(key, y, z) => Ahead(key, x, z)
  <2>1. \A x \in P : key[x] \in Nat /\ x.id \in Nat
    OBVIOUS
  <2>2. \A x \in P : ~Ahead(key, x, x)
    BY <2>1 DEF Ahead
  <2>3. ASSUME NEW x \in P, NEW y \in P, x # y PROVE Ahead(key, x, y) \/ Ahead(key, y, x)
    <3>1. key[x] \in Nat /\ key[y] \in Nat /\ x.id \in Nat /\ y.id \in Nat /\ x.id # y.id
      BY <2>1, <2>3
    <3>2. QED BY <3>1 DEF Ahead
  <2>4. ASSUME NEW x \in P, NEW y \in P, NEW z \in P, Ahead(key, x, y), Ahead(key, y, z)
        PROVE  Ahead(key, x, z)
    <3>1. /\ key[x] \in Nat /\ key[y] \in Nat /\ key[z] \in Nat
          /\ x.id \in Nat /\ y.id \in Nat /\ z.id \in Nat
      BY <2>1
    <3>2. QED BY <2>4, <3>1 DEF Ahead
  <2>5. QED BY <2>2, <2>3, <2>4
<1>2. \A x \in P : IsFiniteSet(Pre(x)) /\ Cardinality(Pre(x)) \in Nat
  BY FS_Subset, FS_CardinalityType
<1>3. ASSUME NEW x \in P, NEW y \in P, Ahead(key, x, y)
      PROVE  Cardinality(Pre(x)) < Cardinality(Pre(y))
  <2>1. Pre(x) \subseteq Pre(y) /\ x \in Pre(y) /\ x \notin Pre(x)
    BY <1>1, <1>3
  <2>2. /\ Cardinality(Pre(x)) <= Cardinality(Pre(y))
        /\ Cardinality(Pre(x)) # Cardinality(Pre(y))
    <3> HIDE DEF Pre
    <3>1. QED BY <1>2, <2>1, FS_Subset
  <2>3. Cardinality(Pre(x)) \in Nat /\ Cardinality(Pre(y)) \in Nat
    BY <1>2
  <2> HIDE DEF Pre
  <2>4. QED BY <2>2, <2>3
<1>4. \A x \in P : RankBy(P, key, x) = Cardinality(Pre(x))
  BY DEF RankBy
<1>5. n \in Nat /\ \A x \in P : Cardinality(Pre(x)) < n
  <2>1. n \in Nat
    BY FS_CardinalityType
  <2>2. ASSUME NEW x \in P PROVE Cardinality(Pre(x)) < n
    <3>1. Pre(x) \in SUBSET P /\ Pre(x) # P
      BY <1>1
    <3>2. Cardinality(Pre(x)) <= n /\ Cardinality(Pre(x)) # n
      <4> HIDE DEF Pre
      <4>1. QED BY <3>1, FS_Subset
    <3>3. QED BY <1>2, <2>1, <3>2
  <2>3. QED BY <2>1, <2>2
<1> HIDE DEF Pre, n
<1>6. \A x, y \in P : Cardinality(Pre(x)) = Cardinality(Pre(y)) => x = y
  <2> SUFFICES ASSUME NEW x \in P, NEW y \in P, Cardinality(Pre(x)) = Cardinality(Pre(y)), x # y
               PROVE  FALSE
    OBVIOUS
  <2>1. Ahead(key, x, y) \/ Ahead(key, y, x)
    BY <1>1
  <2>2. Cardinality(Pre(x)) \in Nat /\ Cardinality(Pre(y)) \in Nat
    BY <1>2
  <2>3. QED BY <1>3, <2>1, <2>2
<1>7. \A x, y \in P : Cardinality(Pre(x)) < Cardinality(Pre(y)) <=> Ahead(key, x, y)
  <2> SUFFICES ASSUME NEW x \in P, NEW y \in P, Cardinality(Pre(x)) < Cardinality(Pre(y))
               PROVE  Ahead(key, x, y)
    BY <1>3
  <2>1. Cardinality(Pre(x)) \in Nat /\ Cardinality(Pre(y)) \in Nat
    BY <1>2
  <2>2. x # y
    BY <2>1
  <2>3. ~Ahead(key, y, x)
    BY <1>3, <2>1
  <2>4. QED BY <1>1, <2>2, <2>3
<1>8. ASSUME NEW x \in P, NEW j \in Nat, j <= Cardinality(Pre(x))
      PROVE  \E y \in P : Cardinality(Pre(y)) = j
  <2> DEFINE f == [y \in P |-> Cardinality(Pre(y))]
             T == 0 .. n - 1
  <2>1. f \in [P -> T]
    BY <1>2, <1>5
  <2>2. f \in Injection(P, T)
    BY <1>6, <2>1 DEF Injection, IsInjective
  <2>3. 0 \in Int /\ n - 1 \in Int
    BY <1>5
  <2>4. IsFiniteSet(T) /\ Cardinality(T) = IF 0 > n - 1 THEN 0 ELSE n - 1 - 0 + 1
    BY <2>3, FS_Interval
  <2>5. Cardinality(T) = n
    BY <1>5, <2>4
  <2>6. f \in Surjection(P, T)
    <3> HIDE DEF f, T
    <3>1. QED BY <2>2, <2>4, <2>5, FS_Injection DEF n
  <2>7. j \in T
    <3>1. Cardinality(Pre(x)) \in Nat /\ Cardinality(Pre(x)) < n
      BY <1>2, <1>5
    <3>2. QED BY <1>5, <1>8, <3>1
  <2>8. QED BY <2>6, <2>7 DEF Surjection
<1>9. QED BY <1>2, <1>4, <1>6, <1>7, <1>8 DEF Ranked

\* The posts before a place are as many as the place says, at most; and just
\* as many if there is one behind it.
LEMMA Places ==
    ASSUME NEW P, IsFiniteSet(P), NEW key, Ranked(P, key), NEW m \in Nat,
           NEW top, top = {x \in P : RankBy(P, key, x) < m}
    PROVE  /\ IsFiniteSet(top) /\ Cardinality(top) \in Nat /\ Cardinality(top) <= m
           /\ \A x \in P \ top : Cardinality(top) = m
<1> DEFINE T == 0 .. m - 1
           f == [x \in top |-> RankBy(P, key, x)]
<1>1. IsFiniteSet(top) /\ Cardinality(top) \in Nat
  BY FS_Subset, FS_CardinalityType
<1>2. 0 \in Int /\ m - 1 \in Int
  OBVIOUS
<1>3. IsFiniteSet(T) /\ Cardinality(T) = IF 0 > m - 1 THEN 0 ELSE m - 1 - 0 + 1
  BY <1>2, FS_Interval
<1>4. Cardinality(T) = m
  BY <1>3
<1>5. f \in Injection(top, T)
  BY DEF Ranked, Injection, IsInjective
<1>6. ASSUME NEW x \in P \ top PROVE f \in Surjection(top, T)
  <2>1. m <= RankBy(P, key, x) /\ RankBy(P, key, x) \in Nat
    BY <1>6 DEF Ranked
  <2>2. ASSUME NEW j \in T PROVE \E y \in top : f[y] = j
    <3>1. j \in Nat /\ j < m /\ j <= RankBy(P, key, x)
      BY <2>1
    <3>2. PICK y \in P : RankBy(P, key, y) = j
      BY <3>1 DEF Ranked
    <3>3. y \in top
      BY <3>1, <3>2
    <3>4. QED BY <3>2, <3>3
  <2>3. f \in [top -> T]
    BY <1>5 DEF Injection
  <2>4. QED BY <2>2, <2>3 DEF Surjection
<1> HIDE DEF f, T
<1>7. Cardinality(top) <= Cardinality(T) /\ (Cardinality(top) = Cardinality(T) <=> f \in Surjection(top, T))
  BY <1>3, <1>5, FS_Injection
<1>8. QED BY <1>1, <1>4, <1>6, <1>7

\* When posts go, posts come and the keys of some change, then no more of the
\* posts that stay move up into the first places than posts went or changed:
\* those that did neither keep their order, and the first places are full.
LEMMA FewMoveUp ==
    ASSUME NEW P, NEW Q, IsFiniteSet(P), IsFiniteSet(Q), NEW key, NEW lock,
           Ranked(P, key), Ranked(Q, lock), NEW L, IsFiniteSet(L), NEW m \in Nat,
           \A x, y \in (P \cap Q) \ L : Ahead(key, x, y) => Ahead(lock, x, y),
           NEW Y, Y = {x \in P \cap Q : RankBy(Q, lock, x) < m /\ m <= RankBy(P, key, x)}
    PROVE  /\ IsFiniteSet(Y) /\ Cardinality(Y) \in Nat
           /\ Cardinality(Y) <= Cardinality(P \ Q) + Cardinality(L)
<1> DEFINE top == {x \in P : RankBy(P, key, x) < m}
           next == {x \in Q : RankBy(Q, lock, x) < m}
           C == (P \ Q) \cup L
           K == top \ C
           X == Y \ L
<1>1. /\ IsFiniteSet(top) /\ Cardinality(top) \in Nat
      /\ \A x \in P \ top : Cardinality(top) = m
      /\ IsFiniteSet(next) /\ Cardinality(next) \in Nat /\ Cardinality(next) <= m
  BY Places
<1>2. /\ IsFiniteSet(Y) /\ IsFiniteSet(X) /\ IsFiniteSet(K) /\ IsFiniteSet(P \ Q)
      /\ IsFiniteSet(Y \cap L)
  BY <1>1, FS_Subset
<1>3. IsFiniteSet(C) /\ Cardinality(C) = Cardinality(P \ Q) + Cardinality(L) - Cardinality((P \ Q) \cap L)
  BY <1>2, FS_Union
<1>4. IsFiniteSet(top \cap C) /\ IsFiniteSet((P \ Q) \cap L)
  BY <1>1, <1>2, FS_Subset
<1>5. /\ Cardinality(Y) \in Nat /\ Cardinality(X) \in Nat /\ Cardinality(K) \in Nat
      /\ Cardinality(C) \in Nat /\ Cardinality(P \ Q) \in Nat /\ Cardinality(L) \in Nat
      /\ Cardinality(top \cap C) \in Nat /\ Cardinality((P \ Q) \cap L) \in Nat
      /\ Cardinality(Y \cap L) \in Nat
  BY <1>2, <1>3, <1>4, FS_CardinalityType
<1>6. Cardinality(C) <= Cardinality(P \ Q) + Cardinality(L)
  BY <1>3, <1>5
<1>7. \A x \in Y : x \in P /\ x \in Q /\ x \notin top
  BY DEF Ranked
<1>8. CASE X = {}
  <2>1. Y \subseteq L
    BY <1>8
  <2>2. Cardinality(Y) <= Cardinality(L)
    BY <2>1, FS_Subset
  <2>3. QED BY <1>2, <1>5, <2>2
<1>9. CASE X # {}
  <2>1. PICK x \in X : TRUE
    BY <1>9
  <2>2. Cardinality(top) = m
    BY <1>1, <1>7, <2>1
  <2>3. K \subseteq next
    <3> SUFFICES ASSUME NEW k \in K PROVE k \in next
      OBVIOUS
    <3>1. k \in P /\ k \in Q /\ k \notin L /\ x \in P /\ x \in Q /\ x \notin L
      BY <1>7, <2>1
    <3>2. RankBy(P, key, k) < m /\ m <= RankBy(P, key, x) /\ RankBy(Q, lock, x) < m
      BY <2>1
    <3>3. /\ RankBy(P, key, k) \in Nat /\ RankBy(P, key, x) \in Nat
          /\ RankBy(Q, lock, k) \in Nat /\ RankBy(Q, lock, x) \in Nat
      BY <3>1 DEF Ranked
    <3>4. RankBy(P, key, k) < RankBy(P, key, x)
      BY <3>2, <3>3
    <3>5. Ahead(key, k, x)
      BY <3>1, <3>4 DEF Ranked
    <3>6. Ahead(lock, k, x)
      BY <3>1, <3>5
    <3>7. RankBy(Q, lock, k) < RankBy(Q, lock, x)
      BY <3>1, <3>6 DEF Ranked
    <3>8. QED BY <3>1, <3>2, <3>3, <3>7
  <2>4. X \cup K \subseteq next /\ X \cap K = {}
    <3>1. X \subseteq next
      BY <1>7
    <3>2. X \cap K = {}
      BY <1>7
    <3>3. QED BY <2>3, <3>1, <3>2
  <2>5. (Y \cap L) \cup (top \cap C) \subseteq C /\ (Y \cap L) \cap (top \cap C) = {}
    BY <1>7
  <2>6. Y = X \cup (Y \cap L) /\ X \cap (Y \cap L) = {}
    OBVIOUS
  <2> HIDE DEF top, next, C, K, X
  <2>7. Cardinality(X) + Cardinality(K) <= m
    <3>1. Cardinality(X \cup K) = Cardinality(X) + Cardinality(K) - Cardinality(X \cap K)
      BY <1>2, FS_Union
    <3>2. Cardinality(X \cup K) <= Cardinality(next) /\ IsFiniteSet(X \cup K)
      BY <1>1, <2>4, FS_Subset
    <3>3. Cardinality(X \cap K) = 0
      BY <2>4, FS_EmptySet
    <3>4. Cardinality(X \cup K) \in Nat
      BY <3>2, FS_CardinalityType
    <3>5. QED BY <1>1, <1>5, <3>1, <3>2, <3>3, <3>4
  <2>8. Cardinality(K) = m - Cardinality(top \cap C)
    BY <1>1, <2>2, FS_Difference DEF K
  <2>9. Cardinality(Y \cap L) + Cardinality(top \cap C) <= Cardinality(C)
    <3>1. Cardinality((Y \cap L) \cup (top \cap C))
             = Cardinality(Y \cap L) + Cardinality(top \cap C) - Cardinality((Y \cap L) \cap (top \cap C))
      BY <1>2, <1>4, FS_Union
    <3>2. Cardinality((Y \cap L) \cup (top \cap C)) <= Cardinality(C)
      BY <1>3, <2>5, FS_Subset
    <3>3. Cardinality((Y \cap L) \cap (top \cap C)) = 0
      BY <2>5, FS_EmptySet
    <3>4. QED BY <1>5, <3>1, <3>2, <3>3
  <2>10. Cardinality(Y) = Cardinality(X) + Cardinality(Y \cap L)
    <3>1. Cardinality(X \cup (Y \cap L))
             = Cardinality(X) + Cardinality(Y \cap L) - Cardinality(X \cap (Y \cap L))
      BY <1>2, FS_Union
    <3>2. Cardinality(X \cap (Y \cap L)) = 0
      BY <2>6, FS_EmptySet
    <3>3. QED BY <1>5, <2>6, <3>1, <3>2
  <2>11. QED BY <1>2, <1>5, <1>6, <2>7, <2>8, <2>9, <2>10
<1>10. QED BY <1>8, <1>9

-----------------------------------------------------------------------------
(* What a client misses *)

PostSet(P) ==
    /\ P \subseteq PostRows /\ IsFiniteSet(P)
    /\ \A x, y \in P : x.id = y.id => x = y

CountOf(K, p) == Cardinality({k \in K : k[1] = p})
KeyOf(P, K, sort) == [x \in P |-> IF sort = "likeCnt" THEN CountOf(K, x.id) ELSE x.at]

Unseen(P, f) == {x \in P : x.id \in f.first \ f.seen}

\* Posts that a client did not see though they are now in the part it has read.
Missed(P, K, f) ==
    {x \in Unseen(P, f) : RankBy(P, KeyOf(P, K, f.sort), x) < (f.page + 1) * PageSize}

Allowed(f) == f.removed + (IF f.sort = "likeCnt" THEN f.liked ELSE 0)

Paging(P, K, ids, f) ==
    /\ f.pc = "idle" => ~f.last
    /\ f.pc = "reading" =>
          /\ f.first \subseteq ids
          /\ Cardinality(Missed(P, K, f)) <= Allowed(f)
          /\ f.last => Cardinality(Unseen(P, f)) <= Allowed(f)

Paged == \A c \in Readers : Paging(posts, likes, used, feed[c])

LEMMA KeysRank ==
    ASSUME NEW P, PostSet(P), NEW K, IsFiniteSet(K), NEW sort
    PROVE  /\ Ranked(P, KeyOf(P, K, sort))
           /\ \A x \in P : x.id \in Nat /\ x.at \in Nat /\ CountOf(K, x.id) \in Nat
<1>1. \A x \in P : x.id \in Nat /\ x.at \in Nat
  <2>1. PostIds \subseteq Nat /\ 0 .. MaxWrites \subseteq Nat
    BY CommunityAssumption, MembersAssumption
  <2>2. QED BY <2>1 DEF PostSet, PostRows
<1>2. \A x \in P : CountOf(K, x.id) \in Nat
  <2>1. ASSUME NEW p PROVE CountOf(K, p) \in Nat
    <3> DEFINE S == {k \in K : k[1] = p}
    <3>1. IsFiniteSet(S)
      BY FS_Subset
    <3> HIDE DEF S
    <3>2. Cardinality(S) \in Nat
      BY <3>1, FS_CardinalityType
    <3>3. QED BY <3>2 DEF S, CountOf
  <2>2. QED BY <2>1
<1>3. KeyOf(P, K, sort) \in [P -> Nat]
  BY <1>1, <1>2 DEF KeyOf
<1>4. Ranked(P, KeyOf(P, K, sort))
  BY <1>1, <1>3, RanksAre DEF PostSet
<1>5. QED BY <1>1, <1>2, <1>4

LEMMA FeedNumbers ==
    ASSUME NEW f \in FeedRow
    PROVE  /\ (f.page + 1) * PageSize \in Nat /\ Allowed(f) \in Nat
           /\ f.removed \in Nat /\ f.liked \in Nat /\ f.page \in Nat
<1>1. f.page \in Nat /\ f.removed \in Nat /\ f.liked \in Nat /\ PageSize \in Nat
  BY CommunityAssumption DEF FeedRow
<1>2. \A a, b \in Nat : (a + 1) * b \in Nat
  OBVIOUS
<1>3. QED BY <1>1, <1>2 DEF Allowed

LEMMA MissedFinite ==
    ASSUME NEW P, IsFiniteSet(P), NEW K, NEW f
    PROVE  /\ IsFiniteSet(Unseen(P, f)) /\ IsFiniteSet(Missed(P, K, f))
           /\ Cardinality(Unseen(P, f)) \in Nat /\ Cardinality(Missed(P, K, f)) \in Nat
<1>1. Unseen(P, f) \subseteq P /\ Missed(P, K, f) \subseteq P
  BY DEF Unseen, Missed
<1>2. QED BY <1>1, FS_Subset, FS_CardinalityType

\* The likes of the posts that stay, other than those of L, stay as many.
Alike(P, Q, K, J, L) == \A x \in (P \cap Q) \ L : CountOf(J, x.id) = CountOf(K, x.id)

\* A client in the middle of a feed, when posts and likes change and it is
\* told how many were displaced.
LEMMA FeedLasts ==
    ASSUME NEW P, NEW Q, NEW K, NEW J, PostSet(P), PostSet(Q), IsFiniteSet(K), IsFiniteSet(J),
           NEW ids, NEW jds, ids \subseteq jds, \A x \in Q \ P : x.id \notin ids,
           NEW f \in FeedRow, f.pc = "reading", Paging(P, K, ids, f),
           NEW n \in Nat, NEW m \in Nat, NEW g \in FeedRow,
           g.pc = f.pc /\ g.sort = f.sort /\ g.page = f.page /\ g.first = f.first,
           g.seen = f.seen /\ g.last = f.last,
           g.removed = f.removed + n /\ g.liked = f.liked + m,
           Cardinality(P \ Q) <= n, NEW L, IsFiniteSet(L), Cardinality(L) <= m,
           Alike(P, Q, K, J, L)
    PROVE  Paging(Q, J, jds, g)
<1> DEFINE key == KeyOf(P, K, f.sort)
           lock == KeyOf(Q, J, f.sort)
           bound == (f.page + 1) * PageSize
           moved == IF f.sort = "likeCnt" THEN L ELSE {}
           Y == {x \in P \cap Q : RankBy(Q, lock, x) < bound /\ bound <= RankBy(P, key, x)}
<1>1. IsFiniteSet(P) /\ IsFiniteSet(Q)
  BY DEF PostSet
<1>2. Ranked(P, key) /\ Ranked(Q, lock)
  BY KeysRank
<1>3. bound \in Nat /\ Allowed(f) \in Nat /\ Allowed(g) \in Nat
  BY FeedNumbers
<1>4. /\ IsFiniteSet(moved) /\ Cardinality(moved) \in Nat
      /\ Cardinality(moved) <= IF f.sort = "likeCnt" THEN m ELSE 0
  BY FS_EmptySet, FS_CardinalityType
<1>5. IsFiniteSet(P \ Q) /\ Cardinality(P \ Q) \in Nat
  BY <1>1, FS_Subset, FS_CardinalityType
<1>6. \A x, y \in (P \cap Q) \ moved : Ahead(key, x, y) => Ahead(lock, x, y)
  <2>1. \A x \in (P \cap Q) \ moved : lock[x] = key[x]
    BY DEF Alike, KeyOf
  <2> HIDE DEF key, lock, moved
  <2>2. QED BY <2>1 DEF Ahead
<1>7. /\ IsFiniteSet(Y) /\ Cardinality(Y) \in Nat
      /\ Cardinality(Y) <= Cardinality(P \ Q) + Cardinality(moved)
  <2> HIDE DEF key, lock, moved, bound
  <2>1. QED BY <1>1, <1>2, <1>3, <1>4, <1>6, FewMoveUp
<1>8. Allowed(g) = Allowed(f) + n + (IF f.sort = "likeCnt" THEN m ELSE 0)
  <2>1. f.removed \in Nat /\ f.liked \in Nat
    BY FeedNumbers
  <2>2. QED BY <2>1 DEF Allowed
<1>9. f.first \subseteq ids /\ Cardinality(Missed(P, K, f)) <= Allowed(f)
  BY DEF Paging
<1>10. Unseen(Q, g) \subseteq Unseen(P, f)
  BY <1>9 DEF Unseen
<1>11. Cardinality(Missed(Q, J, g)) <= Allowed(g)
  <2> DEFINE M == Missed(P, K, f)
             O == Missed(Q, J, g)
  <2>1. O \subseteq M \cup Y
    <3> SUFFICES ASSUME NEW x \in O, x \notin M PROVE x \in Y
      OBVIOUS
    <3>1. x \in Unseen(P, f) /\ x \in P /\ x \in Q
      BY <1>10 DEF Missed, Unseen
    <3>2. RankBy(Q, lock, x) < bound /\ ~(RankBy(P, key, x) < bound)
      BY <3>1 DEF Missed
    <3>3. RankBy(P, key, x) \in Nat
      BY <1>2, <3>1 DEF Ranked
    <3> HIDE DEF key, lock, bound
    <3>4. QED BY <1>3, <3>1, <3>2, <3>3
  <2>2. /\ IsFiniteSet(M) /\ Cardinality(M) \in Nat /\ IsFiniteSet(O) /\ Cardinality(O) \in Nat
    BY <1>1, MissedFinite
  <2> HIDE DEF M, O, Y
  <2>3. /\ IsFiniteSet(M \cup Y) /\ Cardinality(M \cup Y) = Cardinality(M) + Cardinality(Y) - Cardinality(M \cap Y)
        /\ IsFiniteSet(M \cap Y)
    BY <1>7, <2>2, FS_Union, FS_Intersection
  <2>4. Cardinality(M \cap Y) \in Nat /\ Cardinality(M \cup Y) \in Nat
    BY <2>3, FS_CardinalityType
  <2>5. Cardinality(O) <= Cardinality(M \cup Y)
    BY <2>1, <2>3, FS_Subset
  <2>6. Cardinality(O) <= Cardinality(M) + Cardinality(Y)
    BY <1>7, <2>2, <2>3, <2>4, <2>5
  <2>7. Cardinality(M) <= Allowed(f)
    BY <1>9 DEF M
  <2> HIDE DEF moved
  <2>8. Cardinality(O) <= Allowed(g)
    BY <1>3, <1>4, <1>5, <1>7, <1>8, <2>2, <2>6, <2>7
  <2>9. QED BY <2>8 DEF O
<1>12. ASSUME g.last PROVE Cardinality(Unseen(Q, g)) <= Allowed(g)
  <2>1. Cardinality(Unseen(P, f)) <= Allowed(f)
    BY <1>12 DEF Paging
  <2>2. /\ Cardinality(Unseen(Q, g)) <= Cardinality(Unseen(P, f))
        /\ Cardinality(Unseen(Q, g)) \in Nat /\ Cardinality(Unseen(P, f)) \in Nat
    BY <1>1, <1>10, MissedFinite, FS_Subset
  <2>3. QED BY <1>3, <1>8, <2>1, <2>2
<1>13. QED BY <1>9, <1>11, <1>12 DEF Paging

LEMMA PostSetIs == PostTables => PostSet(posts) /\ IsFiniteSet(likes)
BY DEF PostTables, PostSet

\* The clients, when n posts and m likes are displaced.
LEMMA Displacement ==
    ASSUME Base, Base', Paged, NEW n \in Nat, NEW m \in Nat,
           Displace(n, m) \/ (feed' = feed /\ n = 0 /\ m = 0),
           used \subseteq used', \A x \in posts' \ posts : x.id \notin used,
           Cardinality(posts \ posts') <= n, NEW L, IsFiniteSet(L), Cardinality(L) <= m,
           Alike(posts, posts', likes, likes', L)
    PROVE  Paged'
<1>1. /\ PostSet(posts) /\ PostSet(posts') /\ IsFiniteSet(likes) /\ IsFiniteSet(likes')
  <2>1. PostSet(posts) /\ IsFiniteSet(likes)
    BY PostSetIs DEF Base
  <2>2. PostSet(posts') /\ IsFiniteSet(likes')
    BY DEF Base, PostTables, PostSet
  <2>3. QED BY <2>1, <2>2
<1>2. ASSUME NEW c \in Readers PROVE Paging(posts', likes', used', feed'[c])
  <2> DEFINE f == feed[c]
             g == feed'[c]
  <2>1. f \in FeedRow /\ g \in FeedRow /\ Paging(posts, likes, used, f)
    BY DEF Base, Paged
  <2>2. CASE f.pc = "idle"
    <3>1. g = f
      BY <2>2 DEF Displace
    <3>2. QED BY <2>1, <2>2, <3>1 DEF Paging
  <2>3. CASE f.pc # "idle"
    <3>1. f.pc = "reading"
      BY <2>1, <2>3 DEF FeedRow
    <3>2. \/ g = [f EXCEPT !.removed = f.removed + n, !.liked = f.liked + m]
          \/ g = f /\ n = 0 /\ m = 0
      BY <2>3 DEF Displace
    <3> HIDE DEF f, g
    <3>3. /\ g.pc = f.pc /\ g.sort = f.sort /\ g.page = f.page /\ g.first = f.first
          /\ g.seen = f.seen /\ g.last = f.last
          /\ g.removed = f.removed + n /\ g.liked = f.liked + m
      <4>1. CASE g = [f EXCEPT !.removed = f.removed + n, !.liked = f.liked + m]
        BY <2>1, <4>1 DEF FeedRow
      <4>2. CASE g = f /\ n = 0 /\ m = 0
        BY <2>1, <4>2, FeedNumbers
      <4>3. QED BY <3>2, <4>1, <4>2
    <3>4. QED BY <1>1, <2>1, <3>1, <3>3, FeedLasts DEF g
  <2>4. QED BY <2>2, <2>3
<1>3. QED BY <1>2 DEF Paged


\* Writes that leave the posts, the likes and the clients alone.
LEMMA PagesAside ==
    ASSUME Base, Base', Paged, UNCHANGED <<posts, likes, feed>>, used \subseteq used'
    PROVE  Paged'
<1> DEFINE L == {}
<1>1. IsFiniteSet(L) /\ Cardinality(L) = 0 /\ posts \ posts' = {}
  BY FS_EmptySet
<1>2. Cardinality(posts \ posts') = 0
  BY <1>1
<1>3. Alike(posts, posts', likes, likes', L)
  BY DEF Alike
<1> HIDE DEF L
<1>4. QED BY <1>1, <1>2, <1>3, Displacement

LEMMA InsertPostPaged ==
    ASSUME Base, Base', Paged, NEW r \in Writers, InsertPost(r)
    PROVE  Paged'
<1> DEFINE id == Earliest(PostIds \ used)
           x == [id |-> id, author |-> req[r].user, at |-> req[r].at]
           L == {}
<1>1. /\ PostIds \ used # {} /\ posts' = posts \cup {x} /\ used' = used \cup {id}
      /\ UNCHANGED <<likes, feed>>
  BY DEF InsertPost
<1>2. id \notin used
  <2>1. PostIds \subseteq Nat
    BY CommunityAssumption
  <2>2. PostIds \ used \in SUBSET Nat
    BY <2>1
  <2>3. QED BY <1>1, <2>2, EarliestIs
<1>3. x.id = id
  OBVIOUS
<1> HIDE DEF id, x
<1>4. used \subseteq used' /\ posts \ posts' = {} /\ \A y \in posts' \ posts : y.id \notin used
  BY <1>1, <1>2, <1>3
<1>5. IsFiniteSet(L) /\ Cardinality(L) = 0 /\ Cardinality(posts \ posts') = 0
  BY <1>4, FS_EmptySet
<1>6. Alike(posts, posts', likes, likes', L)
  BY <1>1 DEF Alike
<1> HIDE DEF L
<1>7. QED BY <1>1, <1>4, <1>5, <1>6, Displacement

\* A like comes or goes: the likes of one post change.
LEMMA LikePaged ==
    ASSUME Base, Base', Paged, UNCHANGED <<posts, used>>, Displace(0, 1), NEW k,
           likes' = likes \cup {k} \/ likes' = likes \ {k}
    PROVE  Paged'
<1> DEFINE L == {x \in posts : x.id = k[1]}
<1>1. \A x, y \in L : x = y
  BY DEF Base, PostTables
<1>2. IsFiniteSet(L) /\ Cardinality(L) <= 1
  <2>1. CASE L = {}
    BY <2>1, FS_EmptySet
  <2>2. CASE L # {}
    <3>1. PICK x \in L : TRUE
      BY <2>2
    <3>2. L = {x}
      BY <1>1, <3>1
    <3> HIDE DEF L
    <3>3. IsFiniteSet({x}) /\ Cardinality({x}) = 1
      BY FS_Singleton
    <3>4. QED BY <3>2, <3>3
  <2>3. QED BY <2>1, <2>2
<1>3. Alike(posts, posts', likes, likes', L)
  <2>1. ASSUME NEW x \in posts, x.id # k[1]
        PROVE  {l \in likes' : l[1] = x.id} = {l \in likes : l[1] = x.id}
    BY <2>1
  <2>2. QED BY <2>1 DEF Alike, CountOf
<1>4. Cardinality(posts \ posts') = 0
  <2>1. posts \ posts' = {}
    OBVIOUS
  <2>2. QED BY <2>1, FS_EmptySet
<1> HIDE DEF L
<1>5. QED BY <1>2, <1>3, <1>4, Displacement

LEMMA DeleteOwnedPostPaged ==
    ASSUME Base, Base', Paged, DeleteOwnedPost
    PROVE  Paged'
<1> DEFINE L == {}
<1>1. PICK x \in posts : posts' = posts \ {x} /\ likes' = {k \in likes : k[1] # x.id}
  BY DEF DeleteOwnedPost
<1>2. Displace(1, 0) /\ used' = used
  BY DEF DeleteOwnedPost
<1>3. Cardinality(posts \ posts') = 1
  <2>1. posts \ posts' = {x}
    BY <1>1
  <2>2. QED BY <2>1, FS_Singleton
<1>4. IsFiniteSet(L) /\ Cardinality(L) = 0
  BY FS_EmptySet
<1>5. Alike(posts, posts', likes, likes', L)
  <2>1. ASSUME NEW y \in posts' PROVE y.id # x.id
    BY <1>1 DEF Base, PostTables
  <2>2. ASSUME NEW y \in posts'
        PROVE  {k \in likes' : k[1] = y.id} = {k \in likes : k[1] = y.id}
    BY <1>1, <2>1
  <2>3. QED BY <2>2 DEF Alike, CountOf
<1>6. \A y \in posts' \ posts : y.id \notin used
  BY <1>1
<1>7. Cardinality(posts \ posts') <= 1 /\ Cardinality(L) <= 0 /\ used \subseteq used'
  BY <1>2, <1>3, <1>4
<1> HIDE DEF L
<1>8. QED BY <1>2, <1>4, <1>5, <1>6, <1>7, Displacement

LEMMA DeleteUserPaged ==
    ASSUME Base, Base', Paged, DeleteUser
    PROVE  Paged'
<1> DEFINE Gone1(u) == {y \in posts : y.author = u}
           Own(u) == {x.id : x \in Gone1(u)}
           Unliked(u) == {k \in likes : k[1] \notin Own(u) /\ k[2] = u}
<1>1. PICK u \in Users :
         /\ posts' = {x \in posts : x.id \notin Own(u)}
         /\ likes' = {k \in likes : k[1] \notin Own(u) /\ k[2] # u}
         /\ Displace(Cardinality(Own(u)), Cardinality(Unliked(u)))
         /\ used' = used
  BY DEF DeleteUser
<1>2. PostSet(posts) /\ IsFiniteSet(likes)
  BY PostSetIs DEF Base
<1>3. PICK gone, own, unliked :
         gone = Gone1(u) /\ own = Own(u) /\ unliked = Unliked(u)
  OBVIOUS
<1>4. /\ gone \subseteq posts /\ own = {x.id : x \in gone}
      /\ unliked = {k \in likes : k[1] \notin own /\ k[2] = u}
      /\ posts' = {x \in posts : x.id \notin own}
      /\ likes' = {k \in likes : k[1] \notin own /\ k[2] # u}
      /\ Displace(Cardinality(own), Cardinality(unliked))
  BY <1>1, <1>3
<1> HIDE DEF Gone1, Own, Unliked
<1>5. IsFiniteSet(gone) /\ IsFiniteSet(unliked) /\ IsFiniteSet(own)
      /\ Cardinality(own) \in Nat /\ Cardinality(unliked) \in Nat
  <2>1. IsFiniteSet(gone) /\ IsFiniteSet(unliked)
    BY <1>2, <1>4, FS_Subset DEF PostSet
  <2>2. QED BY <1>4, <2>1, IdsFinite, FS_CardinalityType
<1>6. Cardinality(posts \ posts') <= Cardinality(own)
  <2> DEFINE S == posts \ posts'
             f == [x \in S |-> x.id]
  <2>1. f \in [S -> own]
    BY <1>4
  <2>2. \A x, y \in S : f[x] = f[y] => x = y
    BY <1>2 DEF PostSet
  <2>3. f \in Injection(S, own)
    BY <2>1, <2>2 DEF Injection, IsInjective
  <2> HIDE DEF S, f
  <2>4. Cardinality(S) <= Cardinality(own)
    BY <1>5, <2>3, FS_Injection
  <2>5. QED BY <2>4 DEF S
<1>7. PICK L : L = {x \in posts : x.id \notin own /\ <<x.id, u>> \in likes}
  OBVIOUS
<1>8. IsFiniteSet(L) /\ Cardinality(L) <= Cardinality(unliked)
  <2> DEFINE f == [x \in L |-> <<x.id, u>>]
  <2>1. f \in [L -> unliked]
    BY <1>4, <1>7
  <2>2. \A x, y \in L : f[x] = f[y] => x = y
    BY <1>2, <1>7 DEF PostSet
  <2>3. f \in Injection(L, unliked)
    BY <2>1, <2>2 DEF Injection, IsInjective
  <2> HIDE DEF f
  <2>4. QED BY <1>5, <2>3, FS_Injection
<1>9. Alike(posts, posts', likes, likes', L)
  <2>1. \A k \in likes : \E p, v : k = <<p, v>>
    BY DEF Base, PostTables
  <2>2. ASSUME NEW x \in (posts \cap posts') \ L
        PROVE  {k \in likes' : k[1] = x.id} = {k \in likes : k[1] = x.id}
    <3>1. x.id \notin own /\ <<x.id, u>> \notin likes
      BY <1>4, <1>7
    <3>2. \A k \in likes : k[1] = x.id => k[2] # u
      BY <2>1, <3>1
    <3>3. QED BY <1>4, <3>1, <3>2
  <2>3. QED BY <2>2 DEF Alike, CountOf
<1>10. posts' \ posts = {}
  BY <1>4
<1>11. QED BY <1>1, <1>4, <1>5, <1>6, <1>8, <1>9, <1>10, Displacement

\* The model's order of a feed, in terms of posts and keys.
LEMMA RankIs ==
    ASSUME NEW sort, NEW x \in posts
    PROVE  Rank(sort, x) = RankBy(posts, KeyOf(posts, likes, sort), x)
<1> DEFINE key == KeyOf(posts, likes, sort)
<1>1. \A y \in posts : Before(sort, y, x) <=> Ahead(key, y, x)
  <2>1. \A y \in posts : key[y] = IF sort = "likeCnt" THEN LikeCount(y.id) ELSE y.at
    BY DEF KeyOf, CountOf, LikeCount
  <2> HIDE DEF key
  <2>2. QED BY <2>1 DEF Before, Ahead
<1>2. {y \in posts : Before(sort, y, x)} = {y \in posts : Ahead(key, y, x)}
  BY <1>1
<1> HIDE DEF key
<1>3. QED BY <1>2 DEF Rank, RankBy, key

LEMMA Offsets ==
    ASSUME NEW n \in Nat
    PROVE  /\ PageOffset(n) \in Nat /\ PageOffset(n + 1) = (n + 1) * PageSize
           /\ PageOffset(n + 1) = PageOffset(n) + PageSize /\ PageOffset(0) = 0
           /\ PageSize \in Nat \ {0}
<1>1. PageSize \in Nat \ {0}
  BY CommunityAssumption
<1>2. \A a, b \in Nat : a * b \in Nat /\ (a + 1) * b = a * b + b /\ 0 * b = 0
  OBVIOUS
<1>3. QED BY <1>1, <1>2 DEF PageOffset

\* If a read finds no more than a page, there is nothing behind it.
LEMMA LastIsLast ==
    ASSUME PostTables, NEW sort, NEW n \in Nat, Cardinality(Rows(sort, n)) <= PageSize,
           NEW x \in posts
    PROVE  Rank(sort, x) < PageOffset(n + 1)
<1> DEFINE key == KeyOf(posts, likes, sort)
           a == PageOffset(n)
           T == a .. a + PageSize
           R == Rows(sort, n)
           f == [y \in R |-> Rank(sort, y)]
<1>1. Ranked(posts, key)
  BY PostSetIs, KeysRank
<1>2. \A y \in posts : Rank(sort, y) = RankBy(posts, key, y)
  BY RankIs
<1> HIDE DEF key
<1>3. /\ \A y \in posts : Rank(sort, y) \in Nat
      /\ \A y \in posts, j \in Nat : j <= Rank(sort, y) => \E z \in posts : Rank(sort, z) = j
  BY <1>1, <1>2 DEF Ranked
<1>4. a \in Nat /\ PageOffset(n + 1) = a + PageSize /\ PageSize \in Nat
  BY Offsets
<1>5. R = {y \in posts : Rank(sort, y) \in T}
  BY DEF Rows
<1> HIDE DEF a, R
<1>6. SUFFICES ASSUME ~(Rank(sort, x) < a + PageSize) PROVE FALSE
  BY <1>4
<1>7. \A j \in T : \E y \in R : Rank(sort, y) = j
  <2> SUFFICES ASSUME NEW j \in T PROVE \E y \in R : Rank(sort, y) = j
    OBVIOUS
  <2>1. j \in Nat /\ j <= Rank(sort, x)
    BY <1>3, <1>4, <1>6
  <2>2. PICK y \in posts : Rank(sort, y) = j
    BY <1>3, <2>1
  <2>3. QED BY <1>5, <2>2
<1>8. f \in Surjection(R, T)
  BY <1>5, <1>7 DEF Surjection
<1>9. IsFiniteSet(R) /\ Cardinality(R) \in Nat
  <2>1. IsFiniteSet(posts) /\ R \subseteq posts
    BY <1>5 DEF PostTables
  <2>2. QED BY <2>1, FS_Subset, FS_CardinalityType
<1>10. Cardinality(T) = PageSize + 1
  <2>1. PICK b \in Int : b = a + PageSize
    BY <1>4
  <2>2. a \in Int /\ a <= b /\ T = a .. b
    BY <1>4, <2>1
  <2>3. Cardinality(a .. b) = IF a > b THEN 0 ELSE b - a + 1
    BY <2>1, <2>2, FS_Interval
  <2>4. Cardinality(a .. b) = b - a + 1
    BY <2>1, <2>2, <2>3
  <2>5. QED BY <1>4, <2>1, <2>2, <2>4
<1> HIDE DEF f, T
<1>11. Cardinality(T) <= Cardinality(R)
  BY <1>8, <1>9, FS_Surjection
<1>12. Cardinality(R) <= PageSize
  BY DEF R
<1>13. QED BY <1>4, <1>9, <1>10, <1>11, <1>12

\* What a page shows are the posts between its offset and the next.
LEMMA PageShows ==
    ASSUME PostTables, NEW sort, NEW n \in Nat, NEW x \in posts,
           x.id \notin Shown(sort, n), Rank(sort, x) < PageOffset(n + 1)
    PROVE  Rank(sort, x) < PageOffset(n)
<1>1. Rank(sort, x) \in Nat
  <2>1. Ranked(posts, KeyOf(posts, likes, sort))
    BY PostSetIs, KeysRank
  <2>2. QED BY <2>1, RankIs DEF Ranked
<1>2. /\ PageOffset(n) \in Nat /\ PageSize \in Nat /\ PageOffset(n + 1) = PageOffset(n) + PageSize
  BY Offsets
<1>3. SUFFICES ASSUME ~(Rank(sort, x) < PageOffset(n)) PROVE FALSE
  OBVIOUS
<1>4. Rank(sort, x) \in PageOffset(n) .. PageOffset(n) + PageSize
  BY <1>1, <1>2, <1>3
<1>5. QED BY <1>4 DEF Shown, Rows

LEMMA ReadPagePaged ==
    ASSUME Base, Base', Paged, NEW c \in Readers, ReadPage(c)
    PROVE  Paged'
<1> DEFINE f == feed[c]
           n == IF f.pc = "idle" THEN 0 ELSE f.page + 1
           first == IF f.pc = "idle" THEN {x.id : x \in posts} ELSE f.first
<1>1. PICK sort \in {"createdAt", "likeCnt"} :
         /\ f.pc = "idle" \/ (f.sort = sort /\ ~f.last)
         /\ feed' = [feed EXCEPT ![c] =
              [f EXCEPT !.pc = "reading", !.sort = sort, !.page = n, !.seen = @ \cup Shown(sort, n),
                        !.first = first, !.last = Cardinality(Rows(sort, n)) <= PageSize]]
         /\ UNCHANGED tables
  BY DEF ReadPage
<1>2. f \in FeedRow /\ Paging(posts, likes, used, f) /\ feed \in [Readers -> FeedRow]
  BY DEF Base, Paged
<1>3. n \in Nat
  BY <1>2 DEF FeedRow
<1>4. PICK last : last = (Cardinality(Rows(sort, n)) <= PageSize)
  OBVIOUS
<1>5. PICK g : g = feed'[c]
  OBVIOUS
<1>6. /\ g.pc = "reading" /\ g.sort = sort /\ g.page = n /\ g.seen = f.seen \cup Shown(sort, n)
      /\ g.first = first /\ g.last = last /\ g.removed = f.removed /\ g.liked = f.liked
  <2> HIDE DEF f, n, first
  <2>1. g = [f EXCEPT !.pc = "reading", !.sort = sort, !.page = n, !.seen = @ \cup Shown(sort, n),
                      !.first = first, !.last = last]
    BY <1>1, <1>2, <1>4, <1>5
  <2>2. QED BY <1>2, <2>1 DEF FeedRow
<1>7. PostTables /\ posts' = posts /\ likes' = likes /\ used' = used /\ g \in FeedRow
  BY <1>1, <1>5 DEF Base, tables
<1>8. ASSUME NEW x \in Missed(posts, likes, g)
      PROVE  f.pc = "reading" /\ x \in Missed(posts, likes, f)
  <2>1. x \in posts /\ x.id \in first /\ x.id \notin f.seen /\ x.id \notin Shown(sort, n)
    BY <1>6, <1>8 DEF Missed, Unseen
  <2>2. Rank(sort, x) < (n + 1) * PageSize
    BY <1>6, <1>8, <2>1, RankIs DEF Missed
  <2>3. Rank(sort, x) < PageOffset(n)
    BY <1>3, <1>7, <2>1, <2>2, Offsets, PageShows
  <2>4. Rank(sort, x) \in Nat
    <3>1. Ranked(posts, KeyOf(posts, likes, sort))
      BY <1>7, PostSetIs, KeysRank
    <3>2. QED BY <2>1, <3>1, RankIs DEF Ranked
  <2>5. f.pc # "idle"
    <3>1. PageOffset(0) = 0
      BY Offsets
    <3>2. QED BY <2>3, <2>4, <3>1
  <2>6. f.pc = "reading" /\ f.sort = sort /\ n = f.page + 1 /\ f.page \in Nat
    BY <1>1, <1>2, <2>5 DEF FeedRow
  <2>7. Rank(sort, x) < (f.page + 1) * PageSize
    BY <2>3, <2>6, Offsets
  <2>8. x.id \in f.first
    BY <2>1, <2>5
  <2>9. QED BY <2>1, <2>6, <2>7, <2>8, RankIs DEF Missed, Unseen
<1>9. Allowed(f) \in Nat /\ Allowed(g) \in Nat /\ (f.pc = "reading" => Allowed(g) = Allowed(f))
  BY <1>1, <1>2, <1>6, <1>7, FeedNumbers DEF Allowed
<1>10. IsFiniteSet(posts)
  BY <1>7 DEF PostTables
<1>11. Cardinality(Missed(posts, likes, g)) <= Allowed(g)
  <2> DEFINE O == Missed(posts, likes, g)
             M == Missed(posts, likes, f)
  <2>1. CASE O = {}
    <3>1. Cardinality(O) = 0
      BY <2>1, FS_EmptySet
    <3>2. QED BY <1>9, <3>1
  <2>2. CASE O # {}
    <3>1. f.pc = "reading" /\ O \subseteq M
      BY <1>8, <2>2
    <3>2. IsFiniteSet(M) /\ Cardinality(M) \in Nat /\ Cardinality(O) \in Nat
      BY <1>10, MissedFinite
    <3>3. Cardinality(M) <= Allowed(f)
      BY <1>2, <3>1 DEF Paging
    <3> HIDE DEF O, M
    <3>4. Cardinality(O) <= Cardinality(M)
      BY <3>1, <3>2, FS_Subset
    <3>5. Cardinality(O) <= Allowed(g)
      BY <1>9, <3>1, <3>2, <3>3, <3>4
    <3>6. QED BY <3>5 DEF O
  <2>3. QED BY <2>1, <2>2
<1>12. ASSUME g.last PROVE Cardinality(Unseen(posts, g)) <= Allowed(g)
  <2>1. \A x \in posts : Rank(sort, x) < PageOffset(n + 1)
    BY <1>3, <1>4, <1>6, <1>7, <1>12, LastIsLast
  <2>2. \A x \in posts : RankBy(posts, KeyOf(posts, likes, g.sort), x) < (g.page + 1) * PageSize
    BY <1>3, <1>6, <2>1, RankIs, Offsets
  <2>3. Unseen(posts, g) = Missed(posts, likes, g)
    BY <2>2 DEF Unseen, Missed
  <2>4. QED BY <1>11, <2>3
<1>13. g.first \subseteq used
  <2>1. \A x \in posts : x.id \in used
    BY <1>7 DEF PostTables
  <2>2. QED BY <1>2, <1>6, <2>1 DEF Paging, FeedRow
<1>14. Paging(posts, likes, used, g)
  BY <1>6, <1>11, <1>12, <1>13 DEF Paging
<1>15. \A d \in Readers : feed'[d] = IF d = c THEN g ELSE feed[d]
  BY <1>1, <1>2, <1>5
<1>16. QED BY <1>7, <1>14, <1>15 DEF Paged

LEMMA EndFeedPaged ==
    ASSUME Base, Base', Paged, NEW c \in Readers, EndFeed(c)
    PROVE  Paged'
<1>1. /\ UNCHANGED <<posts, likes, used>> /\ feed' = [feed EXCEPT ![c] = NoFeed]
      /\ feed \in [Readers -> FeedRow]
  BY DEF EndFeed, tables, Base
<1>2. Paging(posts, likes, used, NoFeed)
  BY DEF Paging, NoFeed
<1>3. \A d \in Readers : feed'[d] = IF d = c THEN NoFeed ELSE feed[d]
  BY <1>1
<1>4. QED BY <1>1, <1>2, <1>3 DEF Paged

LEMMA WritePaged ==
    ASSUME Base, Base', Paged, NEW r \in Writers, Write(r)
    PROVE  Paged'
<1>1. CASE \/ WriteOfMember(r) /\ UNCHANGED <<tables, feed>>
           \/ BeginPost(r) \/ FindPost(r) \/ LockPost(r) \/ BeginComment(r) \/ Fail(r)
  <2>1. UNCHANGED <<tables, feed>>
    BY <1>1 DEF BeginPost, FindPost, LockPost, BeginComment, Fail
  <2>2. QED BY <2>1, PagesAside DEF tables
<1>2. CASE CreateComment(r) \/ ChangeComment(r)
  <2>1. UNCHANGED <<posts, likes, feed>> /\ used \subseteq used'
    BY <1>2 DEF CreateComment, ChangeComment
  <2>2. QED BY <2>1, PagesAside
<1>3. CASE InsertLike(r)
  <2>1. UNCHANGED <<posts, used>>
    BY <1>3 DEF InsertLike
  <2>2. CASE UNCHANGED <<likes, likings, feed>>
    BY <2>1, <2>2, PagesAside
  <2>3. CASE likes' = likes \cup {<<req[r].target, req[r].user>>} /\ Displace(0, 1)
    BY <2>1, <2>3, LikePaged
  <2>4. QED BY <1>3, <2>2, <2>3 DEF InsertLike
<1>4. CASE DeleteLike(r)
  <2>1. UNCHANGED <<posts, used>> /\ Displace(0, 1)
        /\ likes' = likes \ {<<req[r].target, req[r].user>>}
    BY <1>4 DEF DeleteLike
  <2>2. QED BY <2>1, LikePaged
<1>5. QED BY <1>1, <1>2, <1>3, <1>4, InsertPostPaged DEF Write

LEMMA NextPaged == Base /\ Base' /\ Paged /\ [Next]_vars => Paged'
<1> SUFFICES ASSUME Base, Base', Paged, [Next]_vars PROVE Paged'
  OBVIOUS
<1>1. CASE UNCHANGED vars
  <2>1. UNCHANGED <<posts, likes, feed>> /\ used \subseteq used'
    BY <1>1 DEF vars, tables
  <2>2. QED BY <2>1, PagesAside
<1>2. QED BY <1>1, WritePaged, ReadPagePaged, EndFeedPaged, DeleteOwnedPostPaged, DeleteUserPaged
          DEF Next

LEMMA InitPaged == Init => Paged
<1>1. Paging(posts, likes, used, NoFeed)
  BY DEF Paging, NoFeed
<1>2. QED BY <1>1 DEF Init, Paged

LEMMA PagedShows == Base /\ Paged => PagesMissOnlyWhatMoved
<1> SUFFICES ASSUME Base, Paged, NEW c \in Readers, feed[c].last
             PROVE  Cardinality({p \in feed[c].first \ feed[c].seen : Exists(p)})
                       <= feed[c].removed + (IF feed[c].sort = "likeCnt" THEN feed[c].liked ELSE 0)
  BY DEF PagesMissOnlyWhatMoved
<1> DEFINE f == feed[c]
           S == Unseen(posts, f)
           ids == {p \in f.first \ f.seen : Exists(p)}
           g == [x \in S |-> x.id]
<1>1. f \in FeedRow /\ Paging(posts, likes, used, f) /\ IsFiniteSet(posts)
  BY DEF Base, Paged, PostTables
<1>2. f.pc = "reading" /\ Cardinality(S) <= Allowed(f)
  BY <1>1 DEF Paging, FeedRow
<1>3. IsFiniteSet(S) /\ Cardinality(S) \in Nat
  BY <1>1, MissedFinite
<1>4. g \in Surjection(S, ids)
  BY DEF Surjection, Unseen, Exists
<1>5. Allowed(f) \in Nat
  BY <1>1, FeedNumbers
<1> HIDE DEF S, ids, g
<1>6. IsFiniteSet(ids) /\ Cardinality(ids) <= Cardinality(S)
  BY <1>3, <1>4, FS_Surjection
<1>7. Cardinality(ids) \in Nat
  BY <1>6, FS_CardinalityType
<1>8. Cardinality(ids) <= Allowed(f)
  BY <1>2, <1>3, <1>5, <1>6, <1>7
<1>9. QED BY <1>8 DEF ids, Allowed

\* A client that reads a feed to its end misses no more of the posts it began
\* with than were removed meanwhile, and by likes than likes changed.
THEOREM PagesMissNoMore == Spec => []PagesMissOnlyWhatMoved
<1>1. Init => Paged
  BY InitPaged
<1>2. Base /\ Base' /\ Paged /\ [Next]_vars => Paged'
  BY NextPaged
<1>3. Base /\ Paged => PagesMissOnlyWhatMoved
  BY PagedShows
<1>4. QED BY <1>1, <1>2, <1>3, BaseHolds, PTL DEF Spec

=============================================================================
