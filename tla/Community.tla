------------------------------- MODULE Community -------------------------------
(***************************************************************************)
(* Posts with their likes and comments, and the feed a client reads page   *)
(* by page, by OFFSET, while members write posts, like them, delete them   *)
(* or withdraw.  Composed with Members.                                    *)
(*                                                                         *)
(* A like is toggled by an INSERT that may do nothing and a DELETE; only   *)
(* the lock on the post makes the two one, so they are two steps here.     *)
(***************************************************************************)
EXTENDS Members

CONSTANTS PostIds, CommentIds,  \* ids the tables may hand out, each once
          InitialPosts,         \* posts there are at first, with their author
          InitialLikes,         \* and who likes them
          PageSize,
          Readers               \* clients that read a feed

ASSUME CommunityAssumption ==
    /\ PostIds \subseteq Nat /\ PageSize \in Nat \ {0}
    /\ DOMAIN InitialPosts \subseteq PostIds
    /\ IsFiniteSet(DOMAIN InitialPosts) /\ IsFiniteSet(InitialLikes)
    /\ \A p \in DOMAIN InitialPosts :
          InitialPosts[p] \in Users /\ InitialNickname[InitialPosts[p]] \in Nicknames
    /\ InitialLikes \subseteq {<<p, u>> : p \in DOMAIN InitialPosts,
                                        u \in {v \in Users : InitialNickname[v] # None}}

VARIABLES posts,      \* with author and createdAt, the start of their transaction
          likes,      \* <<post, user>>
          comments,   \* with post and author
          used,       \* ids that were handed out
          feed,       \* clients in the middle of a feed
          likings     \* history: likes answered as made, less those as removed

tables == <<posts, likes, comments, used, likings>>
vars == <<members, writes, req, tables, feed>>

PostRows == [id : PostIds, author : Users, at : 0 .. MaxWrites]
CommentRows == [id : CommentIds, post : PostIds, author : Users]
PostRow(p) == CHOOSE x \in posts : x.id = p
Exists(p) == \E x \in posts : x.id = p
LikeCount(p) == Cardinality({k \in likes : k[1] = p})

NoFeed == [pc |-> "idle", sort |-> None, page |-> 0, first |-> {}, seen |-> {}, last |-> FALSE,
           removed |-> 0, liked |-> 0]

TypeOK ==
    /\ MembersTypeOK
    /\ posts \subseteq PostRows /\ comments \subseteq CommentRows
    /\ used \subseteq PostIds \cup CommentIds
    /\ likes \subseteq {<<x.id, u>> : x \in posts, u \in {v \in Users : Registered(v)}}
    /\ \A x, y \in posts : x.id = y.id => x = y
    /\ \A x \in posts \cup comments : Registered(x.author)
    /\ \A c \in comments : Exists(c.post)
    /\ likings \in [PostIds \X Users -> Int]
    /\ \A r \in Writers : DOMAIN req[r] = DOMAIN Idle /\ req[r].locked \subseteq Users
    /\ \A c \in Readers : DOMAIN feed[c] = DOMAIN NoFeed

\* Clients that are reading keep track of what is displaced.
Displace(removed, liked) ==
    feed' = [c \in Readers |-> IF feed[c].pc = "idle" THEN feed[c]
                ELSE [feed[c] EXCEPT !.removed = @ + removed, !.liked = @ + liked]]

-----------------------------------------------------------------------------
(* Posts *)

\* The users whose rows a transaction on a post locks.
Participants(u, p) == {u, PostRow(p).author}

\* A transaction holds the post for a toggle.
Toggling(p) == \E r \in Writers : req[r].op = "like" /\ req[r].locked # {} /\ req[r].target = p

\* createForOccurrence, once it has locked its author (see JogakExecution).
BeginPost(r) ==
    Ready(r) /\ \E u \in Users :
        /\ Registered(u)
        /\ Begin(r, u, [Idle EXCEPT !.op = "post", !.pc = "write", !.locked = {u}])
        /\ UNCHANGED <<members, tables, feed>>

\* Ids grow, createdAt is when the transaction began.
InsertPost(r) ==
    LET q == req[r]
        free == PostIds \ used
    IN
    /\ q.op = "post" /\ q.pc = "write"
    /\ free # {}
    /\ posts' = posts \cup {[id |-> Earliest(free), author |-> q.user, at |-> q.at]}
    /\ used' = used \cup {Earliest(free)}
    /\ End(r)
    /\ UNCHANGED <<members, writes, likes, comments, likings, feed>>

\* updateOwnedPost changes the contents only and is left out.
DeleteOwnedPost ==
    /\ writes < MaxWrites /\ writes' = writes + 1
    /\ \E x \in posts :
          /\ ~Toggling(x.id)
          /\ posts' = posts \ {x}
          /\ likes' = {k \in likes : k[1] # x.id}
          /\ comments' = {c \in comments : c.post # x.id}
          /\ likings' = [k \in PostIds \X Users |-> IF k[1] = x.id THEN 0 ELSE likings[k]]
    /\ Displace(1, 0)
    /\ UNCHANGED <<members, req, used>>

-----------------------------------------------------------------------------
(* Likes *)

FindPost(r) ==
    Ready(r) /\ \E u \in Users, x \in posts :
        /\ Registered(u)
        /\ Begin(r, u, [Idle EXCEPT !.op = "like", !.pc = "lock", !.target = x.id])
        /\ UNCHANGED <<members, tables, feed>>

\* Mutation: the post is locked as for a comment, FOR KEY SHARE.
LockPostShared(r) ==
    LET q == req[r] IN
    /\ q.op = "like" /\ q.pc = "lock"
    /\ IF Exists(q.target) /\ Registered(q.user)
       THEN Become(r, [q EXCEPT !.pc = "insert", !.locked = Participants(q.user, q.target)])
       ELSE End(r)
    /\ UNCHANGED <<members, writes, tables, feed>>

\* lockPostParticipants, FOR NO KEY UPDATE.
LockPost(r) ==
    LET q == req[r] IN
    /\ q.op = "like" /\ q.pc = "lock"
    /\ ~Toggling(q.target)
    /\ IF Exists(q.target) /\ Registered(q.user)
       THEN Become(r, [q EXCEPT !.pc = "insert", !.locked = Participants(q.user, q.target)])
       ELSE End(r)
    /\ UNCHANGED <<members, writes, tables, feed>>

\* ON CONFLICT DO NOTHING; a row that was inserted is the answer CREATED.
InsertLike(r) ==
    LET q == req[r]
        like == <<q.target, q.user>>
    IN
    /\ q.op = "like" /\ q.pc = "insert"
    /\ IF like \in likes
       THEN /\ Become(r, [q EXCEPT !.pc = "delete"])
            /\ UNCHANGED <<likes, likings, feed>>
       ELSE /\ likes' = likes \cup {like}
            /\ likings' = [likings EXCEPT ![like] = @ + 1]
            /\ Displace(0, 1)
            /\ End(r)
    /\ UNCHANGED <<members, writes, posts, comments, used>>

\* The answer is REMOVED, whatever the DELETE found.
DeleteLike(r) ==
    LET like == <<req[r].target, req[r].user>> IN
    /\ req[r].op = "like" /\ req[r].pc = "delete"
    /\ likes' = likes \ {like}
    /\ likings' = [likings EXCEPT ![like] = @ - 1]
    /\ Displace(0, 1)
    /\ End(r)
    /\ UNCHANGED <<members, writes, posts, comments, used>>

-----------------------------------------------------------------------------
(* Comments *)

\* createComment finds the post, updateComment and deleteComment the comment.
BeginComment(r) ==
    Ready(r) /\ \E u \in Users :
        /\ Registered(u)
        /\ \/ \E x \in posts :
                 Begin(r, u, [Idle EXCEPT !.op = "comment", !.pc = "create", !.target = x.id])
           \/ \E c \in comments, pc \in {"update", "delete"} :
                 /\ c.author = u
                 /\ Begin(r, u, [Idle EXCEPT !.op = "comment", !.pc = pc, !.target = c.id])
        /\ UNCHANGED <<members, tables, feed>>

\* Mutation: a post that was found is still there.
CreateCommentUnlocked(r) ==
    LET q == req[r] IN
    /\ q.op = "comment" /\ q.pc = "create"
    /\ \E id \in CommentIds \ used :
             /\ comments' = comments \cup {[id |-> id, post |-> q.target, author |-> q.user]}
             /\ used' = used \cup {id}
    /\ End(r)
    /\ UNCHANGED <<members, writes, posts, likes, likings, feed>>

\* Under KEY SHARE locks on the users and the post, which withstand a toggle.
CreateComment(r) ==
    LET q == req[r] IN
    /\ q.op = "comment" /\ q.pc = "create"
    /\ IF Exists(q.target) /\ Registered(q.user)
       THEN \E id \in CommentIds \ used :
             /\ comments' = comments \cup {[id |-> id, post |-> q.target, author |-> q.user]}
             /\ used' = used \cup {id}
       ELSE UNCHANGED <<comments, used>>
    /\ End(r)
    /\ UNCHANGED <<members, writes, posts, likes, likings, feed>>

\* Only contents are updated; a comment that is gone, or another's, is an error.
ChangeComment(r) ==
    LET q == req[r]
        found == {c \in comments : c.id = q.target /\ c.author = q.user}
    IN
    /\ q.op = "comment" /\ q.pc \in {"update", "delete"}
    /\ comments' = IF q.pc = "delete" THEN comments \ found ELSE comments
    /\ End(r)
    /\ UNCHANGED <<members, writes, posts, likes, used, likings, feed>>

-----------------------------------------------------------------------------
(* The feed of an address, and the posts of a mogak: the same pages *)

Before(sort, x, y) ==
    LET a == IF sort = "likeCnt" THEN LikeCount(x.id) ELSE x.at
        b == IF sort = "likeCnt" THEN LikeCount(y.id) ELSE y.at
    IN  a > b \/ (a = b /\ x.id > y.id)

PageOffset(page) == page * PageSize

Rank(sort, x) == Cardinality({y \in posts : Before(sort, y, x)})

\* Mutation: no more than a page is read.
RowsOfAPage(sort, page) ==
    {x \in posts : Rank(sort, x) \in PageOffset(page) .. PageOffset(page) + PageSize - 1}

\* LIMIT size + 1 OFFSET page * size.
Rows(sort, page) ==
    {x \in posts : Rank(sort, x) \in PageOffset(page) .. PageOffset(page) + PageSize}

\* The row beyond the page only tells that there is a next one.
Shown(sort, page) == {x.id : x \in {y \in Rows(sort, page) : Rank(sort, y) < PageOffset(page + 1)}}

\* A client reads the first page, then the next until it is told the last.
ReadPage(c) ==
    \E sort \in {"createdAt", "likeCnt"} :
        LET f == feed[c]
            page == IF f.pc = "idle" THEN 0 ELSE f.page + 1
        IN
        /\ f.pc = "idle" \/ (f.sort = sort /\ ~f.last)
        /\ feed' = [feed EXCEPT ![c] =
              [f EXCEPT !.pc = "reading", !.sort = sort, !.page = page, !.seen = @ \cup Shown(sort, page),
                        !.first = IF f.pc = "idle" THEN {x.id : x \in posts} ELSE @,
                        !.last = Cardinality(Rows(sort, page)) <= PageSize]]
        /\ UNCHANGED <<members, writes, req, tables>>

EndFeed(c) ==
    /\ feed[c].pc = "reading"
    /\ feed' = [feed EXCEPT ![c] = NoFeed]
    /\ UNCHANGED <<members, writes, req, tables>>

-----------------------------------------------------------------------------

\* deleteUser waits for the transactions that hold the user or a post of it,
\* or a post it liked or commented on.
DeleteUser ==
    \E u \in Users :
        LET own == {x.id : x \in {y \in posts : y.author = u}}
            touched == own \cup {k[1] : k \in {l \in likes : l[2] = u}}
                           \cup {c.post : c \in {d \in comments : d.author = u}}
        IN
        /\ writes < MaxWrites /\ writes' = writes + 1
        /\ nickname[u] # Gone /\ ~Shared(u)
        /\ \A p \in touched : ~Toggling(p)
        /\ ForgetMember(u)
        /\ posts' = {x \in posts : x.id \notin own}
        /\ likes' = {k \in likes : k[1] \notin own /\ k[2] # u}
        /\ comments' = {c \in comments : c.post \notin own /\ c.author # u}
        /\ likings' = [k \in PostIds \X Users |-> IF k[1] \in own \/ k[2] = u THEN 0 ELSE likings[k]]
        /\ Displace(Cardinality(own), Cardinality({k \in likes : k[1] \notin own /\ k[2] = u}))
        /\ UNCHANGED <<used, req>>

\* An await fails and the transaction, if any, is rolled back.
Fail(r) ==
    /\ req[r].pc # "idle"
    /\ End(r)
    /\ UNCHANGED <<members, writes, tables, feed>>

Init ==
    /\ InitMembers
    /\ req = [r \in Writers |-> Idle]
    /\ posts = {[id |-> p, author |-> InitialPosts[p], at |-> 0] : p \in DOMAIN InitialPosts}
    /\ used = DOMAIN InitialPosts
    /\ likes = InitialLikes /\ comments = {}
    /\ likings = [k \in PostIds \X Users |-> IF k \in InitialLikes THEN 1 ELSE 0]
    /\ feed = [c \in Readers |-> NoFeed]

Write(r) ==
    \/ WriteOfMember(r) /\ UNCHANGED <<tables, feed>>
    \/ BeginPost(r) \/ InsertPost(r)
    \/ FindPost(r) \/ LockPost(r) \/ InsertLike(r) \/ DeleteLike(r)
    \/ BeginComment(r) \/ CreateComment(r) \/ ChangeComment(r)
    \/ Fail(r)

Next ==
    \/ \E r \in Writers : Write(r)
    \/ \E c \in Readers : ReadPage(c) \/ EndFeed(c)
    \/ DeleteOwnedPost \/ DeleteUser

Spec == Init /\ [][Next]_vars

-----------------------------------------------------------------------------
(* Properties *)

\* The answers to toggles and to follows add up to what is stored: a like or a
\* follow is there exactly if it was once more made than removed, whatever
\* requests of one user run at the same time.
AnswersAddUp ==
    /\ \A k \in PostIds \X Users : likings[k] = IF k \in likes THEN 1 ELSE 0
    /\ \A p \in Pairs : followings[p] = IF p \in follows THEN 1 ELSE 0

\* A client that reads pages until it is told the last misses no more posts
\* than were removed meanwhile, and in the order of likes than likes changed:
\* new posts, also ones with an older createdAt, hide nothing.
PagesMissOnlyWhatMoved ==
    \A c \in Readers : feed[c].last =>
        Cardinality({p \in feed[c].first \ feed[c].seen : Exists(p)})
            <= feed[c].removed + (IF feed[c].sort = "likeCnt" THEN feed[c].liked ELSE 0)
=============================================================================
