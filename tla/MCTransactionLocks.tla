------------------------- MODULE MCTransactionLocks -------------------------
(* Small databases for TransactionLocks. *)
EXTENDS TransactionLocks, TLC

\* Rows as tables and ids, and the foreign keys of each.
gate == <<"gate", 1>>
u1 == <<"users", 1>>
u2 == <<"users", 2>>
m1 == <<"modarats", 1>>
g1 == <<"mogaks", 1>>
j1 == <<"jogaks", 1>>
j2 == <<"jogaks", 2>>
e1 == <<"executions", 1>>
p1 == <<"posts", 1>>
c1 == <<"comments", 1>>
c2 == <<"comments", 2>>
l1 == <<"likes", 1>>
f12 == <<"follows", 1>>
f21 == <<"follows", 2>>
s1 == <<"sessions", 1>>
s2 == <<"sessions", 2>>
s3 == <<"sessions", 3>>
s4 == <<"sessions", 4>>

References ==
    m1 :> {u1} @@ p1 :> {u1} @@ s1 :> {u1} @@ s2 :> {u1} @@ s3 :> {u1} @@ s4 :> {u1} @@
    g1 :> {m1} @@
    j1 :> {g1} @@ j2 :> {g1} @@
    e1 :> {j1} @@
    c1 :> {p1, u2} @@ c2 :> {p1, u2} @@ l1 :> {p1, u2} @@
    f12 :> {u1, u2} @@
    f21 :> {u2, u1}

MCTable == [x \in Rows |-> x[1]]
MCId == [x \in Rows |-> x[2]]
MCRefs == [x \in Rows |-> IF x \in DOMAIN References THEN References[x] \cap Rows ELSE {}]
MCOccurrence == [x \in {y \in Rows : y[1] = "posts"} |-> e1]
MCExpired == {s1, s2} \cap Rows

Call(kind, row) == [kind |-> kind, row |-> row]
Calls(kinds, rows) == {Call(k, x) : k \in kinds, x \in rows}

\* A hierarchy whose rows are created, changed and deleted, and the sessions of
\* its user.
HierarchyRows == {gate, u1, m1, g1, j1, e1, j2, p1, s1, s2, s3, s4}
HierarchyLive == {gate, u1, m1, g1, j1, s1, s2}
HierarchyCalls ==
    Calls({"insert"}, {j2, e1, p1, s3, s4}) \cup
    Calls({"delete"}, {g1, j1, s1}) \cup
    {Call("update", e1), Call("update", j1), Call("withdraw", u1)}

\* Logins of one user, who has expired sessions.
LoginRows == {gate, u1, s1, s2, s3, s4}
LoginLive == {gate, u1, s1, s2}
LoginCalls == Calls({"insert"}, {s3, s4})

\* Two users around one post, following each other.
SocialRows == {gate, u1, u2, e1, p1, c1, c2, l1, f12, f21}
SocialLive == SocialRows \ {e1, c2}
SocialCalls ==
    Calls({"withdraw"}, {u1, u2}) \cup
    Calls({"delete"}, {p1, f12}) \cup
    Calls({"insert"}, {c2, f12}) \cup
    {Call("update", c1), Call("update", u2), Call("toggle", l1)}

Symmetry == Permutations(Txs)
=============================================================================
