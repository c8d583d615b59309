------------------------------ MODULE MCCommunity ------------------------------
(* Two members, one with two posts, the older of which the other likes; *)
(* and one who may join.                                               *)
EXTENDS Community, TLC

CONSTANTS u1, u2, u3, n1, n2

MCInitialNickname == u1 :> n1 @@ u2 :> n2 @@ u3 :> None
MCInitialPosts == 1 :> u1 @@ 2 :> u1
MCInitialLikes == {<<1, u2>>}

\* All consents; the marketing consents alone.
MCSelections == {<<TRUE, TRUE, TRUE>>, 2 :> FALSE @@ 3 :> TRUE}

Symmetry == Permutations(Writers)
=============================================================================
