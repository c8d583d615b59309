-------------------------- MODULE MCBoundedThrottler --------------------------
(* Small instances of BoundedThrottler. *)
EXTENDS BoundedThrottler, TLC

CONSTANTS k1, k2, k3

MCLimit == [k \in Keys |-> IF k = k1 THEN 2 ELSE 1]

\* Keys with one limit are alike, and so are identities.
Symmetry == Permutations(Keys \ {k1}) \cup Permutations(Ids)
=============================================================================
