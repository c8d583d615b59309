-------------------------- MODULE MCHierarchyCapacity --------------------------
(* Small instances of HierarchyCapacity. *)
EXTENDS HierarchyCapacity, TLC

Symmetry == Permutations(Requests) \cup Permutations(MogakIds) \cup Permutations(JogakIds)
=============================================================================
