--------------------------- MODULE MCJogakExecution ---------------------------
(* Small instances of JogakExecution. *)
EXTENDS JogakExecution, TLC

MCSchedules == {Dates, {}}

Symmetry == Permutations(Requests)
=============================================================================
