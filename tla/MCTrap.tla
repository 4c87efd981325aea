------------------------------ MODULE MCTrap -------------------------------
(* Instances of Trap for TLC: tasks other than the first are interchangeable. *)
EXTENDS Trap, TLC

Symmetry == Permutations(Tasks \ {First})
=============================================================================
