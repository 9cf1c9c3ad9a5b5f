--------------------------- MODULE MCUniqueTasks ---------------------------
(* Instances of UniqueTasks for TLC. *)
EXTENDS UniqueTasksRefinement, TLC

CONSTANT k1

OneKey == [c \in Calls |-> k1]
CallSymmetry == Permutations(Calls)

=============================================================================
