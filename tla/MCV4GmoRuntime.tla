--------------------------- MODULE MCV4GmoRuntime ---------------------------
(***************************************************************************)
(* Small instances of V4GmoRuntime for TLC.                                *)
(***************************************************************************)
EXTENDS V4GmoRefinement, TLC

MCSide == [c \in Cycle |-> "BUY"]
Symmetry == Permutations(Proc) \cup Permutations(Cycle)

=============================================================================
