-------------------------- MODULE MCV4GmoActualPath -------------------------
(***************************************************************************)
(* Small instances of V4GmoActualPath for TLC.                             *)
(***************************************************************************)
EXTENDS V4GmoActualRefinement, TLC

\* Signals and sessions are interchangeable.
Symmetry == Permutations(Signal) \cup Permutations(Proc)

=============================================================================
