--------------------------- MODULE MCV4GmoLiveness --------------------------
(***************************************************************************)
(* Small instances of V4GmoLiveness for TLC.                               *)
(***************************************************************************)
EXTENDS V4GmoLiveness, V4GmoRefinement

MCSide == [c \in Cycle |-> "BUY"]

=============================================================================
