------------------------ MODULE MCV4GmoActualLiveness -----------------------
(***************************************************************************)
(* Small instances of V4GmoActualLiveness for TLC.                         *)
(***************************************************************************)
EXTENDS V4GmoActualLiveness

=============================================================================
