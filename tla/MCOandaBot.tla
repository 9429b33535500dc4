------------------------------ MODULE MCOandaBot ----------------------------
(***************************************************************************)
(* Small instances of OandaBot.  Clients, runner threads and orders are    *)
(* alike.                                                                  *)
(***************************************************************************)
EXTENDS OandaBotOverlap, TLC

Symmetry == Permutations(Client) \cup Permutations(Loop) \cup Permutations(Order)

=============================================================================
