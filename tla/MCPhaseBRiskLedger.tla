-------------------------- MODULE MCPhaseBRiskLedger -------------------------
(***************************************************************************)
(* Small instances of PhaseBRiskLedger for TLC.                            *)
(***************************************************************************)
EXTENDS PhaseBRiskLedger, TLC

Symmetry == Permutations(Trade)

=============================================================================
