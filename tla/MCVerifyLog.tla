---------------------------- MODULE MCVerifyLog ----------------------------
(***************************************************************************)
(* Instances of VerifyLog for TLC.                                         *)
(***************************************************************************)
EXTENDS VerifyLog

Symmetry == Permutations(Writers)

=============================================================================
