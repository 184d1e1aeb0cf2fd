------------------------ MODULE MCSourcePinVerifier ------------------------
(***************************************************************************)
(* SourcePinVerifier for TLC: the script's two pins and two revisions,     *)
(* which no action tells apart.                                            *)
(***************************************************************************)
EXTENDS SourcePinVerifier, TLC

Symmetry == Permutations(Versions)
=============================================================================
