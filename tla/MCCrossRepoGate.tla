-------------------------- MODULE MCCrossRepoGate --------------------------
(***************************************************************************)
(* CrossRepoGate for TLC.                                                  *)
(***************************************************************************)
EXTENDS CrossRepoGate, TLC

CONSTANTS g1, g2

OneGate == {g1}
TwoGates == {g1, g2}
Symmetry == Permutations(Gates)

(* A revision changes the pin publication and the managed data.            *)
ByRevision == [r \in Revisions |-> r]

(* Everything is released or edited together, or one sibling on its own.   *)
TogetherOrAlone == {Artifacts} \cup {{a} : a \in Artifacts}
Together == {Artifacts}
=============================================================================
