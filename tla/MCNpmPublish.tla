--------------------------- MODULE MCNpmPublish ---------------------------
(***************************************************************************)
(* NpmPublish for TLC: three jobs, two commits of one version and one of   *)
(* another.                                                                *)
(***************************************************************************)
EXTENDS NpmPublish, TLC

CONSTANTS c1, c2, c3

MCVersionOf == c1 :> 1 @@ c2 :> 1 @@ c3 :> 2

(* The environment of the step as the workflow gives it.                   *)
AsWritten == [phase |-> "missing", rootAndApprovals |-> FALSE]
(* The same with a phase, which lets the steps after the gate run.         *)
WithPhase == [phase |-> "prepare", rootAndApprovals |-> FALSE]
=============================================================================
