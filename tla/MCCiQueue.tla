------------------------------ MODULE MCCiQueue ------------------------------
(* Small instances of CiQueue.  "main" is the default branch, "v1" a tag.  *)
EXTENDS CiQueue

CONSTANT Primary_, Other

MCRunners == {Primary_, Other}
MCRefs == {"main", "v1"}
MCBranches == {"main"}

(* Two pushes to the default branch, for any runner. *)
MainRef == [j \in Jobs |-> "main"]
Anyone == [j \in Jobs |-> MCRunners]
(* The older of two pushes asks for a label only the primary has. *)
Labelled == [j \in Jobs |-> IF j = 1 THEN {Primary_} ELSE MCRunners]
=============================================================================
