---------------------------- MODULE MCCiWorkflow ----------------------------
(* Instances of CiWorkflow: an older workflow of two jobs, the second of   *)
(* which needs the first or not, and a newer workflow of one job.          *)
EXTENDS CiWorkflow, TLC

TwoGroups == {1, 2}
ThreeChildren == {3, 4, 5}
OwnGroup == (3 :> 1) @@ (4 :> 1) @@ (5 :> 2)
Chain == (3 :> {}) @@ (4 :> {3}) @@ (5 :> {})
Parallel == (3 :> {}) @@ (4 :> {}) @@ (5 :> {})
Everywhere == [c \in ThreeChildren |-> {"primary", "remote"}]


=============================================================================
