------------------------------ MODULE MCCiRemote ------------------------------
(* Instances of CiRemote. *)
EXTENDS CiRemote

(* A step with one unit of output and one with two. *)
ShortThenLong == <<1, 2>>
=============================================================================
