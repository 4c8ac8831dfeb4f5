----------------------------- MODULE MCClientSync -----------------------------
(* Three folders on a laptop that reports names, two of them of one name,  *)
(* and one folder on a desktop that reports its path.                      *)
EXTENDS ClientSync

Where == [c \in Checkouts |-> IF c = "desk" THEN "desktop" ELSE "laptop"]
Called == [c \in Checkouts |-> IF c = "site" THEN "site" ELSE "web"]
=============================================================================
