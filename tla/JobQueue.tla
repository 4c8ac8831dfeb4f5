------------------------------ MODULE JobQueue ------------------------------
(***************************************************************************)
(* What the job queue promises to whoever pushes: a job waits, is held by  *)
(* a runner, waits again for its next attempt, and is settled once and for *)
(* all; two jobs of one ref are never held at once.  Nothing is said of    *)
(* files, leases, tokens or crashes.  CiQueue implements it.               *)
(***************************************************************************)
EXTENDS Naturals

CONSTANTS
  Jobs, \* job ids
  Ref   \* the ref of each job

VARIABLES
  phase,  \* where each job is
  attempt \* which attempt waits or is held

vars == <<phase, attempt>>

Phases == {"new", "waiting", "held", "settled"}
In(p) == {j \in Jobs : phase[j] = p}

(* A push brings a job.  It may settle jobs that wait, or be settled at    *)
(* once when a newer one is there already.                                 *)
Push(j, dropped) ==
  /\ j \in In("new")
  /\ dropped \subseteq In("waiting") \cup {j}
  /\ phase' = [k \in Jobs |-> IF k \in dropped THEN "settled"
                              ELSE IF k = j THEN "waiting" ELSE phase[k]]
  /\ attempt' = [k \in Jobs |-> IF k \in dropped THEN 0
                                ELSE IF k = j THEN 1 ELSE attempt[k]]

RefIsFree(j) == \A k \in In("held") : k # j => Ref[k] # Ref[j]

Take(j) ==
  /\ j \in In("waiting")
  /\ RefIsFree(j)
  /\ phase' = [phase EXCEPT ![j] = "held"]
  /\ UNCHANGED attempt

(* The job is put back and taken again in one step. *)
TakeAgain(j) ==
  /\ j \in In("held")
  /\ RefIsFree(j)
  /\ attempt' = [attempt EXCEPT ![j] = @ + 1]
  /\ UNCHANGED phase

(* Holders are lost or give up: some jobs wait for their next attempt, the *)
(* others are settled.                                                     *)
PutBack(back, settled) ==
  /\ back \subseteq In("held") /\ settled \subseteq In("held") \ back
  /\ phase' = [j \in Jobs |-> IF j \in back THEN "waiting"
                              ELSE IF j \in settled THEN "settled" ELSE phase[j]]
  /\ attempt' = [j \in Jobs |-> IF j \in back THEN attempt[j] + 1
                                ELSE IF j \in settled THEN 0 ELSE attempt[j]]

Init ==
  /\ phase = [j \in Jobs |-> "new"]
  /\ attempt = [j \in Jobs |-> 0]

Next ==
  \/ \E j \in Jobs : \/ \E dropped \in SUBSET Jobs : Push(j, dropped)
                     \/ Take(j) \/ TakeAgain(j)
  \/ \E back, settled \in SUBSET Jobs : PutBack(back, settled)

Spec == Init /\ [][Next]_vars
=============================================================================
