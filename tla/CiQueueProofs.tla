---------------------------- MODULE CiQueueProofs ----------------------------
(* Theorems about the CI job queue, for every value of its constants. *)
EXTENDS CiQueue, TLAPS

USE DEF Active, Terminal

(* The runner states that At builds are well formed. *)
LEMMA AtType ==
  ASSUME NEW p \in Places
  PROVE  /\ At(p) \in RunState
         /\ At(p).pc = p
  BY DEF At, RunState

(* A missing lease reads as a well-formed one. *)
LEMMA NoLeaseType == NoLease \in Lease
  BY QueueAssumption DEF NoLease, Lease

(* Rec builds well-formed records. *)
LEMMA RecType ==
  ASSUME NEW s \in {"None"} \cup Active \cup Terminal, NEW n \in Nat
  PROVE  /\ Rec(s, n) \in Record
         /\ Rec(s, n).status = s
         /\ Rec(s, n).attempt = n
  BY DEF Rec, Record

(* The empty queue is well typed. *)
LEMMA InitType == Init => TypeOK
  BY AtType, NoLeaseType, QueueAssumption
  DEF Init, TypeOK, NoRecord, Record, Places, At

(* requeueLocked keeps the types of the variables it writes. *)
LEMMA RequeueType ==
  ASSUME TypeOK, NEW L \in SUBSET Jobs, NEW enforce \in BOOLEAN,
         requeueLocked(L, enforce)
  PROVE  /\ spool' \in [Jobs -> Nat]
         /\ working' \in [Jobs -> Nat]
         /\ lease' \in [Jobs -> Lease]
         /\ drawn' \in [Jobs -> Nat]
         /\ young' \subseteq Jobs
         /\ rec' \in [Jobs -> Record]
         /\ cancel' \subseteq Jobs
         /\ site' \in Jobs \cup {0}
<1>1. /\ spool' \in [Jobs -> Nat]
      /\ working' \in [Jobs -> Nat]
  BY DEF requeueLocked, TypeOK
<1>2. lease' \in [Jobs -> Lease]
  BY NoLeaseType DEF requeueLocked, TypeOK
<1>3. /\ young' \subseteq Jobs
      /\ cancel' \subseteq Jobs
      /\ site' \in Jobs \cup {0}
      /\ drawn' \in [Jobs -> Nat]
  BY DEF requeueLocked, TypeOK, Back
<1>4. rec' \in [Jobs -> Record]
  <2>1. ASSUME NEW j \in Jobs
        PROVE  /\ Reset(j) \in Record
               /\ Rec("Error", IF rec[j].status = "None" THEN 1
                                   ELSE rec[j].attempt) \in Record
               /\ Rec("Cancelled", working[j]) \in Record
               /\ rec[j] \in Record
    BY RecType DEF TypeOK, Reset, Record
  <2> QED BY <2>1 DEF requeueLocked
<1> QED BY <1>1, <1>2, <1>3, <1>4

(* The reaper only looks at jobs. *)
LEMMA LapsedJobs ==
  ASSUME NEW b \in BOOLEAN
  PROVE  Lapsed(b) \in SUBSET Jobs
  BY DEF Lapsed

(* Pushes, cancel requests, time and interrupted reaps keep the types. *)
LEMMA EnvironmentType ==
  ASSUME TypeOK, NEW j \in Jobs, Environment(j)
  PROVE  TypeOK'
<1>1. CASE enqueueCiJob(j)
  <2>1. spool' \in [Jobs -> Nat]
    BY <1>1 DEF enqueueCiJob, TypeOK
  <2>2. rec' \in [Jobs -> Record]
    <3>1. \A k \in Jobs : /\ Rec("Cancelled", 1) \in Record
                          /\ Rec("Pending", 1) \in Record
                          /\ Rec("Cancelled", spool[k]) \in Record
                          /\ rec[k] \in Record
      BY RecType DEF TypeOK
    <3> QED BY <1>1, <3>1 DEF enqueueCiJob
  <2> QED BY <1>1, <2>1, <2>2 DEF enqueueCiJob, TypeOK, Marked, Outdated, Rivals, history
<1>2. CASE age(j)
  BY <1>2 DEF age, TypeOK, history
<1>3. CASE requestCiCancel(j)
  BY <1>3 DEF requestCiCancel, TypeOK, history, queueFiles
<1>4. CASE leaseLapses(j)
  <2>1. lease' \in [Jobs -> Lease]
    BY <1>4 DEF leaseLapses, TypeOK, Lease
  <2> QED BY <1>4, <2>1 DEF leaseLapses, TypeOK, history
<1>5. ASSUME NEW done \in {"record", "spool", "working"}, reapInterrupted(j, done)
      PROVE  TypeOK'
  <2>1. Reset(j) \in Record
    BY RecType DEF Reset, TypeOK
  <2> QED BY <1>5, <2>1 DEF reapInterrupted, TypeOK
<1> QED BY <1>1, <1>2, <1>3, <1>4, <1>5 DEF Environment

(* Every step of a runner keeps the types. *)
LEMMA WorkType ==
  ASSUME TypeOK, NEW r \in Runners, Work(r)
  PROVE  TypeOK'
<1> USE DEF Places
<1>a. /\ At("idle") \in RunState /\ At("idle").pc = "idle"
      /\ At("down") \in RunState /\ At("down").pc = "down"
      /\ At("claimed") \in RunState /\ At("claimed").pc = "claimed"
  BY AtType
<1>b. /\ run \in [Runners -> RunState]
      /\ run[r] \in RunState
      /\ \A q \in Runners : run[q].pc \notin {"idle", "down"} => run[q].job \in Jobs
  BY DEF TypeOK
<1>1. ASSUME NEW j \in Jobs, claimCiJob(r, j)
      PROVE  TypeOK'
  <2>1. [runner |-> r, token |-> drawn[j] + 1, lapsed |-> FALSE] \in Lease
    BY DEF Lease, TypeOK
  <2>2. [At("claimed") EXCEPT !.job = j, !.token = drawn[j] + 1,
                              !.attempt = spool[j]] \in RunState
    <3>1. drawn[j] + 1 \in Nat /\ spool[j] \in Nat
      BY DEF TypeOK
    <3> QED BY <3>1 DEF At, RunState
  <2>3. run' \in [Runners -> RunState]
    BY <1>1, <1>b, <2>2 DEF claimCiJob
  <2>4. \A q \in Runners : run'[q].pc \notin {"idle", "down"} => run'[q].job \in Jobs
    BY <1>1, <1>b DEF claimCiJob, At
  <2> QED BY <1>1, <2>1, <2>3, <2>4 DEF claimCiJob, TypeOK, history
<1>2. ASSUME NEW j \in Jobs, claimInterrupted(r, j)
      PROVE  TypeOK'
  BY <1>2, <1>a, <1>b DEF claimInterrupted, TypeOK
<1>3. CASE renewCiLease(r)
  <2>1. CASE Holds(r)
    <3>1. /\ lease' = [lease EXCEPT ![run[r].job].lapsed = FALSE]
          /\ UNCHANGED run
          /\ run[r].job \in Jobs
      BY <1>3, <1>b, <2>1 DEF renewCiLease
    <3>2. lease' \in [Jobs -> Lease]
      BY <3>1 DEF TypeOK, Lease
    <3> QED BY <1>3, <3>1, <3>2 DEF renewCiLease, TypeOK, history
  <2>2. CASE ~Holds(r)
    <3>1. run' = [run EXCEPT ![r] = At("idle")] /\ UNCHANGED lease
      BY <1>3, <2>2 DEF renewCiLease
    <3> QED BY <1>3, <3>1, <1>a, <1>b DEF renewCiLease, TypeOK, history
  <2> QED BY <2>1, <2>2
<1>4. ASSUME NEW s \in {"Cancelled", "Skipped", "Error"}, recordCiOutcome(r, s)
      PROVE  TypeOK'
  <2>1. Rec(s, run[r].attempt) \in Record
    BY <1>b, RecType DEF RunState
  <2>2. run' \in [Runners -> RunState]
    BY <1>4, <1>b DEF recordCiOutcome, RunState
  <2>3. \A q \in Runners : run'[q].pc \notin {"idle", "down"} => run'[q].job \in Jobs
    BY <1>4, <1>b DEF recordCiOutcome, RunState
  <2> QED BY <1>4, <2>1, <2>2, <2>3 DEF recordCiOutcome, TypeOK, history, queueFiles
<1>5. CASE runStarted(r)
  <2>1. Rec("Running", run[r].attempt) \in Record
    BY <1>b, RecType DEF RunState
  <2>2. run' \in [Runners -> RunState]
    BY <1>5, <1>b DEF runStarted, RunState
  <2>3. \A q \in Runners : run'[q].pc \notin {"idle", "down"} => run'[q].job \in Jobs
    BY <1>5, <1>b DEF runStarted, RunState
  <2> QED BY <1>5, <2>1, <2>2, <2>3 DEF runStarted, TypeOK, history, queueFiles
<1>6. CASE progress(r)
  <2>1. Rec("Running", run[r].attempt) \in Record
    BY <1>b, RecType DEF RunState
  <2> QED BY <1>6, <2>1 DEF progress, TypeOK, history, queueFiles
<1>7. ASSUME NEW s \in {"Success", "Failure", "Cancelled"}, finish(r, s)
      PROVE  TypeOK'
  <2>2. run' \in [Runners -> RunState]
    BY <1>7, <1>a, <1>b DEF finish, RunState
  <2>3. \A q \in Runners : run'[q].pc \notin {"idle", "down"} => run'[q].job \in Jobs
    BY <1>7, <1>a, <1>b DEF finish, RunState
  <2> QED BY <1>7, <2>2, <2>3 DEF finish, TypeOK, history, queueFiles
<1>8. CASE commitDecides(r)
  <2>1. /\ Result(r) \in {"None"} \cup Terminal
        /\ Publishes(r) \in BOOLEAN
    BY <1>b DEF Result, Publishes, RunState
  <2>2. run' \in [Runners -> RunState]
    BY <1>8, <1>b, <2>1 DEF commitDecides, RunState
  <2>3. \A q \in Runners : run'[q].pc \notin {"idle", "down"} => run'[q].job \in Jobs
    BY <1>8, <1>b DEF commitDecides, RunState
  <2> QED BY <1>8, <2>2, <2>3 DEF commitDecides, TypeOK, history, queueFiles
<1>9. ASSUME NEW published \in BOOLEAN, commitCiRun(r, published)
      PROVE  TypeOK'
  <2>1. Rec(IF run[r].publish /\ ~published THEN "Error" ELSE run[r].result,
            run[r].attempt) \in Record
    BY <1>b, RecType DEF RunState
  <2>2. run' \in [Runners -> RunState]
    BY <1>9, <1>b DEF commitCiRun, RunState
  <2>3. \A q \in Runners : run'[q].pc \notin {"idle", "down"} => run'[q].job \in Jobs
    BY <1>9, <1>b DEF commitCiRun, RunState
  <2>4. run[r].job \in Jobs
    BY <1>9, <1>b DEF commitCiRun
  <2> QED BY <1>9, <2>1, <2>2, <2>3, <2>4 DEF commitCiRun, TypeOK, history, queueFiles
<1>10. CASE releaseCiClaim(r)
  BY <1>10, <1>a, <1>b, NoLeaseType DEF releaseCiClaim, RemoveClaim, TypeOK, history
<1>11. CASE releaseCiJob(r)
  BY <1>11, <1>a, <1>b, NoLeaseType DEF releaseCiJob, RemoveClaim, TypeOK, history
<1>12. CASE abandonCiJob(r)
  <2>1. /\ run' \in [Runners -> RunState]
        /\ \A q \in Runners : run'[q].pc \notin {"idle", "down"} => run'[q].job \in Jobs
        /\ crashes' \in Nat /\ interrupts' \in Nat
    BY <1>12, <1>a, <1>b DEF abandonCiJob, TypeOK
  <2>2. run[r].job \in Jobs
    BY <1>12, <1>b DEF abandonCiJob
  <2>3. CASE Holds(r)
    <3>1. requeueLocked({run[r].job}, FALSE)
      BY <1>12, <2>3, Zenon DEF abandonCiJob
    <3>2. gaveBack' = [gaveBack EXCEPT ![run[r].job] = @ + 1]
      BY <1>12, <2>3, Zenon DEF abandonCiJob
    <3>3. gaveBack' \in [Jobs -> Nat]
      BY <3>2, <2>2 DEF TypeOK
    <3> QED BY <2>1, <2>2, <3>1, <3>3, RequeueType DEF TypeOK
  <2>4. CASE ~Holds(r)
    <3>1. /\ lease' \in [Jobs -> Lease]
          /\ UNCHANGED <<spool, working, drawn, young, rec, cancel, site, gaveBack>>
      BY <1>12, <2>4, NoLeaseType DEF abandonCiJob, TypeOK
    <3> QED BY <2>1, <3>1 DEF TypeOK
  <2> QED BY <2>3, <2>4
<1>13. CASE crash(r)
  BY <1>13, <1>a, <1>b DEF crash, TypeOK, queueFiles
<1> QED BY <1>1, <1>2, <1>3, <1>4, <1>5, <1>6, <1>7, <1>8, <1>9, <1>10,
           <1>11, <1>12, <1>13 DEF Work

(* Every step keeps the types. *)
LEMMA NextType == TypeOK /\ [Next]_vars => TypeOK'
<1> SUFFICES ASSUME TypeOK, [Next]_vars
             PROVE  TypeOK'
  OBVIOUS
<1>1. CASE reapCiLeases
  BY <1>1, RequeueType, LapsedJobs DEF reapCiLeases, TypeOK, history
<1>2. CASE restart
  <2>1. /\ At("idle") \in RunState /\ At("idle").pc = "idle"
    BY AtType DEF Places
  <2>2. /\ run' \in [Runners -> RunState]
        /\ \A q \in Runners : run'[q].pc \notin {"idle", "down"} => run'[q].job \in Jobs
    BY <1>2, <2>1 DEF restart, TypeOK
  <2>3. UNCHANGED history
    BY <1>2 DEF restart
  <2>4. requeueLocked(Lapsed(TRUE), TRUE)
    BY <1>2 DEF restart
  <2> QED BY <2>2, <2>3, <2>4, RequeueType, LapsedJobs DEF TypeOK, history
<1>3. CASE UNCHANGED vars
  BY <1>3 DEF vars, TypeOK
<1> QED BY <1>1, <1>2, <1>3, EnvironmentType, WorkType DEF Next

(* Type correctness: the records, leases and attempt numbers that the      *)
(* queue operations and the runners write stay well formed.                *)
THEOREM TypeCorrect == Spec => []TypeOK
  BY InitType, NextType, PTL DEF Spec

-----------------------------------------------------------------------------
(* Attempts: the bound is inductive on its own, because a give-back raises *)
(* it by the one attempt it adds and a reap gives up at the limit.         *)

(* requeueLocked keeps the attempt bound, if a give-back counts itself. *)
LEMMA AttemptsRequeue ==
  ASSUME TypeOK, AttemptsBounded, NEW L \in SUBSET Jobs, NEW enforce \in BOOLEAN,
         requeueLocked(L, enforce),
         gaveBack' \in [Jobs -> Nat],
         \A j \in Jobs : gaveBack'[j] >= gaveBack[j],
         ~enforce => \A j \in L : gaveBack'[j] > gaveBack[j]
  PROVE  AttemptsBounded'
<1> SUFFICES ASSUME NEW j \in Jobs
             PROVE  /\ spool'[j] <= MaxAttempts + gaveBack'[j]
                    /\ working'[j] <= MaxAttempts + gaveBack'[j]
  BY DEF AttemptsBounded
<1>1. /\ spool[j] \in Nat /\ working[j] \in Nat
      /\ gaveBack[j] \in Nat /\ gaveBack'[j] \in Nat
      /\ MaxAttempts \in Nat \ {0}
      /\ spool[j] <= MaxAttempts + gaveBack[j]
      /\ working[j] <= MaxAttempts + gaveBack[j]
      /\ gaveBack'[j] >= gaveBack[j]
  BY QueueAssumption DEF TypeOK, AttemptsBounded
<1>2. working'[j] <= MaxAttempts + gaveBack'[j]
  BY <1>1 DEF requeueLocked
<1>3. CASE j \in Back(L, enforce)
  <2>1. spool'[j] = working[j] + 1
    BY <1>3 DEF requeueLocked
  <2>2. j \in L /\ (enforce => ~(working[j] >= MaxAttempts))
    BY <1>3 DEF Back, GivenUp
  <2> QED BY <1>1, <1>2, <2>1, <2>2
<1>4. CASE j \notin Back(L, enforce)
  <2>1. spool'[j] = 0 \/ spool'[j] = spool[j]
    BY <1>4 DEF requeueLocked
  <2> QED BY <1>1, <1>2, <2>1
<1> QED BY <1>3, <1>4

(* Every step keeps the attempt bound. *)
LEMMA AttemptsStep == TypeOK /\ AttemptsBounded /\ [Next]_vars => AttemptsBounded'
<1> SUFFICES ASSUME TypeOK, AttemptsBounded, [Next]_vars
             PROVE  AttemptsBounded'
  OBVIOUS
<1>a. TypeOK'
  BY NextType
<1>b. /\ MaxAttempts \in Nat \ {0}
      /\ spool \in [Jobs -> Nat] /\ working \in [Jobs -> Nat]
      /\ gaveBack \in [Jobs -> Nat]
  BY QueueAssumption DEF TypeOK
<1>c. ASSUME UNCHANGED <<spool, working, gaveBack>>
      PROVE  AttemptsBounded'
  BY <1>c DEF AttemptsBounded
<1>1. ASSUME NEW j \in Jobs, Environment(j)
      PROVE  AttemptsBounded'
  <2>1. CASE enqueueCiJob(j)
    <3>1. /\ UNCHANGED <<working, gaveBack>>
          /\ \A k \in Jobs : spool'[k] \in {0, 1, spool[k]}
      BY <2>1 DEF enqueueCiJob, history
    <3> QED BY <3>1, <1>b DEF AttemptsBounded
  <2>2. CASE age(j)
    BY <2>2, <1>c DEF age, history
  <2>3. CASE requestCiCancel(j)
    BY <2>3, <1>c DEF requestCiCancel, history, queueFiles
  <2>4. CASE leaseLapses(j)
    BY <2>4, <1>c DEF leaseLapses, history
  <2>5. ASSUME NEW done \in {"record", "spool", "working"}, reapInterrupted(j, done)
        PROVE  AttemptsBounded'
    <3>1. ~(working[j] >= MaxAttempts)
      BY <2>5 DEF reapInterrupted, Back, GivenUp
    <3>2. /\ UNCHANGED gaveBack
          /\ \A k \in Jobs : \/ spool'[k] = spool[k]
                             \/ k = j /\ spool'[k] = working[k] + 1
          /\ \A k \in Jobs : working'[k] \in {0, working[k]}
      BY <2>5, <1>b DEF reapInterrupted
    <3> QED BY <3>1, <3>2, <1>b DEF AttemptsBounded
  <2> QED BY <1>1, <2>1, <2>2, <2>3, <2>4, <2>5 DEF Environment
<1>2. ASSUME NEW r \in Runners, Work(r)
      PROVE  AttemptsBounded'
  <2>1. ASSUME NEW j \in Jobs, claimCiJob(r, j) \/ claimInterrupted(r, j)
        PROVE  AttemptsBounded'
    <3>1. /\ spool' = [spool EXCEPT ![j] = 0]
          /\ working' = [working EXCEPT ![j] = spool[j]]
          /\ UNCHANGED gaveBack
      BY <2>1 DEF claimCiJob, claimInterrupted, history
    <3> QED BY <3>1, <1>b DEF AttemptsBounded
  <2>2. CASE renewCiLease(r)
    BY <2>2, <1>c DEF renewCiLease, history
  <2>3. ASSUME NEW s \in {"Cancelled", "Skipped", "Error"}, recordCiOutcome(r, s)
        PROVE  AttemptsBounded'
    BY <2>3, <1>c DEF recordCiOutcome, history, queueFiles
  <2>4. CASE runStarted(r)
    BY <2>4, <1>c DEF runStarted, history, queueFiles
  <2>5. CASE progress(r)
    BY <2>5, <1>c DEF progress, history, queueFiles
  <2>6. ASSUME NEW s \in {"Success", "Failure", "Cancelled"}, finish(r, s)
        PROVE  AttemptsBounded'
    BY <2>6, <1>c DEF finish, history, queueFiles
  <2>7. CASE commitDecides(r)
    BY <2>7, <1>c DEF commitDecides, history, queueFiles
  <2>8. ASSUME NEW published \in BOOLEAN, commitCiRun(r, published)
        PROVE  AttemptsBounded'
    BY <2>8, <1>c DEF commitCiRun, history, queueFiles
  <2>9. CASE releaseCiClaim(r) \/ releaseCiJob(r)
    <3>1. /\ UNCHANGED <<spool, gaveBack>>
          /\ \A k \in Jobs : working'[k] \in {0, working[k]}
      BY <2>9, <1>b DEF releaseCiClaim, releaseCiJob, RemoveClaim, history
    <3> QED BY <3>1, <1>b DEF AttemptsBounded
  <2>10. CASE abandonCiJob(r)
    <3>1. run[r].job \in Jobs
      BY <2>10 DEF abandonCiJob, TypeOK
    <3>2. CASE Holds(r)
      <4>1. requeueLocked({run[r].job}, FALSE)
        BY <2>10, <3>2, Zenon DEF abandonCiJob
      <4>2. gaveBack' = [gaveBack EXCEPT ![run[r].job] = @ + 1]
        BY <2>10, <3>2, Zenon DEF abandonCiJob
      <4>3. /\ gaveBack' \in [Jobs -> Nat]
            /\ \A j \in Jobs : gaveBack'[j] >= gaveBack[j]
            /\ \A j \in {run[r].job} : gaveBack'[j] > gaveBack[j]
        BY <3>1, <4>2, <1>b
      <4> QED BY <3>1, <4>1, <4>3, AttemptsRequeue
    <3>3. CASE ~Holds(r)
      <4>1. UNCHANGED <<spool, working, gaveBack>>
        BY <2>10, <3>3 DEF abandonCiJob
      <4> QED BY <4>1, <1>c
    <3> QED BY <3>2, <3>3
  <2>11. CASE crash(r)
    BY <2>11, <1>c DEF crash, queueFiles
  <2> QED BY <1>2, <2>1, <2>2, <2>3, <2>4, <2>5, <2>6, <2>7, <2>8, <2>9,
             <2>10, <2>11 DEF Work
<1>3. CASE reapCiLeases \/ restart
  <2>1. PICK b \in BOOLEAN : requeueLocked(Lapsed(b), TRUE)
    BY <1>3, Zenon DEF reapCiLeases, restart
  <2>2. UNCHANGED gaveBack
    BY <1>3 DEF reapCiLeases, restart, history
  <2>3. /\ gaveBack' \in [Jobs -> Nat]
        /\ \A j \in Jobs : gaveBack'[j] >= gaveBack[j]
    BY <2>2, <1>b
  <2> QED BY <2>1, <2>3, LapsedJobs, AttemptsRequeue
<1>4. CASE UNCHANGED vars
  BY <1>4, <1>c DEF vars
<1> QED BY <1>1, <1>2, <1>3, <1>4 DEF Next

(* However often runners and the host are lost, a job is attempted at most *)
(* ci_max_attempts times plus once for every time a runner handed it back. *)
THEOREM AttemptsAreBounded == Spec => []AttemptsBounded
<1>1. Init => AttemptsBounded
  BY QueueAssumption DEF Init, AttemptsBounded
<1> QED BY <1>1, AttemptsStep, TypeCorrect, PTL DEF Spec

-----------------------------------------------------------------------------
(* Claims.  The inductive invariant behind OneRunPerRef: no two claimed    *)
(* jobs share a ref, and no two runners carry the same token of a job.     *)

Busy(r) == run[r].pc \notin {"idle", "down"}

ClaimsApart ==
  \A j, k \in Jobs : j # k /\ Claimed(j) /\ Claimed(k) => Ref[j] # Ref[k]

TokensApart ==
  /\ \A r \in Runners : Busy(r) => run[r].token \in 1 .. drawn[run[r].job]
  /\ \A r, q \in Runners :
       r # q /\ Busy(r) /\ Busy(q) /\ run[r].job = run[q].job
         => run[r].token # run[q].token
  /\ \A r \in Runners : TokenMatches(r) => lease[run[r].job].runner = r

(* What every step but a claim leaves alone: it draws no token, gives no   *)
(* runner a job, puts nothing into working/ and hands no lease over.       *)
NoNewClaim ==
  /\ drawn' = drawn
  /\ \A q \in Runners : Busy(q)' => /\ Busy(q)
                                    /\ run'[q].job = run[q].job
                                    /\ run'[q].token = run[q].token
  /\ \A j \in Jobs : \/ lease'[j].token = 0
                     \/ /\ lease'[j].token = lease[j].token
                        /\ lease'[j].runner = lease[j].runner
  /\ \A j \in Jobs : Claimed(j)' => Claimed(j)

ClaimStep == \E r \in Runners, j \in Jobs :
               claimCiJob(r, j) \/ claimInterrupted(r, j)

(* requeueLocked takes claims away and gives none. *)
LEMMA RequeueClaims ==
  ASSUME TypeOK, NEW L \in SUBSET Jobs, NEW enforce \in BOOLEAN,
         requeueLocked(L, enforce)
  PROVE  /\ drawn' = drawn
         /\ \A j \in Jobs : \/ lease'[j].token = 0
                            \/ lease'[j] = lease[j]
         /\ \A j \in Jobs : Claimed(j)' => Claimed(j)
  BY DEF requeueLocked, NoLease, Claimed, TypeOK

(* Every step but a claim is a NoNewClaim step. *)
LEMMA OtherSteps ==
  ASSUME TypeOK, TypeOK', [Next]_vars, ~ClaimStep
  PROVE  NoNewClaim
<1> USE DEF Busy, Claimed
<1>a. ASSUME NEW r \in Runners, run' = [run EXCEPT ![r] = At("idle")]
      PROVE  \A q \in Runners : Busy(q)' => /\ Busy(q)
                                            /\ run'[q].job = run[q].job
                                            /\ run'[q].token = run[q].token
  BY <1>a DEF At, TypeOK
<1>b. ASSUME UNCHANGED <<drawn, lease, working, run>>
      PROVE  NoNewClaim
  BY <1>b DEF NoNewClaim
<1>1. ASSUME NEW j \in Jobs, Environment(j)
      PROVE  NoNewClaim
  <2>1. CASE enqueueCiJob(j)
    BY <2>1, <1>b DEF enqueueCiJob
  <2>2. CASE age(j)
    BY <2>2, <1>b DEF age
  <2>3. CASE requestCiCancel(j)
    BY <2>3, <1>b DEF requestCiCancel, queueFiles
  <2>4. CASE leaseLapses(j)
    <3>1. /\ UNCHANGED <<drawn, working, run>>
          /\ \A k \in Jobs : /\ lease'[k].token = lease[k].token
                             /\ lease'[k].runner = lease[k].runner
      BY <2>4 DEF leaseLapses, TypeOK, Lease
    <3> QED BY <3>1 DEF NoNewClaim
  <2>5. ASSUME NEW done \in {"record", "spool", "working"}, reapInterrupted(j, done)
        PROVE  NoNewClaim
    BY <2>5 DEF reapInterrupted, NoNewClaim, TypeOK
  <2> QED BY <1>1, <2>1, <2>2, <2>3, <2>4, <2>5 DEF Environment
<1>2. ASSUME NEW r \in Runners, Work(r)
      PROVE  NoNewClaim
  <2>1. CASE renewCiLease(r)
    <3>1. CASE Holds(r)
      <4>1. /\ UNCHANGED <<drawn, working, run>>
            /\ lease' = [lease EXCEPT ![run[r].job].lapsed = FALSE]
        BY <2>1, <3>1 DEF renewCiLease
      <4>2. \A k \in Jobs : /\ lease'[k].token = lease[k].token
                            /\ lease'[k].runner = lease[k].runner
        BY <4>1 DEF TypeOK, Lease
      <4> QED BY <4>1, <4>2 DEF NoNewClaim
    <3>2. CASE ~Holds(r)
      <4>1. UNCHANGED <<drawn, working, lease>> /\ run' = [run EXCEPT ![r] = At("idle")]
        BY <2>1, <3>2 DEF renewCiLease
      <4> QED BY <4>1, <1>a DEF NoNewClaim
    <3> QED BY <3>1, <3>2
  <2>2. ASSUME NEW s \in {"Cancelled", "Skipped", "Error"}, recordCiOutcome(r, s)
        PROVE  NoNewClaim
    BY <2>2 DEF recordCiOutcome, queueFiles, NoNewClaim, TypeOK, RunState
  <2>3. CASE runStarted(r)
    BY <2>3 DEF runStarted, queueFiles, NoNewClaim, TypeOK, RunState
  <2>4. CASE progress(r)
    BY <2>4, <1>b DEF progress, queueFiles
  <2>5. ASSUME NEW s \in {"Success", "Failure", "Cancelled"}, finish(r, s)
        PROVE  NoNewClaim
    <3>1. UNCHANGED <<drawn, lease, working>>
      BY <2>5 DEF finish, queueFiles
    <3>2. CASE run' = [run EXCEPT ![r] = At("idle")]
      BY <3>1, <3>2, <1>a DEF NoNewClaim
    <3>3. CASE run' = [run EXCEPT ![r] = [run[r] EXCEPT !.pc = "commit", !.result = s]]
      <4>1. Busy(r)
        BY <2>5 DEF finish
      <4>2. \A q \in Runners : /\ run'[q].job = run[q].job
                               /\ run'[q].token = run[q].token
                               /\ q # r => run'[q] = run[q]
        BY <3>3 DEF TypeOK, RunState
      <4> QED BY <3>1, <4>1, <4>2 DEF NoNewClaim
    <3> QED BY <2>5, <3>2, <3>3 DEF finish
  <2>6. CASE commitDecides(r)
    BY <2>6 DEF commitDecides, queueFiles, NoNewClaim, TypeOK, RunState
  <2>7. ASSUME NEW published \in BOOLEAN, commitCiRun(r, published)
        PROVE  NoNewClaim
    BY <2>7 DEF commitCiRun, queueFiles, NoNewClaim, TypeOK, RunState
  <2>8. CASE releaseCiClaim(r) \/ releaseCiJob(r)
    <3>1. /\ run' = [run EXCEPT ![r] = At("idle")]
          /\ drawn' = drawn
      BY <2>8 DEF releaseCiClaim, releaseCiJob
    <3>2. \/ UNCHANGED <<working, lease>>
          \/ RemoveClaim(run[r].job)
      BY <2>8 DEF releaseCiClaim, releaseCiJob
    <3>3. \A k \in Jobs : /\ \/ lease'[k].token = 0
                             \/ lease'[k] = lease[k]
                          /\ Claimed(k)' => Claimed(k)
      BY <3>2 DEF RemoveClaim, NoLease, TypeOK
    <3> QED BY <3>1, <3>3, <1>a DEF NoNewClaim
  <2>9. CASE abandonCiJob(r)
    <3>1. run[r].job \in Jobs /\ run' = [run EXCEPT ![r] = At("idle")]
      BY <2>9 DEF abandonCiJob, TypeOK
    <3>2. CASE Holds(r)
      <4>1. requeueLocked({run[r].job}, FALSE)
        BY <2>9, <3>2, Zenon DEF abandonCiJob
      <4>2. /\ drawn' = drawn
            /\ \A j \in Jobs : \/ lease'[j].token = 0
                               \/ lease'[j] = lease[j]
            /\ \A j \in Jobs : Claimed(j)' => Claimed(j)
        BY <3>1, <4>1, RequeueClaims
      <4> QED BY <3>1, <4>2, <1>a DEF NoNewClaim
    <3>3. CASE ~Holds(r)
      <4>1. /\ UNCHANGED <<drawn, working>>
            /\ \/ lease' = [lease EXCEPT ![run[r].job] = NoLease]
               \/ lease' = lease
        BY <2>9, <3>3 DEF abandonCiJob
      <4>2. \A j \in Jobs : lease'[j].token = 0 \/ lease'[j] = lease[j]
        BY <4>1 DEF NoLease, TypeOK
      <4> QED BY <3>1, <4>1, <4>2, <1>a DEF NoNewClaim
    <3> QED BY <3>2, <3>3
  <2>10. CASE crash(r)
    BY <2>10 DEF crash, At, queueFiles, NoNewClaim, TypeOK
  <2> QED BY <1>2, <2>1, <2>2, <2>3, <2>4, <2>5, <2>6, <2>7, <2>8, <2>9,
             <2>10 DEF Work, ClaimStep
<1>3. CASE reapCiLeases
  <2>1. requeueLocked(Lapsed(FALSE), TRUE) /\ UNCHANGED run
    BY <1>3 DEF reapCiLeases
  <2> QED BY <2>1, LapsedJobs, RequeueClaims DEF NoNewClaim
<1>4. CASE restart
  <2>1. requeueLocked(Lapsed(TRUE), TRUE)
    BY <1>4 DEF restart
  <2>2. run' = [run EXCEPT ![Primary] = At("idle")]
    BY <1>4 DEF restart
  <2> QED BY <2>1, <2>2, <1>a, QueueAssumption, LapsedJobs, RequeueClaims DEF NoNewClaim
<1>5. CASE UNCHANGED vars
  BY <1>5, <1>b DEF vars
<1> QED BY <1>1, <1>2, <1>3, <1>4, <1>5 DEF Next

(* No step lets two claimed jobs share a ref. *)
LEMMA ClaimsStep ==
  TypeOK /\ TypeOK' /\ ClaimsApart /\ [Next]_vars => ClaimsApart'
<1> SUFFICES ASSUME TypeOK, TypeOK', ClaimsApart, [Next]_vars
             PROVE  ClaimsApart'
  OBVIOUS
<1>1. CASE ~ClaimStep
  BY <1>1, OtherSteps DEF NoNewClaim, ClaimsApart
<1>2. ASSUME NEW r \in Runners, NEW j \in Jobs,
             claimCiJob(r, j) \/ claimInterrupted(r, j)
      PROVE  ClaimsApart'
  <2>1. /\ working' = [working EXCEPT ![j] = spool[j]]
        /\ \A k \in Jobs \ {j} : Ref[k] = Ref[j] => ~Claimed(k)
    BY <1>2 DEF claimCiJob, claimInterrupted, Oldest, Eligible
  <2>2. \A k \in Jobs : k # j => working'[k] = working[k]
    BY <2>1 DEF TypeOK
  <2> QED BY <2>1, <2>2 DEF ClaimsApart, Claimed
<1> QED BY <1>1, <1>2 DEF ClaimStep

(* No step gives two runners the same token of a job. *)
LEMMA TokensStep ==
  TypeOK /\ TypeOK' /\ TokensApart /\ [Next]_vars => TokensApart'
<1> SUFFICES ASSUME TypeOK, TypeOK', TokensApart, [Next]_vars
             PROVE  TokensApart'
  OBVIOUS
<1> USE DEF Busy, TokenMatches
<1>1. CASE ~ClaimStep
  <2>1. NoNewClaim
    BY <1>1, OtherSteps
  <2>2. \A q \in Runners : Busy(q)' => run[q].job \in Jobs
    BY <2>1 DEF NoNewClaim, TypeOK
  <2>3. \A q \in Runners : Busy(q)' => run'[q].token \in 1 .. drawn'[run'[q].job]
    BY <2>1 DEF NoNewClaim, TokensApart
  <2>4. \A q \in Runners : TokenMatches(q)' => lease'[run'[q].job].runner = q
    <3> SUFFICES ASSUME NEW q \in Runners, TokenMatches(q)'
                 PROVE  lease'[run'[q].job].runner = q
      OBVIOUS
    <3>1. /\ Busy(q) /\ run'[q].job = run[q].job /\ run'[q].token = run[q].token
          /\ run[q].job \in Jobs
      BY <2>1, <2>2 DEF NoNewClaim
    <3>2. run'[q].token # 0
      BY <3>1, <2>3 DEF TypeOK
    <3>3. /\ lease'[run[q].job].token = lease[run[q].job].token
          /\ lease'[run[q].job].runner = lease[run[q].job].runner
      BY <2>1, <3>1, <3>2 DEF NoNewClaim
    <3> QED BY <3>1, <3>3 DEF TokensApart
  <2> QED BY <2>1, <2>3, <2>4 DEF NoNewClaim, TokensApart
<1>2. ASSUME NEW r \in Runners, NEW j \in Jobs, claimCiJob(r, j)
      PROVE  TokensApart'
  <2>1. /\ drawn[j] \in Nat
        /\ drawn' = [drawn EXCEPT ![j] = @ + 1]
        /\ lease' = [lease EXCEPT ![j] = [runner |-> r, token |-> drawn[j] + 1,
                                          lapsed |-> FALSE]]
        /\ \A q \in Runners : q # r => run'[q] = run[q]
        /\ Busy(r)' /\ run'[r].job = j /\ run'[r].token = drawn[j] + 1
    BY <1>2 DEF claimCiJob, At, TypeOK, RunState
  <2>2. \A q \in Runners : q # r /\ Busy(q) =>
           /\ run[q].job \in Jobs
           /\ run[q].token \in 1 .. drawn[run[q].job]
    BY DEF TokensApart, TypeOK
  <2>3. \A q \in Runners : Busy(q)' => run'[q].token \in 1 .. drawn'[run'[q].job]
    BY <2>1, <2>2 DEF TypeOK
  <2>4. \A p, q \in Runners :
          p # q /\ Busy(p)' /\ Busy(q)' /\ run'[p].job = run'[q].job
            => run'[p].token # run'[q].token
    BY <2>1, <2>2 DEF TokensApart
  <2>5. \A q \in Runners : TokenMatches(q)' => lease'[run'[q].job].runner = q
    BY <2>1, <2>2 DEF TokensApart, TypeOK
  <2> QED BY <2>3, <2>4, <2>5 DEF TokensApart
<1>3. ASSUME NEW r \in Runners, NEW j \in Jobs, claimInterrupted(r, j)
      PROVE  TokensApart'
  <2>1. /\ UNCHANGED <<drawn, lease>>
        /\ \A q \in Runners : q # r => run'[q] = run[q]
        /\ ~Busy(r)'
    BY <1>3 DEF claimInterrupted, At, TypeOK
  <2> QED BY <2>1 DEF TokensApart
<1> QED BY <1>1, <1>2, <1>3 DEF ClaimStep

(* The claims stay apart in every behaviour. *)
LEMMA ClaimsInvariant == Spec => [](TypeOK /\ ClaimsApart /\ TokensApart)
<1>1. Init => ClaimsApart /\ TokensApart
  BY DEF Init, ClaimsApart, TokensApart, Claimed, Busy, TokenMatches, At
<1> QED BY <1>1, ClaimsStep, TokensStep, TypeCorrect, PTL DEF Spec

(* Two runners whose claims both stand never work on the same ref, nor on  *)
(* the same job: claimCiJob's test for a busy ref and its fresh tokens     *)
(* keep them apart through lapsed leases, requeues and crashes.            *)
THEOREM OneRunPerRefHolds == Spec => []OneRunPerRef
<1>1. TypeOK /\ ClaimsApart /\ TokensApart => OneRunPerRef
  BY DEF OneRunPerRef, ClaimsApart, TokensApart, Holds, TokenMatches, Busy, TypeOK
<1> QED BY <1>1, ClaimsInvariant, PTL

-----------------------------------------------------------------------------
(* No job is lost.  A claim that nothing has checked since it was taken or *)
(* renewed still stands (Fresh, Kept); a runner about to release has       *)
(* recorded its result (Settled, HasResult); every job in the queue has a  *)
(* record (Known), so it is queued only once.                              *)

Fresh(q) ==
  run[q].pc \in {"claimed", "releaseJob"} =>
    /\ Holds(q)
    /\ ~lease[run[q].job].lapsed
    /\ spool[run[q].job] = 0

Kept(q) ==
  run[q].pc \in {"commit", "publish", "release"} /\ TokenMatches(q) =>
    /\ Claimed(run[q].job)
    /\ ~lease[run[q].job].lapsed

Settled(q) ==
  run[q].pc \in {"release", "releaseJob"} /\ TokenMatches(q) =>
    rec[run[q].job].status \in Terminal

HasResult(q) ==
  run[q].pc \in {"commit", "publish"} => run[q].result \in Terminal

Known == \A j \in Jobs : Queued(j) \/ Claimed(j) => rec[j].status # "None"

Safe(q) == Fresh(q) /\ Kept(q) /\ Settled(q) /\ HasResult(q)

ClaimInv ==
  /\ TypeOK /\ ClaimsApart /\ TokensApart
  /\ Known /\ NoJobLost
  /\ \A q \in Runners : Safe(q)

(* A step that leaves a runner and the claim it relies on alone keeps what *)
(* Safe says of that runner; it may also take the claim of a runner that   *)
(* will notice.                                                            *)
LEMMA Undisturbed ==
  ASSUME TypeOK, NEW q \in Runners, Safe(q), run'[q] = run[q],
         run[q].pc \in Unchecked =>
           \/ /\ lease'[run[q].job] = lease[run[q].job]
              /\ working[run[q].job] > 0 => working'[run[q].job] > 0
              /\ spool[run[q].job] = 0 => spool'[run[q].job] = 0
              /\ TokenMatches(q) /\ rec[run[q].job].status \in Terminal
                   => rec'[run[q].job].status \in Terminal
           \/ ~TokenMatches(q)' /\ run[q].pc \notin {"claimed", "releaseJob"}
  PROVE  Safe(q)'
  BY DEF Safe, Fresh, Kept, Settled, HasResult, Holds, TokenMatches, Claimed, Unchecked

(* A runner that has let go of its job satisfies Safe trivially. *)
LEMMA Elsewhere ==
  ASSUME NEW q \in Runners, run'[q].pc \in {"idle", "down", "running"}
  PROVE  Safe(q)'
  BY DEF Safe, Fresh, Kept, Settled, HasResult

(* The runner whose standing claim is the lease of a job is unique. *)
LEMMA OneHolder ==
  ASSUME TokensApart, NEW r \in Runners, NEW q \in Runners,
         TokenMatches(r), TokenMatches(q), run[r].job = run[q].job
  PROVE  r = q
  BY DEF TokensApart, TokenMatches, Busy

(* requeueLocked never takes a claim that Safe protects, provided that the *)
(* claims it takes are lapsed or their runner is not among the protected.  *)
LEMMA RequeueSafe ==
  ASSUME ClaimInv, NEW L \in SUBSET Jobs, NEW enforce \in BOOLEAN,
         requeueLocked(L, enforce), NEW q \in Runners, run'[q] = run[q],
         run[q].job \in L => ~(TokenMatches(q) /\ run[q].pc \in Unchecked)
  PROVE  Safe(q)'
<1> SUFFICES ASSUME run[q].pc \in Unchecked
             PROVE  \/ /\ lease'[run[q].job] = lease[run[q].job]
                       /\ working[run[q].job] > 0 => working'[run[q].job] > 0
                       /\ spool[run[q].job] = 0 => spool'[run[q].job] = 0
                       /\ TokenMatches(q) /\ rec[run[q].job].status \in Terminal
                            => rec'[run[q].job].status \in Terminal
                    \/ ~TokenMatches(q)' /\ run[q].pc \notin {"claimed", "releaseJob"}
  BY Undisturbed DEF ClaimInv
<1>1. run[q].job \in Jobs
  BY DEF ClaimInv, TypeOK, Unchecked
<1>2. CASE run[q].job \in L
  <2>1. ~TokenMatches(q) /\ run[q].pc \notin {"claimed", "releaseJob"}
    BY <1>2 DEF ClaimInv, Safe, Fresh, Holds
  <2>2. lease'[run[q].job].token = 0 /\ run[q].token # 0
    BY <1>1, <1>2 DEF requeueLocked, NoLease, ClaimInv, TokensApart, Busy, Unchecked, TypeOK
  <2> QED BY <2>1, <2>2 DEF TokenMatches
<1>3. CASE run[q].job \notin L
  <2>1. /\ lease'[run[q].job] = lease[run[q].job]
        /\ working'[run[q].job] = working[run[q].job]
        /\ spool'[run[q].job] = spool[run[q].job]
        /\ rec'[run[q].job] = rec[run[q].job]
    BY <1>1, <1>3 DEF requeueLocked, Back, GivenUp
  <2> QED BY <2>1
<1> QED BY <1>2, <1>3

(* requeueLocked loses no job. *)
LEMMA RequeueKeepsJobs ==
  ASSUME ClaimInv, NEW L \in SUBSET Jobs, NEW enforce \in BOOLEAN,
         requeueLocked(L, enforce)
  PROVE  Known' /\ NoJobLost'
<1> SUFFICES ASSUME NEW j \in Jobs
             PROVE  /\ Queued(j)' \/ Claimed(j)' => rec'[j].status # "None"
                    /\ rec'[j].status \in Active => Queued(j)' \/ Claimed(j)'
  BY DEF Known, NoJobLost
<1>a. /\ spool[j] \in Nat /\ working[j] \in Nat
      /\ Queued(j) \/ Claimed(j) => rec[j].status # "None"
      /\ rec[j].status \in Active => Queued(j) \/ Claimed(j)
  BY DEF ClaimInv, TypeOK, Known, NoJobLost
<1>1. CASE j \in Back(L, enforce)
  BY <1>1, <1>a DEF requeueLocked, Queued, Reset, Rec
<1>2. CASE j \in L /\ j \notin Back(L, enforce)
  <2>1. rec'[j].status \in {"Error", "Cancelled"}
    BY <1>2 DEF requeueLocked, Rec
  <2> QED BY <2>1
<1>3. CASE j \notin L
  <2>1. /\ spool'[j] = spool[j] /\ working'[j] = working[j] /\ rec'[j] = rec[j]
    BY <1>3 DEF requeueLocked, Back, GivenUp
  <2> QED BY <2>1, <1>a DEF Queued, Claimed
<1> QED BY <1>1, <1>2, <1>3

(* What the steps must keep besides types and claims. *)
Rest == Known /\ NoJobLost /\ \A q \in Runners : Safe(q)

(* Pushes, cancel requests, time and interrupted reaps lose no job. *)
LEMMA EnvironmentKeepsJobs ==
  ASSUME ClaimInv, TimelyWrites, NEW j \in Jobs, Environment(j)
  PROVE  Rest'
<1> USE DEF Queued, Claimed
<1>a. /\ TypeOK /\ Known /\ NoJobLost /\ TokensApart
      /\ \A q \in Runners : Safe(q)
      /\ \A q \in Runners : run[q].pc \in Unchecked => run[q].job \in Jobs
  BY DEF ClaimInv, TypeOK, Unchecked
<1>b. \A q \in Runners : run[q].pc \in Unchecked /\ TokenMatches(q)
         => /\ Claimed(run[q].job) /\ ~lease[run[q].job].lapsed
            /\ rec[run[q].job].status # "None"
  BY <1>a DEF Unchecked, Safe, Fresh, Kept, Holds, Known
<1>c. \A q \in Runners : run[q].pc \in {"claimed", "releaseJob"} => TokenMatches(q)
  BY <1>a DEF Safe, Fresh, Holds
<1>1. CASE enqueueCiJob(j)
  <2>1. /\ UNCHANGED <<working, lease, run>>
        /\ rec[j].status = "None"
        /\ rec'[j].status \in {"Cancelled", "Pending"}
        /\ rec'[j].status = "Pending" => spool'[j] = 1
        /\ \A k \in Jobs \ {j} : \/ spool'[k] = spool[k] /\ rec'[k] = rec[k]
                                 \/ spool'[k] = 0 /\ rec'[k].status = "Cancelled"
    BY <1>1 DEF enqueueCiJob, Rec
  <2>2. Known' /\ NoJobLost'
    BY <2>1, <1>a DEF Known, NoJobLost
  <2>3. ASSUME NEW q \in Runners
        PROVE  Safe(q)'
    <3>1. CASE run[q].pc \in Unchecked /\ ~TokenMatches(q)
      <4>1. ~TokenMatches(q)'
        BY <2>1, <3>1 DEF TokenMatches
      <4> QED BY <1>a, <1>c, <2>1, <3>1, <4>1, Undisturbed
    <3>2. CASE run[q].pc \in Unchecked /\ TokenMatches(q)
      <4>1. run[q].job \in Jobs \ {j}
        BY <1>a, <1>b, <2>1, <3>2
      <4> QED BY <1>a, <2>1, <4>1, Undisturbed
    <3>3. CASE run[q].pc \notin Unchecked
      BY <1>a, <2>1, <3>3, Undisturbed
    <3> QED BY <3>1, <3>2, <3>3
  <2> QED BY <2>2, <2>3 DEF Rest
<1>2. CASE age(j) \/ requestCiCancel(j)
  <2>1. UNCHANGED <<spool, working, lease, rec, run>>
    BY <1>2 DEF age, requestCiCancel, queueFiles
  <2>2. Known' /\ NoJobLost'
    BY <2>1, <1>a DEF Known, NoJobLost
  <2> QED BY <2>1, <2>2, <1>a, Undisturbed DEF Rest
<1>3. CASE leaseLapses(j)
  <2>1. /\ UNCHANGED <<spool, working, rec, run>>
        /\ lease' = [lease EXCEPT ![j].lapsed = TRUE]
        /\ \A r \in Runners : Holds(r) /\ run[r].job = j => run[r].pc \notin Unchecked
    BY <1>3 DEF leaseLapses
  <2>2. Known' /\ NoJobLost'
    BY <2>1, <1>a DEF Known, NoJobLost
  <2>3. \A k \in Jobs : lease'[k].token = lease[k].token /\ (k # j => lease'[k] = lease[k])
    BY <2>1 , <1>a DEF TypeOK, Lease
  <2>4. ASSUME NEW q \in Runners
        PROVE  Safe(q)'
    <3>1. CASE run[q].pc \in Unchecked /\ ~TokenMatches(q)
      <4>1. ~TokenMatches(q)'
        BY <2>1, <2>3, <1>a, <3>1 DEF TokenMatches
      <4> QED BY <1>a, <1>c, <2>1, <3>1, <4>1, Undisturbed
    <3>2. CASE run[q].pc \in Unchecked /\ TokenMatches(q)
      <4>1. run[q].job # j
        BY <1>b, <2>1, <3>2 DEF Holds
      <4> QED BY <1>a, <2>1, <2>3, <4>1, Undisturbed
    <3>3. CASE run[q].pc \notin Unchecked
      BY <1>a, <2>1, <3>3, Undisturbed
    <3> QED BY <3>1, <3>2, <3>3
  <2> QED BY <2>2, <2>4 DEF Rest
<1>4. ASSUME NEW done \in {"record", "spool", "working"}, reapInterrupted(j, done)
      PROVE  Rest'
  <2>1. /\ Claimed(j) /\ lease[j].lapsed
    BY <1>4 DEF reapInterrupted, Back, Lapsed
  <2>2. /\ UNCHANGED <<lease, run>>
        /\ rec'[j].status = "Pending"
        /\ spool'[j] = working[j] + 1 \/ (working'[j] = working[j] /\ spool'[j] = spool[j])
        /\ \A k \in Jobs \ {j} : /\ spool'[k] = spool[k]
                                 /\ working'[k] = working[k]
                                 /\ rec'[k] = rec[k]
    BY <1>4, <1>a DEF reapInterrupted, Reset, Rec, TypeOK
  <2>3. Known' /\ NoJobLost'
    BY <2>1, <2>2, <1>a DEF Known, NoJobLost, TypeOK
  <2>4. ASSUME NEW q \in Runners
        PROVE  Safe(q)'
    <3>1. CASE run[q].pc \in Unchecked /\ ~TokenMatches(q)
      <4>1. ~TokenMatches(q)'
        BY <2>2, <3>1 DEF TokenMatches
      <4> QED BY <1>a, <1>c, <2>2, <3>1, <4>1, Undisturbed
    <3>2. CASE run[q].pc \in Unchecked /\ TokenMatches(q)
      <4>1. run[q].job \in Jobs \ {j}
        BY <1>a, <1>b, <2>1, <3>2
      <4> QED BY <1>a, <2>2, <4>1, Undisturbed
    <3>3. CASE run[q].pc \notin Unchecked
      BY <1>a, <2>2, <3>3, Undisturbed
    <3> QED BY <3>1, <3>2, <3>3
  <2> QED BY <2>3, <2>4 DEF Rest
<1> QED BY <1>1, <1>2, <1>3, <1>4 DEF Environment

(* A claim, even an interrupted one, loses no job. *)
LEMMA ClaimsKeepJobs ==
  ASSUME ClaimInv, NEW r \in Runners, NEW j \in Jobs,
         claimCiJob(r, j) \/ claimInterrupted(r, j)
  PROVE  Rest'
<1> USE DEF Queued, Claimed
<1>a. /\ TypeOK /\ Known /\ NoJobLost /\ TokensApart
      /\ \A q \in Runners : Safe(q)
      /\ \A q \in Runners : run[q].pc \in Unchecked => run[q].job \in Jobs
  BY DEF ClaimInv, TypeOK, Unchecked
<1>1. /\ spool[j] > 0
      /\ spool' = [spool EXCEPT ![j] = 0]
      /\ working' = [working EXCEPT ![j] = spool[j]]
      /\ rec' = rec
      /\ \A q \in Runners : q # r => run'[q] = run[q]
  BY <1>a DEF claimCiJob, claimInterrupted, Oldest, Eligible, TypeOK
<1>2. Known' /\ NoJobLost'
  BY <1>1, <1>a DEF Known, NoJobLost, TypeOK
<1>3. ASSUME NEW q \in Runners, q # r
      PROVE  Safe(q)'
  <2>1. ASSUME run[q].pc \in Unchecked
        PROVE  \/ lease'[run[q].job] = lease[run[q].job]
               \/ ~TokenMatches(q)' /\ run[q].pc \notin {"claimed", "releaseJob"}
    <3>1. CASE run[q].job # j
      BY <1>a, <2>1, <3>1 DEF claimCiJob, claimInterrupted, TypeOK
    <3>2. CASE run[q].job = j
      <4>1. run[q].pc \notin {"claimed", "releaseJob"}
        BY <1>1, <1>a, <3>2 DEF Safe, Fresh
      <4>2. CASE claimInterrupted(r, j)
        BY <4>2, <3>2 DEF claimInterrupted
      <4>3. CASE claimCiJob(r, j)
        <5>1. lease'[j].token = drawn[j] + 1 /\ drawn[j] \in Nat
          BY <4>3, <1>a DEF claimCiJob, TypeOK
        <5>2. run[q].token \in 1 .. drawn[j]
          BY <1>a, <2>1, <3>2 DEF TokensApart, Busy, Unchecked
        <5>3. ~TokenMatches(q)'
          BY <1>1, <1>3, <3>2, <5>1, <5>2 DEF TokenMatches
        <5> QED BY <4>1, <5>3
      <4> QED BY <4>2, <4>3
    <3> QED BY <3>1, <3>2
  <2>2. run[q].pc \in Unchecked =>
          /\ working[run[q].job] > 0 => working'[run[q].job] > 0
          /\ spool[run[q].job] = 0 => spool'[run[q].job] = 0
    BY <1>1, <1>a DEF TypeOK
  <2> QED BY <1>1, <1>3, <1>a, <2>1, <2>2, Undisturbed
<1>4. Safe(r)'
  <2>1. CASE claimInterrupted(r, j)
    BY <2>1, <1>a, Elsewhere DEF claimInterrupted, At, TypeOK
  <2>2. CASE claimCiJob(r, j)
    <3>1. /\ run'[r].pc = "claimed" /\ run'[r].job = j
          /\ run'[r].token = drawn[j] + 1
          /\ lease'[j].token = drawn[j] + 1 /\ ~lease'[j].lapsed
          /\ spool'[j] = 0 /\ working'[j] > 0
      BY <2>2, <1>1, <1>a DEF claimCiJob, At, TypeOK, RunState, Lease
    <3> QED BY <3>1 DEF Safe, Fresh, Kept, Settled, HasResult, Holds, TokenMatches
  <2> QED BY <2>1, <2>2
<1> QED BY <1>2, <1>3, <1>4 DEF Rest

(* A record write by a runner whose claim stands, or that writes a         *)
(* terminal status, leaves every other runner as safe as it was.           *)
LEMMA WriterKeepsOthers ==
  ASSUME ClaimInv, NEW r \in Runners, Busy(r), NEW q \in Runners, q # r,
         UNCHANGED <<spool, working, lease>>, run'[q] = run[q],
         \A k \in Jobs : k # run[r].job => rec'[k] = rec[k],
         Holds(r) \/ rec'[run[r].job].status \in Terminal
  PROVE  Safe(q)'
<1> SUFFICES ASSUME run[q].pc \in Unchecked, TokenMatches(q),
                    rec[run[q].job].status \in Terminal
             PROVE  rec'[run[q].job].status \in Terminal
  BY Undisturbed DEF ClaimInv
<1>1. run[q].job \in Jobs
  BY DEF ClaimInv, TypeOK, Unchecked
<1>2. CASE run[q].job = run[r].job
  BY <1>2, OneHolder DEF ClaimInv, Holds
<1> QED BY <1>1, <1>2

(* No step of a runner loses a job. *)
LEMMA WorkKeepsJobs ==
  ASSUME ClaimInv, TimelyWrites, NEW r \in Runners, Work(r)
  PROVE  Rest'
<1> USE DEF Queued, Claimed
<1>a. /\ TypeOK /\ Known /\ NoJobLost /\ TokensApart
      /\ \A q \in Runners : Safe(q)
      /\ run \in [Runners -> RunState]
      /\ run[r].pc \notin {"idle", "down"} => run[r].job \in Jobs
  BY DEF ClaimInv, TypeOK
<1>1. ASSUME NEW j \in Jobs, claimCiJob(r, j) \/ claimInterrupted(r, j)
      PROVE  Rest'
  BY <1>1, ClaimsKeepJobs
<1>2. CASE renewCiLease(r)
  <2>1. /\ UNCHANGED <<spool, working, rec>>
        /\ run[r].pc = "running" /\ run[r].job \in Jobs
    BY <1>2, <1>a DEF renewCiLease
  <2>2. Known' /\ NoJobLost'
    BY <2>1, <1>a DEF Known, NoJobLost
  <2>3. CASE Holds(r)
    <3>1. run' = run /\ lease' = [lease EXCEPT ![run[r].job].lapsed = FALSE]
      BY <1>2, <2>3 DEF renewCiLease
    <3>2. ASSUME NEW q \in Runners
          PROVE  Safe(q)'
      <4>1. \A k \in Jobs : lease'[k].token = lease[k].token /\ (~lease[k].lapsed => ~lease'[k].lapsed)
        BY <3>1, <1>a DEF TypeOK, Lease
      <4>2. run[q].pc \in Unchecked => run[q].job \in Jobs
        BY <1>a DEF TypeOK, Unchecked
      <4> QED BY <4>1, <4>2, <3>1, <2>1, <1>a DEF Safe, Fresh, Kept, Settled, HasResult,
                 Holds, TokenMatches, Unchecked
    <3> QED BY <2>2, <3>2 DEF Rest
  <2>4. CASE ~Holds(r)
    <3>1. /\ lease' = lease
          /\ \A q \in Runners : q # r => run'[q] = run[q]
          /\ run'[r].pc = "idle"
      BY <1>2, <2>4, <1>a DEF renewCiLease, At
    <3>2. ASSUME NEW q \in Runners
          PROVE  Safe(q)'
      BY <3>1, <2>1, <1>a, Undisturbed, Elsewhere
    <3> QED BY <2>2, <3>2 DEF Rest
  <2> QED BY <2>3, <2>4
<1>3. ASSUME NEW s \in {"Cancelled", "Skipped", "Error"}, recordCiOutcome(r, s)
      PROVE  Rest'
  <2>1. /\ UNCHANGED <<spool, working, lease>>
        /\ run[r].pc = "claimed" /\ run[r].job \in Jobs
        /\ rec'[run[r].job].status = s
        /\ \A k \in Jobs : k # run[r].job => rec'[k] = rec[k]
        /\ \A q \in Runners : q # r => run'[q] = run[q]
        /\ run'[r].pc \in {"release", "releaseJob"}
        /\ run'[r].job = run[r].job /\ run'[r].token = run[r].token
    BY <1>3, <1>a DEF recordCiOutcome, Rec, queueFiles, TypeOK, RunState
  <2>2. Known' /\ NoJobLost'
    BY <2>1, <1>a DEF Known, NoJobLost
  <2>3. ASSUME NEW q \in Runners, q # r
        PROVE  Safe(q)'
    BY <2>1, <2>3, <1>a, WriterKeepsOthers DEF Busy
  <2>4. Safe(r)'
    BY <2>1, <1>a DEF Safe, Fresh, Kept, Settled, HasResult, Holds, TokenMatches
  <2> QED BY <2>2, <2>3, <2>4 DEF Rest
<1>4. CASE runStarted(r) \/ progress(r)
  <2>1. /\ UNCHANGED <<spool, working, lease>>
        /\ run[r].job \in Jobs /\ Busy(r)
        /\ rec'[run[r].job].status = "Running"
        /\ \A k \in Jobs : k # run[r].job => rec'[k] = rec[k]
        /\ \A q \in Runners : q # r => run'[q] = run[q]
        /\ run'[r].pc = "running"
    BY <1>4, <1>a DEF runStarted, progress, Rec, queueFiles, TypeOK, RunState, Busy
  <2>2. Holds(r)
    BY <1>4, <1>a, Zenon DEF runStarted, progress, InTime, Safe, Fresh
  <2>3. Known' /\ NoJobLost'
    BY <2>1, <2>2, <1>a DEF Known, NoJobLost, Holds
  <2>4. ASSUME NEW q \in Runners
        PROVE  Safe(q)'
    BY <2>1, <2>2, <2>4, <1>a, WriterKeepsOthers, Elsewhere
  <2> QED BY <2>3, <2>4 DEF Rest
<1>5. ASSUME NEW s \in {"Success", "Failure", "Cancelled"}, finish(r, s)
      PROVE  Rest'
  <2>1. /\ UNCHANGED <<spool, working, lease, rec>>
        /\ run[r].job \in Jobs /\ Busy(r)
        /\ \A q \in Runners : q # r => run'[q] = run[q]
    BY <1>5, <1>a DEF finish, queueFiles, Busy
  <2>2. Holds(r) /\ ~lease[run[r].job].lapsed
    BY <1>5, <1>a DEF finish, InTime
  <2>3. /\ run'[r].pc = "commit" /\ run'[r].result = s
        /\ run'[r].job = run[r].job /\ run'[r].token = run[r].token
    <3>1. run' = [run EXCEPT ![r] = [run[r] EXCEPT !.pc = "commit", !.result = s]]
      BY <1>5, <2>2 DEF finish
    <3> QED BY <3>1, <1>a DEF RunState
  <2>4. Known' /\ NoJobLost'
    BY <2>1, <1>a DEF Known, NoJobLost
  <2>5. ASSUME NEW q \in Runners, q # r
        PROVE  Safe(q)'
    BY <2>1, <2>5, <1>a, Undisturbed
  <2>6. Safe(r)'
    BY <2>1, <2>2, <2>3 DEF Safe, Fresh, Kept, Settled, HasResult, Holds, TokenMatches
  <2> QED BY <2>4, <2>5, <2>6 DEF Rest
<1>6. CASE commitDecides(r)
  <2>1. /\ UNCHANGED <<spool, working, lease, rec>>
        /\ run[r].job \in Jobs /\ run[r].pc = "commit"
        /\ \A q \in Runners : q # r => run'[q] = run[q]
        /\ run'[r].pc = "publish" /\ run'[r].result = Result(r)
        /\ run'[r].job = run[r].job /\ run'[r].token = run[r].token
    BY <1>6, <1>a DEF commitDecides, queueFiles, RunState
  <2>2. Known' /\ NoJobLost'
    BY <2>1, <1>a DEF Known, NoJobLost
  <2>3. ASSUME NEW q \in Runners, q # r
        PROVE  Safe(q)'
    BY <2>1, <2>3, <1>a, Undisturbed
  <2>4. Safe(r)'
    BY <2>1, <1>a DEF Safe, Fresh, Kept, Settled, HasResult, Holds, TokenMatches, Result
  <2> QED BY <2>2, <2>3, <2>4 DEF Rest
<1>7. ASSUME NEW published \in BOOLEAN, commitCiRun(r, published)
      PROVE  Rest'
  <2>1. /\ UNCHANGED <<spool, working, lease>>
        /\ run[r].job \in Jobs /\ run[r].pc = "publish"
        /\ \A q \in Runners : q # r => run'[q] = run[q]
        /\ run'[r].pc = "release"
        /\ run'[r].job = run[r].job /\ run'[r].token = run[r].token
        /\ rec'[run[r].job].status \in {"Error", run[r].result}
        /\ \A k \in Jobs : k # run[r].job => rec'[k] = rec[k]
    BY <1>7, <1>a DEF commitCiRun, queueFiles, RunState, Rec, TypeOK
  <2>2. rec'[run[r].job].status \in Terminal
    BY <2>1, <1>a DEF Safe, HasResult
  <2>3. Known' /\ NoJobLost'
    BY <2>1, <2>2, <1>a DEF Known, NoJobLost
  <2>4. ASSUME NEW q \in Runners, q # r
        PROVE  Safe(q)'
    BY <2>1, <2>2, <2>4, WriterKeepsOthers DEF Busy
  <2>5. Safe(r)'
    BY <2>1, <2>2, <1>a DEF Safe, Fresh, Kept, Settled, HasResult, Holds, TokenMatches
  <2> QED BY <2>3, <2>4, <2>5 DEF Rest
<1>8. CASE releaseCiClaim(r) \/ releaseCiJob(r)
  <2>1. /\ run[r].job \in Jobs /\ run[r].pc \in {"release", "releaseJob"}
        /\ \A q \in Runners : q # r => run'[q] = run[q]
        /\ run'[r].pc = "idle"
        /\ UNCHANGED <<spool, rec>>
        /\ UNCHANGED <<working, lease>> \/ RemoveClaim(run[r].job)
    BY <1>8, <1>a DEF releaseCiClaim, releaseCiJob, At
  <2>2. CASE UNCHANGED <<working, lease>>
    <3>1. Known' /\ NoJobLost'
      BY <2>1, <2>2, <1>a DEF Known, NoJobLost
    <3>2. ASSUME NEW q \in Runners
          PROVE  Safe(q)'
      BY <2>1, <2>2, <1>a, Undisturbed, Elsewhere
    <3> QED BY <3>1, <3>2 DEF Rest
  <2>3. CASE ~UNCHANGED <<working, lease>>
    <3>1. /\ working' = [working EXCEPT ![run[r].job] = 0]
          /\ lease' = [lease EXCEPT ![run[r].job] = NoLease]
      BY <2>1, <2>3 DEF RemoveClaim
    <3>2. TokenMatches(r)
      BY <1>8, <2>3, <1>a DEF releaseCiClaim, releaseCiJob, Safe, Fresh, Holds
    <3>3. rec[run[r].job].status \in Terminal
      BY <2>1, <3>2, <1>a DEF Safe, Settled
    <3>4. Known' /\ NoJobLost'
      BY <2>1, <3>1, <3>3, <1>a DEF Known, NoJobLost, TypeOK
    <3>5. ASSUME NEW q \in Runners, q # r
          PROVE  Safe(q)'
      <4>1. CASE run[q].pc \in Unchecked /\ run[q].job # run[r].job
        BY <4>1, <2>1, <3>1, <3>5, <1>a, Undisturbed DEF TypeOK, Unchecked
      <4>2. CASE run[q].pc \in Unchecked /\ run[q].job = run[r].job
        <5>1. ~TokenMatches(q)
          BY <4>2, <3>2, <3>5, <1>a, OneHolder
        <5>2. run[q].pc \notin {"claimed", "releaseJob"}
          BY <5>1, <1>a DEF Safe, Fresh, Holds
        <5>3. ~TokenMatches(q)'
          BY <4>2, <2>1, <3>1, <3>5, <1>a DEF TokenMatches, NoLease, TokensApart, Busy,
             Unchecked, TypeOK
        <5> QED BY <5>2, <5>3, <2>1, <3>5, <1>a, Undisturbed
      <4>3. CASE run[q].pc \notin Unchecked
        BY <4>3, <2>1, <3>5, <1>a, Undisturbed
      <4> QED BY <4>1, <4>2, <4>3
    <3> QED BY <2>1, <3>4, <3>5, Elsewhere DEF Rest
  <2> QED BY <2>2, <2>3
<1>9. CASE abandonCiJob(r)
  <2>1. /\ run[r].job \in Jobs /\ run[r].pc = "running"
        /\ \A q \in Runners : q # r => run'[q] = run[q]
        /\ run'[r].pc = "idle"
    BY <1>9, <1>a DEF abandonCiJob, At
  <2>2. CASE Holds(r)
    <3>1. requeueLocked({run[r].job}, FALSE)
      BY <1>9, <2>2, Zenon DEF abandonCiJob
    <3>2. Known' /\ NoJobLost'
      BY <2>1, <3>1, RequeueKeepsJobs
    <3>3. ASSUME NEW q \in Runners, q # r
          PROVE  Safe(q)'
      <4>1. run[q].job = run[r].job => ~TokenMatches(q)
        BY <2>2, <3>3, <1>a, OneHolder DEF Holds
      <4>2. /\ {run[r].job} \in SUBSET Jobs
            /\ run'[q] = run[q]
            /\ run[q].job \in {run[r].job}
                 => ~(TokenMatches(q) /\ run[q].pc \in Unchecked)
        BY <2>1, <3>3, <4>1
      <4> QED BY <3>1, <4>2, RequeueSafe
    <3> QED BY <2>1, <3>2, <3>3, Elsewhere DEF Rest
  <2>3. CASE ~Holds(r)
    <3>1. /\ UNCHANGED <<spool, working, rec>>
          /\ \/ lease' = lease
             \/ TokenMatches(r) /\ lease' = [lease EXCEPT ![run[r].job] = NoLease]
      BY <1>9, <2>3 DEF abandonCiJob
    <3>2. Known' /\ NoJobLost'
      BY <3>1, <1>a DEF Known, NoJobLost
    <3>3. ASSUME NEW q \in Runners, q # r
          PROVE  Safe(q)'
      <4>1. CASE lease' = lease
        BY <4>1, <2>1, <3>1, <3>3, <1>a, Undisturbed
      <4>2. CASE TokenMatches(r) /\ lease' = [lease EXCEPT ![run[r].job] = NoLease]
        <5>1. CASE run[q].pc \in Unchecked /\ run[q].job # run[r].job
          BY <5>1, <4>2, <2>1, <3>1, <3>3, <1>a, Undisturbed DEF TypeOK, Unchecked
        <5>2. CASE run[q].pc \in Unchecked /\ run[q].job = run[r].job
          <6>1. ~TokenMatches(q)
            BY <5>2, <4>2, <3>3, <1>a, OneHolder
          <6>2. run[q].pc \notin {"claimed", "releaseJob"}
            BY <6>1, <1>a DEF Safe, Fresh, Holds
          <6>3. ~TokenMatches(q)'
            BY <5>2, <4>2, <2>1, <3>3, <1>a DEF TokenMatches, NoLease, TokensApart, Busy,
               Unchecked, TypeOK
          <6> QED BY <6>2, <6>3, <2>1, <3>3, <1>a, Undisturbed
        <5>3. CASE run[q].pc \notin Unchecked
          BY <5>3, <2>1, <3>3, <1>a, Undisturbed
        <5> QED BY <5>1, <5>2, <5>3
      <4> QED BY <3>1, <4>1, <4>2
    <3> QED BY <2>1, <3>2, <3>3, Elsewhere DEF Rest
  <2> QED BY <2>2, <2>3
<1>10. CASE crash(r)
  <2>1. /\ UNCHANGED <<spool, working, lease, rec>>
        /\ \A q \in Runners : q # r => run'[q] = run[q]
        /\ run'[r].pc \in {"idle", "down"}
    BY <1>10, <1>a DEF crash, queueFiles, At
  <2>2. Known' /\ NoJobLost'
    BY <2>1, <1>a DEF Known, NoJobLost
  <2>3. ASSUME NEW q \in Runners
        PROVE  Safe(q)'
    BY <2>1, <1>a, Undisturbed, Elsewhere
  <2> QED BY <2>2, <2>3 DEF Rest
<1> QED BY <1>1, <1>2, <1>3, <1>4, <1>5, <1>6, <1>7, <1>8, <1>9, <1>10 DEF Work

(* No step loses a job. *)
LEMMA StepKeepsJobs ==
  ASSUME ClaimInv, TimelyWrites, [Next]_vars
  PROVE  Rest'
<1>a. /\ TypeOK /\ Known /\ NoJobLost /\ TokensApart
      /\ \A q \in Runners : Safe(q)
      /\ Primary \in Runners
  BY QueueAssumption DEF ClaimInv
<1>b. \A q \in Runners : run[q].pc \in Unchecked /\ TokenMatches(q)
         => ~lease[run[q].job].lapsed /\ lease[run[q].job].runner = q
  BY <1>a DEF Unchecked, Safe, Fresh, Kept, TokensApart
<1>1. CASE reapCiLeases
  <2>1. requeueLocked(Lapsed(FALSE), TRUE) /\ run' = run
    BY <1>1 DEF reapCiLeases
  <2>2. \A q \in Runners : run[q].job \in Lapsed(FALSE)
                             => ~(TokenMatches(q) /\ run[q].pc \in Unchecked)
    BY <1>b DEF Lapsed
  <2> QED BY <2>1, <2>2, LapsedJobs, RequeueKeepsJobs, RequeueSafe DEF Rest
<1>2. CASE restart
  <2>1. requeueLocked(Lapsed(TRUE), TRUE)
    BY <1>2 DEF restart
  <2>2. /\ run[Primary].pc = "down"
        /\ \A q \in Runners : q # Primary => run'[q] = run[q]
        /\ run'[Primary].pc = "idle"
    BY <1>2, <1>a DEF restart, TypeOK, At
  <2>3. \A q \in Runners : q # Primary /\ run[q].job \in Lapsed(TRUE)
                             => ~(TokenMatches(q) /\ run[q].pc \in Unchecked)
    BY <1>b DEF Lapsed
  <2>4. Known' /\ NoJobLost'
    BY <2>1, LapsedJobs, RequeueKeepsJobs
  <2>5. ASSUME NEW q \in Runners
        PROVE  Safe(q)'
    BY <2>1, <2>2, <2>3, LapsedJobs, RequeueSafe, Elsewhere
  <2> QED BY <2>4, <2>5 DEF Rest
<1>3. CASE UNCHANGED vars
  <2>1. UNCHANGED <<spool, working, lease, rec, run>>
    BY <1>3 DEF vars
  <2>2. Known' /\ NoJobLost'
    BY <2>1, <1>a DEF Known, NoJobLost, Queued, Claimed
  <2> QED BY <2>1, <2>2, <1>a, Undisturbed DEF Rest
<1> QED BY <1>1, <1>2, <1>3, EnvironmentKeepsJobs, WorkKeepsJobs DEF Next

(* The empty queue satisfies the invariant. *)
LEMMA InitIsClaimInv == Init => ClaimInv
<1>1. Init => ClaimsApart /\ TokensApart
  BY DEF Init, ClaimsApart, TokensApart, Claimed, Busy, TokenMatches, At
<1>2. Init => Known /\ NoJobLost
  BY DEF Init, Known, NoJobLost, Queued, Claimed, NoRecord
<1>3. Init => \A q \in Runners : Safe(q)
  BY DEF Init, Safe, Fresh, Kept, Settled, HasResult, At
<1> QED BY <1>1, <1>2, <1>3, InitType DEF ClaimInv

(* Every step keeps the invariant. *)
LEMMA ClaimInvStep ==
  ASSUME TimelyWrites, ClaimInv, [Next]_vars
  PROVE  ClaimInv'
<1>1. TypeOK' /\ ClaimsApart' /\ TokensApart'
  BY NextType, ClaimsStep, TokensStep DEF ClaimInv
<1>2. Rest'
  BY StepKeepsJobs
<1> QED BY <1>1, <1>2 DEF ClaimInv, Rest

(* As long as every record write ends before the lease it relies on lapses *)
(* (TimelyWrites), a run that shows as pending or running is in the queue  *)
(* or in a runner's hands: no crash, requeue, release or cancellation      *)
(* loses a job.                                                            *)
THEOREM NoJobIsLost == ASSUME TimelyWrites PROVE Spec => []NoJobLost
<1>1. ClaimInv /\ [Next]_vars => ClaimInv'
  BY ClaimInvStep
<1>2. ClaimInv => NoJobLost
  BY DEF ClaimInv
<1> QED BY InitIsClaimInv, <1>1, <1>2, PTL DEF Spec

-----------------------------------------------------------------------------
(* Records and sites only move forward.  The invariant behind the order of *)
(* the writes: as long as no crash inside an operation left a job queued   *)
(* and claimed at once (Once), whoever writes still holds the claim        *)
(* (Standing) of the attempt in working/ (Numbered), the record is not     *)
(* ahead of the queue (Behind) and at most one run is about to publish     *)
(* (Publishing); as long as no process died either, a job with a terminal  *)
(* record is only held by a runner about to release it (Ended), and an     *)
(* older run of a branch a newer one supersedes is neither queued nor able *)
(* to be queued again (Superseded).                                        *)

Once(j) == interrupts = 0 => ~(Queued(j) /\ Claimed(j))

Standing(q) == interrupts = 0 /\ run[q].pc \in Unchecked => TokenMatches(q)

Numbered(q) ==
  interrupts = 0 /\ Holds(q) => run[q].attempt = working[run[q].job]

Behind(j) ==
  interrupts = 0 =>
    /\ rec[j].status = "None" => rec[j].attempt = 0
    /\ Queued(j) => rec[j].attempt <= spool[j]
    /\ Claimed(j) => rec[j].attempt <= working[j]

Publishing(q) ==
  interrupts = 0 /\ run[q].pc = "publish" /\ run[q].publish =>
    /\ Ref[run[q].job] = DefaultRef
    /\ ~(site > run[q].job)

Smooth == crashes = 0 /\ interrupts = 0

Releasing(r) == run[r].pc \in {"release", "releaseJob"}

Ended(j) ==
  Smooth /\ rec[j].status \in Terminal =>
    /\ ~Queued(j)
    /\ Claimed(j) => \E r \in Runners : run[r].job = j /\ Releasing(r)

Alive == run[Primary].pc = "down" => ~Smooth

Outdone(j, k) ==
  /\ j < k
  /\ Ref[j] = Ref[k]
  /\ Ref[k] \in Branches
  /\ k \in AutoCancel

Superseded(j, k) ==
  Smooth /\ Outdone(j, k) /\ (Queued(k) \/ Claimed(k)) =>
    /\ ~Queued(j)
    /\ Claimed(j) => j \in cancel \/ rec[j].status \in Terminal

OrderInv ==
  /\ ClaimInv
  /\ \A j \in Jobs : Once(j) /\ Behind(j) /\ Ended(j)
  /\ \A q \in Runners : Standing(q) /\ Numbered(q) /\ Publishing(q)
  /\ Alive
  /\ \A j, k \in Jobs : Superseded(j, k)

(* Crashes are only ever added. *)
LEMMA CrashesAdd ==
  ASSUME TypeOK, [Next]_vars
  PROVE  crashes' >= crashes /\ interrupts' >= interrupts
<1>a. crashes \in Nat /\ interrupts \in Nat
  BY DEF TypeOK
<1>b. ASSUME UNCHANGED <<crashes, interrupts>>
      PROVE  crashes' >= crashes /\ interrupts' >= interrupts
  BY <1>a, <1>b
<1>1. ASSUME NEW j \in Jobs, Environment(j)
      PROVE  crashes' >= crashes /\ interrupts' >= interrupts
  <2>1. CASE enqueueCiJob(j) \/ age(j) \/ requestCiCancel(j) \/ leaseLapses(j)
    <3>1. UNCHANGED history
      BY <2>1 DEF enqueueCiJob, age, requestCiCancel, leaseLapses
    <3> QED BY <3>1, <1>b DEF history
  <2>2. ASSUME NEW done, reapInterrupted(j, done)
        PROVE  crashes' = crashes /\ interrupts' = interrupts + 1
    BY <2>2 DEF reapInterrupted
  <2> QED BY <1>1, <1>a, <2>1, <2>2 DEF Environment
<1>2. ASSUME NEW r \in Runners, Work(r)
      PROVE  crashes' >= crashes /\ interrupts' >= interrupts
  <2>1. ASSUME NEW j \in Jobs, claimInterrupted(r, j)
        PROVE  crashes' = crashes /\ interrupts' = interrupts + 1
    BY <2>1 DEF claimInterrupted
  <2>2. CASE crash(r)
    BY <2>2, <1>a DEF crash
  <2>3. CASE abandonCiJob(r)
    BY <2>3, <1>a DEF abandonCiJob
  <2>4. ASSUME NEW s, \/ claimCiJob(r, s) \/ recordCiOutcome(r, s)
                      \/ finish(r, s) \/ commitCiRun(r, s)
        PROVE  UNCHANGED history
    BY <2>4 DEF claimCiJob, recordCiOutcome, finish, commitCiRun
  <2>5. CASE \/ renewCiLease(r) \/ runStarted(r) \/ progress(r) \/ commitDecides(r)
             \/ releaseCiClaim(r) \/ releaseCiJob(r)
    <3>1. UNCHANGED history
      BY <2>5 DEF renewCiLease, runStarted, progress, commitDecides, releaseCiClaim,
         releaseCiJob
    <3> QED BY <3>1, <1>b DEF history
  <2>6. CASE UNCHANGED history
    BY <2>6, <1>b DEF history
  <2> QED BY <1>2, <1>a, <2>1, <2>2, <2>3, <2>4, <2>5, <2>6 DEF Work
<1>3. CASE reapCiLeases \/ restart
  <2>1. UNCHANGED history
    BY <1>3 DEF reapCiLeases, restart
  <2> QED BY <2>1, <1>b DEF history
<1>4. CASE UNCHANGED vars
  BY <1>4, <1>b DEF vars
<1> QED BY <1>1, <1>2, <1>3, <1>4 DEF Next

(* Without a crash inside an operation, a runner between two lease checks  *)
(* holds a claim that has not lapsed.                                      *)
LEMMA StillHolds ==
  ASSUME ClaimInv, interrupts = 0, NEW q \in Runners, Standing(q),
         run[q].pc \in Unchecked
  PROVE  Holds(q) /\ ~lease[run[q].job].lapsed /\ run[q].job \in Jobs
  BY DEF ClaimInv, Safe, Fresh, Kept, Standing, Holds, Unchecked, TypeOK

(* Only its own step, or the restart of the main host, moves a runner. *)
LEMMA RunnerMoves ==
  ASSUME TypeOK, [Next]_vars, NEW q \in Runners
  PROVE  run'[q] = run[q] \/ Work(q) \/ (q = Primary /\ restart)
<1>1. ASSUME NEW j \in Jobs, Environment(j)
      PROVE  run' = run
  BY <1>1 DEF Environment, enqueueCiJob, age, requestCiCancel, leaseLapses,
     reapInterrupted
<1>2. ASSUME NEW r \in Runners, Work(r), r # q
      PROVE  run'[q] = run[q]
  <2>1. \E s : run' = [run EXCEPT ![r] = s]
    <3>1. ASSUME NEW j \in Jobs, claimCiJob(r, j) \/ claimInterrupted(r, j)
          PROVE  \E s : run' = [run EXCEPT ![r] = s]
      BY <3>1 DEF claimCiJob, claimInterrupted
    <3>2. CASE renewCiLease(r)
      <4>1. run' = run \/ run' = [run EXCEPT ![r] = At("idle")]
        BY <3>2 DEF renewCiLease
      <4> QED BY <4>1 DEF TypeOK
    <3>3. ASSUME NEW s, recordCiOutcome(r, s) \/ finish(r, s) \/ commitCiRun(r, s)
          PROVE  \E t : run' = [run EXCEPT ![r] = t]
      BY <3>3 DEF recordCiOutcome, finish, commitCiRun
    <3>4. CASE progress(r)
      BY <3>4 DEF progress, TypeOK
    <3>5. CASE runStarted(r) \/ commitDecides(r) \/ releaseCiClaim(r) \/ releaseCiJob(r)
      BY <3>5 DEF runStarted, commitDecides, releaseCiClaim, releaseCiJob
    <3>6. CASE abandonCiJob(r) \/ crash(r)
      BY <3>6 DEF abandonCiJob, crash
    <3> QED BY <1>2, <3>1, <3>2, <3>3, <3>4, <3>5, <3>6 DEF Work
  <2> QED BY <2>1, <1>2 DEF TypeOK
<1>3. CASE reapCiLeases \/ UNCHANGED vars
  BY <1>3 DEF reapCiLeases, vars
<1>4. CASE restart
  BY <1>4, QueueAssumption DEF restart, TypeOK
<1> QED BY <1>1, <1>2, <1>3, <1>4 DEF Next

(* A runner that releases its job or hands it back is idle. *)
LEMMA LetsGo ==
  ASSUME TypeOK, NEW r \in Runners,
         releaseCiClaim(r) \/ releaseCiJob(r) \/ abandonCiJob(r)
  PROVE  run'[r].pc = "idle"
<1>1. run' = [run EXCEPT ![r] = At("idle")]
  BY DEF releaseCiClaim, releaseCiJob, abandonCiJob
<1> QED BY <1>1 DEF At, TypeOK

(* A runner that claims a job has it; one that dies in the claim does not. *)
LEMMA ClaimerIs ==
  ASSUME TypeOK, NEW r \in Runners, NEW j \in Jobs,
         claimCiJob(r, j) \/ claimInterrupted(r, j)
  PROVE  run'[r].pc = "claimed" \/ (run'[r].pc \in {"idle", "down"} /\ claimInterrupted(r, j))
<1>1. CASE claimCiJob(r, j)
  BY <1>1 DEF claimCiJob, At, TypeOK
<1>2. CASE claimInterrupted(r, j)
  BY <1>2 DEF claimInterrupted, At, TypeOK
<1> QED BY <1>1, <1>2

(* What can change the token in the lease of a job: a claim, the step with *)
(* which its holder lets go, or a requeue of a lapsed lease or of one the  *)
(* restarted primary held.                                                 *)
LEMMA LeaseMoves ==
  ASSUME ClaimInv, TypeOK', [Next]_vars, NEW j \in Jobs
  PROVE  \/ lease'[j].token = lease[j].token
         \/ \E r \in Runners : claimCiJob(r, j)
         \/ \E r \in Runners : Work(r) /\ TokenMatches(r) /\ run[r].job = j
                                       /\ run'[r].pc = "idle"
         \/ Claimed(j) /\ lease[j].lapsed
         \/ restart /\ lease[j].runner = Primary
<1>a. TypeOK /\ \A r \in Runners : Safe(r)
  BY DEF ClaimInv
<1>1. ASSUME NEW k \in Jobs, Environment(k)
      PROVE  lease'[j].token = lease[j].token
  <2>1. lease' = lease \/ lease' = [lease EXCEPT ![k].lapsed = TRUE]
    BY <1>1 DEF Environment, enqueueCiJob, age, requestCiCancel, queueFiles,
       leaseLapses, reapInterrupted
  <2> QED BY <2>1, <1>a DEF TypeOK, Lease
<1>2. ASSUME NEW r \in Runners, Work(r)
      PROVE  \/ lease'[j].token = lease[j].token
             \/ claimCiJob(r, j)
             \/ Work(r) /\ TokenMatches(r) /\ run[r].job = j /\ run'[r].pc = "idle"
  <2>1. ASSUME NEW k \in Jobs, claimCiJob(r, k), k # j
        PROVE  lease'[j] = lease[j]
    BY <2>1, <1>a DEF claimCiJob, TypeOK
  <2>2. ASSUME NEW k \in Jobs, claimInterrupted(r, k)
        PROVE  lease' = lease
    BY <2>2 DEF claimInterrupted
  <2>3. CASE renewCiLease(r)
    <3>1. lease' = lease \/ lease' = [lease EXCEPT ![run[r].job].lapsed = FALSE]
      BY <2>3 DEF renewCiLease
    <3> QED BY <3>1, <1>a DEF TypeOK, Lease
  <2>4. ASSUME NEW s, recordCiOutcome(r, s) \/ finish(r, s) \/ commitCiRun(r, s)
        PROVE  lease' = lease
    BY <2>4 DEF recordCiOutcome, finish, commitCiRun, queueFiles
  <2>5. CASE runStarted(r) \/ progress(r) \/ commitDecides(r) \/ crash(r)
    BY <2>5 DEF runStarted, progress, commitDecides, crash, queueFiles
  <2>6. CASE releaseCiClaim(r) \/ releaseCiJob(r) \/ abandonCiJob(r)
    <3>1. run'[r].pc = "idle"
      BY <2>6, <1>a, LetsGo
    <3>2. \/ lease' = lease
          \/ TokenMatches(r) /\ \A k \in Jobs \ {run[r].job} : lease'[k] = lease[k]
      <4>1. CASE releaseCiClaim(r) \/ releaseCiJob(r)
        BY <4>1, <1>a DEF releaseCiClaim, releaseCiJob, RemoveClaim, Safe, Fresh, Holds,
           TypeOK
      <4>2. CASE abandonCiJob(r)
        <5>1. CASE Holds(r)
          <6>1. requeueLocked({run[r].job}, FALSE)
            BY <4>2, <5>1, Zenon DEF abandonCiJob
          <6> QED BY <6>1, <5>1 DEF requeueLocked, Holds
        <5>2. CASE ~Holds(r)
          BY <4>2, <5>2, <1>a DEF abandonCiJob, TypeOK
        <5> QED BY <5>1, <5>2
      <4> QED BY <2>6, <4>1, <4>2
    <3> QED BY <1>2, <3>1, <3>2
  <2> QED BY <1>2, <2>1, <2>2, <2>3, <2>4, <2>5, <2>6, Zenon DEF Work
<1>3. CASE reapCiLeases
  BY <1>3 DEF reapCiLeases, requeueLocked, Lapsed
<1>4. CASE restart
  BY <1>4 DEF restart, requeueLocked, Lapsed
<1>5. CASE UNCHANGED vars
  BY <1>5 DEF vars
<1> QED BY <1>1, <1>2, <1>3, <1>4, <1>5 DEF Next

(* A runner keeps the claim it relies on between two lease checks. *)
LEMMA StandingStep ==
  ASSUME OrderInv, TimelyWrites, TypeOK', [Next]_vars, interrupts' = 0, NEW q \in Runners
  PROVE  Standing(q)'
<1> SUFFICES ASSUME run'[q].pc \in Unchecked
             PROVE  TokenMatches(q)'
  BY DEF Standing, Unchecked
<1>a. /\ ClaimInv /\ TypeOK /\ interrupts = 0
      /\ \A r \in Runners : Standing(r) /\ Safe(r)
  BY CrashesAdd DEF OrderInv, ClaimInv, TypeOK
<1>1. CASE Work(q)
  <2>1. ASSUME NEW j \in Jobs, claimCiJob(q, j)
        PROVE  TokenMatches(q)'
    BY <2>1, <1>a DEF claimCiJob, At, TokenMatches, TypeOK
  <2>2. ASSUME NEW s, recordCiOutcome(q, s) \/ finish(q, s) \/ commitCiRun(q, s)
        PROVE  TokenMatches(q)'
    <3>1. lease' = lease
      BY <2>2 DEF recordCiOutcome, finish, commitCiRun, queueFiles
    <3>2. TokenMatches(q) /\ run'[q].job = run[q].job /\ run'[q].token = run[q].token
      <4>1. CASE recordCiOutcome(q, s)
        BY <4>1, <1>a DEF recordCiOutcome, Standing, Unchecked, TypeOK, RunState
      <4>2. CASE commitCiRun(q, s)
        BY <4>2, <1>a DEF commitCiRun, Standing, Unchecked, TypeOK, RunState
      <4>3. CASE finish(q, s)
        <5>1. run' = [run EXCEPT ![q] = [run[q] EXCEPT !.pc = "commit", !.result = s]]
          BY <4>3, <1>a DEF finish, At, Unchecked, TypeOK
        <5>2. Holds(q)
          BY <4>3, <1>a DEF OrderInv, finish, InTime
        <5> QED BY <5>1, <5>2, <1>a DEF Holds, TypeOK, RunState
      <4> QED BY <2>2, <4>1, <4>2, <4>3
    <3> QED BY <3>1, <3>2 DEF TokenMatches, Unchecked
  <2>3. CASE commitDecides(q)
    <3>1. /\ lease' = lease /\ run[q].pc \in Unchecked
          /\ run'[q].job = run[q].job
          /\ run'[q].token = run[q].token
      BY <2>3, <1>a DEF commitDecides, queueFiles, Unchecked, TypeOK, RunState
    <3> QED BY <3>1, <1>a DEF Standing, TokenMatches, Unchecked
  <2>4. ASSUME NEW j \in Jobs, claimInterrupted(q, j)
        PROVE  FALSE
    BY <2>4, <1>a DEF claimInterrupted, TypeOK
  <2>5. CASE renewCiLease(q) \/ runStarted(q) \/ progress(q)
    <3>1. run'[q].pc \in {"running", "idle"}
      BY <2>5, <1>a DEF renewCiLease, runStarted, progress, At, TypeOK, RunState
    <3> QED BY <3>1 DEF Unchecked
  <2>6. CASE releaseCiClaim(q) \/ releaseCiJob(q) \/ abandonCiJob(q) \/ crash(q)
    <3>1. run'[q].pc \in {"down", "idle"}
      BY <2>6, <1>a, LetsGo DEF crash, At, TypeOK
    <3> QED BY <3>1 DEF Unchecked
  <2> QED BY <1>1, <2>1, <2>2, <2>3, <2>4, <2>5, <2>6 DEF Work
<1>2. CASE q = Primary /\ restart
  BY <1>2, <1>a DEF restart, At, TypeOK, Unchecked
<1>3. CASE run'[q] = run[q] /\ ~Work(q) /\ ~(q = Primary /\ restart)
  <2>1. /\ Holds(q) /\ ~lease[run[q].job].lapsed /\ run[q].job \in Jobs
        /\ run[q].pc \in Unchecked
    BY <1>3, <1>a, StillHolds
  <2>2. ASSUME NEW r \in Runners
        PROVE  ~claimCiJob(r, run[q].job)
    BY <2>1, <1>a DEF claimCiJob, Oldest, Eligible, OrderInv, Once, Holds
  <2>3. ASSUME NEW r \in Runners, Work(r), TokenMatches(r)
        PROVE  run[r].job # run[q].job
    BY <2>1, <2>3, <1>a, <1>3, OneHolder DEF Holds, ClaimInv
  <2>4. lease[run[q].job].runner = q
    BY <2>1, <1>a DEF ClaimInv, TokensApart, Holds
  <2>5. lease'[run[q].job].token = lease[run[q].job].token
    BY <2>1, <2>2, <2>3, <2>4, <1>a, <1>3, LeaseMoves
  <2> QED BY <2>1, <2>5, <1>3 DEF TokenMatches, Holds
<1> QED BY <1>1, <1>2, <1>3, <1>a, RunnerMoves

(* What one step may do to one job, when no operation is interrupted. *)

Unmoved(j) ==
  /\ spool'[j] = spool[j]
  /\ working'[j] = working[j]
  /\ rec'[j] = rec[j]

Overtaken(j) ==
  /\ Queued(j)
  /\ spool'[j] = 0
  /\ working'[j] = working[j]
  /\ rec'[j] = Rec("Cancelled", spool[j])

Taken(j) ==
  /\ Queued(j)
  /\ spool'[j] = 0
  /\ working'[j] = spool[j]
  /\ rec'[j] = rec[j]

(* No requeue takes a job from a runner that is releasing it. *)
NotReleased(j) ==
  Smooth' => \A q \in Runners : run[q].job = j => ~Releasing(q)

PutBack(j) ==
  /\ Claimed(j) /\ j \notin cancel /\ NotReleased(j)
  /\ spool'[j] = working[j] + 1
  /\ working'[j] = 0
  /\ rec'[j] = Rec("Pending", working[j] + 1)

GivenUpOn(j) ==
  /\ Claimed(j) /\ NotReleased(j)
  /\ spool'[j] \in {0, spool[j]}
  /\ working'[j] = 0
  /\ rec'[j].status \in {"Error", "Cancelled"}
  /\ rec'[j].attempt \in {rec[j].attempt, working[j]}

Writes(r, j) ==
  /\ Holds(r) /\ run[r].job = j /\ ~Releasing(r)
  /\ rec'[j].attempt = run[r].attempt
  /\ \/ rec'[j].status = "Running"
     \/ rec'[j].status \in Terminal /\ run'[r].job = j /\ Releasing(r)'

Written(j) ==
  /\ Claimed(j)
  /\ spool'[j] = spool[j]
  /\ working'[j] = working[j]
  /\ \E r \in Runners : Writes(r, j)

Released(j) ==
  /\ rec[j].status \in Terminal
  /\ spool'[j] = spool[j]
  /\ working'[j] = 0
  /\ rec'[j] = rec[j]

Move(j) ==
  \/ Unmoved(j) \/ enqueueCiJob(j) \/ Overtaken(j) \/ Taken(j)
  \/ PutBack(j) \/ GivenUpOn(j) \/ Written(j) \/ Released(j)

(* requeueLocked puts claimed jobs back or ends them. *)
LEMMA RequeueMoves ==
  ASSUME ClaimInv, NEW L \in SUBSET Jobs, NEW enforce \in BOOLEAN,
         requeueLocked(L, enforce), NEW j \in Jobs,
         j \in L => Claimed(j) /\ NotReleased(j)
  PROVE  Unmoved(j) \/ PutBack(j) \/ GivenUpOn(j)
<1>a. working[j] \in Nat /\ (j \in L => rec[j].status # "None")
  BY DEF ClaimInv, Known, TypeOK
<1>1. CASE j \in Back(L, enforce)
  <2>1. j \in L /\ j \notin cancel
    BY <1>1 DEF Back
  <2> QED BY <1>1, <2>1, <1>a DEF requeueLocked, PutBack, Reset
<1>2. CASE j \in L /\ j \notin Back(L, enforce)
  <2>1. \/ rec'[j] = Rec("Error", rec[j].attempt)
        \/ rec'[j] = Rec("Cancelled", working[j])
    BY <1>2, <1>a DEF requeueLocked
  <2>2. working'[j] = 0 /\ spool'[j] \in {0, spool[j]}
    BY <1>2 DEF requeueLocked
  <2> QED BY <1>2, <2>1, <2>2 DEF GivenUpOn, Rec
<1>3. CASE j \notin L
  BY <1>3 DEF requeueLocked, Unmoved, Back, GivenUp
<1> QED BY <1>1, <1>2, <1>3

(* Every step is one of these moves for every job. *)
LEMMA JobMoves ==
  ASSUME OrderInv, TimelyWrites, TypeOK', [Next]_vars, interrupts' = 0,
         NEW j \in Jobs
  PROVE  Move(j)
<1>a. /\ ClaimInv /\ TypeOK /\ interrupts = 0
      /\ \A r \in Runners : Standing(r) /\ Safe(r)
  BY CrashesAdd DEF OrderInv, ClaimInv, TypeOK
<1>b. ASSUME UNCHANGED <<spool, working, rec>>
      PROVE  Move(j)
  BY <1>b DEF Move, Unmoved
<1>c. \A q \in Runners : Releasing(q) => Holds(q) /\ ~lease[run[q].job].lapsed
  BY <1>a, StillHolds DEF Releasing, Unchecked
<1>1. ASSUME NEW k \in Jobs, Environment(k)
      PROVE  Move(j)
  <2>1. CASE enqueueCiJob(k)
    <3>1. CASE j # k /\ j \in Dropped(k)
      <4>1. /\ Queued(j) /\ spool'[j] = 0 /\ working'[j] = working[j]
            /\ rec'[j] = Rec("Cancelled", spool[j])
        BY <2>1, <3>1 DEF enqueueCiJob, Dropped
      <4> QED BY <4>1 DEF Move, Overtaken
    <3>2. CASE j # k /\ j \notin Dropped(k)
      BY <2>1, <3>2 DEF enqueueCiJob, Move, Unmoved
    <3>3. CASE j = k
      BY <2>1, <3>3 DEF Move
    <3> QED BY <3>1, <3>2, <3>3
  <2>2. CASE age(k) \/ requestCiCancel(k) \/ leaseLapses(k)
    BY <2>2, <1>b DEF age, requestCiCancel, leaseLapses, queueFiles
  <2>3. ASSUME NEW done, reapInterrupted(k, done)
        PROVE  FALSE
    BY <2>3, <1>a DEF reapInterrupted, TypeOK
  <2> QED BY <1>1, <2>1, <2>2, <2>3 DEF Environment
<1>2. ASSUME NEW r \in Runners, Work(r)
      PROVE  Move(j)
  <2>1. ASSUME NEW k \in Jobs, claimCiJob(r, k)
        PROVE  Move(j)
    <3>1. /\ spool' = [spool EXCEPT ![k] = 0]
          /\ working' = [working EXCEPT ![k] = spool[k]]
          /\ rec' = rec /\ Queued(k)
      BY <2>1 DEF claimCiJob, Oldest, Eligible
    <3> QED BY <3>1, <1>a DEF Move, Unmoved, Taken, TypeOK
  <2>2. ASSUME NEW k \in Jobs, claimInterrupted(r, k)
        PROVE  FALSE
    BY <2>2, <1>a DEF claimInterrupted, TypeOK
  <2>3. CASE renewCiLease(r) \/ commitDecides(r) \/ crash(r)
    BY <2>3, <1>b DEF renewCiLease, commitDecides, crash, queueFiles
  <2>4. ASSUME NEW s, finish(r, s)
        PROVE  Move(j)
    BY <2>4, <1>b DEF finish, queueFiles
  <2>5. ASSUME NEW s \in Terminal, recordCiOutcome(r, s)
        PROVE  Move(j)
    <3>1. /\ UNCHANGED <<spool, working>>
          /\ run[r].pc = "claimed" /\ run[r].job \in Jobs
          /\ rec' = [rec EXCEPT ![run[r].job] = Rec(s, run[r].attempt)]
          /\ Releasing(r)' /\ run'[r].job = run[r].job
      BY <2>5, <1>a DEF recordCiOutcome, queueFiles, Releasing, TypeOK, RunState
    <3>2. Holds(r)
      BY <3>1, <1>a, StillHolds DEF Unchecked
    <3>3. CASE j = run[r].job
      <4>1. rec'[j] = Rec(s, run[r].attempt)
        BY <3>1, <3>3, <1>a DEF TypeOK
      <4>2. Writes(r, j)
        BY <3>1, <3>2, <3>3, <4>1 DEF Writes, Releasing, Rec
      <4> QED BY <3>1, <3>2, <3>3, <4>2 DEF Move, Written, Holds
    <3>4. CASE j # run[r].job
      BY <3>1, <3>4 DEF Move, Unmoved
    <3> QED BY <3>3, <3>4
  <2>6. CASE runStarted(r) \/ progress(r)
    <3>1. /\ UNCHANGED <<spool, working>>
          /\ run[r].pc \in {"claimed", "running"} /\ run[r].job \in Jobs
          /\ rec' = [rec EXCEPT ![run[r].job] = Rec("Running", run[r].attempt)]
      BY <2>6, <1>a DEF runStarted, progress, queueFiles, TypeOK
    <3>2. Holds(r)
      <4>1. CASE runStarted(r)
        BY <4>1, <3>1, <1>a, StillHolds DEF runStarted, Unchecked
      <4>2. CASE progress(r)
        BY <4>2 DEF progress, InTime
      <4> QED BY <2>6, <4>1, <4>2
    <3>3. CASE j = run[r].job
      <4>1. rec'[j] = Rec("Running", run[r].attempt)
        BY <3>1, <3>3, <1>a DEF TypeOK
      <4>2. Writes(r, j)
        BY <3>1, <3>2, <3>3, <4>1 DEF Writes, Releasing, Rec
      <4> QED BY <3>1, <3>2, <3>3, <4>2 DEF Move, Written, Holds
    <3>4. CASE j # run[r].job
      BY <3>1, <3>4 DEF Move, Unmoved
    <3> QED BY <3>3, <3>4
  <2>7. ASSUME NEW published \in BOOLEAN, commitCiRun(r, published)
        PROVE  Move(j)
    <3>1. /\ UNCHANGED <<spool, working>>
          /\ run[r].pc = "publish" /\ run[r].job \in Jobs
          /\ \E s \in {"Error", run[r].result} :
               rec' = [rec EXCEPT ![run[r].job] = Rec(s, run[r].attempt)]
          /\ Releasing(r)' /\ run'[r].job = run[r].job
      <4>1. /\ rec' = [rec EXCEPT ![run[r].job] =
                         Rec(IF run[r].publish /\ ~published THEN "Error"
                             ELSE run[r].result, run[r].attempt)]
            /\ run' = [run EXCEPT ![r].pc = "release"]
            /\ UNCHANGED <<spool, working>> /\ run[r].pc = "publish"
        BY <2>7 DEF commitCiRun, queueFiles
      <4>2. Releasing(r)' /\ run'[r].job = run[r].job
        BY <4>1, <1>a DEF Releasing, TypeOK, RunState
      <4> QED BY <4>1, <4>2, <1>a DEF TypeOK
    <3>2. Holds(r) /\ run[r].result \in Terminal
      BY <3>1, <1>a, StillHolds DEF Unchecked, Safe, HasResult
    <3>3. CASE j = run[r].job
      <4>1. \E s \in Terminal : rec'[j] = Rec(s, run[r].attempt)
        BY <3>1, <3>2, <3>3, <1>a DEF TypeOK
      <4>2. Writes(r, j)
        BY <3>1, <3>2, <3>3, <4>1 DEF Writes, Releasing, Rec
      <4> QED BY <3>1, <3>2, <3>3, <4>2 DEF Move, Written, Holds
    <3>4. CASE j # run[r].job
      BY <3>1, <3>4 DEF Move, Unmoved
    <3> QED BY <3>3, <3>4
  <2>8. CASE releaseCiClaim(r) \/ releaseCiJob(r)
    <3>1. /\ UNCHANGED <<spool, rec>> /\ Releasing(r) /\ run[r].job \in Jobs
          /\ \/ working' = working
             \/ working' = [working EXCEPT ![run[r].job] = 0]
      BY <2>8, <1>a DEF releaseCiClaim, releaseCiJob, RemoveClaim, Releasing, TypeOK
    <3>2. rec[run[r].job].status \in Terminal
      BY <3>1, <1>c, <1>a DEF Safe, Settled, Holds, Releasing
    <3> QED BY <3>1, <3>2, <1>a DEF Move, Unmoved, Released, TypeOK
  <2>9. CASE abandonCiJob(r)
    <3>1. run[r].job \in Jobs /\ run[r].pc = "running"
      BY <2>9, <1>a DEF abandonCiJob, TypeOK
    <3>2. CASE Holds(r)
      <4>1. requeueLocked({run[r].job}, FALSE)
        BY <2>9, <3>2, Zenon DEF abandonCiJob
      <4>2. \A q \in Runners : run[q].job = run[r].job => ~Releasing(q)
        BY <3>1, <3>2, <1>a, <1>c, OneHolder DEF ClaimInv, Holds, Releasing
      <4>3. j \in {run[r].job} => Claimed(j) /\ NotReleased(j)
        BY <4>2, <3>2 DEF NotReleased, Holds
      <4> QED BY <3>1, <4>1, <4>3, <1>a, RequeueMoves DEF Move
    <3>3. CASE ~Holds(r)
      BY <2>9, <3>3, <1>b DEF abandonCiJob
    <3> QED BY <3>2, <3>3
  <2> QED BY <1>2, <2>1, <2>2, <2>3, <2>4, <2>5, <2>6, <2>7, <2>8, <2>9 DEF Work
<1>3. CASE reapCiLeases
  <2>1. requeueLocked(Lapsed(FALSE), TRUE)
    BY <1>3 DEF reapCiLeases
  <2>2. j \in Lapsed(FALSE) => Claimed(j) /\ NotReleased(j)
    BY <1>c DEF Lapsed, NotReleased
  <2> QED BY <2>1, <2>2, <1>a, LapsedJobs, RequeueMoves DEF Move
<1>4. CASE restart
  <2>1. requeueLocked(Lapsed(TRUE), TRUE)
    BY <1>4 DEF restart
  <2>2. ~Smooth'
    BY <1>4, <1>a, CrashesAdd DEF restart, OrderInv, Alive, Smooth, TypeOK
  <2>3. j \in Lapsed(TRUE) => Claimed(j) /\ NotReleased(j)
    BY <2>2 DEF Lapsed, NotReleased
  <2> QED BY <2>1, <2>3, <1>a, LapsedJobs, RequeueMoves DEF Move
<1>5. CASE UNCHANGED vars
  BY <1>5, <1>b DEF vars
<1> QED BY <1>1, <1>2, <1>3, <1>4, <1>5 DEF Next

(* enqueueCiJob, seen from the job it queues. *)
LEMMA PushMoves ==
  ASSUME ClaimInv, NEW j \in Jobs, enqueueCiJob(j)
  PROVE  /\ rec[j].status = "None" /\ ~Claimed(j)
         /\ working'[j] = 0
         /\ \/ Obsolete(j) /\ spool'[j] = 0 /\ rec'[j] = Rec("Cancelled", 1)
            \/ ~Obsolete(j) /\ spool'[j] = 1 /\ rec'[j] = Rec("Pending", 1)
  BY DEF enqueueCiJob, ClaimInv, Known, Claimed, TypeOK

(* A cancel request stands until its job has ended or left working/. *)
LEMMA CancelStands ==
  ASSUME ClaimInv, TypeOK', [Next]_vars, interrupts' = 0, NEW j \in Jobs, j \in cancel
  PROVE  \/ j \in cancel'
         \/ rec'[j].status \in Terminal
         \/ working'[j] = 0
<1>a. TypeOK /\ interrupts = 0 /\ \A r \in Runners : Safe(r)
  BY CrashesAdd DEF ClaimInv, TypeOK
<1>b. ASSUME cancel' = cancel
      PROVE  j \in cancel'
  BY <1>b
<1>1. ASSUME NEW k \in Jobs, Environment(k)
      PROVE  j \in cancel'
  BY <1>1 DEF Environment, enqueueCiJob, age, requestCiCancel, leaseLapses,
     reapInterrupted
<1>2. ASSUME NEW L \in SUBSET Jobs, NEW enforce, requeueLocked(L, enforce)
      PROVE  j \in cancel' \/ working'[j] = 0
  BY <1>2 DEF requeueLocked
<1>3. ASSUME NEW r \in Runners, Work(r)
      PROVE  j \in cancel' \/ rec'[j].status \in Terminal \/ working'[j] = 0
  <2>1. ASSUME NEW k \in Jobs, claimCiJob(r, k) \/ claimInterrupted(r, k)
        PROVE  j \in cancel'
    BY <2>1 DEF claimCiJob, claimInterrupted
  <2>2. CASE \/ renewCiLease(r) \/ runStarted(r) \/ progress(r) \/ commitDecides(r)
             \/ releaseCiClaim(r) \/ releaseCiJob(r) \/ crash(r)
    BY <2>2 DEF renewCiLease, runStarted, progress, commitDecides, releaseCiClaim,
       releaseCiJob, crash, queueFiles
  <2>3. ASSUME NEW s \in Terminal, recordCiOutcome(r, s)
        PROVE  j \in cancel' \/ rec'[j].status \in Terminal
    BY <2>3, <1>a DEF recordCiOutcome, Rec, TypeOK
  <2>4. ASSUME NEW s, finish(r, s)
        PROVE  j \in cancel'
    BY <2>4 DEF finish
  <2>5. ASSUME NEW published \in BOOLEAN, commitCiRun(r, published)
        PROVE  j \in cancel' \/ rec'[j].status \in Terminal
    <3>1. run[r].result \in Terminal
      BY <2>5, <1>a DEF commitCiRun, Safe, HasResult
    <3>2. /\ cancel' = cancel \ {run[r].job}
          /\ \E s \in {"Error", run[r].result} :
               rec' = [rec EXCEPT ![run[r].job] = Rec(s, run[r].attempt)]
      BY <2>5 DEF commitCiRun
    <3>3. j = run[r].job => \E s \in Terminal : rec'[j] = Rec(s, run[r].attempt)
      BY <3>1, <3>2, <1>a DEF TypeOK
    <3> QED BY <3>2, <3>3 DEF Rec
  <2>6. CASE abandonCiJob(r)
    <3>1. CASE Holds(r)
      <4>1. requeueLocked({run[r].job}, FALSE) /\ run[r].job \in Jobs
        BY <2>6, <3>1, <1>a, Zenon DEF abandonCiJob, TypeOK
      <4> QED BY <4>1, <1>2
    <3>2. CASE ~Holds(r)
      BY <2>6, <3>2 DEF abandonCiJob
    <3> QED BY <3>1, <3>2
  <2> QED BY <1>3, <2>1, <2>2, <2>3, <2>4, <2>5, <2>6 DEF Work
<1>4. CASE reapCiLeases \/ restart
  BY <1>4, <1>2, LapsedJobs DEF reapCiLeases, restart
<1>5. CASE UNCHANGED vars
  BY <1>5 DEF vars
<1> QED BY <1>1, <1>3, <1>4, <1>5 DEF Next

(* A runner that is releasing a job goes on to do so, unless it dies. *)
LEMMA ReleaserStays ==
  ASSUME OrderInv, TypeOK', [Next]_vars, Smooth', NEW r \in Runners, Releasing(r)
  PROVE  run'[r] = run[r] \/ working'[run[r].job] = 0
<1>a. /\ ClaimInv /\ TypeOK /\ interrupts = 0 /\ crashes = 0
      /\ Standing(r) /\ crashes' = 0
  BY CrashesAdd DEF OrderInv, ClaimInv, TypeOK, Smooth
<1>b. Holds(r) /\ run[r].job \in Jobs
  BY <1>a, StillHolds DEF Releasing, Unchecked
<1>1. CASE Work(r)
  <2>1. releaseCiClaim(r) \/ releaseCiJob(r) \/ crash(r)
    <3>1. run[r].pc \notin {"idle", "claimed", "running", "commit", "publish"}
      BY DEF Releasing
    <3>2. ASSUME NEW s, \/ claimCiJob(r, s) \/ claimInterrupted(r, s)
                        \/ recordCiOutcome(r, s) \/ finish(r, s) \/ commitCiRun(r, s)
          PROVE  FALSE
      BY <3>1, <3>2 DEF claimCiJob, claimInterrupted, recordCiOutcome, finish, commitCiRun
    <3>3. CASE \/ renewCiLease(r) \/ runStarted(r) \/ progress(r) \/ commitDecides(r)
               \/ abandonCiJob(r)
      BY <3>1, <3>3 DEF renewCiLease, runStarted, progress, commitDecides, abandonCiJob
    <3> QED BY <1>1, <3>2, <3>3 DEF Work
  <2>2. ~crash(r)
    BY <1>a DEF crash
  <2>3. RemoveClaim(run[r].job)
    BY <2>1, <2>2, <1>b DEF releaseCiClaim, releaseCiJob, Holds
  <2> QED BY <2>3, <1>a, <1>b DEF RemoveClaim, TypeOK
<1>2. ~(r = Primary /\ restart)
  BY DEF restart, Releasing
<1> QED BY <1>1, <1>2, <1>a, RunnerMoves

(* One holder per job: who releases is the one who holds. *)
LEMMA WriterIsNoReleaser ==
  ASSUME OrderInv, interrupts = 0, NEW r \in Runners, NEW q \in Runners,
         Holds(r), ~Releasing(r), run[q].job = run[r].job
  PROVE  ~Releasing(q)
<1>1. ClaimInv /\ Standing(q)
  BY DEF OrderInv
<1>2. Releasing(q) => Holds(q)
  BY <1>1, StillHolds DEF Releasing, Unchecked
<1> QED BY <1>1, <1>2, OneHolder DEF ClaimInv, Holds

(* Nothing but a claim writes an attempt into working/. *)
LEMMA OnlyClaimsFill ==
  ASSUME TypeOK, [Next]_vars, ~ClaimStep, NEW j \in Jobs
  PROVE  working'[j] \in {0, working[j]}
<1>1. ASSUME NEW L, NEW enforce, requeueLocked(L, enforce)
      PROVE  working'[j] \in {0, working[j]}
  BY <1>1 DEF requeueLocked
<1>2. ASSUME NEW k \in Jobs, Environment(k)
      PROVE  working'[j] \in {0, working[j]}
  <2>1. CASE enqueueCiJob(k) \/ age(k) \/ requestCiCancel(k) \/ leaseLapses(k)
    BY <2>1 DEF enqueueCiJob, age, requestCiCancel, leaseLapses, queueFiles
  <2>2. ASSUME NEW done, reapInterrupted(k, done)
        PROVE  working'[j] \in {0, working[j]}
    BY <2>2 DEF reapInterrupted, TypeOK
  <2> QED BY <1>2, <2>1, <2>2 DEF Environment
<1>3. ASSUME NEW r \in Runners, Work(r)
      PROVE  working'[j] \in {0, working[j]}
  <2>1. CASE abandonCiJob(r)
    <3>1. CASE Holds(r)
      <4>1. requeueLocked({run[r].job}, FALSE)
        BY <2>1, <3>1, Zenon DEF abandonCiJob
      <4> QED BY <4>1, <1>1
    <3>2. CASE ~Holds(r)
      BY <2>1, <3>2 DEF abandonCiJob
    <3> QED BY <3>1, <3>2
  <2>2. CASE releaseCiClaim(r) \/ releaseCiJob(r)
    <3>1. working' = working \/ working' = [working EXCEPT ![run[r].job] = 0]
      BY <2>2 DEF releaseCiClaim, releaseCiJob, RemoveClaim
    <3> QED BY <3>1 DEF TypeOK
  <2>3. CASE renewCiLease(r) \/ runStarted(r) \/ progress(r) \/ commitDecides(r) \/ crash(r)
    BY <2>3 DEF renewCiLease, runStarted, progress, commitDecides, crash, queueFiles
  <2>4. ASSUME NEW s, recordCiOutcome(r, s) \/ finish(r, s) \/ commitCiRun(r, s)
        PROVE  working' = working
    BY <2>4 DEF recordCiOutcome, finish, commitCiRun, queueFiles
  <2> QED BY <1>3, <2>1, <2>2, <2>3, <2>4 DEF Work, ClaimStep
<1>4. CASE reapCiLeases \/ restart
  BY <1>4, <1>1 DEF reapCiLeases, restart
<1>5. CASE UNCHANGED vars
  BY <1>5 DEF vars
<1> QED BY <1>2, <1>3, <1>4, <1>5 DEF Next

(* The attempt a runner works on stays the one in working/. *)
LEMMA NumberedStep ==
  ASSUME OrderInv, TypeOK', [Next]_vars, interrupts' = 0, NEW q \in Runners
  PROVE  Numbered(q)'
<1> SUFFICES ASSUME Holds(q)'
             PROVE  run'[q].attempt = working'[run'[q].job]
  BY DEF Numbered
<1>a. /\ ClaimInv /\ TypeOK /\ interrupts = 0 /\ Numbered(q) /\ TokensApart
  BY CrashesAdd DEF OrderInv, ClaimInv, TypeOK
<1>1. ASSUME NEW r \in Runners, NEW j \in Jobs, claimInterrupted(r, j)
      PROVE  FALSE
  BY <1>1, <1>a DEF claimInterrupted, TypeOK
<1>2. ASSUME NEW j \in Jobs, claimCiJob(q, j)
      PROVE  run'[q].attempt = working'[run'[q].job]
  BY <1>2, <1>a DEF claimCiJob, At, TypeOK
<1>3. ASSUME NEW r \in Runners, r # q, NEW j \in Jobs, claimCiJob(r, j)
      PROVE  run'[q].attempt = working'[run'[q].job]
  <2>1. run'[q] = run[q] /\ run[q].pc \notin {"idle", "down"} /\ run[q].job \in Jobs
    BY <1>3, <1>a DEF claimCiJob, TypeOK, Holds, TokenMatches
  <2>2. CASE run[q].job = j
    <3>1. lease'[j].token = drawn[j] + 1 /\ drawn[j] \in Nat
      BY <1>3, <1>a DEF claimCiJob, TypeOK
    <3>2. run[q].token \in 1 .. drawn[j]
      BY <1>a, <2>1, <2>2 DEF TokensApart, Busy
    <3> QED BY <2>1, <2>2, <3>1, <3>2 DEF Holds, TokenMatches
  <2>3. CASE run[q].job # j
    <3>1. Holds(q) /\ working'[run[q].job] = working[run[q].job]
      BY <1>3, <1>a, <2>1, <2>3 DEF claimCiJob, TypeOK, Holds, TokenMatches, Claimed
    <3> QED BY <2>1, <3>1, <1>a DEF Numbered
  <2> QED BY <2>2, <2>3
<1>4. CASE ~ClaimStep
  <2>1. /\ Busy(q)' /\ Busy(q)
        /\ run'[q].job = run[q].job
        /\ run'[q].token = run[q].token
        /\ run[q].job \in Jobs /\ run[q].token \in 1 .. drawn[run[q].job]
        /\ drawn[run[q].job] \in Nat
    BY <1>4, <1>a, OtherSteps DEF NoNewClaim, Holds, TokenMatches, Busy, TypeOK, TokensApart
  <2>2. TokenMatches(q) /\ Claimed(run[q].job)
    BY <2>1, <1>4, <1>a, OtherSteps DEF NoNewClaim, Holds, TokenMatches, Busy
  <2>3. run'[q].attempt = run[q].attempt
    <3>1. CASE Work(q)
      <4>1. ASSUME NEW s, recordCiOutcome(q, s) \/ commitCiRun(q, s)
            PROVE  run'[q].attempt = run[q].attempt
        BY <4>1, <1>a DEF recordCiOutcome, commitCiRun, TypeOK, RunState
      <4>2. ASSUME NEW s, finish(q, s)
            PROVE  run'[q].attempt = run[q].attempt
        <5>1. run' = [run EXCEPT ![q] = [run[q] EXCEPT !.pc = "commit", !.result = s]]
          BY <4>2, <2>1, <1>a DEF finish, At, Busy, TypeOK
        <5> QED BY <5>1, <1>a DEF TypeOK, RunState
      <4>3. CASE runStarted(q) \/ progress(q) \/ commitDecides(q)
        BY <4>3, <1>a DEF runStarted, progress, commitDecides, TypeOK, RunState
      <4>4. CASE renewCiLease(q)
        BY <4>4, <2>1, <1>a DEF renewCiLease, At, TypeOK, Busy
      <4>5. CASE releaseCiClaim(q) \/ releaseCiJob(q) \/ abandonCiJob(q)
        BY <4>5, <2>1, <1>a, LetsGo DEF Busy
      <4>6. CASE crash(q)
        BY <4>6, <2>1, <1>a DEF crash, At, TypeOK, Busy
      <4> QED BY <3>1, <1>4, <4>1, <4>2, <4>3, <4>4, <4>5, <4>6 DEF Work, ClaimStep
    <3>2. CASE q = Primary /\ restart
      BY <3>2, <2>1, <1>a DEF restart, At, TypeOK, Busy
    <3> QED BY <3>1, <3>2, <1>a, RunnerMoves
  <2>4. working'[run[q].job] \in {0, working[run[q].job]}
    BY <2>1, <1>4, <1>a, OnlyClaimsFill
  <2> QED BY <2>1, <2>2, <2>3, <2>4, <1>a DEF Numbered, Holds, Claimed
<1> QED BY <1>1, <1>2, <1>3, <1>4 DEF ClaimStep

(* The record of a job is never ahead of the queue, and a job is in one    *)
(* place.                                                                  *)
LEMMA BehindStep ==
  ASSUME OrderInv, TimelyWrites, TypeOK', [Next]_vars, interrupts' = 0,
         NEW j \in Jobs
  PROVE  Once(j)' /\ Behind(j)' /\ rec'[j].attempt >= rec[j].attempt
<1>a. /\ ClaimInv /\ TypeOK /\ interrupts = 0 /\ Once(j) /\ Behind(j)
      /\ \A r \in Runners : Numbered(r)
  BY CrashesAdd DEF OrderInv, ClaimInv, TypeOK
<1>b. /\ spool[j] \in Nat /\ working[j] \in Nat /\ rec[j].attempt \in Nat
      /\ Queued(j) \/ Claimed(j) => rec[j].status # "None"
      /\ rec[j].status = "None" => rec[j].attempt = 0
      /\ Queued(j) => rec[j].attempt <= spool[j] /\ ~Claimed(j)
      /\ Claimed(j) => rec[j].attempt <= working[j]
  BY <1>a DEF ClaimInv, Known, TypeOK, Record, Once, Behind
<1> SUFFICES /\ ~(Queued(j)' /\ Claimed(j)')
             /\ rec'[j].status = "None" => rec'[j].attempt = 0
             /\ Queued(j)' => rec'[j].attempt <= spool'[j]
             /\ Claimed(j)' => rec'[j].attempt <= working'[j]
             /\ rec'[j].attempt >= rec[j].attempt
  BY DEF Once, Behind
<1> USE DEF Queued, Claimed
<1>1. CASE Unmoved(j)
  BY <1>1, <1>b DEF Unmoved
<1>2. CASE enqueueCiJob(j)
  BY <1>2, <1>a, <1>b, PushMoves DEF Rec
<1>3. CASE Overtaken(j)
  BY <1>3, <1>b DEF Overtaken, Rec
<1>4. CASE Taken(j)
  BY <1>4, <1>b DEF Taken
<1>5. CASE PutBack(j)
  BY <1>5, <1>b DEF PutBack, Rec
<1>6. CASE GivenUpOn(j)
  BY <1>6, <1>b DEF GivenUpOn
<1>7. CASE Written(j)
  <2>1. PICK r \in Runners : Writes(r, j)
    BY <1>7 DEF Written
  <2>2. rec'[j].attempt = working[j] /\ rec'[j].status # "None"
    BY <2>1, <1>a DEF Writes, Numbered
  <2> QED BY <1>7, <2>2, <1>b DEF Written
<1>8. CASE Released(j)
  BY <1>8, <1>b DEF Released
<1> QED BY <1>1, <1>2, <1>3, <1>4, <1>5, <1>6, <1>7, <1>8, <1>a, JobMoves DEF Move

(* As long as no process dies, a job whose record says it ended is only    *)
(* waiting for its release, and its record does not change any more.       *)
LEMMA EndedStep ==
  ASSUME OrderInv, TimelyWrites, TypeOK', [Next]_vars, Smooth', NEW j \in Jobs
  PROVE  /\ Ended(j)'
         /\ rec[j].status \in Terminal => rec'[j] = rec[j]
<1>a. /\ ClaimInv /\ TypeOK /\ interrupts = 0 /\ interrupts' = 0 /\ Smooth
      /\ Once(j) /\ Ended(j)
  BY CrashesAdd DEF OrderInv, ClaimInv, TypeOK, Smooth
<1>b. /\ spool[j] \in Nat /\ working[j] \in Nat
      /\ Queued(j) => ~Claimed(j)
      /\ rec[j].status \in Terminal => ~Queued(j)
      /\ rec[j].status \in Terminal /\ Claimed(j) =>
           \E r \in Runners : run[r].job = j /\ Releasing(r)
  BY <1>a DEF TypeOK, Once, Ended
<1> SUFFICES ASSUME rec[j].status \in Terminal \/ rec'[j].status \in Terminal
             PROVE  /\ rec'[j].status \in Terminal => ~Queued(j)'
                    /\ rec'[j].status \in Terminal /\ Claimed(j)' =>
                         \E r \in Runners : run'[r].job = j /\ Releasing(r)'
                    /\ rec[j].status \in Terminal => rec'[j] = rec[j]
  BY DEF Ended
<1> USE DEF Queued, Claimed
<1>1. CASE Unmoved(j)
  <2>1. ASSUME Claimed(j)'
        PROVE  \E r \in Runners : run'[r].job = j /\ Releasing(r)'
    <3>1. PICK r \in Runners : run[r].job = j /\ Releasing(r)
      BY <1>1, <1>b, <2>1 DEF Unmoved
    <3>2. run'[r] = run[r]
      BY <3>1, <2>1, ReleaserStays
    <3> QED BY <3>1, <3>2 DEF Releasing
  <2> QED BY <1>1, <1>b, <2>1 DEF Unmoved
<1>2. CASE enqueueCiJob(j)
  BY <1>2, <1>a, PushMoves DEF Rec
<1>3. CASE Overtaken(j)
  BY <1>3, <1>b DEF Overtaken
<1>4. CASE Taken(j)
  BY <1>4, <1>b DEF Taken
<1>5. CASE PutBack(j)
  BY <1>5, <1>b, Smooth' DEF PutBack, NotReleased, Rec
<1>6. CASE GivenUpOn(j)
  BY <1>6, <1>b, Smooth' DEF GivenUpOn, NotReleased
<1>7. CASE Written(j)
  <2>1. PICK r \in Runners : Writes(r, j)
    BY <1>7 DEF Written
  <2>2. \A q \in Runners : run[q].job = j => ~Releasing(q)
    BY <2>1, <1>a, WriterIsNoReleaser DEF Writes
  <2>3. rec[j].status \notin Terminal
    BY <1>7, <2>2, <1>b DEF Written
  <2> QED BY <1>7, <2>1, <2>3, <1>b DEF Written, Writes
<1>8. CASE Released(j)
  BY <1>8, <1>b DEF Released
<1> QED BY <1>1, <1>2, <1>3, <1>4, <1>5, <1>6, <1>7, <1>8, <1>a, JobMoves DEF Move

(* A push that is queued leaves no older run of its branch in the queue,   *)
(* and marks the one in progress unless it has ended.                      *)
LEMMA PushSupersedes ==
  ASSUME ClaimInv, NEW k \in Jobs, enqueueCiJob(k), NEW j \in Jobs, Outdone(j, k)
  PROVE  /\ ~Queued(j)'
         /\ Claimed(j)' => \/ Queued(j)
                           \/ j \in cancel'
                           \/ rec'[j].status \in Terminal
<1>a. j # k /\ j \in Outdated(k)
  BY QueueAssumption DEF Outdone, Outdated, Rivals
<1>1. CASE Queued(j)
  BY <1>1, <1>a DEF enqueueCiJob, Dropped, Queued
<1>2. CASE ~Queued(j)
  <2>1. j \notin Dropped(k)
    BY <1>2 DEF Dropped
  <2>2. spool'[j] = spool[j] /\ rec'[j] = rec[j] /\ working'[j] = working[j]
    BY <2>1, <1>a DEF enqueueCiJob
  <2>3. Claimed(j) /\ rec[j].status \notin Terminal => j \in cancel'
    BY <1>2, <1>a DEF enqueueCiJob, Marked
  <2> QED BY <1>2, <2>2, <2>3 DEF Queued, Claimed
<1> QED BY <1>1, <1>2

(* No older run comes back beside the newer one that supersedes it.        *)
LEMMA SupersededStep ==
  ASSUME OrderInv, TimelyWrites, TypeOK', [Next]_vars, interrupts' = 0,
         NEW j \in Jobs, NEW k \in Jobs
  PROVE  Superseded(j, k)'
<1> SUFFICES ASSUME Smooth', Outdone(j, k), Queued(k)' \/ Claimed(k)'
             PROVE  /\ ~Queued(j)'
                    /\ Claimed(j)' => j \in cancel' \/ rec'[j].status \in Terminal
  BY DEF Superseded, Outdone
<1>a. /\ ClaimInv /\ TypeOK /\ interrupts = 0 /\ Smooth
      /\ Once(j) /\ Ended(j) /\ Superseded(j, k)
  BY CrashesAdd DEF OrderInv, ClaimInv, TypeOK, Smooth
<1>b. /\ spool[j] \in Nat /\ working[j] \in Nat
      /\ Queued(j) => ~Claimed(j)
  BY <1>a DEF TypeOK, Once
<1>c. Move(j) /\ Move(k)
  BY JobMoves
<1>1. CASE enqueueCiJob(k)
  <2>1. Queued(j) => ~Claimed(j)'
    BY <1>1, <1>b DEF enqueueCiJob, Claimed
  <2> QED BY <1>1, <1>a, <2>1, PushSupersedes
<1>2. CASE ~enqueueCiJob(k)
  <2>1. Queued(k) \/ Claimed(k)
    BY <1>2, <1>c DEF Move, Unmoved, Overtaken, Taken, PutBack, GivenUpOn, Written,
       Released, Queued, Claimed
  <2>2. ~Queued(j) /\ (Claimed(j) => j \in cancel \/ rec[j].status \in Terminal)
    BY <1>a, <2>1 DEF Superseded
  <2>3. rec[j].status \in Terminal => rec'[j] = rec[j]
    BY EndedStep
  <2>4. Claimed(j)' => \/ j \in cancel => j \in cancel'
                       \/ rec'[j].status \in Terminal
    BY <1>a, CancelStands DEF Claimed
  <2>5. CASE enqueueCiJob(j)
    <3>1. Obsolete(j)
      BY <2>1, QueueAssumption DEF Obsolete, Rivals, Outdone
    <3> QED BY <2>5, <3>1, <1>a, PushMoves DEF Queued, Claimed
  <2>6. CASE PutBack(j)
    <3>1. rec[j].status \in Terminal
      BY <2>6, <2>2 DEF PutBack
    <3> QED BY <2>6, <3>1, <1>a DEF PutBack, NotReleased, Ended
  <2>7. CASE ~enqueueCiJob(j) /\ ~PutBack(j)
    <3>1. ~Queued(j)' /\ (Claimed(j)' => Claimed(j))
      BY <2>7, <2>2, <1>b, <1>c DEF Move, Unmoved, Overtaken, Taken, GivenUpOn, Written,
         Released, Queued, Claimed
    <3> QED BY <3>1, <2>2, <2>3, <2>4
  <2> QED BY <2>5, <2>6, <2>7
<1> QED BY <1>1, <1>2

(* At most one run is about to publish a site, and only one that is not    *)
(* older than the site that is live.                                       *)
LEMMA PublishingStep ==
  ASSUME OrderInv, TypeOK', [Next]_vars, interrupts' = 0
  PROVE  /\ \A q \in Runners : Publishing(q)'
         /\ site' >= site
<1>a. /\ ClaimInv /\ TypeOK /\ interrupts = 0 /\ site \in Nat
      /\ ClaimsApart /\ TokensApart /\ Jobs \subseteq Nat
      /\ \A q \in Runners : Standing(q) /\ Publishing(q)
  BY CrashesAdd, QueueAssumption DEF OrderInv, ClaimInv, TypeOK
<1>b. ASSUME NEW r \in Runners, NEW q \in Runners, r # q,
             run[r].pc = "publish", run[r].publish,
             run[q].pc = "publish", run[q].publish
      PROVE  FALSE
  <2>1. /\ Holds(r) /\ Holds(q) /\ run[r].job \in Jobs /\ run[q].job \in Jobs
        /\ Ref[run[r].job] = Ref[run[q].job]
    BY <1>a, <1>b, StillHolds DEF Publishing, Unchecked
  <2>2. run[r].job = run[q].job
    BY <2>1, <1>a DEF ClaimsApart, Holds
  <2> QED BY <1>b, <2>1, <2>2, <1>a, OneHolder DEF Holds
<1>c. \/ site' = site
      \/ \E r \in Runners : commitCiRun(r, TRUE)
  <2>1. ASSUME NEW j \in Jobs, Environment(j)
        PROVE  site' = site
    BY <2>1 DEF Environment, enqueueCiJob, age, requestCiCancel, leaseLapses,
       reapInterrupted
  <2>2. ASSUME NEW r \in Runners, Work(r)
        PROVE  site' = site \/ commitCiRun(r, TRUE)
    <3>1. CASE abandonCiJob(r)
      <4>1. CASE Holds(r)
        <5>1. requeueLocked({run[r].job}, FALSE)
          BY <3>1, <4>1, Zenon DEF abandonCiJob
        <5> QED BY <5>1 DEF requeueLocked
      <4>2. CASE ~Holds(r)
        BY <3>1, <4>2 DEF abandonCiJob
      <4> QED BY <4>1, <4>2
    <3>2. ASSUME NEW s, \/ claimCiJob(r, s) \/ claimInterrupted(r, s)
                        \/ recordCiOutcome(r, s) \/ finish(r, s)
          PROVE  site' = site
      BY <3>2 DEF claimCiJob, claimInterrupted, recordCiOutcome, finish
    <3>3. CASE \/ renewCiLease(r) \/ runStarted(r) \/ progress(r) \/ commitDecides(r)
               \/ releaseCiClaim(r) \/ releaseCiJob(r) \/ crash(r)
      BY <3>3 DEF renewCiLease, runStarted, progress, commitDecides, releaseCiClaim,
         releaseCiJob, crash
    <3>4. CASE commitCiRun(r, FALSE)
      BY <3>4 DEF commitCiRun
    <3> QED BY <2>2, <3>1, <3>2, <3>3, <3>4 DEF Work
  <2>3. CASE reapCiLeases \/ restart
    BY <2>3 DEF reapCiLeases, restart, requeueLocked
  <2>4. CASE UNCHANGED vars
    BY <2>4 DEF vars
  <2> QED BY <2>1, <2>2, <2>3, <2>4 DEF Next
<1>d. ASSUME NEW r \in Runners, commitCiRun(r, TRUE)
      PROVE  /\ run[r].pc = "publish" /\ run[r].publish /\ site' = run[r].job
             /\ ~(run'[r].pc = "publish")
  BY <1>d, <1>a DEF commitCiRun, TypeOK, RunState
<1>1. site' >= site
  <2>1. ASSUME NEW r \in Runners, commitCiRun(r, TRUE)
        PROVE  site' >= site
    <3>1. /\ run[r].pc = "publish" /\ run[r].publish /\ site' = run[r].job
      BY <2>1, <1>d
    <3>2. run[r].job \in Nat
      BY <3>1, <1>a DEF TypeOK
    <3>3. ~(site > run[r].job)
      BY <3>1, <1>a DEF Publishing
    <3> QED BY <3>1, <3>2, <3>3, <1>a
  <2>2. site' = site => site' >= site
    BY <1>a
  <2> QED BY <2>1, <2>2, <1>c
<1>2. ASSUME NEW q \in Runners, run'[q].pc = "publish", run'[q].publish
      PROVE  Ref[run'[q].job] = DefaultRef /\ ~(site' > run'[q].job)
  <2>1. CASE commitDecides(q)
    <3>1. /\ run' = [run EXCEPT ![q].pc = "publish", ![q].result = Result(q),
                                ![q].publish = Publishes(q)]
          /\ site' = site
      BY <2>1 DEF commitDecides
    <3>2. run'[q].publish = Publishes(q) /\ run'[q].job = run[q].job
      BY <3>1, <1>a DEF TypeOK, RunState
    <3> QED BY <3>1, <3>2, <1>2 DEF Publishes
  <2>2. CASE run'[q] = run[q]
    <3>1. ~(\E r \in Runners : commitCiRun(r, TRUE))
      BY <2>2, <1>2, <1>b, <1>d
    <3> QED BY <3>1, <2>2, <1>2, <1>a, <1>c DEF Publishing
  <2>3. CASE Work(q) /\ ~commitDecides(q)
    <3>1. ASSUME NEW j \in Jobs, claimCiJob(q, j) \/ claimInterrupted(q, j)
          PROVE  FALSE
      BY <3>1, <1>2, <1>a, ClaimerIs
    <3>2. ASSUME NEW s, recordCiOutcome(q, s) \/ commitCiRun(q, s)
          PROVE  FALSE
      BY <3>2, <1>2, <1>a DEF recordCiOutcome, commitCiRun, TypeOK, RunState
    <3>3. ASSUME NEW s, finish(q, s)
          PROVE  FALSE
      BY <3>3, <1>2, <1>a DEF finish, At, TypeOK, RunState
    <3>4. CASE runStarted(q) \/ crash(q)
      BY <3>4, <1>2, <1>a DEF runStarted, crash, At, TypeOK, RunState
    <3>5. CASE renewCiLease(q) \/ progress(q)
      BY <3>5, <1>2, <1>a DEF renewCiLease, progress, At, TypeOK
    <3>6. CASE releaseCiClaim(q) \/ releaseCiJob(q) \/ abandonCiJob(q)
      BY <3>6, <1>2, <1>a, LetsGo
    <3> QED BY <2>3, <3>1, <3>2, <3>3, <3>4, <3>5, <3>6 DEF Work
  <2>4. CASE q = Primary /\ restart
    BY <2>4, <1>2, <1>a DEF restart, At, TypeOK
  <2> QED BY <2>1, <2>2, <2>3, <2>4, <1>a, RunnerMoves
<1> QED BY <1>1, <1>2 DEF Publishing

(* The main host's runner is down only after a crash. *)
LEMMA AliveStep ==
  ASSUME OrderInv, TypeOK', [Next]_vars
  PROVE  Alive'
<1> SUFFICES ASSUME run'[Primary].pc = "down", Smooth'
             PROVE  FALSE
  BY DEF Alive
<1>a. /\ ClaimInv /\ TypeOK /\ Alive /\ Smooth /\ Primary \in Runners
      /\ crashes = 0 /\ interrupts = 0 /\ crashes' = 0 /\ interrupts' = 0
  BY CrashesAdd, QueueAssumption DEF OrderInv, ClaimInv, TypeOK, Smooth
<1>1. run'[Primary] # run[Primary]
  BY <1>a DEF Alive
<1>2. CASE Work(Primary)
  <2>1. ASSUME NEW j \in Jobs, claimCiJob(Primary, j) \/ claimInterrupted(Primary, j)
        PROVE  FALSE
    BY <2>1, <1>a, ClaimerIs DEF claimInterrupted
  <2>2. ASSUME NEW s, recordCiOutcome(Primary, s) \/ commitCiRun(Primary, s)
        PROVE  FALSE
    BY <2>2, <1>a DEF recordCiOutcome, commitCiRun, TypeOK, RunState
  <2>3. ASSUME NEW s, finish(Primary, s)
        PROVE  FALSE
    BY <2>3, <1>a DEF finish, At, TypeOK, RunState
  <2>4. CASE runStarted(Primary) \/ commitDecides(Primary)
    BY <2>4, <1>a DEF runStarted, commitDecides, TypeOK, RunState
  <2>5. CASE renewCiLease(Primary) \/ progress(Primary)
    BY <2>5, <1>1, <1>a DEF renewCiLease, progress, At, TypeOK
  <2>6. CASE releaseCiClaim(Primary) \/ releaseCiJob(Primary) \/ abandonCiJob(Primary)
    BY <2>6, <1>a, LetsGo
  <2>7. CASE crash(Primary)
    BY <2>7, <1>a DEF crash
  <2> QED BY <1>2, <2>1, <2>2, <2>3, <2>4, <2>5, <2>6, <2>7 DEF Work
<1>3. CASE restart
  BY <1>3, <1>a DEF restart, At, TypeOK
<1> QED BY <1>1, <1>2, <1>3, <1>a, RunnerMoves

(* The empty queue satisfies the invariant. *)
LEMMA InitIsOrderInv == Init => OrderInv
<1> SUFFICES ASSUME Init
             PROVE  OrderInv
  OBVIOUS
<1>1. ClaimInv
  BY InitIsClaimInv
<1>2. /\ \A j \in Jobs : ~Queued(j) /\ ~Claimed(j) /\ rec[j] = NoRecord
      /\ \A q \in Runners : run[q].pc = "idle"
  BY DEF Init, Queued, Claimed, At
<1>3. \A j \in Jobs : Once(j) /\ Behind(j) /\ Ended(j)
  BY <1>2 DEF Once, Behind, Ended, NoRecord
<1>4. \A q \in Runners : Standing(q) /\ Numbered(q) /\ Publishing(q)
  BY <1>2 DEF Standing, Numbered, Publishing, Holds, TokenMatches, Unchecked
<1>5. Alive
  BY <1>2, QueueAssumption DEF Alive
<1>6. \A j, k \in Jobs : Superseded(j, k)
  BY <1>2 DEF Superseded
<1> QED BY <1>1, <1>3, <1>4, <1>5, <1>6 DEF OrderInv

(* Every step keeps the invariant. *)
LEMMA OrderInvStep ==
  ASSUME TimelyWrites, OrderInv, [Next]_vars
  PROVE  OrderInv'
<1>1. ClaimInv' /\ TypeOK'
  BY ClaimInvStep DEF OrderInv, ClaimInv
<1>2. CASE interrupts' = 0
  <2>1. ASSUME NEW j \in Jobs
        PROVE  Once(j)' /\ Behind(j)' /\ Ended(j)'
    <3>1. Ended(j)'
      BY <1>1, EndedStep DEF Ended
    <3> QED BY <1>1, <1>2, <3>1, BehindStep
  <2>2. ASSUME NEW q \in Runners
        PROVE  Standing(q)' /\ Numbered(q)' /\ Publishing(q)'
    BY <1>1, <1>2, StandingStep, NumberedStep, PublishingStep
  <2>3. \A j, k \in Jobs : Superseded(j, k)'
    BY <1>1, <1>2, SupersededStep
  <2> QED BY <1>1, <2>1, <2>2, <2>3, AliveStep DEF OrderInv
<1>3. CASE interrupts' # 0
  BY <1>1, <1>3, AliveStep DEF OrderInv, Once, Behind, Ended, Standing, Numbered, Publishing,
     Superseded, Smooth
<1> QED BY <1>2, <1>3

(* What the other results below rest on. *)
LEMMA OrderInvariant == ASSUME TimelyWrites PROVE Spec => []OrderInv
<1>1. OrderInv /\ [Next]_vars => OrderInv'
  BY OrderInvStep
<1> QED BY InitIsOrderInv, <1>1, PTL DEF Spec

(* As long as no process dies and no write outlives its lease, no older    *)
(* run of a branch waits in the queue beside a newer one that supersedes   *)
(* it: neither a slow receive hook, nor a requeue, nor a run handed back   *)
(* puts it there (enqueueCiJob, requeueLocked).                            *)
THEOREM SupersededWaitsNever == ASSUME TimelyWrites PROVE Spec => []SupersededNeverWaits
<1>1. OrderInv => SupersededNeverWaits
  BY DEF OrderInv, ClaimInv, TypeOK, SupersededNeverWaits, Superseded, Outdone, Smooth
<1> QED BY <1>1, OrderInvariant, PTL

(* A process that dies leaves records and site alone, unless it was        *)
(* resetting the record of a job whose lease lapsed.                       *)
LEMMA DyingSteps ==
  ASSUME ClaimInv, [Next]_vars, NEW j \in Jobs,
         crashes' # crashes \/ interrupts' # interrupts
  PROVE  /\ site' = site
         /\ \/ rec'[j] = rec[j]
            \/ Claimed(j) /\ lease[j].lapsed /\ rec'[j] = Reset(j)
<1>a. TypeOK
  BY DEF ClaimInv
<1>1. ASSUME NEW k \in Jobs, Environment(k)
      PROVE  \E done : reapInterrupted(k, done)
  BY <1>1 DEF Environment, enqueueCiJob, age, requestCiCancel, leaseLapses, history
<1>2. ASSUME NEW k \in Jobs, NEW done, reapInterrupted(k, done)
      PROVE  /\ site' = site
             /\ \/ rec'[j] = rec[j]
                \/ Claimed(j) /\ lease[j].lapsed /\ rec'[j] = Reset(j)
  <2>1. /\ Claimed(k) /\ lease[k].lapsed /\ site' = site
        /\ rec' = [rec EXCEPT ![k] = Reset(k)]
    BY <1>2 DEF reapInterrupted, Back, Lapsed
  <2> QED BY <2>1, <1>a DEF TypeOK
<1>3. ASSUME NEW r \in Runners, Work(r)
      PROVE  UNCHANGED <<site, rec>>
  <2>1. ASSUME NEW s, \/ claimCiJob(r, s) \/ recordCiOutcome(r, s)
                      \/ finish(r, s) \/ commitCiRun(r, s)
        PROVE  FALSE
    <3>1. UNCHANGED history
      BY <2>1 DEF claimCiJob, recordCiOutcome, finish, commitCiRun
    <3> QED BY <3>1 DEF history
  <2>2. CASE \/ renewCiLease(r) \/ runStarted(r) \/ progress(r) \/ commitDecides(r)
             \/ releaseCiClaim(r) \/ releaseCiJob(r)
    <3>1. UNCHANGED history
      BY <2>2 DEF renewCiLease, runStarted, progress, commitDecides, releaseCiClaim,
         releaseCiJob
    <3> QED BY <3>1 DEF history
  <2>3. CASE abandonCiJob(r)
    BY <2>3 DEF abandonCiJob
  <2>4. ASSUME NEW k \in Jobs, claimInterrupted(r, k)
        PROVE  UNCHANGED <<site, rec>>
    BY <2>4 DEF claimInterrupted
  <2>5. CASE crash(r)
    BY <2>5 DEF crash
  <2> QED BY <1>3, <2>1, <2>2, <2>3, <2>4, <2>5 DEF Work
<1>4. ~reapCiLeases /\ ~restart /\ ~UNCHANGED vars
  BY DEF reapCiLeases, restart, history, vars
<1> QED BY <1>1, <1>2, <1>3, <1>4 DEF Next

(* Under the same conditions a terminal record is never replaced: not by a *)
(* late step of the run, a requeue, a cancellation or the next attempt     *)
(* (ciRunStatusIsActive's contract).                                       *)
THEOREM TerminalStays == ASSUME TimelyWrites PROVE Spec => TerminalIsFinal
<1> DEFINE Stays == crashes + interrupts = 0 =>
             \A j \in Jobs : rec[j].status \in Terminal => rec'[j].status = rec[j].status
<1>1. ASSUME OrderInv, OrderInv', [Next]_vars
      PROVE  Stays
  <2> SUFFICES ASSUME crashes + interrupts = 0,
                      NEW j \in Jobs, rec[j].status \in Terminal
               PROVE  rec'[j].status = rec[j].status
    OBVIOUS
  <2>1. ClaimInv /\ TypeOK /\ TypeOK' /\ Smooth
    BY <1>1 DEF OrderInv, ClaimInv, TypeOK, Smooth
  <2>2. CASE Smooth'
    BY <1>1, <2>1, <2>2, EndedStep
  <2>3. CASE ~Smooth'
    <3>1. crashes' # crashes \/ interrupts' # interrupts
      BY <2>1, <2>3 DEF Smooth
    <3>2. Claimed(j) => ~lease[j].lapsed
      BY <2>1, <1>1, StillHolds DEF OrderInv, Ended, Smooth, Releasing, Unchecked
    <3> QED BY <3>1, <3>2, <2>1, <1>1, DyingSteps
  <2> QED BY <2>2, <2>3
<1>2. OrderInv /\ OrderInv' /\ [Next]_vars => [Stays]_rec
  BY <1>1
<1> QED BY <1>2, OrderInvariant, PTL DEF Spec, TerminalIsFinal

(* As long as no write outlives its lease and no operation is interrupted, *)
(* the record of a job never goes back to an older attempt, whatever       *)
(* runners and the main host lose: whoever writes it still holds the claim *)
(* of its attempt, and a requeue resets it to the next.                    *)
THEOREM NewestAttemptStands == ASSUME TimelyWrites PROVE Spec => NewerAttemptWins
<1> DEFINE Newer == interrupts = 0 =>
             \A j \in Jobs : rec'[j].attempt >= rec[j].attempt
<1>1. ASSUME OrderInv, OrderInv', [Next]_vars
      PROVE  Newer
  <2> SUFFICES ASSUME interrupts = 0, NEW j \in Jobs
               PROVE  rec'[j].attempt >= rec[j].attempt
    OBVIOUS
  <2>1. ClaimInv /\ TypeOK /\ TypeOK' /\ Behind(j)
    BY <1>1 DEF OrderInv, ClaimInv
  <2>2. CASE interrupts' = 0
    BY <1>1, <2>1, <2>2, BehindStep
  <2>3. CASE interrupts' # 0
    <3>1. rec[j].attempt \in Nat /\ working[j] \in Nat
      BY <2>1 DEF TypeOK, Record
    <3>2. \/ rec'[j] = rec[j]
          \/ Claimed(j) /\ rec'[j] = Reset(j)
      BY <1>1, <2>1, <2>3, DyingSteps
    <3> QED BY <3>1, <3>2, <2>1 DEF Behind, Reset, Rec
  <2> QED BY <2>2, <2>3
<1>2. OrderInv /\ OrderInv' /\ [Next]_vars => [Newer]_rec
  BY <1>1
<1> QED BY <1>2, OrderInvariant, PTL DEF Spec, NewerAttemptWins

(* Under the same conditions the live Pages site never goes back to an     *)
(* older run, although commitCiRun compares with the live site and         *)
(* publishes in two steps outside the queue's lock: two runs of the        *)
(* default branch are never committed at once.                             *)
THEOREM SiteOnlyAdvances == ASSUME TimelyWrites PROVE Spec => SiteNeverRollsBack
<1> DEFINE Advances == interrupts = 0 => site' >= site
<1>1. ASSUME OrderInv, OrderInv', [Next]_vars
      PROVE  Advances
  <2> SUFFICES ASSUME interrupts = 0
               PROVE  site' >= site
    OBVIOUS
  <2>1. ClaimInv /\ TypeOK' /\ site \in Nat
    BY <1>1, QueueAssumption DEF OrderInv, ClaimInv, TypeOK
  <2>2. CASE interrupts' = 0
    BY <1>1, <2>1, <2>2, PublishingStep
  <2>3. CASE interrupts' # 0
    <3>1. CASE Jobs = {}
      BY <2>1, <3>1, <1>1 DEF OrderInv, ClaimInv, TypeOK
    <3>2. CASE Jobs # {}
      BY <1>1, <2>1, <2>3, <3>2, DyingSteps
    <3> QED BY <3>1, <3>2
  <2> QED BY <2>2, <2>3
<1>2. OrderInv /\ OrderInv' /\ [Next]_vars => [Advances]_site
  BY <1>1
<1> QED BY <1>2, OrderInvariant, PTL DEF Spec, SiteNeverRollsBack

-----------------------------------------------------------------------------
(* The job queue implements JobQueue: an operation on spool/, working/ and *)
(* the run records is, seen through Phase and Attempt, one step of the     *)
(* abstract queue or none.                                                 *)

(* Besides ClaimInv the steps need two facts: a job in spool/ and working/ *)
(* at once is the leftover of a requeue that was interrupted, one attempt  *)
(* apart and below the limit (Twice); a run that a runner works on has a   *)
(* record (Begun).                                                         *)
Twice ==
  \A j \in Jobs : Queued(j) /\ Claimed(j) =>
    spool[j] = working[j] + 1 /\ working[j] < MaxAttempts

Begun == \A r \in Runners : Busy(r) => rec[run[r].job].status # "None"

RefInv == ClaimInv /\ Twice /\ Begun

-----------------------------------------------------------------------------
(* The strengthened invariant. *)

(* requeueLocked settles what is in both places: it puts it back as the    *)
(* attempt that is waiting already.                                        *)
LEMMA RequeueTwice ==
  ASSUME TypeOK, Twice, NEW L \in SUBSET Jobs, NEW enforce \in BOOLEAN,
         requeueLocked(L, enforce)
  PROVE  Twice'
<1> SUFFICES ASSUME NEW j \in Jobs, Queued(j)', Claimed(j)'
             PROVE  spool'[j] = working'[j] + 1 /\ working'[j] < MaxAttempts
  BY DEF Twice
<1>1. j \notin L /\ working'[j] = working[j]
  BY DEF requeueLocked, Claimed
<1>2. spool'[j] = spool[j]
  BY <1>1 DEF requeueLocked, Back
<1> QED BY <1>1, <1>2 DEF Twice, Queued, Claimed

(* requeueLocked erases no record. *)
LEMMA RequeueBegun ==
  ASSUME TypeOK, NEW L \in SUBSET Jobs, NEW enforce \in BOOLEAN,
         requeueLocked(L, enforce), NEW j \in Jobs, rec[j].status # "None"
  PROVE  rec'[j].status # "None"
<1>1. CASE j \in Back(L, enforce)
  BY <1>1 DEF requeueLocked, Reset, Rec
<1>2. CASE j \notin Back(L, enforce)
  BY <1>2 DEF requeueLocked, Rec
<1> QED BY <1>1, <1>2

(* Every step keeps Twice. *)
LEMMA TwiceStep == TypeOK /\ Known /\ Twice /\ [Next]_vars => Twice'
<1> SUFFICES ASSUME TypeOK, Known, Twice, [Next]_vars
             PROVE  Twice'
  OBVIOUS
<1> USE DEF Queued, Claimed
<1>a. /\ spool \in [Jobs -> Nat] /\ working \in [Jobs -> Nat]
      /\ MaxAttempts \in Nat
  BY QueueAssumption DEF TypeOK
<1>b. ASSUME \A j \in Jobs : /\ spool'[j] \in {0, spool[j]}
                             /\ working'[j] \in {0, working[j]}
      PROVE  Twice'
  BY <1>a, <1>b DEF Twice
<1>1. ASSUME NEW j \in Jobs, Environment(j)
      PROVE  Twice'
  <2>1. CASE enqueueCiJob(j)
    <3>1. working[j] = 0 /\ working' = working
      BY <2>1, <1>a DEF enqueueCiJob, Known
    <3>2. \A k \in Jobs : k # j => spool'[k] \in {0, spool[k]}
      BY <2>1 DEF enqueueCiJob
    <3> QED BY <3>1, <3>2, <1>a DEF Twice
  <2>2. CASE age(j)
    BY <2>2, <1>b DEF age
  <2>3. CASE requestCiCancel(j)
    BY <2>3, <1>b DEF requestCiCancel, queueFiles
  <2>4. CASE leaseLapses(j)
    BY <2>4, <1>b DEF leaseLapses
  <2>5. ASSUME NEW done \in {"record", "spool", "working"}, reapInterrupted(j, done)
        PROVE  Twice'
    <3>1. ~(working[j] >= MaxAttempts)
      BY <2>5 DEF reapInterrupted, Back, GivenUp
    <3>2. \A k \in Jobs : /\ \/ spool'[k] = spool[k]
                             \/ k = j /\ spool'[k] = working[k] + 1
                          /\ working'[k] \in {0, working[k]}
      BY <2>5, <1>a DEF reapInterrupted
    <3> QED BY <3>1, <3>2, <1>a DEF Twice
  <2> QED BY <1>1, <2>1, <2>2, <2>3, <2>4, <2>5 DEF Environment
<1>2. ASSUME NEW r \in Runners, Work(r)
      PROVE  Twice'
  <2>1. ASSUME NEW j \in Jobs, claimCiJob(r, j) \/ claimInterrupted(r, j)
        PROVE  Twice'
    <3>1. /\ spool' = [spool EXCEPT ![j] = 0]
          /\ working' = [working EXCEPT ![j] = spool[j]]
      BY <2>1 DEF claimCiJob, claimInterrupted
    <3> QED BY <3>1, <1>a DEF Twice
  <2>2. CASE abandonCiJob(r)
    <3>1. CASE Holds(r)
      <4>1. requeueLocked({run[r].job}, FALSE) /\ run[r].job \in Jobs
        BY <2>2, <3>1, Zenon DEF abandonCiJob, TypeOK
      <4> QED BY <4>1, RequeueTwice
    <3>2. CASE ~Holds(r)
      BY <2>2, <3>2, <1>b DEF abandonCiJob
    <3> QED BY <3>1, <3>2
  <2>3. CASE releaseCiClaim(r) \/ releaseCiJob(r)
    BY <2>3, <1>a, <1>b DEF releaseCiClaim, releaseCiJob, RemoveClaim
  <2>4. CASE renewCiLease(r) \/ runStarted(r) \/ progress(r) \/ commitDecides(r) \/ crash(r)
    BY <2>4, <1>b DEF renewCiLease, runStarted, progress, commitDecides, crash, queueFiles
  <2>5. ASSUME NEW s, recordCiOutcome(r, s) \/ finish(r, s) \/ commitCiRun(r, s)
        PROVE  Twice'
    BY <2>5, <1>b DEF recordCiOutcome, finish, commitCiRun, queueFiles
  <2> QED BY <1>2, <2>1, <2>2, <2>3, <2>4, <2>5 DEF Work
<1>3. CASE reapCiLeases
  BY <1>3, RequeueTwice, LapsedJobs DEF reapCiLeases
<1>4. CASE restart
  BY <1>4, RequeueTwice, LapsedJobs DEF restart
<1>5. CASE UNCHANGED vars
  BY <1>5, <1>b DEF vars
<1> QED BY <1>1, <1>2, <1>3, <1>4, <1>5 DEF Next

(* Every step keeps Begun: only a queued job is claimed, and no record is  *)
(* taken away.                                                             *)
LEMMA BegunStep == ClaimInv /\ TypeOK' /\ Begun /\ [Next]_vars => Begun'
<1> SUFFICES ASSUME ClaimInv, TypeOK', Begun, [Next]_vars
             PROVE  Begun'
  OBVIOUS
<1>a. TypeOK /\ Known
  BY DEF ClaimInv
<1>1. ASSUME NEW k \in Jobs, rec[k].status # "None"
      PROVE  rec'[k].status # "None"
  <2>1. ASSUME NEW j \in Jobs, Environment(j)
        PROVE  rec'[k].status # "None"
    <3>1. CASE enqueueCiJob(j)
      BY <3>1, <1>1, <1>a DEF enqueueCiJob, Rec
    <3>2. CASE age(j) \/ requestCiCancel(j) \/ leaseLapses(j)
      BY <3>2, <1>1, <1>a DEF age, requestCiCancel, leaseLapses
    <3>3. ASSUME NEW done \in {"record", "spool", "working"}, reapInterrupted(j, done)
          PROVE  rec'[k].status # "None"
      BY <3>3, <1>1, <1>a DEF reapInterrupted, Reset, Rec, TypeOK
    <3> QED BY <2>1, <3>1, <3>2, <3>3 DEF Environment
  <2>2. ASSUME NEW r \in Runners, Work(r)
        PROVE  rec'[k].status # "None"
    <3>1. CASE abandonCiJob(r)
      <4>1. CASE Holds(r)
        <5>1. requeueLocked({run[r].job}, FALSE) /\ run[r].job \in Jobs
          BY <3>1, <4>1, <1>a, Zenon DEF abandonCiJob, TypeOK
        <5> QED BY <5>1, <1>1, <1>a, RequeueBegun
      <4>2. CASE ~Holds(r)
        BY <3>1, <4>2, <1>1, <1>a DEF abandonCiJob
      <4> QED BY <4>1, <4>2
    <3>2. CASE \E s \in {"Cancelled", "Skipped", "Error"} : recordCiOutcome(r, s)
      BY <3>2, <1>1, <1>a DEF recordCiOutcome, Rec, TypeOK
    <3>3. CASE runStarted(r) \/ progress(r)
      BY <3>3, <1>1, <1>a DEF runStarted, progress, Rec, TypeOK
    <3>4. ASSUME NEW published \in BOOLEAN, commitCiRun(r, published)
          PROVE  rec'[k].status # "None"
      <4>1. run[r].pc = "publish" /\ run[r].result \in Terminal
        BY <3>4 DEF commitCiRun, ClaimInv, Safe, HasResult
      <4>2. rec' = [rec EXCEPT ![run[r].job] =
                      Rec(IF run[r].publish /\ ~published THEN "Error"
                          ELSE run[r].result, run[r].attempt)]
        BY <3>4 DEF commitCiRun
      <4>3. CASE k = run[r].job
        <5>1. \E s \in Terminal : rec'[k] = Rec(s, run[r].attempt)
          BY <4>1, <4>2, <4>3, <1>a DEF TypeOK
        <5> QED BY <5>1 DEF Rec
      <4> QED BY <4>2, <4>3, <1>1, <1>a DEF TypeOK
    <3>5. CASE rec' = rec
      BY <3>5, <1>1
    <3>6. \/ rec' = rec \/ abandonCiJob(r) \/ runStarted(r) \/ progress(r)
          \/ \E s \in {"Cancelled", "Skipped", "Error"} : recordCiOutcome(r, s)
          \/ \E published \in BOOLEAN : commitCiRun(r, published)
      BY <2>2 DEF Work, claimCiJob, claimInterrupted, renewCiLease, finish,
         commitDecides, releaseCiClaim, releaseCiJob, crash
    <3> QED BY <3>1, <3>2, <3>3, <3>4, <3>5, <3>6
  <2>3. CASE reapCiLeases \/ restart
    BY <2>3, <1>1, <1>a, RequeueBegun, LapsedJobs DEF reapCiLeases, restart
  <2>4. CASE UNCHANGED vars
    BY <2>4, <1>1, <1>a DEF vars
  <2> QED BY <2>1, <2>2, <2>3, <2>4 DEF Next
<1>2. CASE ~ClaimStep
  <2>1. NoNewClaim
    BY <1>2, <1>a, OtherSteps
  <2> QED BY <2>1, <1>1, <1>a DEF NoNewClaim, Begun, Busy, TypeOK
<1>3. ASSUME NEW r \in Runners, NEW j \in Jobs,
             claimCiJob(r, j) \/ claimInterrupted(r, j)
      PROVE  Begun'
  <2>1. rec[j].status # "None"
    BY <1>3, <1>a DEF claimCiJob, claimInterrupted, Oldest, Eligible, Known
  <2>2. /\ \A q \in Runners : q # r => run'[q] = run[q]
        /\ Busy(r)' => run'[r].job = j
    <3>1. CASE claimCiJob(r, j)
      BY <3>1, <1>a DEF claimCiJob, TypeOK, At
    <3>2. CASE claimInterrupted(r, j)
      BY <3>2, <1>a DEF claimInterrupted, TypeOK, At, Busy
    <3> QED BY <1>3, <3>1, <3>2
  <2>3. ASSUME NEW q \in Runners, Busy(q)'
        PROVE  rec'[run'[q].job].status # "None"
    BY <2>1, <2>2, <2>3, <1>1, <1>a DEF Begun, Busy, TypeOK
  <2> QED BY <2>3 DEF Begun
<1> QED BY <1>2, <1>3 DEF ClaimStep

-----------------------------------------------------------------------------
(* The refinement mapping. *)

(* What a job's files and record show of it. *)
LEMMA PhaseOf ==
  ASSUME NEW j \in Jobs
  PROVE  /\ Phase[j] = IF Claimed(j) THEN "held"
                       ELSE IF Queued(j) THEN "waiting"
                       ELSE IF rec[j].status = "None" THEN "new"
                       ELSE IF rec[j].status \in Terminal THEN "settled"
                       ELSE "lost"
         /\ Attempt[j] = IF Claimed(j) THEN working[j] ELSE spool[j]
  BY DEF Phase, Attempt

(* A job whose files stay and whose record stays or is not looked at keeps *)
(* its place and its attempt.                                              *)
SameFor(j) ==
  /\ spool'[j] = spool[j] \/ Claimed(j)
  /\ working'[j] = working[j]
  /\ \/ Claimed(j) \/ Queued(j)
     \/ rec'[j].status = rec[j].status
     \/ rec[j].status \in Terminal /\ rec'[j].status \in Terminal

LEMMA SameShows ==
  ASSUME NEW j \in Jobs, SameFor(j)
  PROVE  Phase'[j] = Phase[j] /\ Attempt'[j] = Attempt[j]
  BY DEF Phase, Attempt, SameFor, Claimed, Queued

(* A step that keeps every job's place is none of the abstract queue. *)
LEMMA Stutter ==
  ASSUME \A j \in Jobs : SameFor(j)
  PROVE  Phase' = Phase /\ Attempt' = Attempt
<1>1. \A j \in Jobs : Phase'[j] = Phase[j] /\ Attempt'[j] = Attempt[j]
  BY SameShows
<1>2. /\ Phase = [j \in Jobs |-> Phase[j]] /\ Phase' = [j \in Jobs |-> Phase'[j]]
      /\ Attempt = [j \in Jobs |-> Attempt[j]] /\ Attempt' = [j \in Jobs |-> Attempt'[j]]
  BY DEF Phase, Attempt
<1> QED BY <1>1, <1>2

(* Claims that are given up, for another attempt or for good, are a        *)
(* PutBack.                                                                *)
LEMMA PutBackStep ==
  ASSUME TypeOK, TypeOK', NEW back \in SUBSET Jobs, NEW gone \in SUBSET Jobs,
         back \cap gone = {},
         \A j \in back \cup gone : Claimed(j) /\ working'[j] = 0,
         \A j \in back : spool'[j] = working[j] + 1,
         \A j \in gone : spool'[j] = 0 /\ rec'[j].status \in Terminal,
         \A j \in Jobs \ (back \cup gone) : SameFor(j)
  PROVE  Promise!PutBack(back, gone)
<1>1. back \subseteq Promise!In("held") /\ gone \subseteq Promise!In("held") \ back
  BY PhaseOf DEF Promise!In
<1>2. ASSUME NEW j \in Jobs
      PROVE  /\ Phase'[j] = IF j \in back THEN "waiting"
                            ELSE IF j \in gone THEN "settled" ELSE Phase[j]
             /\ Attempt'[j] = IF j \in back THEN Attempt[j] + 1
                              ELSE IF j \in gone THEN 0 ELSE Attempt[j]
  <2>1. CASE j \in back
    <3>1. /\ working'[j] = 0 /\ spool'[j] = working[j] + 1 /\ spool'[j] > 0
          /\ Claimed(j)
      BY <2>1 DEF TypeOK
    <3> QED BY <2>1, <3>1 DEF Phase, Attempt, Claimed, Queued
  <2>2. CASE j \in gone
    BY <2>2 DEF Phase, Attempt, Claimed, Queued
  <2>3. CASE j \notin back \cup gone
    BY <2>3, SameShows
  <2> QED BY <2>1, <2>2, <2>3
<1>3. /\ Phase' = [j \in Jobs |-> Phase'[j]]
      /\ Attempt' = [j \in Jobs |-> Attempt'[j]]
  BY DEF Phase, Attempt
<1> QED BY <1>1, <1>2, <1>3 DEF Promise!PutBack

(* requeueLocked on claimed jobs is a PutBack. *)
LEMMA RequeueStep ==
  ASSUME TypeOK, TypeOK', Twice, NEW L \in SUBSET Jobs, NEW enforce \in BOOLEAN,
         requeueLocked(L, enforce), \A j \in L : Claimed(j)
  PROVE  \E back, gone \in SUBSET Jobs : Promise!PutBack(back, gone)
<1> DEFINE back == Back(L, enforce)
           gone == L \ back
<1>1. /\ back \in SUBSET Jobs /\ gone \in SUBSET Jobs /\ back \cap gone = {}
      /\ back \cup gone = L
  BY DEF Back
<1>2. \A j \in L : Claimed(j) /\ working'[j] = 0
  BY DEF requeueLocked
<1>3. \A j \in back : spool'[j] = working[j] + 1
  BY DEF requeueLocked, Back
<1>4. ASSUME NEW j \in gone
      PROVE  spool'[j] = 0 /\ rec'[j].status \in Terminal
  <2>1. rec'[j].status \in {"Error", "Cancelled"}
    BY DEF requeueLocked, Rec
  <2>2. CASE j \in cancel
    BY <2>1, <2>2 DEF requeueLocked
  <2>3. CASE j \notin cancel
    <3>1. j \in GivenUp(L, enforce)
      BY <2>3 DEF Back
    <3>2. /\ working[j] >= MaxAttempts /\ working[j] \in Nat
          /\ spool[j] \in Nat /\ MaxAttempts \in Nat
      BY <3>1, QueueAssumption DEF GivenUp, TypeOK
    <3>3. spool[j] = 0
      BY <3>2 DEF Twice, Queued, Claimed
    <3> QED BY <2>1, <2>3, <3>3 DEF requeueLocked
  <2> QED BY <2>2, <2>3
<1>5. \A j \in Jobs \ L : SameFor(j)
  BY DEF requeueLocked, Back, GivenUp, SameFor
<1>6. Promise!PutBack(back, gone)
  BY <1>1, <1>2, <1>3, <1>4, <1>5, PutBackStep
<1> QED BY <1>1, <1>6

(* A claim is a Take, or a TakeAgain when the job's last requeue was       *)
(* interrupted between its two files.                                      *)
LEMMA ClaimIsTake ==
  ASSUME TypeOK, TypeOK', Twice, NEW r \in Runners, NEW j \in Jobs,
         claimCiJob(r, j) \/ claimInterrupted(r, j)
  PROVE  Promise!Take(j) \/ Promise!TakeAgain(j)
<1>1. /\ Queued(j)
      /\ \A k \in Jobs \ {j} : Ref[k] = Ref[j] => ~Claimed(k)
      /\ spool' = [spool EXCEPT ![j] = 0]
      /\ working' = [working EXCEPT ![j] = spool[j]]
      /\ rec' = rec
  BY DEF claimCiJob, claimInterrupted, Oldest, Eligible
<1>2. Promise!RefIsFree(j)
  BY <1>1, PhaseOf DEF Promise!RefIsFree, Promise!In
<1>3. /\ \A k \in Jobs : k # j => SameFor(k)
      /\ working'[j] = spool[j] /\ Claimed(j)'
  BY <1>1 DEF SameFor, TypeOK, Claimed, Queued
<1>4. /\ \A k \in Jobs : k # j => Phase'[k] = Phase[k] /\ Attempt'[k] = Attempt[k]
      /\ Phase'[j] = "held" /\ Attempt'[j] = spool[j]
  BY <1>3, SameShows DEF Phase, Attempt
<1>5. /\ Phase = [k \in Jobs |-> Phase[k]] /\ Phase' = [k \in Jobs |-> Phase'[k]]
      /\ Attempt = [k \in Jobs |-> Attempt[k]] /\ Attempt' = [k \in Jobs |-> Attempt'[k]]
  BY DEF Phase, Attempt
<1>6. CASE Claimed(j)
  <2>1. Phase[j] = "held" /\ Attempt[j] = working[j] /\ spool[j] = working[j] + 1
    BY <1>1, <1>6, PhaseOf DEF Twice
  <2> QED BY <1>2, <1>4, <1>5, <2>1 DEF Promise!TakeAgain, Promise!In
<1>7. CASE ~Claimed(j)
  <2>1. Phase[j] = "waiting" /\ Attempt[j] = spool[j]
    BY <1>1, <1>7, PhaseOf
  <2> QED BY <1>2, <1>4, <1>5, <2>1 DEF Promise!Take, Promise!In
<1> QED BY <1>6, <1>7

(* Queueing a push is a Push that settles the waiting jobs it supersedes,  *)
(* or its own when a newer one supersedes it.                              *)
LEMMA EnqueueIsPush ==
  ASSUME TypeOK, TypeOK', Known, NEW j \in Jobs, enqueueCiJob(j)
  PROVE  \E dropped \in SUBSET Jobs : Promise!Push(j, dropped)
<1> DEFINE dropped == {k \in Jobs : \/ k = j /\ Obsolete(j)
                                    \/ k \in Dropped(j) /\ ~Claimed(k)}
<1>1. /\ rec[j].status = "None" /\ ~Queued(j) /\ ~Claimed(j)
      /\ working' = working
      /\ j \notin Dropped(j)
  BY DEF enqueueCiJob, Known, Dropped, Outdated, Rivals
<1>2. /\ Phase[j] = "new"
      /\ \A k \in dropped : k = j \/ Phase[k] = "waiting"
  BY <1>1, PhaseOf DEF Dropped
<1>3. ASSUME NEW k \in Jobs
      PROVE  /\ Phase'[k] = IF k \in dropped THEN "settled"
                            ELSE IF k = j THEN "waiting" ELSE Phase[k]
             /\ Attempt'[k] = IF k \in dropped THEN 0
                              ELSE IF k = j THEN 1 ELSE Attempt[k]
  <2>1. CASE k = j
    <3>1. /\ spool'[k] = IF Obsolete(j) THEN 0 ELSE 1
          /\ rec'[k].status = IF Obsolete(j) THEN "Cancelled" ELSE "Pending"
          /\ ~Claimed(k)'
      BY <1>1, <2>1 DEF enqueueCiJob, Rec, Claimed
    <3>2. k \in dropped <=> Obsolete(j)
      BY <1>1, <2>1
    <3> QED BY <2>1, <3>1, <3>2 DEF Phase, Attempt, Queued, Claimed
  <2>2. CASE k # j /\ k \in Dropped(j) /\ ~Claimed(k)
    <3>1. /\ spool'[k] = 0 /\ working'[k] = working[k]
          /\ rec'[k].status = "Cancelled"
      BY <1>1, <2>2 DEF enqueueCiJob, Rec
    <3> QED BY <2>2, <3>1 DEF Phase, Attempt, Queued, Claimed
  <2>3. CASE k # j /\ (k \notin Dropped(j) \/ Claimed(k))
    <3>1. SameFor(k)
      BY <1>1, <2>3 DEF enqueueCiJob, SameFor
    <3> QED BY <2>3, <3>1, SameShows
  <2> QED BY <2>1, <2>2, <2>3
<1>4. /\ Phase' = [k \in Jobs |-> Phase'[k]]
      /\ Attempt' = [k \in Jobs |-> Attempt'[k]]
  BY DEF Phase, Attempt
<1>5. Promise!Push(j, dropped)
  <2>1. j \in Promise!In("new") /\ dropped \subseteq Promise!In("waiting") \cup {j}
    BY <1>2 DEF Promise!In
  <2> QED BY <1>3, <1>4, <2>1 DEF Promise!Push
<1> QED BY <1>5

(* Releasing a claim settles its job, or leaves it to the next attempt if  *)
(* a requeue was interrupted before.                                       *)
LEMMA ReleaseStep ==
  ASSUME TypeOK, TypeOK', Twice, NEW j \in Jobs, RemoveClaim(j),
         UNCHANGED <<spool, rec>>,
         Claimed(j), rec[j].status \in Terminal
  PROVE  \E back, gone \in SUBSET Jobs : Promise!PutBack(back, gone)
<1>1. /\ working' = [working EXCEPT ![j] = 0] /\ working'[j] = 0
      /\ spool' = spool /\ rec' = rec /\ spool[j] \in Nat
  BY DEF RemoveClaim, TypeOK
<1>2. \A k \in Jobs : k # j => SameFor(k)
  BY <1>1 DEF SameFor, TypeOK
<1>3. CASE Queued(j)
  <2>1. spool'[j] = working[j] + 1
    BY <1>1, <1>3 DEF Twice
  <2>2. Promise!PutBack({j}, {})
    BY <1>1, <1>2, <2>1, PutBackStep
  <2> QED BY <2>2
<1>4. CASE ~Queued(j)
  <2>1. spool'[j] = 0
    BY <1>1, <1>4 DEF Queued
  <2>2. Promise!PutBack({}, {j})
    BY <1>1, <1>2, <2>1, PutBackStep
  <2> QED BY <2>2
<1> QED BY <1>3, <1>4

-----------------------------------------------------------------------------
(* Every step of the queue is a step of the abstract queue or none. *)

AbstractStep == Promise!Next \/ (Phase' = Phase /\ Attempt' = Attempt)

(* Pushes, cancel requests, time and interrupted reaps. *)
LEMMA EnvironmentRefines ==
  ASSUME RefInv, TypeOK', NEW j \in Jobs, Environment(j)
  PROVE  AbstractStep
<1>a. TypeOK /\ Known /\ Twice
  BY DEF RefInv, ClaimInv
<1>1. CASE enqueueCiJob(j)
  BY <1>1, <1>a, EnqueueIsPush DEF AbstractStep, Promise!Next
<1>2. CASE age(j) \/ requestCiCancel(j) \/ leaseLapses(j)
  <2>1. UNCHANGED <<spool, working, rec>>
    BY <1>2 DEF age, requestCiCancel, leaseLapses, queueFiles
  <2> QED BY <2>1, Stutter DEF SameFor, AbstractStep
<1>3. ASSUME NEW done \in {"record", "spool", "working"}, reapInterrupted(j, done)
      PROVE  AbstractStep
  <2>1. /\ Claimed(j)
        /\ \A k \in Jobs : k # j => SameFor(k)
    BY <1>3, <1>a DEF reapInterrupted, Back, Lapsed, SameFor, TypeOK
  <2>2. CASE done # "working"
    <3>1. SameFor(j)
      BY <1>3, <2>1, <2>2 DEF reapInterrupted, SameFor
    <3> QED BY <2>1, <3>1, Stutter DEF AbstractStep
  <2>3. CASE done = "working"
    <3>1. working'[j] = 0 /\ spool'[j] = working[j] + 1
      BY <1>3, <2>3, <1>a DEF reapInterrupted, TypeOK
    <3>2. Promise!PutBack({j}, {})
      BY <1>a, <2>1, <3>1, PutBackStep
    <3> QED BY <3>2 DEF AbstractStep, Promise!Next
  <2> QED BY <2>2, <2>3
<1> QED BY <1>1, <1>2, <1>3 DEF Environment

(* A record write on a job that is held, or that is settled already and    *)
(* stays so, is no step of the abstract queue.                             *)
LEMMA WriteStutters ==
  ASSUME TypeOK, NEW j \in Jobs, UNCHANGED <<spool, working>>,
         \A k \in Jobs : k # j => rec'[k] = rec[k],
         Claimed(j) \/ Queued(j)
           \/ (rec[j].status \in Terminal /\ rec'[j].status \in Terminal)
  PROVE  Phase' = Phase /\ Attempt' = Attempt
  BY Stutter DEF SameFor

(* The steps of a runner. *)
LEMMA WorkRefines ==
  ASSUME RefInv, TypeOK', TimelyWrites, NEW r \in Runners, Work(r)
  PROVE  AbstractStep
<1>a. TypeOK /\ Known /\ NoJobLost /\ Twice /\ Begun /\ Safe(r)
  BY DEF RefInv, ClaimInv
<1>b. Busy(r) => run[r].job \in Jobs
  BY <1>a DEF TypeOK, Busy
<1>1. ASSUME NEW j \in Jobs, claimCiJob(r, j) \/ claimInterrupted(r, j)
      PROVE  AbstractStep
  BY <1>1, <1>a, ClaimIsTake DEF AbstractStep, Promise!Next
<1>2. ASSUME UNCHANGED <<spool, working, rec>>
      PROVE  AbstractStep
  BY <1>2, Stutter DEF SameFor, AbstractStep
<1>3. CASE \/ renewCiLease(r) \/ commitDecides(r) \/ crash(r)
           \/ \E s \in {"Success", "Failure", "Cancelled"} : finish(r, s)
  BY <1>2, <1>3 DEF renewCiLease, commitDecides, crash, finish, queueFiles
<1>4. ASSUME \/ runStarted(r) \/ progress(r)
             \/ \E s \in {"Cancelled", "Skipped", "Error"} : recordCiOutcome(r, s)
      PROVE  AbstractStep
  <2>1. run[r].job \in Jobs /\ Claimed(run[r].job)
    BY <1>4, <1>a, <1>b DEF runStarted, progress, recordCiOutcome, Safe, Fresh,
       InTime, Holds, Busy
  <2>2. /\ UNCHANGED <<spool, working>>
        /\ \A k \in Jobs : k # run[r].job => rec'[k] = rec[k]
    BY <1>4, <1>a DEF runStarted, progress, recordCiOutcome, queueFiles, TypeOK
  <2> QED BY <2>1, <2>2, <1>a, WriteStutters DEF AbstractStep
<1>5. ASSUME NEW published \in BOOLEAN, commitCiRun(r, published)
      PROVE  AbstractStep
  <2>1. /\ run[r].pc = "publish" /\ run[r].job \in Jobs
        /\ rec[run[r].job].status # "None" /\ run[r].result \in Terminal
    BY <1>5, <1>a, <1>b DEF commitCiRun, Safe, HasResult, Begun, Busy
  <2>2. /\ UNCHANGED <<spool, working>>
        /\ rec' = [rec EXCEPT ![run[r].job] =
                     Rec(IF run[r].publish /\ ~published THEN "Error"
                         ELSE run[r].result, run[r].attempt)]
    BY <1>5 DEF commitCiRun, queueFiles
  <2>3. /\ \A k \in Jobs : k # run[r].job => rec'[k] = rec[k]
        /\ \E s \in Terminal : rec'[run[r].job] = Rec(s, run[r].attempt)
    BY <2>1, <2>2, <1>a DEF TypeOK
  <2>4. rec'[run[r].job].status \in Terminal
    BY <2>3 DEF Rec
  <2>5. \/ Claimed(run[r].job) \/ Queued(run[r].job)
        \/ rec[run[r].job].status \in Terminal
    BY <2>1, <1>a DEF NoJobLost, TypeOK, Record
  <2> QED BY <2>1, <2>2, <2>3, <2>4, <2>5, <1>a, WriteStutters DEF AbstractStep
<1>6. CASE releaseCiClaim(r) \/ releaseCiJob(r)
  <2>1. UNCHANGED <<spool, rec>> /\ Busy(r) /\ run[r].job \in Jobs
    BY <1>6, <1>b DEF releaseCiClaim, releaseCiJob, Busy
  <2>2. CASE TokenMatches(r)
    <3>1. RemoveClaim(run[r].job)
      BY <1>6, <2>2 DEF releaseCiClaim, releaseCiJob
    <3>2. Claimed(run[r].job) /\ rec[run[r].job].status \in Terminal
      BY <1>6, <1>a, <2>2 DEF releaseCiClaim, releaseCiJob, Safe, Fresh, Kept,
         Settled, Holds
    <3> QED BY <2>1, <3>1, <3>2, <1>a, ReleaseStep DEF AbstractStep, Promise!Next
  <2>3. CASE ~TokenMatches(r)
    <3>1. UNCHANGED working
      BY <1>6, <1>a, <2>3 DEF releaseCiClaim, releaseCiJob, Safe, Fresh, Holds
    <3> QED BY <2>1, <3>1, <1>2
  <2> QED BY <2>2, <2>3
<1>7. CASE abandonCiJob(r)
  <2>1. CASE Holds(r)
    <3>1. requeueLocked({run[r].job}, FALSE)
      BY <1>7, <2>1, Zenon DEF abandonCiJob
    <3>2. run[r].job \in Jobs /\ Claimed(run[r].job)
      BY <1>b, <2>1 DEF Holds, TokenMatches, Busy
    <3>3. {run[r].job} \in SUBSET Jobs /\ \A j \in {run[r].job} : Claimed(j)
      BY <3>2
    <3>4. \E back, gone \in SUBSET Jobs : Promise!PutBack(back, gone)
      BY <3>1, <3>3, <1>a, RequeueStep
    <3> QED BY <3>4 DEF AbstractStep, Promise!Next
  <2>2. CASE ~Holds(r)
    BY <1>2, <1>7, <2>2 DEF abandonCiJob
  <2> QED BY <2>1, <2>2
<1> QED BY <1>1, <1>3, <1>4, <1>5, <1>6, <1>7 DEF Work

LEMMA StepRefines ==
  ASSUME RefInv, TypeOK', TimelyWrites, [Next]_vars
  PROVE  AbstractStep
<1>a. TypeOK /\ Twice
  BY DEF RefInv, ClaimInv
<1>1. ASSUME NEW b \in BOOLEAN, requeueLocked(Lapsed(b), TRUE)
      PROVE  AbstractStep
  <2>1. Lapsed(b) \in SUBSET Jobs /\ \A j \in Lapsed(b) : Claimed(j)
    BY DEF Lapsed
  <2> QED BY <1>1, <2>1, <1>a, RequeueStep DEF AbstractStep, Promise!Next
<1>2. CASE reapCiLeases \/ restart
  BY <1>1, <1>2 DEF reapCiLeases, restart
<1>3. CASE UNCHANGED vars
  BY <1>3, Stutter DEF SameFor, vars, AbstractStep
<1> QED BY <1>2, <1>3, EnvironmentRefines, WorkRefines DEF Next

(* The queue implements JobQueue, as long as every record write ends       *)
(* before the lease it relies on lapses: whatever crashes, lapses, is put  *)
(* back or superseded, a push's job waits, is held by at most one runner   *)
(* of its ref, waits for its next attempt and is settled for good.         *)
THEOREM QueueRefinesJobQueue == ASSUME TimelyWrites PROVE Spec => KeepsPromise
<1>1. Init => RefInv
  BY InitIsClaimInv DEF RefInv, Init, Twice, Begun, Queued, Busy, At
<1>2. RefInv /\ [Next]_vars => RefInv'
  <2> SUFFICES ASSUME RefInv, [Next]_vars
               PROVE  RefInv'
    OBVIOUS
  <2>1. ClaimInv'
    BY ClaimInvStep DEF RefInv
  <2>2. Twice' /\ Begun'
    BY <2>1, TwiceStep, BegunStep DEF RefInv, ClaimInv
  <2> QED BY <2>1, <2>2 DEF RefInv
<1>3. Init => Promise!Init
  <2> SUFFICES ASSUME Init
               PROVE  Promise!Init
    OBVIOUS
  <2>1. \A j \in Jobs : Phase[j] = "new" /\ Attempt[j] = 0
    BY PhaseOf DEF Init, Claimed, Queued, NoRecord
  <2>2. /\ Phase = [j \in Jobs |-> Phase[j]]
        /\ Attempt = [j \in Jobs |-> Attempt[j]]
    BY DEF Phase, Attempt
  <2> QED BY <2>1, <2>2 DEF Promise!Init
<1>4. RefInv /\ RefInv' /\ [Next]_vars => [Promise!Next]_(Promise!vars)
  BY StepRefines DEF RefInv, ClaimInv, AbstractStep, Promise!vars
<1> QED BY <1>1, <1>2, <1>3, <1>4, PTL DEF Spec, KeepsPromise, Promise!Spec

=============================================================================
