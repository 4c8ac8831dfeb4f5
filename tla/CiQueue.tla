------------------------------- MODULE CiQueue -------------------------------
(***************************************************************************)
(* The CI job queue that several runners share (ci_store.cpp), with the    *)
(* two kinds of client that drive it: the primary runner on the main host  *)
(* (ci-runner/main.cpp, LocalCiSink) and secondary runners that reach it   *)
(* through the gateway (ci_gateway.cpp).  The jobs of this module are the  *)
(* ones enqueueCiJob queues: one job per push, no distributed workflow.    *)
(*                                                                         *)
(* Every queue operation runs under the exclusive lock on spool/ and is    *)
(* one action.  What the code does outside that lock (writing a run        *)
(* record, the cancel marker, the publication inside commitCiRun, the      *)
(* gateway's releaseCiJob) is an action of its own, so those steps         *)
(* interleave with every queue operation.                                  *)
(***************************************************************************)
EXTENDS Naturals, FiniteSets

CONSTANTS
  Jobs,          \* job ids; they sort by the time the push created them
  Runners,       \* every runner that may claim
  Primary,       \* the runner of the main host
  Refs,          \* the refs pushed to
  Branches,      \* the refs under refs/heads/
  DefaultRef,    \* the branch whose successful runs publish the Pages site
  Ref,           \* the ref of each job
  AutoCancel,    \* the jobs whose workflow supersedes older runs of its branch
  CanRun,        \* the runners whose labels match each job's runs_on
  MaxAttempts,   \* ci_max_attempts
  MaxGiveBacks,  \* bound: how often runners hand jobs back, in all
  MaxCrashes,    \* bound: crashes of runners, in all
  MaxInterrupts, \* bound: crashes inside a claim or a requeue, in all
  TimelyWrites   \* TRUE: see InTime

ASSUME QueueAssumption ==
  /\ Jobs \subseteq Nat \ {0}
  /\ Primary \in Runners
  /\ Branches \subseteq Refs
  /\ DefaultRef \in Branches
  /\ Ref \in [Jobs -> Refs]
  /\ AutoCancel \subseteq Jobs
  /\ CanRun \in [Jobs -> SUBSET Runners]
  /\ MaxAttempts \in Nat \ {0}
  /\ MaxGiveBacks \in Nat
  /\ MaxCrashes \in Nat
  /\ MaxInterrupts \in Nat
  /\ TimelyWrites \in BOOLEAN

VARIABLES
  spool,     \* attempt in spool/<job>.ini, 0 when there is no such file
  working,   \* attempt in working/<job>.ini, 0 when there is no such file
  lease,     \* leases/<job>.ini
  drawn,     \* lease tokens drawn for the job so far
  young,     \* queued jobs still inside the primary's claim delay
  rec,       \* the run record: its status and attempt
  cancel,    \* runs with a cancel marker
  run,       \* what each runner is doing
  site,      \* the run whose Pages site is live, 0 before the first
  gaveBack,  \* history: how often each job was handed back
  crashes,   \* crashes of runners so far
  interrupts \* crashes inside a queue operation so far

vars == <<spool, working, lease, drawn, young, rec, cancel, run, site,
          gaveBack, crashes, interrupts>>

queueFiles == <<spool, working, lease, drawn, young>>

history == <<gaveBack, crashes, interrupts>>

-----------------------------------------------------------------------------
(* Run records. *)

Active == {"Pending", "Running"}
Terminal == {"Success", "Failure", "Error", "Skipped", "Cancelled"}

Record == [status : {"None"} \cup Active \cup Terminal, attempt : Nat]
NoRecord == [status |-> "None", attempt |-> 0]
Rec(s, n) == [status |-> s, attempt |-> n]

(* Leases.  A missing lease reads as lapsed, like an expired one; time     *)
(* itself is left out, a lease lapses in a step of its own.                *)
Lease == [runner : Runners, token : Nat, lapsed : BOOLEAN]
NoLease == [runner |-> Primary, token |-> 0, lapsed |-> TRUE]

(* A runner's progress with the job it believes it holds. *)
Places == {"idle", "down", "claimed", "running", "commit", "publish",
           "release", "releaseJob"}
RunState == [pc : Places, job : Jobs \cup {0}, token : Nat, attempt : Nat,
             result : {"None"} \cup Terminal, publish : BOOLEAN]
At(p) == [pc |-> p, job |-> 0, token |-> 0, attempt |-> 0,
          result |-> "None", publish |-> FALSE]

TypeOK ==
  /\ spool \in [Jobs -> Nat]
  /\ working \in [Jobs -> Nat]
  /\ lease \in [Jobs -> Lease]
  /\ drawn \in [Jobs -> Nat]
  /\ young \subseteq Jobs
  /\ rec \in [Jobs -> Record]
  /\ cancel \subseteq Jobs
  /\ run \in [Runners -> RunState]
  /\ \A r \in Runners : run[r].pc \notin {"idle", "down"} => run[r].job \in Jobs
  /\ site \in Jobs \cup {0}
  /\ gaveBack \in [Jobs -> Nat]
  /\ crashes \in Nat
  /\ interrupts \in Nat

Queued(j) == spool[j] > 0
Claimed(j) == working[j] > 0

(* The claim behind a runner's token: the job is still in working/ under   *)
(* the lease this runner was given (heldClaim, renewCiLease).              *)
TokenMatches(r) ==
  /\ run[r].pc \notin {"idle", "down"}
  /\ lease[run[r].job].token = run[r].token
Holds(r) == TokenMatches(r) /\ Claimed(run[r].job)

(* Between two renewals nothing checks the lease again: the code relies on *)
(* each record write and each commit ending before the lease lapses.       *)
(* TimelyWrites makes that reliance an assumption; without it a run may    *)
(* write however late.                                                     *)
InTime(r) == TimelyWrites => Holds(r) /\ ~lease[run[r].job].lapsed

(* The places between two lease checks. *)
Unchecked == {"claimed", "commit", "publish", "release", "releaseJob"}

-----------------------------------------------------------------------------
(* Queueing a push. *)

(* supersedeCiJobs: the jobs of the same branch that a newly queued job    *)
(* makes obsolete, and the ones that make it obsolete (a slower receive    *)
(* hook may queue an older id after a newer one).                          *)
Rivals(j) == {k \in Jobs \ {j} : Ref[k] = Ref[j] /\ Ref[j] \in Branches}
Outdated(j) == {k \in Rivals(j) : k < j /\ j \in AutoCancel}
Obsolete(j) ==
  \E k \in Rivals(j) : k > j /\ k \in AutoCancel /\ (Queued(k) \/ Claimed(k))

(* A queued rival is cancelled on the spot; a claimed one that has not     *)
(* finished gets a cancel marker its runner will see.                      *)
DroppedClaimedToo(j) == {k \in Outdated(j) : Queued(k) \/ Claimed(k)}  \* mutant
Dropped(j) == {k \in Outdated(j) : Queued(k)}

MarkedNone(j) == {k \in Outdated(j) : FALSE}  \* mutant
Marked(j) == {k \in Outdated(j) : /\ ~Queued(k)
                                  /\ Claimed(k)
                                  /\ rec[k].status \notin Terminal}

enqueueCiJob(j) ==
  /\ rec[j].status = "None"
  /\ spool' = [k \in Jobs |-> IF k = j THEN IF Obsolete(j) THEN 0 ELSE 1
                              ELSE IF k \in Dropped(j) THEN 0 ELSE spool[k]]
  /\ rec' = [k \in Jobs |->
               IF k = j
                 THEN Rec(IF Obsolete(j) THEN "Cancelled" ELSE "Pending", 1)
               ELSE IF k \in Dropped(j) THEN Rec("Cancelled", spool[k])
               ELSE rec[k]]
  /\ young' = (young \ Dropped(j)) \cup (IF Obsolete(j) THEN {} ELSE {j})
  /\ cancel' = cancel \cup Marked(j)
  /\ UNCHANGED <<working, lease, drawn, run, site, history>>

(* The spool entry of a job grows older than ci_claim_delay_ms. *)
age(j) ==
  /\ j \in young
  /\ young' = young \ {j}
  /\ UNCHANGED <<spool, working, lease, drawn, rec, cancel, run, site,
                 history>>

(* The operator asks to cancel a run; only a run with a directory has one. *)
requestCiCancel(j) ==
  /\ rec[j].status # "None"
  /\ cancel' = cancel \cup {j}
  /\ UNCHANGED <<queueFiles, rec, run, site, history>>

-----------------------------------------------------------------------------
(* Claims and leases. *)

(* claimCiJob's conditions on one spool entry: labels, at most one run per *)
(* project and ref in progress, and the primary's delay.                   *)
EligibleOnBusyRef(r, j) ==  \* mutant
  /\ Queued(j)
  /\ r \in CanRun[j]
  /\ r = Primary => j \notin young

Eligible(r, j) ==
  /\ Queued(j)
  /\ r \in CanRun[j]
  /\ \A k \in Jobs \ {j} : Ref[k] = Ref[j] => ~Claimed(k)
  /\ r = Primary => j \notin young

Oldest(r, j) == /\ Eligible(r, j)
                /\ \A k \in Jobs : Eligible(r, k) => j <= k

(* The oldest eligible job moves from spool/ to working/ and gets a fresh  *)
(* lease.  A copy that an interrupted requeue left in working/ is replaced. *)
claimCopies(r, j) ==  \* mutant
  /\ run[r].pc = "idle"
  /\ Oldest(r, j)
  /\ working' = [working EXCEPT ![j] = spool[j]]
  /\ drawn' = [drawn EXCEPT ![j] = @ + 1]
  /\ lease' = [lease EXCEPT ![j] = [runner |-> r, token |-> drawn[j] + 1,
                                    lapsed |-> FALSE]]
  /\ run' = [run EXCEPT ![r] = [At("claimed") EXCEPT
                                  !.job = j, !.token = drawn[j] + 1,
                                  !.attempt = spool[j]]]
  /\ UNCHANGED <<spool, young, rec, cancel, site, history>>

claimCiJob(r, j) ==
  /\ run[r].pc = "idle"
  /\ Oldest(r, j)
  /\ spool' = [spool EXCEPT ![j] = 0]
  /\ working' = [working EXCEPT ![j] = spool[j]]
  /\ drawn' = [drawn EXCEPT ![j] = @ + 1]
  /\ lease' = [lease EXCEPT ![j] = [runner |-> r, token |-> drawn[j] + 1,
                                    lapsed |-> FALSE]]
  /\ run' = [run EXCEPT ![r] = [At("claimed") EXCEPT
                                  !.job = j, !.token = drawn[j] + 1,
                                  !.attempt = spool[j]]]
  /\ young' = young \ {j}
  /\ UNCHANGED <<rec, cancel, site, history>>

(* The claiming process dies after the rename and before the lease. *)
claimInterrupted(r, j) ==
  /\ run[r].pc = "idle"
  /\ Oldest(r, j)
  /\ interrupts < MaxInterrupts
  /\ interrupts' = interrupts + 1
  /\ spool' = [spool EXCEPT ![j] = 0]
  /\ working' = [working EXCEPT ![j] = spool[j]]
  /\ young' = young \ {j}
  /\ run' = [run EXCEPT ![r] = At(IF r = Primary THEN "down" ELSE "idle")]
  /\ UNCHANGED <<lease, drawn, rec, cancel, site, gaveBack, crashes>>

(* Time passes a lease's expiry. *)
leaseLapses(j) ==
  /\ Claimed(j)
  /\ ~lease[j].lapsed
  /\ TimelyWrites => \A r \in Runners :
       Holds(r) /\ run[r].job = j => run[r].pc \notin Unchecked
  /\ lease' = [lease EXCEPT ![j].lapsed = TRUE]
  /\ UNCHANGED <<spool, working, drawn, young, rec, cancel, run, site,
                 history>>

(* A running job's heartbeat.  The renewal does not look at the expiry: a  *)
(* lapsed lease nobody reaped is extended.  A runner told that its lease   *)
(* is gone stops without writing.                                          *)
renewCiLease(r) ==
  /\ run[r].pc = "running"
  /\ IF Holds(r)
       THEN /\ lease' = [lease EXCEPT ![run[r].job].lapsed = FALSE]
            /\ UNCHANGED run
       ELSE /\ run' = [run EXCEPT ![r] = At("idle")]
            /\ UNCHANGED lease
  /\ UNCHANGED <<spool, working, drawn, young, rec, cancel, site, history>>

(* requeueLocked for the jobs of L: a cancelled one ends Cancelled, one    *)
(* that used up its attempts ends Error when the limit is enforced, and    *)
(* the others go back to the spool as their next attempt.                  *)
GivenUpLate(L, enforce) ==  \* mutant
  {j \in L \ cancel : enforce /\ working[j] > MaxAttempts}
GivenUp(L, enforce) ==
  {j \in L \ cancel : enforce /\ working[j] >= MaxAttempts}
Back(L, enforce) == (L \ cancel) \ GivenUp(L, enforce)

(* resetRunForRequeue *)
ResetAsFirst(j) == Rec("Pending", IF Claimed(j) THEN 1 ELSE 0)  \* mutant
Reset(j) == Rec("Pending", working[j] + 1)

requeueLocked(L, enforce) ==
  /\ spool' = [j \in Jobs |-> IF j \in Back(L, enforce) THEN working[j] + 1
                              ELSE IF j \in L \cap cancel THEN 0
                              ELSE spool[j]]
  /\ working' = [j \in Jobs |-> IF j \in L THEN 0 ELSE working[j]]
  /\ lease' = [j \in Jobs |-> IF j \in L THEN NoLease ELSE lease[j]]
  /\ rec' = [j \in Jobs |->
               IF j \in Back(L, enforce) THEN Reset(j)
               ELSE IF j \in GivenUp(L, enforce)
                 THEN Rec("Error", IF rec[j].status = "None" THEN 1
                                   ELSE rec[j].attempt)
               ELSE IF j \in L THEN Rec("Cancelled", working[j])
               ELSE rec[j]]
  /\ young' = (young \ L) \cup Back(L, enforce)
  /\ cancel' = cancel \ L
  /\ UNCHANGED <<drawn, site>>

(* The leases reapCiLeases takes for lost; `restarted` adds the ones the   *)
(* primary held before it went down.                                       *)
LapsedWithLease(restarted) ==  \* mutant
  {j \in Jobs : /\ Claimed(j)
                /\ lease[j].token # 0
                /\ \/ lease[j].lapsed
                   \/ restarted /\ lease[j].runner = Primary}

Lapsed(restarted) ==
  {j \in Jobs : /\ Claimed(j)
                /\ \/ lease[j].lapsed
                   \/ restarted /\ lease[j].runner = Primary}

reapCiLeases ==
  /\ Lapsed(FALSE) # {}
  /\ requeueLocked(Lapsed(FALSE), TRUE)
  /\ UNCHANGED <<run, history>>

(* The reaping process dies inside requeueLocked: after the run record was *)
(* reset, after the spool entry was written, or after the working entry    *)
(* was removed too (its lease file then stays behind).                     *)
reapWorkingFirst(j, done) ==  \* mutant
  /\ j \in Back(Lapsed(FALSE), TRUE)
  /\ interrupts < MaxInterrupts
  /\ interrupts' = interrupts + 1
  /\ rec' = [rec EXCEPT ![j] = Reset(j)]
  /\ working' = IF done = "record" THEN working
                ELSE [working EXCEPT ![j] = 0]
  /\ UNCHANGED <<spool, young, lease, drawn, cancel, run, site, gaveBack,
                 crashes>>

reapInterrupted(j, done) ==
  /\ j \in Back(Lapsed(FALSE), TRUE)
  /\ interrupts < MaxInterrupts
  /\ interrupts' = interrupts + 1
  /\ rec' = [rec EXCEPT ![j] = Reset(j)]
  /\ spool' = IF done = "record" THEN spool
              ELSE [spool EXCEPT ![j] = working[j] + 1]
  /\ young' = IF done = "record" THEN young ELSE young \cup {j}
  /\ working' = IF done = "working" THEN [working EXCEPT ![j] = 0] ELSE working
  /\ UNCHANGED <<lease, drawn, cancel, run, site, gaveBack, crashes>>

-----------------------------------------------------------------------------
(* A runner's work on its job. *)

(* The job ends without running: it was cancelled while queued, or its     *)
(* commit has no workflow for this ref (Skipped) or a broken one (Error).  *)
(* The primary then releases under its token, the gateway without one.     *)
recordCiOutcome(r, s) ==
  LET j == run[r].job IN
    /\ run[r].pc = "claimed"
    /\ s \in IF j \in cancel THEN {"Cancelled"} ELSE {"Skipped", "Error"}
    /\ rec' = [rec EXCEPT ![j] = Rec(s, run[r].attempt)]
    /\ cancel' = cancel \ {j}
    /\ run' = [run EXCEPT ![r].pc = IF r = Primary THEN "release"
                                    ELSE "releaseJob"]
    /\ UNCHANGED <<queueFiles, site, history>>

(* The run publishes itself as Running (runStarted, the `started` frame). *)
runStarted(r) ==
  /\ run[r].pc = "claimed"
  /\ run[r].job \notin cancel
  /\ rec' = [rec EXCEPT ![run[r].job] = Rec("Running", run[r].attempt)]
  /\ run' = [run EXCEPT ![r].pc = "running"]
  /\ UNCHANGED <<queueFiles, cancel, site, history>>

(* A step starts or ends, or a heartbeat is recorded: the record is        *)
(* rewritten as Running, without the lock and without a lease check.       *)
progress(r) ==
  /\ run[r].pc = "running"
  /\ InTime(r)
  /\ rec' = [rec EXCEPT ![run[r].job] = Rec("Running", run[r].attempt)]
  /\ UNCHANGED <<queueFiles, cancel, run, site, history>>

(* The steps are over with result s.  The gateway looks at the lease once  *)
(* (heldClaim) before it commits; the primary only remembers whether an    *)
(* earlier renewal failed.                                                 *)
finish(r, s) ==
  /\ run[r].pc = "running"
  /\ InTime(r)
  /\ s = "Cancelled" => run[r].job \in cancel
  /\ run' = [run EXCEPT ![r] =
               IF r = Primary \/ Holds(r)
                 THEN [@ EXCEPT !.pc = "commit", !.result = s]
                 ELSE At("idle")]
  /\ UNCHANGED <<queueFiles, rec, cancel, site, history>>

(* commitCiRun, first half: a cancel request turns the result into         *)
(* Cancelled, and a successful default-branch run is to be published       *)
(* unless a newer run's site is already live.                              *)
Result(r) == IF run[r].job \in cancel THEN "Cancelled" ELSE run[r].result

PublishesAlways(r) ==  \* mutant
  Result(r) = "Success" /\ Ref[run[r].job] = DefaultRef
Publishes(r) == /\ Result(r) = "Success"
                /\ Ref[run[r].job] = DefaultRef
                /\ ~(site > run[r].job)

commitDecides(r) ==
  /\ run[r].pc = "commit"
  /\ run' = [run EXCEPT ![r].pc = "publish", ![r].result = Result(r),
                        ![r].publish = Publishes(r)]
  /\ UNCHANGED <<queueFiles, rec, cancel, site, history>>

(* Second half: publish the site (a failed publication turns the result    *)
(* into Error), write the terminal record, clear the cancel marker.        *)
commitCiRun(r, published) ==
  LET j == run[r].job
      failed == run[r].publish /\ ~published
  IN /\ run[r].pc = "publish"
     /\ published => run[r].publish
     /\ site' = IF published THEN j ELSE site
     /\ rec' = [rec EXCEPT ![j] = Rec(IF failed THEN "Error"
                                      ELSE run[r].result, run[r].attempt)]
     /\ cancel' = cancel \ {j}
     /\ run' = [run EXCEPT ![r].pc = "release"]
     /\ UNCHANGED <<queueFiles, history>>

RemoveClaim(j) ==
  /\ working' = [working EXCEPT ![j] = 0]
  /\ lease' = [lease EXCEPT ![j] = NoLease]

(* The claim is dropped, under the lock and only under the runner's token. *)
releaseCiClaim(r) ==
  /\ run[r].pc = "release"
  /\ IF TokenMatches(r) THEN RemoveClaim(run[r].job)
     ELSE UNCHANGED <<working, lease>>
  /\ run' = [run EXCEPT ![r] = At("idle")]
  /\ UNCHANGED <<spool, drawn, young, rec, cancel, site, history>>

(* The gateway drops the claim of a job that ended without running: no     *)
(* lock, no token.                                                         *)
releaseCiJob(r) ==
  /\ run[r].pc = "releaseJob"
  /\ RemoveClaim(run[r].job)
  /\ run' = [run EXCEPT ![r] = At("idle")]
  /\ UNCHANGED <<spool, drawn, young, rec, cancel, site, history>>

(* A runner that is shutting down hands its job back. *)
TotalGiveBacks ==
  {back \in Jobs \X (1 .. MaxGiveBacks) : back[2] <= gaveBack[back[1]]}

abandonCiJob(r) ==
  LET j == run[r].job IN
    /\ run[r].pc = "running"
    /\ j \notin cancel
    /\ Cardinality(TotalGiveBacks) < MaxGiveBacks
    /\ \/ /\ Holds(r)
          /\ requeueLocked({j}, FALSE)
          /\ gaveBack' = [gaveBack EXCEPT ![j] = @ + 1]
       \/ /\ ~Holds(r)
          /\ lease' = IF r = Primary /\ TokenMatches(r)
                        THEN [lease EXCEPT ![j] = NoLease] ELSE lease
          /\ UNCHANGED <<spool, working, drawn, young, rec, cancel, site,
                         gaveBack>>
    /\ run' = [run EXCEPT ![r] = At("idle")]
    /\ UNCHANGED <<crashes, interrupts>>

(* A runner's process dies.  A secondary comes back empty-handed; the      *)
(* primary first takes back what it held before (serve's first reap).      *)
crash(r) ==
  /\ run[r].pc \notin {"idle", "down"}
  /\ crashes < MaxCrashes
  /\ crashes' = crashes + 1
  /\ run' = [run EXCEPT ![r] = At(IF r = Primary THEN "down" ELSE "idle")]
  /\ UNCHANGED <<queueFiles, rec, cancel, site, gaveBack, interrupts>>

restart ==
  /\ run[Primary].pc = "down"
  /\ requeueLocked(Lapsed(TRUE), TRUE)
  /\ run' = [run EXCEPT ![Primary] = At("idle")]
  /\ UNCHANGED <<history>>

-----------------------------------------------------------------------------

Init ==
  /\ spool = [j \in Jobs |-> 0]
  /\ working = [j \in Jobs |-> 0]
  /\ lease = [j \in Jobs |-> NoLease]
  /\ drawn = [j \in Jobs |-> 0]
  /\ young = {}
  /\ rec = [j \in Jobs |-> NoRecord]
  /\ cancel = {}
  /\ run = [r \in Runners |-> At("idle")]
  /\ site = 0
  /\ gaveBack = [j \in Jobs |-> 0]
  /\ crashes = 0
  /\ interrupts = 0

Environment(j) ==
  \/ enqueueCiJob(j)
  \/ age(j)
  \/ requestCiCancel(j)
  \/ leaseLapses(j)
  \/ \E done \in {"record", "spool", "working"} : reapInterrupted(j, done)

Work(r) ==
  \/ \E j \in Jobs : claimCiJob(r, j) \/ claimInterrupted(r, j)
  \/ renewCiLease(r)
  \/ \E s \in {"Cancelled", "Skipped", "Error"} : recordCiOutcome(r, s)
  \/ runStarted(r)
  \/ progress(r)
  \/ \E s \in {"Success", "Failure", "Cancelled"} : finish(r, s)
  \/ commitDecides(r)
  \/ \E published \in BOOLEAN : commitCiRun(r, published)
  \/ releaseCiClaim(r)
  \/ releaseCiJob(r)
  \/ abandonCiJob(r)
  \/ crash(r)

Next ==
  \/ \E j \in Jobs : Environment(j)
  \/ \E r \in Runners : Work(r)
  \/ reapCiLeases
  \/ restart

Spec == Init /\ [][Next]_vars

-----------------------------------------------------------------------------
(* Properties. *)

(* A run that still shows as pending or running has its job in the queue   *)
(* or in a runner's hands: neither a lost runner, nor a crash inside a     *)
(* claim or a requeue, nor a release loses it (requeueLocked writes the    *)
(* spool entry before it removes the working one).                         *)
NoJobLost ==
  \A j \in Jobs : rec[j].status \in Active => Queued(j) \/ Claimed(j)

(* Two runners whose claims both stand never work on the same ref, the     *)
(* same job included: what claimCiJob's one_per_ref test and the fresh     *)
(* token of every claim are for.                                           *)
OneRunPerRef ==
  \A r, q \in Runners :
    r # q /\ Holds(r) /\ Holds(q) => Ref[run[r].job] # Ref[run[q].job]

(* A job is attempted at most ci_max_attempts times plus once for every    *)
(* time a runner handed it back, whatever runners and the host lose.       *)
AttemptsBounded ==
  \A j \in Jobs : /\ spool[j] <= MaxAttempts + gaveBack[j]
                 /\ working[j] <= MaxAttempts + gaveBack[j]

(* While a newer run that supersedes its branch is queued or in progress,  *)
(* no older run of that branch waits in the queue: enqueueCiJob dropped    *)
(* it, or marked it cancelled so that a requeue ends it.  A process that   *)
(* dies between its record and its release puts it back.                   *)
SupersededNeverWaits ==
  crashes + interrupts = 0 => \A j, k \in Jobs :
    /\ j < k
    /\ Ref[j] = Ref[k]
    /\ Ref[k] \in Branches
    /\ k \in AutoCancel
    /\ Queued(k) \/ Claimed(k)
    => ~Queued(j)

(* Once recorded, a terminal status never changes (ciRunStatusIsActive's   *)
(* contract), as long as no process dies.                                  *)
TerminalIsFinal ==
  [][crashes + interrupts = 0 =>
       \A j \in Jobs : rec[j].status \in Terminal
                         => rec'[j].status = rec[j].status]_rec

(* What a lost attempt writes late never replaces the record of a newer    *)
(* attempt, unless a crash inside an operation left a job queued and       *)
(* claimed at once.                                                        *)
NewerAttemptWins ==
  [][interrupts = 0 =>
       \A j \in Jobs : rec'[j].attempt >= rec[j].attempt]_rec

(* The live Pages site never goes back to an older run (commitCiRun's      *)
(* comparison with the current version), with the same exception.          *)
SiteNeverRollsBack == [][interrupts = 0 => site' >= site]_site

(* Every job in the queue is settled: it leaves the queue with a terminal  *)
(* record.                                                                 *)
Drains ==
  \A j \in Jobs :
    Queued(j) \/ Claimed(j)
      ~> rec[j].status \in Terminal /\ ~Queued(j) /\ ~Claimed(j)

(* The queue implements JobQueue: whatever dies or is lost, a job that a   *)
(* push brought waits, is held or is settled, is put back as its next      *)
(* attempt, never returns once it was settled, and shares its ref with no  *)
(* other held job.  A job whose requeue was interrupted, in spool/ and in  *)
(* working/, is still held; without either it is settled if its record     *)
(* says so, and lost if not.                                               *)
Phase == [j \in Jobs |-> IF Claimed(j) THEN "held"
                         ELSE IF Queued(j) THEN "waiting"
                         ELSE IF rec[j].status = "None" THEN "new"
                         ELSE IF rec[j].status \in Terminal THEN "settled"
                         ELSE "lost"]
Attempt == [j \in Jobs |-> IF Claimed(j) THEN working[j] ELSE spool[j]]

Promise == INSTANCE JobQueue WITH phase <- Phase, attempt <- Attempt
KeepsPromise == Promise!Spec

(* Fairness: the daemons keep working (the primary's serve loop, the       *)
(* gateway's claim loop and the reaping both do), a build's steps end, and *)
(* a lease nobody renews lapses.  Nothing is assumed of pushes, cancel     *)
(* requests, crashes, give-backs, or of a live runner keeping its lease.   *)
deadLeaseLapses(j) ==
  /\ \A r \in Runners : ~(Holds(r) /\ run[r].job = j)
  /\ leaseLapses(j)

stepOf(r) ==
  \/ \E j \in Jobs : claimCiJob(r, j)
  \/ renewCiLease(r) /\ ~Holds(r)
  \/ \E s \in {"Cancelled", "Skipped", "Error"} : recordCiOutcome(r, s)
  \/ runStarted(r)
  \/ commitDecides(r)
  \/ \E published \in BOOLEAN : commitCiRun(r, published)
  \/ releaseCiClaim(r)
  \/ releaseCiJob(r)

Fairness ==
  /\ \A j \in Jobs : WF_vars(age(j)) /\ WF_vars(deadLeaseLapses(j))
  /\ \A r \in Runners :
       /\ WF_vars(stepOf(r))
       /\ SF_vars(\E s \in {"Success", "Failure", "Cancelled"} : finish(r, s))
  /\ WF_vars(reapCiLeases)
  /\ WF_vars(restart)

FairSpec == Spec /\ Fairness

=============================================================================
