------------------------------ MODULE CiWorkflow ------------------------------
(***************************************************************************)
(* Distributed workflows (version 2): one push becomes a group, a parent   *)
(* run and one child job per workflow job, tied together by a journal      *)
(* (ci_store.cpp, ci_results.cpp).  The groups of this module belong to    *)
(* one branch of one project, so they compete for it.                      *)
(*                                                                         *)
(* Leases are the subject of CiQueue.  Here a claim is lost when its       *)
(* runner is (crash, or a refused finish), and a lost claim is reaped.     *)
(*                                                                         *)
(* q holds the files that are changed under the exclusive lock on spool/;  *)
(* one critical section is one step.  Record writes, cancel markers and    *)
(* the publication of a parent are made outside that lock and interleave   *)
(* with it.                                                                *)
(***************************************************************************)
EXTENDS Naturals, FiniteSets

CONSTANTS
  LastId,       \* bound: run ids are numbers from 1, in the order of time
  Groups,       \* ids of parent runs
  Children,     \* ids of child runs
  GroupOf,      \* the parent of each child
  Needs,        \* the siblings each child needs
  AutoCancel,   \* the groups whose workflow may supersede older ones
  Runners,      \* every runner that may claim
  Primary,      \* the runner of the main host
  CanRun,       \* the runners whose labels match each child's runs_on
  Cancellable,  \* bound: the runs the operator may cancel
  MaxAttempts,  \* ci_max_attempts
  MaxCrashes,   \* bound: runners lost or handing back, in all
  MaxInterrupts \* bound: crashes inside an enqueue or a publication, in all

ASSUME WorkflowAssumption ==
  /\ LastId \in Nat
  /\ Groups \cup Children \subseteq 1 .. LastId
  /\ Groups \cap Children = {}
  /\ GroupOf \in [Children -> Groups]
  /\ \A g \in Groups : \E c \in Children : GroupOf[c] = g
  /\ Needs \in [Children -> SUBSET Children]
  /\ \A c \in Children : \A d \in Needs[c] : GroupOf[d] = GroupOf[c]
  /\ AutoCancel \subseteq Groups
  /\ Primary \in Runners
  /\ CanRun \in [Children -> SUBSET Runners]
  /\ Cancellable \subseteq Groups \cup Children
  /\ MaxAttempts \in Nat \ {0}
  /\ MaxCrashes \in Nat
  /\ MaxInterrupts \in Nat

VARIABLES
  q,         \* the queue's files, see QueueFiles
  committed, \* groups with an outputs-committed file
  site,      \* the group whose Pages site is live, 0 before the first
  shown,     \* history: groups whose outputs were ever published
  run,       \* what each runner is doing
  lost,      \* claimed children whose runner is gone
  crashes,   \* runners lost so far
  interrupts \* crashes inside an operation so far

vars == <<q, committed, site, shown, run, lost, crashes, interrupts>>

-----------------------------------------------------------------------------

Active == {"Pending", "Running"}
Terminal == {"Success", "Failure", "Error", "Skipped", "Cancelled"}
Status == {"None"} \cup Active \cup Terminal

(* spool and working hold the attempt in the job file, 0 without one;      *)
(* planned are the groups whose run directory holds workflow.ini, auto     *)
(* those whose jobs say auto_cancel.                                 *)
QueueFiles ==
  [spool : [Children -> Nat], working : [Children -> Nat],
   rec : [Children -> [status : Status, attempt : Nat]],
   parent : [Groups -> Status],
   cancel : SUBSET (Groups \cup Children),
   journal : SUBSET Groups, planned : SUBSET Groups,
   auto : SUBSET AutoCancel]

Places == {"idle", "claimed", "running", "commit", "finalize", "release",
           "releaseJob"}
RunState == [pc : Places, job : Children \cup {0}, attempt : Nat,
             result : {"None"} \cup Terminal, ran : BOOLEAN]
Idle == [pc |-> "idle", job |-> 0, attempt |-> 0, result |-> "None",
         ran |-> FALSE]

(* A runner's child is in working/ and not lost. *)
TypeOK ==
  /\ q \in QueueFiles
  /\ committed \subseteq Groups
  /\ site \in Groups \cup {0}
  /\ shown \subseteq Groups
  /\ run \in [Runners -> RunState]
  /\ lost \subseteq Children
  /\ \A r \in Runners : run[r].pc # "idle" => /\ run[r].job \in Children \ lost
                                             /\ q.working[run[r].job] > 0
  /\ crashes \in 0 .. MaxCrashes
  /\ interrupts \in 0 .. MaxInterrupts

Rec(s, n) == [status |-> s, attempt |-> n]
Kids(g) == {c \in Children : GroupOf[c] = g}
Queued(s, c) == s.spool[c] > 0
Held(s, c) == s.working[c] > 0
Status_(s, c) == s.rec[c].status
Ended(s, c) == Status_(s, c) \in Terminal

(* isCiCancelRequested: a child's own marker or its parent's. *)
CancelRequested(s, c) == c \in s.cancel \/ GroupOf[c] \in s.cancel

(* cancelQueuedJob: the terminal record, then the spool entry goes. *)
cancelQueuedJob(s, c, st, n) ==
  [s EXCEPT !.rec[c] = Rec(st, n), !.spool[c] = 0]

-----------------------------------------------------------------------------
(* reconcileWorkflowGroups, for one journal. *)

(* Every child gets a record; an active one that is neither claimed nor    *)
(* queued is queued again, one whose cancel was requested ends, and an     *)
(* ended one leaves the spool.  A child's files before and after:          *)
FilesOf(s, c) == [rec |-> s.rec[c], spool |-> s.spool[c]]
Begun(s, c) == IF Status_(s, c) = "None" THEN Rec("Pending", 1) ELSE s.rec[c]

RestoredRecordOnly(s, c) ==  \* mutant
  [FilesOf(s, c) EXCEPT !.rec = Begun(s, c)]

Restored(s, c) ==
  LET r == Begun(s, c)
  IN IF Held(s, c) THEN [FilesOf(s, c) EXCEPT !.rec = r]
     ELSE IF r.status \in Terminal THEN [FilesOf(s, c) EXCEPT !.spool = 0]
     ELSE IF CancelRequested(s, c)
       THEN [rec |-> Rec("Cancelled", 1), spool |-> 0]
     ELSE [rec |-> r, spool |-> IF Queued(s, c) THEN s.spool[c] ELSE r.attempt]

RestoreKids(s, g) ==
  [s EXCEPT
     !.planned = @ \cup {g},
     !.rec = [c \in Children |-> IF c \in Kids(g) THEN Restored(s, c).rec
                                ELSE s.rec[c]],
     !.spool = [c \in Children |-> IF c \in Kids(g) THEN Restored(s, c).spool
                                  ELSE s.spool[c]]]

(* A parent that ended and whose outputs are not committed yet. *)
listCiUnpublishedSuccesses(s) ==  \* mutant
  {g \in s.planned \ committed : s.parent[g] = "Success"}

listCiUnpublishedWorkflows(s) ==
  {g \in s.planned \ committed : s.parent[g] \in Terminal}

(* supersedeCiJobs for the children of g.  A newer superseding group that  *)
(* is queued or claimed ends every child of g; a superseding g marks the   *)
(* older parents, ends their queued children and marks the claimed ones.   *)
Entry(s, c) == Queued(s, c) \/ Held(s, c)
Superseded(s, g) ==
  \E k \in Children : /\ Entry(s, k)
                      /\ GroupOf[k] > g
                      /\ GroupOf[k] \in s.auto
Outdated(s, g) ==
  {k \in Children : g \in s.auto /\ GroupOf[k] < g /\ Entry(s, k)}
OutdatedParents(s, g) ==
  {GroupOf[k] : k \in Outdated(s, g)}
    \cup {p \in listCiUnpublishedWorkflows(s) : g \in s.auto /\ p < g}

supersedeCiJobs(s, g) ==
  LET own == IF Superseded(s, g) THEN Kids(g) ELSE {}
      old == {k \in Outdated(s, g) : Queued(s, k)}
      marked == {k \in Outdated(s, g) \ old : ~Ended(s, k)}
  IN [s EXCEPT
        !.rec = [c \in Children |->
                   IF c \in own THEN Rec("Cancelled", 1)
                   ELSE IF c \in old THEN Rec("Cancelled", s.spool[c])
                   ELSE s.rec[c]],
        !.spool = [c \in Children |-> IF c \in own \cup old THEN 0
                                      ELSE s.spool[c]],
        !.cancel = @ \cup marked \cup (OutdatedParents(s, g) \ committed)]

(* The parent's status: the worst end of its children once all have ended. *)
Severity == <<"Error", "Failure", "Cancelled", "Skipped", "Success">>
WorstOf(s, g) ==
  LET ends == {Status_(s, c) : c \in Kids(g)}
  IN Severity[CHOOSE n \in 1 .. 5 : /\ Severity[n] \in ends
                                    /\ \A i \in 1 .. n - 1 :
                                         Severity[i] \notin ends]
SummaryOfSome(s, g) ==  \* mutant
  IF \E c \in Kids(g) : Ended(s, c) THEN WorstOf(s, g)
  ELSE "Pending"

Summary(s, g) ==
  IF \A c \in Kids(g) : Ended(s, c) THEN WorstOf(s, g)
  ELSE IF \E c \in Kids(g) : \/ Held(s, c)
                             \/ Ended(s, c)
                             \/ Status_(s, c) = "Running"
    THEN "Running"
  ELSE "Pending"

(* The summary is taken before the superseding; an ended parent's journal  *)
(* is retired.                                                             *)
ReconcileGroup(s, g) ==
  LET all == RestoreKids(s, g)
      end == Summary(all, g)
  IN IF g \notin s.journal THEN s
     ELSE [supersedeCiJobs(all, g) EXCEPT
             !.parent[g] = end,
             !.journal = IF end \in Terminal THEN @ \ {g} ELSE @]

(* The journals in the order of their ids. *)
reconcileWorkflowGroups(s) ==
  LET upTo[n \in 0 .. LastId] ==
        IF n = 0 THEN s
        ELSE IF n \in Groups THEN ReconcileGroup(upTo[n - 1], n)
        ELSE upTo[n - 1]
  IN upTo[LastId]

-----------------------------------------------------------------------------
(* Queueing a workflow. *)

(* The journal is the commit point; reconciling does the rest. *)
enqueueCiWorkflowJobs(g) ==
  /\ g \notin q.journal \cup q.planned
  /\ q' = supersedeCiJobs(
            reconcileWorkflowGroups([q EXCEPT !.journal = @ \cup {g}]), g)
  /\ UNCHANGED <<committed, site, shown, run, lost, crashes, interrupts>>

(* The receive hook dies right after it wrote the journal. *)
enqueueInterrupted(g) ==
  /\ g \notin q.journal \cup q.planned
  /\ interrupts < MaxInterrupts
  /\ interrupts' = interrupts + 1
  /\ q' = [q EXCEPT !.journal = @ \cup {g}]
  /\ UNCHANGED <<committed, site, shown, run, lost, crashes>>

(* The operator cancels a workflow or one of its jobs.  A parent whose     *)
(* outputs are committed is left alone.                                    *)
requestCiCancel(x) ==
  /\ IF x \in Groups THEN x \in q.planned \ committed
     ELSE q.rec[x].status # "None"
  /\ q' = [q EXCEPT !.cancel = @ \cup {x}]
  /\ UNCHANGED <<committed, site, shown, run, lost, crashes, interrupts>>

-----------------------------------------------------------------------------
(* Claims. *)

FailedByFailure(s, c) ==  \* mutant
  \E d \in Needs[c] : Status_(s, d) = "Failure"
Failed(s, c) == \E d \in Needs[c] : Ended(s, d) /\ Status_(s, d) # "Success"
Waiting(s, c) == \E d \in Needs[c] : ~Ended(s, d)

(* At most one group of the branch is in progress, and no group starts     *)
(* while an older one has queued children or unpublished outputs; s is the *)
(* queue when the claim looked at it.                                      *)
Pending(s) == {GroupOf[k] : k \in {k \in Children : Queued(s, k)}}
                \cup listCiUnpublishedWorkflows(s)
FreeForQueuedOnly(s, g) ==  \* mutant
  /\ \A k \in Children : Held(s, k) => GroupOf[k] = g
  /\ \A k \in Children : Queued(s, k) => GroupOf[k] >= g
FreeFor(s, g) ==
  /\ \A k \in Children : Held(s, k) => GroupOf[k] = g
  /\ \A p \in Pending(s) : p >= g

(* One spool entry on the way of a claim: it ends when it was cancelled or *)
(* a job it needs did not succeed; otherwise it is taken unless it waits,  *)
(* fits another runner, is still inside the primary's claim delay (late    *)
(* holds the others), or its group may not run now.                        *)
Visit(x, c, r, late) ==
  IF x.got # 0 \/ ~Queued(x.s, c) THEN x
  ELSE IF CancelRequested(x.s, c)
    THEN [x EXCEPT !.s = cancelQueuedJob(@, c, "Cancelled", x.s.spool[c])]
  ELSE IF Failed(x.s, c)
    THEN [x EXCEPT !.s = cancelQueuedJob(@, c, "Skipped", x.s.spool[c])]
  ELSE IF /\ ~Waiting(x.s, c)
          /\ r \in CanRun[c]
          /\ FreeFor(x.start, GroupOf[c])
          /\ c \in late
    THEN [x EXCEPT !.got = c]
  ELSE x

Scan(r, late) ==
  LET start == reconcileWorkflowGroups(q)
      upTo[n \in 0 .. LastId] ==
        IF n = 0 THEN [s |-> start, start |-> start, got |-> 0]
        ELSE IF n \in Children THEN Visit(upTo[n - 1], n, r, late)
        ELSE upTo[n - 1]
  IN upTo[LastId]

(* claimCiJob.  A claim that takes nothing still repairs the groups and    *)
(* ends entries; one that takes a child summarises the groups once more.   *)
claimCiJob(r, late) ==
  LET x == Scan(r, late)
      c == x.got
  IN /\ run[r].pc = "idle"
     /\ r # Primary => late = Children
     /\ IF c = 0
          THEN /\ q' = x.s
               /\ UNCHANGED run
          ELSE /\ q' = reconcileWorkflowGroups(
                         [x.s EXCEPT !.working[c] = x.s.spool[c],
                                     !.spool[c] = 0])
               /\ run' = [run EXCEPT ![r] = [Idle EXCEPT
                            !.pc = "claimed", !.job = c,
                            !.attempt = x.s.spool[c]]]
     /\ UNCHANGED <<committed, site, shown, lost, crashes, interrupts>>

-----------------------------------------------------------------------------
(* Publication of a parent's outputs. *)

(* finalizeCiWorkflowResults goes on only when every child and the parent  *)
(* have ended and nothing was published before.                            *)
Ready(s, g) == /\ g \in listCiUnpublishedWorkflows(s)
               /\ \A c \in Kids(g) : Ended(s, c)

(* The result of commitCiRun for a parent: a cancel request wins, inputs   *)
(* that cannot be collected or a site that cannot be published make a      *)
(* success an error; the site is skipped when a newer one is live.         *)
EndOf(s, g, collected) ==
  IF g \in s.cancel THEN "Cancelled"
  ELSE IF s.parent[g] = "Success" /\ ~collected THEN "Error"
  ELSE s.parent[g]

(* done is how far a publication gets before its process dies: the site,   *)
(* the parent's record, or the outputs-committed file that ends it.        *)
PublishBeforeCancel(s, g, collected, done) ==  \* mutant
  LET end == EndOf(s, g, collected)
      live == s.parent[g] = "Success" /\ site <= g
  IN /\ site' = IF live THEN g ELSE site
     /\ shown' = IF live THEN shown \cup {g} ELSE shown
     /\ q' = IF done = "site" THEN s
             ELSE [s EXCEPT !.parent[g] = end, !.cancel = @ \ {g}]
     /\ committed' = IF done = "all" THEN committed \cup {g} ELSE committed

Publish(s, g, collected, done) ==
  LET end == EndOf(s, g, collected)
      live == end = "Success" /\ site <= g
  IN /\ site' = IF live THEN g ELSE site
     /\ shown' = IF end = "Success" THEN shown \cup {g} ELSE shown
     /\ q' = IF done = "site" THEN s
             ELSE [s EXCEPT !.parent[g] = end, !.cancel = @ \ {g}]
     /\ committed' = IF done = "all" THEN committed \cup {g} ELSE committed

(* finalizeCiWorkflowResults, under the lock of the parent's directory,    *)
(* which also keeps requestCiCancel for this parent out.  The groups are   *)
(* refreshed first.                                                        *)
finalizeCiWorkflowResults(g, collected) ==
  LET s == reconcileWorkflowGroups(q)
  IN IF Ready(s, g) THEN Publish(s, g, collected, "all")
     ELSE /\ q' = s
          /\ UNCHANGED <<committed, site, shown>>

(* recoverCiWorkflowResults: both daemons retry before they claim. *)
recoverCiWorkflowResults(g, collected) ==
  /\ g \in listCiUnpublishedWorkflows(reconcileWorkflowGroups(q))
  /\ finalizeCiWorkflowResults(g, collected)
  /\ UNCHANGED <<run, lost, crashes, interrupts>>

(* The publishing process dies on its way; the work of a runner that was   *)
(* publishing for its own child is lost by `crash` next.                   *)
finalizeInterrupted(g, done) ==
  /\ interrupts < MaxInterrupts
  /\ interrupts' = interrupts + 1
  /\ LET s == reconcileWorkflowGroups(q)
     IN Ready(s, g) /\ Publish(s, g, TRUE, done)
  /\ UNCHANGED <<run, lost, crashes>>

-----------------------------------------------------------------------------
(* A runner's work on its child. *)

(* The child ends without running; the gateway then publishes the parent   *)
(* if it can, the primary leaves that to its next round.                   *)
recordCiOutcome(r, st) ==
  LET c == run[r].job IN
    /\ run[r].pc = "claimed"
    /\ st \in IF CancelRequested(q, c) THEN {"Cancelled"} ELSE {"Error"}
    /\ q' = [q EXCEPT !.rec[c] = Rec(st, run[r].attempt),
                      !.cancel = @ \ {c}]
    /\ run' = [run EXCEPT ![r].pc = IF r = Primary THEN "release"
                                    ELSE "finalize"]
    /\ UNCHANGED <<committed, site, shown, lost, crashes, interrupts>>

runStarted(r) ==
  LET c == run[r].job IN
    /\ run[r].pc = "claimed"
    /\ ~CancelRequested(q, c)
    /\ q' = [q EXCEPT !.rec[c] = Rec("Running", run[r].attempt)]
    /\ run' = [run EXCEPT ![r].pc = "running", ![r].ran = TRUE]
    /\ UNCHANGED <<committed, site, shown, lost, crashes, interrupts>>

(* A step's start or end is recorded, whatever the record says by now. *)
progress(r) ==
  /\ run[r].pc = "running"
  /\ q' = [q EXCEPT !.rec[run[r].job] = Rec("Running", run[r].attempt)]
  /\ UNCHANGED <<committed, site, shown, run, lost, crashes, interrupts>>

(* The steps are over.  The gateway leaves a child alone that has ended    *)
(* meanwhile; commitCiRun refuses a child whose parent is published: the   *)
(* primary then drops its claim, the gateway's request fails and the claim *)
(* waits for the reaper.                                                   *)
finish(r, st) ==
  LET c == run[r].job
      settled == r # Primary /\ Ended(q, c)
      refused == ~settled /\ GroupOf[c] \in committed
      gone == refused /\ r # Primary
  IN /\ run[r].pc = "running"
     /\ run' = [run EXCEPT ![r] =
          IF gone THEN Idle
          ELSE IF refused THEN [@ EXCEPT !.pc = "release"]
          ELSE IF settled THEN [@ EXCEPT !.pc = "finalize"]
          ELSE [@ EXCEPT !.pc = "commit",
                         !.result = IF CancelRequested(q, c) THEN "Cancelled"
                                    ELSE st]]
     /\ lost' = IF gone THEN lost \cup {c} ELSE lost
     /\ UNCHANGED <<q, committed, site, shown, crashes, interrupts>>

(* commitCiRun's record of a child; it publishes nothing itself. *)
commitCiRun(r) ==
  LET c == run[r].job IN
    /\ run[r].pc = "commit"
    /\ q' = [q EXCEPT !.rec[c] = Rec(run[r].result, run[r].attempt),
                      !.cancel = @ \ {c}]
    /\ run' = [run EXCEPT ![r].pc = "finalize"]
    /\ UNCHANGED <<committed, site, shown, lost, crashes, interrupts>>

(* finalizeCiParentForChild *)
finalizeCiParentForChild(r, collected) ==
  /\ run[r].pc = "finalize"
  /\ finalizeCiWorkflowResults(GroupOf[run[r].job], collected)
  /\ run' = [run EXCEPT ![r].pc = IF run[r].ran THEN "release"
                                  ELSE "releaseJob"]
  /\ UNCHANGED <<lost, crashes, interrupts>>

(* The repository no longer prepares the parent (its branch is no trigger  *)
(* any more, a sister is gone): the primary goes on to its release, the    *)
(* gateway's request fails and leaves the claim to the reaper.             *)
finalizeRefused(r) ==
  LET gone == r # Primary IN
    /\ run[r].pc = "finalize"
    /\ run' = [run EXCEPT ![r] = IF gone THEN Idle
                                 ELSE [@ EXCEPT !.pc = "release"]]
    /\ lost' = IF gone THEN lost \cup {run[r].job} ELSE lost
    /\ UNCHANGED <<q, committed, site, shown, crashes, interrupts>>

(* releaseCiClaim summarises the groups; releaseCiJob does not. *)
releaseCiClaim(r) ==
  /\ run[r].pc = "release"
  /\ q' = reconcileWorkflowGroups([q EXCEPT !.working[run[r].job] = 0])
  /\ run' = [run EXCEPT ![r] = Idle]
  /\ UNCHANGED <<committed, site, shown, lost, crashes, interrupts>>

releaseCiJob(r) ==
  /\ run[r].pc = "releaseJob"
  /\ q' = [q EXCEPT !.working[run[r].job] = 0]
  /\ run' = [run EXCEPT ![r] = Idle]
  /\ UNCHANGED <<committed, site, shown, lost, crashes, interrupts>>

-----------------------------------------------------------------------------
(* Lost runners. *)

(* requeueLocked for a child: one that has ended is retired, a cancelled   *)
(* one ends, one without attempts left ends when the limit is enforced,    *)
(* and the others go back to the spool.                                    *)
RequeueAnyway(s, c, enforce) ==  \* mutant
  LET n == s.working[c]
      out == [s EXCEPT !.working[c] = 0]
  IN IF CancelRequested(s, c)
       THEN [cancelQueuedJob(out, c, "Cancelled", n) EXCEPT !.cancel = @ \ {c}]
     ELSE IF enforce /\ n >= MaxAttempts
       THEN [out EXCEPT !.rec[c].status = "Error"]
     ELSE [out EXCEPT !.rec[c] = Rec("Pending", n + 1), !.spool[c] = n + 1]

requeueLocked(s, c, enforce) ==
  LET n == s.working[c]
      out == [s EXCEPT !.working[c] = 0]
  IN IF Ended(s, c) THEN [out EXCEPT !.spool[c] = 0]
     ELSE IF CancelRequested(s, c)
       THEN [cancelQueuedJob(out, c, "Cancelled", n) EXCEPT !.cancel = @ \ {c}]
     ELSE IF enforce /\ n >= MaxAttempts
       THEN [out EXCEPT !.rec[c].status = "Error"]
     ELSE [out EXCEPT !.rec[c] = Rec("Pending", n + 1), !.spool[c] = n + 1]

reapCiLeases(c) ==
  /\ c \in lost
  /\ lost' = lost \ {c}
  /\ q' = requeueLocked(q, c, TRUE)
  /\ UNCHANGED <<committed, site, shown, run, crashes, interrupts>>

crash(r) ==
  /\ run[r].pc # "idle"
  /\ crashes < MaxCrashes
  /\ crashes' = crashes + 1
  /\ lost' = lost \cup {run[r].job}
  /\ run' = [run EXCEPT ![r] = Idle]
  /\ UNCHANGED <<q, committed, site, shown, interrupts>>

(* A runner that is shutting down hands its child back. *)
abandonCiJob(r) ==
  /\ run[r].pc = "running"
  /\ ~CancelRequested(q, run[r].job)
  /\ crashes < MaxCrashes
  /\ crashes' = crashes + 1
  /\ q' = requeueLocked(q, run[r].job, FALSE)
  /\ run' = [run EXCEPT ![r] = Idle]
  /\ UNCHANGED <<committed, site, shown, lost, interrupts>>

-----------------------------------------------------------------------------

Init ==
  /\ \E auto \in SUBSET AutoCancel :
       q = [spool |-> [c \in Children |-> 0], working |-> [c \in Children |-> 0],
            rec |-> [c \in Children |-> Rec("None", 0)],
            parent |-> [g \in Groups |-> "None"],
            cancel |-> {}, journal |-> {}, planned |-> {}, auto |-> auto]
  /\ committed = {}
  /\ site = 0
  /\ shown = {}
  /\ run = [r \in Runners |-> Idle]
  /\ lost = {}
  /\ crashes = 0
  /\ interrupts = 0

Work(r) ==
  \/ \E late \in SUBSET Children : claimCiJob(r, late)
  \/ \E st \in {"Cancelled", "Error"} : recordCiOutcome(r, st)
  \/ runStarted(r)
  \/ progress(r)
  \/ \E st \in {"Success", "Failure"} : finish(r, st)
  \/ commitCiRun(r)
  \/ \E collected \in BOOLEAN : finalizeCiParentForChild(r, collected)
  \/ finalizeRefused(r)
  \/ releaseCiClaim(r)
  \/ releaseCiJob(r)
  \/ abandonCiJob(r)
  \/ crash(r)

Next ==
  \/ \E g \in Groups :
       \/ enqueueCiWorkflowJobs(g)
       \/ enqueueInterrupted(g)
       \/ \E collected \in BOOLEAN : recoverCiWorkflowResults(g, collected)
       \/ \E done \in {"site", "record"} : finalizeInterrupted(g, done)
  \/ \E x \in Cancellable : requestCiCancel(x)
  \/ \E r \in Runners : Work(r)
  \/ \E c \in Children : reapCiLeases(c)

Spec == Init /\ [][Next]_vars

-----------------------------------------------------------------------------
(* Properties. *)

(* A child that still shows as pending or running is queued or claimed: a  *)
(* crash inside an enqueue, a lost runner or a release never loses it      *)
(* (for superseded workflows see CancelReachesChildren).                   *)
NoChildLost ==
  q.auto = {} => \A c \in Children : Status_(q, c) \in Active => Entry(q, c)

(* A child runs, and succeeds, only after every job it needs succeeded,    *)
(* whatever was requeued or ended in between (the cancel of a superseded   *)
(* workflow is recorded for all its children, also the ones that ended).   *)
NeedsSucceeded ==
  q.auto = {} => \A c \in Children :
    Status_(q, c) \in {"Running", "Success"}
      => \A d \in Needs[c] : Status_(q, d) = "Success"

(* A parent ends only when all of its children have: the result collector  *)
(* waits for every child (of a superseded workflow it does not, see        *)
(* CancelReachesChildren).                                                 *)
ParentEndsLast ==
  q.auto = {} => \A g \in Groups :
    q.parent[g] \in Terminal => \A c \in Kids(g) : Ended(q, c)

(* What was published belongs to a group whose children all succeeded, and *)
(* that no cancel has ended: the marker of a cancel and the publication    *)
(* exclude each other through the lock of the parent's directory.          *)
ShownIsSuccess ==
  \A g \in shown :
    /\ \A c \in Kids(g) : Status_(q, c) = "Success"
    /\ interrupts = 0 => q.parent[g] # "Cancelled"

(* No child of a group is claimed while an older group of the branch is    *)
(* unfinished or has unpublished outputs: a pending publication keeps its  *)
(* place in branch order.  Cancelled groups have none to publish.          *)
BranchOrder ==
  [][\A c \in Children :
       ~Held(q, c) /\ q'.working[c] > 0
         => \A g \in q'.planned \ q'.cancel : g < GroupOf[c] => g \in committed]_vars

(* A child whose end is recorded is never run or requeued again: a lost    *)
(* runner's finished steps are not repeated.  (A superseded workflow marks *)
(* children cancelled that still run, and those write their records on.)   *)
ChildEndIsFinal ==
  [][q.auto = {} => \A c \in Children :
       Ended(q, c) => q'.rec[c].status = Status_(q, c)]_q

(* Every queued workflow is finished and its outputs committed, where no   *)
(* workflow supersedes another (see CancelReachesChildren).                *)
GroupSettles ==
  \A g \in Groups :
    q.auto = {} /\ g \in q.journal \cup q.planned
      ~> /\ g \in committed
         /\ \A c \in Kids(g) : Ended(q, c) /\ ~Entry(q, c)

(* A cancelled workflow ends on every runner: the cancel of a parent       *)
(* reaches its queued and its running children.                            *)
CancelReachesChildren ==
  \A g \in Groups :
    q.parent[g] = "Cancelled" ~> \A c \in Kids(g) : Ended(q, c)

(* Fairness: daemons keep claiming, reaping and recovering, and a build's  *)
(* steps end; a claim eventually finds no entry inside its delay, and a    *)
(* parent can eventually be prepared.  The two conditions say when a step  *)
(* of a runner, or a recovery, changes something (what ENABLED says of     *)
(* them), so each conjunct is weak fairness written out.                   *)
stepOf(r) ==
  \/ claimCiJob(r, Children)
  \/ \E st \in {"Cancelled", "Error"} : recordCiOutcome(r, st)
  \/ runStarted(r)
  \/ \E st \in {"Success", "Failure"} : finish(r, st)
  \/ commitCiRun(r)
  \/ \E collected \in BOOLEAN : finalizeCiParentForChild(r, collected)
  \/ releaseCiClaim(r)
  \/ releaseCiJob(r)
HasStep(r) == run[r].pc # "idle" \/ Scan(r, Children).got # 0
                \/ Scan(r, Children).s # q

recovery(g) == \E collected \in BOOLEAN : recoverCiWorkflowResults(g, collected)
HasRecovery(g) ==
  LET s == reconcileWorkflowGroups(q)
  IN g \in listCiUnpublishedWorkflows(s) /\ (s # q \/ Ready(s, g))

Fairness ==
  /\ \A r \in Runners : []<>~HasStep(r) \/ []<><<stepOf(r)>>_vars
  /\ \A g \in Groups : []<>~HasRecovery(g) \/ []<><<recovery(g)>>_vars
  /\ \A c \in Children : WF_vars(reapCiLeases(c))

FairSpec == Spec /\ Fairness

=============================================================================
