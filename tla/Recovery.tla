------------------------------ MODULE Recovery ------------------------------
(***************************************************************************)
(* Backup of a host and its restore (recovery.cpp), beside the pushes that *)
(* neither of them locks out.                                              *)
(*                                                                         *)
(* Both hold the lifecycle lock of the repository root and the lock of the *)
(* state root, so creation, removal, registration, events and the orphan   *)
(* sweep wait; those are one step here, Projects has their inside.  A push *)
(* is two steps: receive-pack opens the directory, later it moves the      *)
(* branch in it, wherever the directory is by then.  A repository is the   *)
(* number of commits of its branch, and receive.denyNonFastForwards lets   *)
(* that only grow.                                                         *)
(***************************************************************************)
EXTENDS Naturals, FiniteSets, TLC

CONSTANTS
  Project,     \* project names
  MaxTip,      \* bound: commits of a branch
  MaxCrashes,  \* bound: processes that die
  MaxLosses,   \* bound: hosts that are lost and provisioned again
  NoBackup     \* no backup was taken yet

(* What a backup holds of a state root, beside the repositories.           *)
Supported == {"checkouts", "events"}

ASSUME RecoveryAssumption ==
  /\ IsFiniteSet(Project)
  /\ Project \cap Supported = {}
  /\ MaxTip \in Nat \ {0} /\ MaxCrashes \in Nat /\ MaxLosses \in Nat

VARIABLES
  live,      \* repo_root/PROJECT.git: its commits, 0 without the directory
  reserved,  \* repo_root/PROJECT.git that are empty directories
  entries,   \* the directories of the state root
  reg,       \* the projects with registrations (state_root/checkouts)
  ev,        \* the last commit each project has an event for
  backup,    \* the published backup
  job,       \* the backup or restore that holds the locks
  stage,     \* the repositories in a restore's staging directory
  handle,    \* the directory that a receive-pack of the project has open
  seen,      \* the repositories as they were since the backup began
  crashes, losses

repos == <<live, reserved>>
state == <<entries, reg, ev>>
bounds == <<crashes, losses>>
vars == <<repos, state, backup, job, stage, handle, seen, bounds>>

Symmetric == Permutations(Project)

Nothing == [p \in Project |-> 0]
Tips == [Project -> 0..MaxTip]

(* What validateState accepts in a state root is what a backup holds:      *)
(* neither runtime/, written by every daemon, nor what a restore left.     *)
Entry == Supported \cup {"runtime", "staging"}
Data == [tip : Tips, entries : SUBSET Supported, reg : SUBSET Project, ev : Tips]

(* `todo` is what a phase still has to visit, `done` what a restore has    *)
(* installed, `before` the fingerprints, `copy` the copied metadata and    *)
(* the mirrors, `undone` that every rename of a rollback worked.           *)
Empty == [tip |-> Nothing, entries |-> {}, reg |-> {}, ev |-> Nothing]
Idle == [at |-> "idle", todo |-> {}, done |-> {}, before |-> Nothing,
         copy |-> Empty, undone |-> TRUE]
Locked == job.at # "idle"
At(phase) == job.at = phase
Moves(phase, todo) == job' = [job EXCEPT !.at = phase, !.todo = todo]
Visited(x) == job' = [job EXCEPT !.todo = @ \ {x}]

Hosted == {p \in Project : live[p] # 0}
Names == Hosted \cup reserved
BackedUp == {p \in Project : backup.tip[p] # 0}
HasMetadata(p) == p \in reg \/ ev[p] # 0

TypeOK ==
  /\ live \in Tips /\ reserved \subseteq Project
  /\ entries \subseteq Entry /\ reg \subseteq Project /\ ev \in Tips
  /\ backup = NoBackup \/ backup \in Data
  /\ job \in [at : {"idle", "before", "clone", "compare", "after", "install",
                    "metadata", "undo"},
              todo : SUBSET (Project \cup Supported),
              done : SUBSET (Project \cup Supported),
              before : Tips, copy : Data, undone : BOOLEAN]
  /\ stage \in Tips
  /\ handle \in [Project -> {"none", "live", "stage"}]
  /\ seen \subseteq Tips
  /\ crashes \in Nat /\ losses \in Nat

-----------------------------------------------------------------------------
(* What goes on beside. *)

(* The states a backup may mirror are those since its first fingerprint.   *)
Witness == seen' = IF Locked THEN seen \cup {live'} ELSE {}

openPush(p) ==
  /\ handle[p] = "none" /\ p \in Hosted /\ live[p] < MaxTip
  /\ handle' = [handle EXCEPT ![p] = "live"]
  /\ UNCHANGED <<repos, state, backup, job, stage, seen, bounds>>

finishPush(p) ==
  /\ handle[p] # "none"
  /\ IF handle[p] = "live"
       THEN live' = [live EXCEPT ![p] = @ + 1] /\ UNCHANGED stage
       ELSE stage' = [stage EXCEPT ![p] = @ + 1] /\ UNCHANGED live
  /\ handle' = [handle EXCEPT ![p] = "none"]
  /\ Witness
  /\ UNCHANGED <<reserved, state, backup, job, bounds>>

(* A hook records its event once the locks are free; that of a later push  *)
(* stands for those before it.                                             *)
appendHostedStateEvent(p) ==
  /\ ~Locked /\ ev[p] < live[p]
  /\ ev' = [ev EXCEPT ![p] = live[p]]
  /\ entries' = entries \cup {"events"}
  /\ UNCHANGED <<repos, reg, backup, job, stage, handle, seen, bounds>>

(* Events that a dead removal left for the name do not count for it.       *)
createBareRepository(p) ==
  /\ ~Locked /\ p \notin Names
  /\ live' = [live EXCEPT ![p] = 1]
  /\ ev' = [ev EXCEPT ![p] = 0]
  /\ UNCHANGED <<reserved, entries, reg, backup, job, stage, handle, seen, bounds>>

(* The registration and its event. *)
registerHostedCheckout(p) ==
  /\ ~Locked /\ p \in Hosted
  /\ reg' = reg \cup {p}
  /\ ev' = [ev EXCEPT ![p] = live[p]]
  /\ entries' = entries \cup {"checkouts", "events"}
  /\ UNCHANGED <<repos, backup, job, stage, handle, seen, bounds>>

(* Removal moves the repository to the trash, where a push that has it     *)
(* open goes on, and then drops its metadata, which stays when it dies in  *)
(* between.                                                                *)
Purged(p) == reg' = reg \ {p} /\ ev' = [ev EXCEPT ![p] = 0]
removeBareRepository(p, dies) ==
  /\ ~Locked /\ p \in Hosted
  /\ live' = [live EXCEPT ![p] = 0]
  /\ handle' = [handle EXCEPT ![p] = IF @ = "live" THEN "none" ELSE @]
  /\ IF dies THEN crashes < MaxCrashes /\ crashes' = crashes + 1 /\ UNCHANGED state
             ELSE Purged(p) /\ UNCHANGED <<entries, crashes>>
  /\ UNCHANGED <<reserved, backup, job, stage, seen, losses>>
sweepOrphanProjectMetadata ==
  /\ ~Locked
  /\ reg' = reg \cap Hosted
  /\ ev' = [p \in Project |-> IF p \in Hosted THEN ev[p] ELSE 0]
  /\ UNCHANGED <<repos, entries, backup, job, stage, handle, seen, bounds>>

(* A daemon starts and notes its version, without the lock. *)
recordRuntimeComponent ==
  /\ entries' = entries \cup {"runtime"}
  /\ UNCHANGED <<repos, reg, ev, backup, job, stage, handle, seen, bounds>>

(* The host is lost, or set aside after a restore that went wrong, and its *)
(* roots are provisioned again.                                            *)
provision ==
  /\ ~Locked /\ backup # NoBackup /\ losses < MaxLosses
  /\ losses' = losses + 1
  /\ live' = Nothing /\ reserved' = {} /\ stage' = Nothing
  /\ entries' = {} /\ reg' = {} /\ ev' = Nothing
  /\ handle' = [p \in Project |-> "none"]
  /\ UNCHANGED <<backup, job, seen, crashes>>

-----------------------------------------------------------------------------
(* backupHostedRepositories *)

(* Bound: one backup before the first host is lost. *)
backupStarts ==
  /\ ~Locked /\ (backup # NoBackup => losses > 0)
  /\ job' = [Idle EXCEPT !.at = "before", !.todo = Names]
  /\ seen' = {live}
  /\ UNCHANGED <<repos, state, backup, stage, handle, bounds>>

Stops == job' = Idle /\ seen' = {}

(* The first fingerprint of a project; an empty directory has none.        *)
fingerprint(p) ==
  /\ At("before") /\ p \in job.todo
  /\ IF p \in reserved THEN Stops
     ELSE /\ job' = [job EXCEPT !.todo = @ \ {p}, !.before[p] = live[p]]
          /\ UNCHANGED seen
  /\ UNCHANGED <<repos, state, backup, stage, handle, bounds>>

(* The state root is copied, and the copy is validated. *)
ValidState ==
  /\ entries \subseteq Supported
  /\ \A p \in Project : HasMetadata(p) => p \in Names
copyTree ==
  /\ At("before") /\ job.todo = {}
  /\ IF ValidState
       THEN /\ job' = [job EXCEPT !.at = "clone", !.todo = Names,
                         !.copy.entries = entries, !.copy.reg = reg,
                         !.copy.ev = ev]
            /\ UNCHANGED seen
       ELSE Stops
  /\ UNCHANGED <<repos, state, backup, stage, handle, bounds>>

(* mirror clones the refs and compares them with the source's afterwards;  *)
(* a push before the clone that its first fingerprint would have noticed   *)
(* is as good as one before that fingerprint.                              *)
mirrorClones(p) ==
  /\ At("clone") /\ p \in job.todo
  /\ job' = [job EXCEPT !.copy.tip[p] = live[p], !.at = "compare"]
  /\ UNCHANGED <<repos, state, backup, stage, handle, seen, bounds>>
mirrorCompares(p) ==
  /\ At("compare") /\ p \in job.todo /\ job.copy.tip[p] # 0
  /\ IF job.copy.tip[p] = live[p]
       THEN /\ job' = [job EXCEPT !.at = "clone", !.todo = @ \ {p}]
            /\ UNCHANGED seen
       ELSE Stops
  /\ UNCHANGED <<repos, state, backup, stage, handle, bounds>>

(* The last comparison, project by project, and the publication.           *)
mirrorsEnd ==
  /\ At("clone") /\ job.todo = {}
  /\ Moves("after", Names)
  /\ UNCHANGED <<repos, state, backup, stage, handle, seen, bounds>>
comparesNothing(p) ==  \* mutant
  /\ At("after") /\ p \in job.todo
  /\ Visited(p) /\ UNCHANGED seen
  /\ UNCHANGED <<repos, state, backup, stage, handle, bounds>>
comparesAgain(p) ==
  /\ At("after") /\ p \in job.todo
  /\ IF live[p] = job.before[p] THEN Visited(p) /\ UNCHANGED seen ELSE Stops
  /\ UNCHANGED <<repos, state, backup, stage, handle, bounds>>
backupEnds ==
  /\ At("after") /\ job.todo = {}
  /\ backup' = job.copy
  /\ Stops
  /\ UNCHANGED <<repos, state, stage, handle, bounds>>

Capturing == job.at \in {"before", "clone", "compare", "after"}

-----------------------------------------------------------------------------
(* restoreBackup *)

(* The state root must be empty and no destination taken.  The verified    *)
(* copies are staged in both roots, each on the file system it goes to.    *)
Startable == entries = {} /\ BackedUp \cap Names = {}
restoreStarts ==
  /\ ~Locked /\ backup # NoBackup
  /\ Startable
  /\ stage' = backup.tip
  /\ entries' = {"staging"}
  /\ job' = [Idle EXCEPT !.at = "install", !.todo = BackedUp]
  /\ UNCHANGED <<repos, reg, ev, backup, handle, seen, bounds>>

(* A copy cannot be made or verified: what was staged is removed again.    *)
stagingFails ==
  /\ At("install") /\ job.done = {} /\ job.todo = BackedUp
  /\ stage' = Nothing
  /\ entries' = entries \ {"staging"}
  /\ Stops
  /\ UNCHANGED <<repos, reg, ev, backup, handle, bounds>>

(* publishDirectory: the destination is reserved and renamed over.         *)
forgetsInstalled(p) ==  \* mutant
  /\ At("install") /\ p \in job.todo /\ p \notin Names
  /\ live' = [live EXCEPT ![p] = stage[p]]
  /\ stage' = [stage EXCEPT ![p] = 0]
  /\ job' = [job EXCEPT !.todo = @ \ {p}]
  /\ UNCHANGED <<reserved, state, backup, handle, seen, bounds>>
publishDirectory(p) ==
  /\ At("install") /\ p \in job.todo /\ p \notin Names
  /\ live' = [live EXCEPT ![p] = stage[p]]
  /\ stage' = [stage EXCEPT ![p] = 0]
  /\ job' = [job EXCEPT !.todo = @ \ {p}, !.done = @ \cup {p}]
  /\ UNCHANGED <<reserved, state, backup, handle, seen, bounds>>

repositoriesInstalled ==
  /\ At("install") /\ job.todo = {}
  /\ Moves("metadata", backup.entries)
  /\ UNCHANGED <<repos, state, backup, stage, handle, seen, bounds>>
publishEntry(e) ==
  /\ At("metadata") /\ e \in job.todo
  /\ entries' = entries \cup {e}
  /\ reg' = IF e = "checkouts" THEN backup.reg ELSE reg
  /\ ev' = IF e = "events" THEN backup.ev ELSE ev
  /\ job' = [job EXCEPT !.todo = @ \ {e}, !.done = @ \cup {e}]
  /\ UNCHANGED <<repos, backup, stage, handle, seen, bounds>>

(* The roots are synced and the staging directories, now empty, go before  *)
(* the locks.                                                              *)
restoreEnds ==
  /\ At("metadata") /\ job.todo = {}
  /\ entries' = entries \ {"staging"}
  /\ Stops
  /\ UNCHANGED <<repos, reg, ev, backup, stage, handle, bounds>>

(* A rename, a chmod or a sync fails: what is installed is taken back in   *)
(* reverse order, as far as the renames work.                              *)
installFails ==
  /\ job.at \in {"install", "metadata"}
  /\ job' = [job EXCEPT !.at = "undo", !.todo = {}]
  /\ UNCHANGED <<repos, state, backup, stage, handle, seen, bounds>>

undoEntry(e) ==
  /\ At("undo") /\ e \in job.done \cap Supported
  /\ job' = [job EXCEPT !.done = @ \ {e}]
  /\ entries' = entries \ {e}
  /\ reg' = IF e = "checkouts" THEN {} ELSE reg
  /\ ev' = IF e = "events" THEN Nothing ELSE ev
  /\ UNCHANGED <<repos, backup, stage, handle, seen, bounds>>
undoRepository(p) ==
  /\ At("undo") /\ p \in job.done /\ job.done \cap Supported = {}
  /\ job' = [job EXCEPT !.done = @ \ {p}]
  /\ live' = [live EXCEPT ![p] = 0]
  /\ stage' = [stage EXCEPT ![p] = live[p]]
  /\ handle' = [handle EXCEPT ![p] = IF @ = "live" THEN "stage" ELSE @]
  /\ UNCHANGED <<reserved, state, backup, seen, bounds>>
undoFails(x) ==
  /\ At("undo") /\ x \in job.done
  /\ x \in Supported \/ job.done \cap Supported = {}
  /\ job' = [job EXCEPT !.done = @ \ {x}, !.undone = FALSE]
  /\ UNCHANGED <<repos, state, backup, stage, handle, seen, bounds>>

(* Stage::keep: both staging directories stay. *)
dropsStage ==  \* mutant
  /\ At("undo") /\ job.done = {}
  /\ stage' = Nothing
  /\ entries' = entries \ {"staging"}
  /\ Stops
  /\ UNCHANGED <<repos, reg, ev, backup, handle, bounds>>
keepsStage ==
  /\ At("undo") /\ job.done = {}
  /\ Stops
  /\ UNCHANGED <<repos, state, backup, stage, handle, bounds>>

(* The process dies, in a restore perhaps between mkdir and rename.        *)
crash(p) ==
  /\ Locked /\ crashes < MaxCrashes
  /\ crashes' = crashes + 1
  /\ reserved' = IF At("install") /\ p \in job.todo \ Names
                   THEN reserved \cup {p} ELSE reserved
  /\ Stops
  /\ UNCHANGED <<live, state, backup, stage, handle, losses>>

-----------------------------------------------------------------------------

Init ==
  /\ live = Nothing /\ reserved = {}
  /\ entries = {} /\ reg = {} /\ ev = Nothing
  /\ backup = NoBackup /\ job = Idle /\ stage = Nothing
  /\ handle = [p \in Project |-> "none"]
  /\ seen = {} /\ crashes = 0 /\ losses = 0

Clients(p) == openPush(p) \/ finishPush(p) \/ appendHostedStateEvent(p)
Operators(p) ==
  \/ createBareRepository(p) \/ registerHostedCheckout(p)
  \/ \E dies \in BOOLEAN : removeBareRepository(p, dies)
Backup ==
  \/ backupStarts
  \/ \E p \in Project : \/ fingerprint(p) \/ mirrorClones(p)
                        \/ mirrorCompares(p) \/ comparesAgain(p)
  \/ copyTree \/ mirrorsEnd \/ backupEnds
Restore ==
  \/ restoreStarts \/ stagingFails
  \/ \E p \in Project : publishDirectory(p) \/ undoRepository(p) \/ undoFails(p)
  \/ repositoriesInstalled
  \/ \E e \in Supported : publishEntry(e) \/ undoEntry(e) \/ undoFails(e)
  \/ installFails \/ keepsStage \/ restoreEnds

Next ==
  \/ \E p \in Project : Clients(p) \/ Operators(p) \/ crash(p)
  \/ sweepOrphanProjectMetadata
  \/ recordRuntimeComponent
  \/ provision
  \/ Backup
  \/ Restore

Spec == Init /\ [][Next]_vars

-----------------------------------------------------------------------------
(* Properties. *)

(* The repositories of a published backup are those of one moment of the   *)
(* host, whatever was pushed to which of them meanwhile: every mirror is   *)
(* compared with its source, and at the end all with the first             *)
(* fingerprints.  Its metadata fits them: no registration or event of a    *)
(* project it lacks, no event of a push it lacks.  And what a restore that *)
(* died has left half installed is never backed up as if it were the host. *)
BackupIsOneMoment ==
  [][backupEnds =>
       /\ stage = Nothing
       /\ backup'.tip \in seen
       /\ \A p \in Project : /\ p \in backup'.reg => backup'.tip[p] # 0
                             /\ backup'.ev[p] <= backup'.tip[p]]_vars

(* A commit that a push was told is there stays somewhere, whatever becomes *)
(* of the restore it ran into: in the repository, or in the staging        *)
(* directory that a failed or dead restore leaves.                         *)
Pushed(p) == {n \in {live[p], stage[p]} : backup = NoBackup \/ n > backup.tip[p]}
PushStays ==
  [][\/ provision
     \/ \E p \in Project, dies \in BOOLEAN : removeBareRepository(p, dies)
     \/ \A p \in Project : \A n \in Pushed(p) : n <= live'[p] \/ n <= stage'[p]]_vars

(* A restore is whole or taken back: where it ends well it has installed   *)
(* the whole backup, under what was pushed to it meanwhile; where it was   *)
(* rolled back it has left no repository and no metadata in place.         *)
RestoreIsWhole ==
  [][/\ restoreEnds =>
          /\ \A p \in Project : live[p] >= backup.tip[p]
          /\ reg = backup.reg /\ ev = backup.ev
          /\ entries' \ {"runtime"} = backup.entries
     /\ keepsStage /\ job.undone =>
          /\ BackedUp \cap Hosted = {}
          /\ entries \cap Supported = {} /\ reg = {} /\ ev = Nothing]_vars

(* "A version-1 backup contains [...]" what a server keeps: without pushes *)
(* in between, orphans of a dead removal and leftovers of a restore it is  *)
(* not refused.                                                            *)
Undisturbed ==
  /\ \A p \in Names : job.before[p] \in {0, live[p]}
  /\ \A p \in Project : HasMetadata(p) => p \in Hosted
  /\ reserved = {} /\ "staging" \notin entries
QuietBackupIsTaken ==
  [][Capturing /\ Undisturbed /\ job'.at = "idle" /\ crashes' = crashes
       => backup' = job.copy]_vars
=============================================================================
