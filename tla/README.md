# TLA+ verification of ck-git-hosting

ck-git-hosting is a self-hosted Git service: bare repositories served over SSH,
a web dashboard, a CI system whose jobs run on the main host and on remote
runners, static "Pages" sites, releases, and a client that keeps checkouts in
step with the server.  There is no database and no broker: every component
keeps its state in files and directories, and daemons, SSH sessions, receive
hooks and administrator commands act on them as separate processes.  What can
go wrong is therefore mostly a matter of which process did what before which
other process, and of what a crash leaves behind.  That is what the modules in
this directory model.

Paths below are relative to the repository root (`src/` is its source tree).

## Inventory

| Component | State it keeps | Operations | Hard parts |
|---|---|---|---|
| CI job queue and leases (`src/common/ci_store.cpp`) | `spool/`, `working/`, `leases/`, run records, cancel markers | enqueueCiJob, claimCiJob, renewCiLease, reapCiLeases, abandonCiJob, releaseCiClaim, releaseCiJob, requestCiCancel | several runners claim at once; leases lapse under live runners; crashes between two files of one operation; record writes outside the queue lock |
| Primary CI runner (`src/ci-runner/main.cpp`, `src/common/ci_runner.cpp`) | the job in hand, its record, its workspace | serve, runCiJob, executeCiJob, LocalCiSink | dies at any point; its heartbeat races the reaper |
| Runner gateway (`src/common/ci_gateway.cpp`) | one SSH session per request; the claim is looked up by token | claim, heartbeat, put, stream, finish, abandon | a reply may be lost, a session may outlive its lease |
| Remote runner (`src/common/ci_remote.cpp`) | unacknowledged frames, upload offsets | connect, resend, put, finish | reconnects, duplicated frames, resumed uploads |
| CI results (`src/common/ci_results.cpp`) | staged uploads, artifacts, release assets, the run record | appendCiStagedUpload, commitCiRun, finalizeCiWorkflowResults, recoverCiWorkflowResults | several stores are written one after another; publication races |
| Workflow groups (`src/common/ci_store.cpp`, `src/common/ci_runner.cpp`) | group journals, parent and child records | enqueueCiWorkflowJobs, reconcileWorkflowGroups, refreshCiWorkflowRun, listCiUnpublishedWorkflows | a group must appear whole, its parent must end exactly when its children have |
| Pages store and server (`src/common/pages_store.cpp`, `src/pages-server/main.cpp`) | versions, the `current` pointer | publishPagesSite, currentPagesVersion, readCurrentPage | publishers and readers share the tree without a lock; pruning |
| CI retention (`src/common/ci_store.cpp`) | run directories, artifacts, releases | sweepCiArtifacts, release writes, removeProjectCi | deletes what others are reading or writing |
| Repository store (`src/common/repository_store.cpp`) | bare repositories, `.trash`, the lifecycle lock | createBareRepository, removeProject, sweepOrphanProjectMetadata, setDefaultBranch | removal races pushes, registrations and the sweep |
| Metadata store (`src/common/metadata_store.cpp`) | checkout registrations, event log and its archives | registerCheckout, forgetCheckout, appendStateEvent, removeProjectMetadata | log rotation under concurrent writers and crashes |
| Backup and recovery (`src/common/recovery.cpp`) | a backup tree, trash entries | backupHostedRepositories, restoreBackup, restoreTrashedRepository | partial restore |
| Project index (`src/common/project_index.cpp`) | records_, revisions, queues of names | refresh, refreshMetadata, erase, sweep, rebuild | Git and metadata are read without the lock; results are stored afterwards |
| Dependency store (`src/common/ci_dependency_store.cpp`) | review requests, decision journals | submit, approve, reject, commit | two administrators decide at once |
| Client synchronisation (`src/client/`, `src/common/sync_lock.cpp`, `src/common/client_state.cpp`) | checkouts, `canonical.ini`, the device's lock | publish, register, set-canonical, sync, clone, migrate, forget, update | commands die between the server's record and the private one; publish plans without the lock |
| Dispatcher and receive hook (`src/ssh-dispatcher/`, `src/receive-hook/`) | none of their own | parse a request, run one operation | the order in which hooks of two pushes run |
| Dashboard and web server (`src/server/main.cpp`, `src/common/web*`) | in-memory caches | render, cancel a run | reads what others replace |
| Renderers (`docs_site`, `markdown`, `highlight`, `math`, `emoji`, `mermaid`) | none | text in, HTML out | none that depends on order |
| Platform runners and sandboxes (Windows, macOS VM, macOS native) | workspaces, VM records | create, recover, delete | operating-system behaviour |

How they interact: the receive hook and the web server call the CI store to
queue jobs; the primary runner and the gateway call the same store to claim,
renew and release; both commit through `ci_results.cpp`, which writes the
artifact, release and Pages stores and the run record.  Administrator commands
and the index sweep remove projects under the repository lifecycle lock.  All
of it is synchronised by `flock` on a few directories, by atomic renames, and
by lease tokens; no component waits for a message from another.

What makes each part correct: a queued job is never lost and never run twice
at once on a ref; a lost attempt cannot overwrite a newer one; a workflow group
ends exactly when its jobs have ended and publishes once; a published site
never moves back; an upload that was resumed has the bytes that were sent; a
removed project leaves nothing behind and a live one loses nothing.

## Modules

| Module | Models | Runs |
|---|---|---|
| `CiQueue` | the job queue, its leases, the runners' use of it, commitCiRun for single jobs | `queue_recovery`, `queue_drains` |
| `JobQueue` | what the queue promises, without files, leases or crashes | refined in `queue_recovery` |
| `MCCiQueue` | instances of `CiQueue` | |
| `CiQueueProofs` | theorems about `CiQueue`, among them that it implements `JobQueue` | proofs |
| `CiWorkflow` | groups of jobs: journal, parent record, dependencies, publication and its recovery | `workflow_order`, `workflow_cancel_lost` |
| `MCCiWorkflow` | instances of `CiWorkflow` | |
| `CiWorkflowProofs` | theorems about `CiWorkflow` | proofs |
| `CiRemote` | a remote runner's report: streams, uploads, finish, and the gateway's side | `remote_resume` |
| `MCCiRemote` | an instance of `CiRemote` | |
| `CiRemoteProofs` | theorems about `CiRemote` | proofs |
| `CiOutputs` | artifacts, releases and the Pages site: who writes, sweeps, removes and reads them | `outputs_commit` |
| `CiOutputsProofs` | theorems about `CiOutputs` | proofs |
| `Projects` | repositories, trash, registrations and the event log | `projects_lifecycle`, `events_torn` |
| `ProjectsProofs` | theorems about `Projects` | proofs |
| `Recovery` | backup and full restore beside pushes | `backup_restore`, `backup_refused` |
| `RecoveryProofs` | theorems about `Recovery` | proofs |
| `ProjectIndex` | the dashboard's cache, its worker and the control requests | `index_settles` |
| `ProjectIndexProofs` | theorems about `ProjectIndex` | proofs |
| `ClientSync` | the commands of a user's devices on one project | `client_sync` |
| `MCClientSync` | an instance of `ClientSync` | |
| `ClientSyncProofs` | theorems about `ClientSync` | proofs |

The CI modules look at one system at four grains.  `CiQueue` has leases, tokens
and time, and single jobs.  `CiWorkflow` keeps the queue's files and critical
sections, adds groups, and replaces a lease by the set `lost` of claims whose
runner is gone.  `CiRemote` follows one claim of one run, which is held or gone,
through its connection.  `CiOutputs` takes of the queue only what it promises
(one run of a ref at a time, in any order, a lost run queued again) and opens
the one step in which the others commit a run into its many file operations.
The assumption it makes of the queue is what OneRunPerRef and JobQueue state.
`Projects` and `Recovery` share the lifecycle lock in the same way: an operation
that is several steps with crashes in the first is one step in the second.

### CiQueue

One variable per kind of file: `spool`, `working` (the attempt number in the
job file, 0 when there is none), `lease`, `rec` (run record), `cancel`
(markers); `run` is what each runner's process is doing, `site` the Pages
pointer.  Every operation of `ci_store.cpp` that takes the exclusive lock on
the spool directory is one action.  What runs outside that lock is split where
another process can act in between: the record writes of a running job
(`progress`), the decision and the publication inside commitCiRun
(`commitDecides`, `commitCiRun`), and the release.  `claimInterrupted` and
`reapInterrupted` are crashes inside a claim and inside requeueLocked, at each
point between two files.  Time is abstracted to `age` (a job outgrows the
primary's claim delay) and `leaseLapses`.

The code checks a lease only at renewals and at the start of a gateway request.
`TimelyWrites` is the assumption that what follows such a check ends before the
lease does.  Both runs make it; what happens without it is under Findings.

`JobQueue` is the queue as a pusher sees it: a job waits, is held by one runner
per ref, waits again as its next attempt, and is settled once and for all.
`KeepsPromise` is that CiQueue implements it: a job is held when it has a file in
`working/`, waiting when it has one in `spool/` only, settled when it has none
and its record is terminal.

- `queue_recovery`: two pushes to one branch that supersede, two runners, one
  runner crash and one crash inside an operation, one give-back.  NoJobLost,
  OneRunPerRef, AttemptsBounded and KeepsPromise hold throughout;
  SupersededNeverWaits and TerminalIsFinal as long as nothing died;
  NewerAttemptWins while no crash happened inside an operation (such a crash may
  leave a job in `spool/` and `working/` at once, so a runner that lost its
  claim without a requeue may finish after its successor started).
- `queue_drains`: pushes that do not supersede each other, the older one bound
  to the primary.  Every job ends (Drains), and, while no operation is cut
  short, the site never rolls back.

Bounds: two jobs (a ref conflict and a supersession need two), two runners (one
of them the primary, whose crash and restart differ), two attempts (the first
requeue and the limit), one crash of each kind.  Each is a constant with a `Max`
name, used in a guard; the theorems hold for all of them.

Fairness (`queue_drains`): weak fairness for the daemons' loops (claiming,
reaping, the primary's restart under systemd), for every step of a runner after
it stops running, and for a lease lapsing that no runner holds; strong fairness
for a build ending, because renewals and lapses may disable it for a moment.
Nothing is assumed of pushes, cancel requests, crashes or give-backs.

### CiWorkflow

`q` is the record of everything that changes under the lock on `spool/`: the
children's job files and records, the parents' records, the cancel markers, the
journals, which parents have a workflow.ini, and which workflows supersede older
ones (`auto`, drawn at the start).  Operators take such a record and return the
next one, so that a critical section that calls several others is one
composition, as in the code: claimCiJob reconciles the journals, cancels what
was superseded, and then scans the queue in order (`Scan`, one `Visit` per
entry).  The scan's side effects on the entries it passes (cancelled, or failed
because of a dependency) are kept even when it claims nothing.  Run ids are the
numbers up to `LastId`, in the order of enqueueing; journals and queue entries
are visited in that order by recursion over the ids.  Every group has a child
(`ci_store.cpp:1529` refuses an empty one).

Outside the lock and interleaved with it: the runners' record writes
(`runStarted`, `progress`, `commitCiRun`), cancel markers, and finalization,
which reads the children's records, publishes and marks the group `committed`.
`recoverCiWorkflowResults` is the gateway's and the primary's periodic repeat
of an unfinished one; `enqueueInterrupted` and `finalizeInterrupted` die
between two of the files.  `site` and `shown` say what was published.

- `workflow_order`: two groups of one branch, the second job of the older needs
  its first; the newer may supersede; one runner lost, one crash inside an
  operation, and an operator who may cancel the older group.  Where nothing
  supersedes, no child is lost, dependencies hold, the parent ends last, no
  finished child runs again, and every group ends and is committed; always, the
  newer group waits for the older, and nothing is shown of a group that failed
  or was cancelled.
- `workflow_cancel_lost`: see Findings.

Bounds: three children in two groups (a dependency inside a group, and a second
group), so five ids, and `Cancellable`, the runs an operator may cancel.
Fairness: every runner's loop, recovery, and the reaping of lost claims; a
child's claim delay ends.  The
conditions `HasStep` and `HasRecovery` say when such a step changes anything;
they stand for ENABLED and make the check of the liveness property feasible.
Nothing is assumed of enqueues, cancels, crashes or hand-backs.

### CiRemote

`sink` and `upload` are the runner's process (RemoteCiSink, and the locals of
upload()), `link` the streams opened so far with the session that serves each,
`puts` the upload requests with their handlers, `host` the files of the run on
the main host, `claim` whether the runner's token is still the one in the queue.
The k-th unit a step writes is the number k, so a log is right exactly when it
counts up from one.

A stream that broke is not gone: its session still handles what arrived, beside
the session of the next one, and a put the runner gave up goes on in its own
process.  Both are modelled, with every interleaving of their steps.
appendCiStagedUpload is two steps, because two handlers may measure the same
file before either appends (`putLooks`, `putWrites`); a chunk may be cut short.
StreamSession::appendLog, which also measures and then appends, is one step:
two sessions inside it at the same moment could append the same bytes twice.
The window is a few instructions and the earlier session must be handling a
frame that was already received when its connection broke, so the module does
not include it; nothing in the code excludes it.

`PromptHost` is the assumption that what closed streams and given-up requests
carry is handled before the runner's finish, and that a lost claim is noticed
before the next frame (the session looks once a second).  Without it a session
that outlives its run writes its own copy of the record over the finished one
(`ci_gateway.cpp:427`), see Findings.

- `remote_resume`: two steps with up to one and two units of output, frames of
  one unit, a file of three units in chunks of two, one broken stream or put,
  one tolerated failure, a claim that may be lost, hand-backs.  Logs are
  prefixes of what was written and whole where a step is recorded, what the
  runner holds for acknowledged is stored, an output is stored only whole, and
  the report ends.

Bounds: a log of more than one frame and a file of more than one chunk with a
shorter last one are the cases resuming distinguishes; one break already gives
two sessions and two handlers at work side by side.  Fairness: the runner's
loop, each session, each handler.  Nothing is assumed of breaks, lost claims,
shutdowns, output, or of the minute after which finish() stops waiting, so
RunEnds shows that the report does not depend on that limit.

Observed here, without a run: a retry of a finish that was committed but not
answered is refused as lease-lost and the runner reports an error for a run that
succeeded; overlapping puts can spoil a staged file although upload() returned
normally (the checksum in takeStaged then rejects it, and the artifact is
missing).

### CiOutputs

`run` is the job of each run with the place its handler has reached in
commitCiRun; `rec`, `staged` and `art` are the run directory (run.ini,
`incoming/`, `artifacts/`), `release` the directory of the tag's release,
`version` and `current` the Pages store, `tag` the ref, `request` what a page
request has read of the pointer, `removed` how far remove-project got.  Each
file operation of a commit is an action, because nothing locks the stores
together: the bundle is renamed into place before its sidecar is written, the
site is filled before the pointer moves, old versions go last.  The sweep, the
deletion of a tag, the removal of the project and the Pages server act between
any two of them.  A file is there or not, a version empty, partial or whole.
A run whose handler or runner dies is queued again or given up; how often is the
subject of `CiQueue`.

- `outputs_commit`: three runs of a branch or a tag, two versions and two run
  directories kept, one dead handler.  The live version is whole;
  a successful run's site or a newer one is live; a sidecar lists what is there,
  and staging is kept while its commit needs it; a release is of one build; a
  request keeps its version; the newest artifact is never swept.

Three runs are what pruning needs (a live version, the one before, and one to
remove) and the third run meets the sweep's limit of two directories.

The properties need five assumptions on timing, each a constant of its own, TRUE
in the run.  Each names a window that the code leaves open:

- `WholeCommits`: no handler dies after its site went live.  Without it the
  run's next attempt publishes to the same version directory, which
  publishPagesSite empties first: until the copy is done, and for good if it
  fails, the live site is empty or partial.  `include/ckgit/pages_store.hpp:22`
  promises that readers never see a partial site.
- `QuietSweep`: no sweep between a bundle and its sidecar.  The sweep takes a
  bundle without a sidecar for a leftover of a crash (`ci_store.cpp:2057`); the
  handler then writes a sidecar for a file that is gone.
- `QuietTag`: a tag is not deleted while a run of it is queued.  That run still
  publishes its release, for a tag that no longer exists; and when the tag is
  pushed again, a build whose asset is only noted replaces the sidecar but
  leaves the earlier bundle.
- `BriefRequests`: a page request sees at most one publication between reading
  the pointer and opening its file.
- `QuietRemoval`: see the hazard at `admin/main.cpp:439`.  removeProjectCi says
  it removes a project's "whole run history" (`include/ckgit/ci_store.hpp:544`),
  but only group journals cancel queued work (`ci_store.cpp:2289`): a single job
  that is still queued is claimed afterwards, fails without its repository
  (`ci_gateway.cpp:206`), and writes a run directory for a project that is gone.

Two properties have an exception in their statement.  RequestKeepsSite: the
version of a run that died before it went live counts as one of the newest
`pages_keep_versions` and displaces one that was served; and it needs that at
least two versions are kept, while the configuration accepts one
(`common/server_config.cpp:177`; the default is three).  ReleaseIsOneBuild: a
run that is given up in the middle of its release leaves the bundle and the
sidecar of two builds.  Not modelled: a workflow group's release, which
replaces the whole directory first, and two handlers of one run's finish at work
at once, which a remote runner's retry can start.

### Projects

`repo`, `trash`, `dirs` and `reg` are the repositories, the retained ones, and
the directories and files under `checkouts/`; `log` is the directory of event
logs, with its inodes apart from their names, so that a rotation that died has
two names for one file.  A repository has a number of its own, which the code
does not store: it lets OwnRegistrations and NoEventLost tell a project from a
later one of the same name.  `told` and `orphaned` are history variables.

The lifecycle lock is held over several steps, and `op` is what its holder still
has to do; every operation that takes the lock requires `Free`.  The metadata
lock is held for one critical section, which is one action: an append with the
rotation it may need, a removal of metadata, a list of names.  The gateway
(`recordEvent`) takes only the metadata lock and runs beside an operation, also
for a project that is gone.  `deletedByHand` is an administrator without the
program.  Crashes: between two steps of the lock's holder (`crash`), inside a
rotation or with a line half written (`appendInterrupted`), and inside the
removal of metadata, between two logs or between the write and the truncation
of one (`scrubInterrupted`).  A glued or overlapping line may happen to be a
record or not, and both are followed.

- `projects_lifecycle`: two names, two repositories in all, three events with two
  to a log, one client, one crash.  A project does not inherit registrations of
  an earlier one unless that one's removal died; nothing takes the registrations
  of a live project; no event of a live project is lost; metadata of a project
  that is gone is swept.
- `events_torn`: see Findings.

Bounds: a second name is what a scrub must spare, a second repository the
successor of a removed or deleted one; the third event makes the log rotate.
With four events the same properties hold, in about five times the states.
Fairness: who holds the lifecycle lock goes on, and the index sweeps again and
again (`project_index.cpp:622`, once per interval).  NoEventLost and OrphansGo
speak of readable logs only: every reader refuses a log with a line that is no
record, so afterwards nothing is swept (`events_torn` is how that happens).

Abstracted: a registration's path, with the conflict of two paths; the names of
archives (months, a clock set back); Git's configuration of a repository; fsync,
a crash being that of a process and not of the machine.

Observed here, without a run: a project created after an interrupted removal
shows the old registrations and events until its clients report again; a
rotation that died shows its events twice; events of runs that end after their
project was removed are recorded all the same and go to a successor, although
`docs/operations/manage-projects.md:89` says that event writes share the
lifecycle lock.

### Recovery

`live` is the number of commits of each repository's branch and 0 without one,
`reserved` the empty directories a restore makes before it fills them, `entries`
the directories of the state root, `reg` and `ev` the metadata, `backup` the
published backup, `job` the backup or restore that holds both locks, `stage` its
staging directory.  A push is two steps, because receive-pack takes none of the
locks and works in the directory it opened (`handle`) wherever that is renamed.

A backup fingerprints every repository, mirrors each and compares the mirror
with its source, copies the metadata, compares it with the repositories, and
compares all fingerprints again before the last rename; any difference refuses
it.  A restore stages everything, installs repositories and then metadata by
rename, and rolls back in reverse; each rename may fail, and the process may die
between any two.

- `backup_restore`: two projects with up to two commits, one process that dies,
  one loss of the host.  A backup is one moment of the host, never of a half
  restored one; a push into a restore stays; a restore is whole or taken back.
- `backup_refused`: see Findings.

Bounds: two commits let a push fall before, between and after two looks; a
second project gives the backup an order to get wrong.  A host is lost only
after a backup was taken.  Branches only grow (`receive.denyNonFastForwards`);
tags may move, so that two opposite moves between two looks would go unseen,
which the model leaves out.  Operations under both locks (create, remove,
register, sweep, events) are one step; CI records, which are copied without the
queue's lock, are not modelled.

### ProjectIndex

`disk` is the truth (a repository that is there, and version numbers of its refs,
checkouts and run records), `records` the cache, `revision`, `pending`, `urgent`
and `burst` the members of the same names.  `work` is the worker thread and
`control` the control thread: a rebuild checks the repository, reads Git, reads
the metadata with the revision it saw, and stores, each under the lock of the
records for a moment only, so that everything may change in between.  `asked`
are the requests that hooks and commands have sent; a request may be lost.

- `index_settles`: a hosted project and one that is created, pushed to, removed
  and created again, two changes on disk, one failing rebuild or lost request,
  bursts of one.  When all requests are served, refs and registrations are
  fresh; a registration is never undone by an older rebuild; if sweeps keep
  coming, the whole cache is right in the end; hooks that never stop starve no
  first rebuild.

Two changes give each of the reads of one rebuild a change before and after it.
Fairness: the worker's loop, the steps of a control request in hand, and the
answer to a request that was sent; how often sweeps come is a premise of
SweepsSettle.

Observed here, without a run: the revision check keeps the newer registrations
of a record but not its CI runs and releases, which stay stale until the next
sweep; erase() forgets the refresh of a project created between the check that
its repository is gone and the erasure (excepted from ServedIsFresh as `raced`);
forgetting a checkout refreshes nothing.

### ClientSync

`hosted`, `server` and `report` are the server's side, `canonical` each device's
canonical.ini, `here`, `paired`, `local` and `head` the worktrees.  A branch is
the set of its commits, so that an ancestor is a subset.  `cmd` is the command
that holds the sync lock of a device and what it does next; `plan` what publish
prepared before it took the lock.  Every command may end at any of its steps
(`fails`): killed, its connection broken before or after the server acted, the
worktree not clean.  Meanwhile the user commits, amends and switches branches in
any checkout.  `cut` is a history variable: devices where a command ended
between the server's record and the private one.

- `client_sync`: two folders of one name and a third on a laptop that reports
  names, one on a desktop that reports paths, two acts of the user, three
  commands.  No commit leaves a branch but by an amend; a main checkout is
  replaced only by a command told to; the two records come apart only where a
  command stopped between them.

Bounds: three commands let two of a device follow each other while a third acts
on the other device; a conflict needs one commit on each side.  No fairness is
assumed and nothing is claimed to happen.

Observed here, without a run: update's merge moves whichever branch is current
by then, since a switch after the last look goes unseen; a publish that dies, or
loses the reply, between the creation of the project and `git remote add` cannot
be repeated, because creation refuses the name; a `sync --repo
--replace-checkout` that died after the report, and whose repetition the
preflight refuses, leaves report and selection apart until set-canonical; and
publish's "nothing to push" is decided before the lock.

Not modelled: tags, the fetch command and its tracking refs, publishing a whole
folder, pushing only some branches, and commands that only read.

## Findings

| Run | What the repository says | What the code does |
|---|---|---|
| `workflow_cancel_lost` | a parent cancellation reaches queued and running children (`docs/reference/build-and-test.md:23`) | commitCiRun throws for a child whose workflow was finalized meanwhile; the claim is released and the record stays Running |
| `events_torn` | an incomplete final append is ignored after a crash (`src/common/metadata_store.cpp:294`) | the next append continues it, and every reader then refuses the log, so sweeps and removals stop |
| `backup_refused` | a backup contains registrations, events and CI records kept under the same state root (`docs/operations/03-backup-and-recovery.md:26`) | every daemon writes `runtime/` into the state root when it starts, and a backup refuses entries it does not know |

Further disagreements met while modelling, for which no run is kept:

- A lost attempt's results "can never overwrite the newer attempt"
  (`docs/operations/ci-remote-runners.md:299`): finish checks the lease once and
  commits without it (`CiQueue` without `TimelyWrites`).
- Terminal statuses never change (`include/ckgit/ci_store.hpp:45`): a stream
  session writes its own copy of the record over the finished one (`CiRemote`
  without `PromptHost`), and a runner that dies between its result and its
  release has its finished run put back to Pending.
- Runs on one ref are said to finish in push order
  (`include/ckgit/ci_store.hpp:268`), but a newer job overtakes an older one that
  waits for another runner's label.
- A hand-back raises the attempt number that the reaper later compares with the
  limit (against `include/ckgit/ci_store.hpp:323`).
- In commitCiRun the comparison with the current site and the publication are not
  one step, so a handler slower than its lease can roll the site back (against
  the comment at `common/ci_results.cpp:438`).
- The windows listed under CiOutputs.

## Proofs

All theorems hold for every value of the constants that the named assumption of
the module allows.  The assumptions say that bounds are numbers and subsets are
subsets, and besides only that a project's name is not one of the state root's
own directories (`Recovery`), and that every group has a child, which the code
checks, with ids that are numbers (`CiWorkflow`).  A theorem that needs one of
the assumptions on timing described above names it in its ASSUME or in its
property.  Every inductive invariant was checked by TLC on its module's instance
before it was proved; the number of states is given with it.

`CiQueueProofs`, from `QueueAssumption`:

- `TypeCorrect`: TypeOK.
- `AttemptsAreBounded`: AttemptsBounded is inductive by itself.
- `OneRunPerRefHolds`: from `ClaimsApart` (two claimed jobs never share a ref;
  an eligible job's ref is free) and `TokensApart` (two runners never carry the
  same token of a job; tokens are drawn in order and never reused).
  OneRunPerRef alone is not inductive: it says nothing of claims whose runner
  was lost.  Every step but a claim is shown to be a `NoNewClaim` step, from
  which both parts follow at once.
- `NoJobIsLost`, assuming `TimelyWrites`: NoJobLost needs to know that a runner
  between two lease checks still holds its claim (`Fresh`, `Kept`), that a
  runner about to release has recorded a result (`Settled`, `HasResult`), and
  that a job in the queue has a record (`Known`).  Together they are `ClaimInv`.
- `SupersededWaitsNever`, `TerminalStays`, `NewestAttemptStands` and
  `SiteOnlyAdvances`, assuming `TimelyWrites`, from one invariant, `OrderInv`
  (1,738,527 states).  It adds to ClaimInv that, while no
  operation was interrupted, a job has one file (`Once`), no record is ahead of
  its job file (`Behind`), whoever writes still holds the claim of the attempt
  in `working/` (`Standing`, `Numbered`), and no site is newer than what is about
  to be published over it (`Publishing`); and that, while no process died
  either, a job with a terminal record is held only by a runner about to release
  it (`Ended`) and an older run that a newer one supersedes is out of the queue,
  or claimed and either marked or ended (`Superseded`).  SupersededNeverWaits alone is not
  inductive: a superseded job that is claimed could be put back, and only its
  cancel marker stops that.
- `QueueRefinesJobQueue`: with ClaimInv, the initial states map to the initial
  state of `JobQueue`, and every step of `CiQueue` to a step of it or to none.

`CiWorkflowProofs`, from `WorkflowAssumption`: NoChildIsLost, NeedsComeFirst,
ParentsEndLast, OnlySuccessIsShown, EndsAreFinal and GroupsTakeTurns (821,152
states of an instance in which groups supersede and operators cancel).  One action here is
several operations of the queue in a row, each a function from records to
records, so every operator has lemmas of its own on what it keeps, and an action
composes them: `Moves` is what every operation may do to the records of a group
(what has ended stays so, ids only enter `planned`, a parent ends only by what
its children are), and two moves in a row are one (`MovesTwice`).  Of the
reconciliation and the scan, which recurse over ids, the same is proved for each
prefix of the ids by induction on its length, stated with sets and the
library's NatLessThanWellFounded.  The invariant `WorkflowInv` has a part for
what the files say of each other (`FilesInv`: a queued child is active and its
group's journal is there, a parent has ended exactly when its journal is
retired), one for superseded groups (`OvertakenInv`: each is marked, with its
running children, or withdrawn), one for records that a runner still writes
(`WritingInv`), one for the runners (`RunsInv`), and one each for what was shown
(`ShownInv`) and for what groups that do not supersede keep (`SteadyInv`).
GroupsTakeTurns needs a second induction over the journals: a reconciliation
takes them in ascending order, an older group whose children have all ended
gets its terminal parent and leaves the journals at its own step, and a newer
group that supersedes finds it at its own step as one that is not yet published,
and marks it (`ReconcileRetires`).

`CiRemoteProofs`, from `RemoteAssumption`: LogsAreWhole, AcksAreTrue and
OutputsAreWhole.  `RemoteInv` (3,120,044 states, without `PromptHost`) says that
a log is a beginning of what its step wrote and that every frame on its way, on
any stream, carries what was written (`Fits`); and, while the claim stands, that
the frames of a stream leave no gap after what is stored, that an end of a step
comes after all of its log, and that every acknowledgement on its way is true
(`Holds`).  `UploadFits` keeps the counts of an upload in their bounds; nothing
is said of staged bytes, which two handlers may spoil: the comparison in
takeStaged is what makes StoredIsWhole hold all the same.

`RecoveryProofs`, from `RecoveryAssumption`: BackupsAreOneMoment, PushesStay and
RestoresAreWhole, from `RecoveryInv` (7,748,926 states).  From the copy of the
state root on, a backup under way has seen a moment of the host that agrees with
its fingerprints, its metadata and the mirrors made so far (`Mirroring`); no
branch shrinks, so that a second fingerprint equal to the first leaves no other
moment.  A restore knows which repositories and entries it has moved, and that
what it moved is still there (`Installing`, `Publishing`); taking back knows
what is left (`Undoing`).

`ProjectsProofs`, from `ProjectsAssumption`: RegistrationsAreOwn and
NoRegistrationTaken.  The invariant `OwnInv` adds to the types (`Typed`) that a
name without a repository whose removal did not die has no registrations, or
that the holder of the lock is about to remove them (`Vacated`), and that every
registration shown is of the present repository, or of one that was orphaned,
or about to go (`Accounted`).  EventsStay has its own invariant, `EventInv`
(285,249 states): no event is dated after the last repository (`Dated`), and an
event of a repository that is there has its line in the log or an archive as
long as every line can be read (`EventsHeld`); that a rotation, a scrub or a
sweep keeps the lines it must is a lemma about each, in every state a crash may
leave it in.

`ClientSyncProofs`, from its assumption: RecordsStayTogether needs that the
holder of a device's lock carries what the server has recorded for it so far
(`RecordsInv`); MainStays and NothingIsRewound are properties of every single
step and need the types only, with a case for each step of each command.

`CiOutputsProofs`, from `OutputsAssumption`.  `OutInv` is the typing together
with what the queue promises: the runs that are at a place of a branch's build,
a tag's build or neither are of that kind (`Sides`), a run that did not start
has written nothing (`Fresh`), and at most one run of a ref is under way
(`Exclusive`).  `StagedInv` says that a run at work is recorded as running, that
its workflow can be read, and that a site which will be wanted is still staged.
The theorems add to it, each with the timing it needs:

| Theorem | Assumes | Also needs |
|---|---|---|
| InUseStays | `QuietSweep` | `StagedInv`; `Bundled`: a sidecar is written only for a bundle that is there |
| SuccessIsPublished | nothing | `StagedInv`; `Climbs`: a handler publishes only over older sites and ends as a success only with its own site or a newer one live |
| LiveSiteIsWhole | `WholeCommits` | `Climbs`; `Whole`: what is about to become live is whole, and the run that is live has no step left that writes its version |
| ReleaseStaysOne | `QuietTag` | `StagedInv`; `Released`: while a handler writes a release, what it has written so far is its own |
| RequestIsServed | `WholeCommits`, `BriefRequests`, and that `KeepVersions` is not 1 | `Climbs`, `Whole`; `Reading`: the run a request reads has gone live, and while another run is about to prune, no run of the branch that ended as a success is newer than the request's (850,167 states) |
| NewestStays | nothing | a step property of the sweep alone |

`ProjectIndexProofs`, from `IndexAssumption`:

- `RegistrationStays`: no record is ahead of the disk (`Cached`); only the
  control thread registers, so what it has read is still so when it stores it
  (`Requested`); and what a rebuild has read is no older than the record unless
  the revision has moved (`Rebuilt`).  The queue of urgent names is not typed
  here: the proof holds whatever name the worker takes from it.
- `ServedStaysFresh`, from `ServedInv` (338,393 states), which types that queue
  too: every change on disk that the cache does not show is on its way, as a
  request that was sent, a name in a queue or the rebuild in hand, which has not
  yet read what changed (`Attended`); a sweep or an erasure under way forgets
  none of them (`Swept`).

Only model-checked:

- liveness, which is out of the prover's reach: Drains, GroupSettles, RunEnds,
  OrphansGo, SweepsSettle, PendingIsServed.

What a recursive definition computes is not proved in general.  The theorems of
`CiWorkflow` and `ProjectIndex` are about what every step of a recursion or of a
filter keeps.

## Plan

The order in which the rest is worth doing:

1. The theorems under weaker assumptions on timing, where the exceptions can be
   stated in the property instead, as RequestKeepsSite does for a version that
   never went live.
2. The dependency store, if its commit protocol grows (see below).

## Not modelled

- Dependency store (`common/ci_dependency_store.cpp`): every operation is one
  critical section under a project's or a request's lock, so that two
  administrators' decisions are serialised.  The only partial state is a request
  directory without its lock.yml, left by a registration that died; listing the
  project then fails until the same lock is registered again.  What else the
  component does is validation of file contents.
- Renderers (`docs_site`, `markdown`, `highlight`, `math`, `emoji`, `mermaid`,
  with the vendored plotting library): by far the largest part of the source,
  pure functions from text to HTML without state that a second process changes.
  Their correctness is a matter of formats, for which a specification would
  repeat the code.
- Parsing of workflows, protocols, HTTP and command lines, formatting: pure
  functions as well.  Where a module depends on what is refused or lost in a
  conversion (a torn event line, an attempt number in a job file) it models that
  effect.
- Process launching and the Windows and macOS sandboxes: their behaviour is the
  operating system's, which the repository does not contain; the modules see a
  build that ends, fails or dies.
- Git access and archives: Git is external.  A push, a ref and a history appear
  in the modules as what the code relies on (refs change at once, histories
  only grow unless amended).
- Power loss and fsync: crashes are those of processes.
