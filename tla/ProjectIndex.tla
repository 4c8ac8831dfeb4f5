---------------------------- MODULE ProjectIndex ----------------------------
(***************************************************************************)
(* The dashboard's cache of project summaries (project_index.cpp).  A      *)
(* worker thread rebuilds one project at a time from Git and the metadata  *)
(* store, asked for by hooks (urgent), at startup (pending) or by the      *)
(* sweep; the control thread (server/main.cpp) asks for refreshes and puts *)
(* fresh metadata into a record itself.  Git and the stores are read       *)
(* without the lock of the records, so what is stored may be old already.  *)
(*                                                                         *)
(* A project is four facts: whether its repository is there, and the       *)
(* versions of its refs, of its checkouts and of its run records.          *)
(***************************************************************************)
EXTENDS Naturals, Sequences

CONSTANTS
  Names,       \* project names
  Hosted,      \* the projects that exist when the daemon starts
  Changing,    \* bound: the projects that change
  MaxChanges,  \* bound: changes on disk
  MaxErrors,   \* bound: failing rebuilds, and refresh requests that are lost
  Burst        \* kUrgentRefreshBurst

ASSUME IndexAssumption ==
  /\ Hosted \subseteq Names /\ Changing \subseteq Names
  /\ {MaxChanges, MaxErrors, Burst} \subseteq Nat

VARIABLES
  disk,     \* what the repositories and stores hold
  records,  \* records_: the cache
  revision, \* metadata_revisions_
  pending,  \* pending_
  urgent,   \* urgent_order_ (urgent_ is its set of names)
  burst,    \* urgent rebuilds in a row
  work,     \* the worker thread
  control,  \* the control thread: a request's project and its steps to come
  asked,    \* refresh requests that hooks and commands have sent
  changes,  \* changes on disk so far
  errors,   \* failures so far
  raced     \* projects created while the worker was about to erase the name

cache == <<records, revision, pending, urgent>>
counts == <<changes, errors, raced>>
vars == <<disk, cache, burst, work, control, asked, counts>>

Record == [known : BOOLEAN, git : Nat, reg : Nat, runs : Nat,
           indexing : BOOLEAN, failed : BOOLEAN]
Placeholder == [known |-> TRUE, git |-> 0, reg |-> 0, runs |-> 0,
                indexing |-> TRUE, failed |-> FALSE]
NoRecord == [Placeholder EXCEPT !.known = FALSE]
Project == [there : BOOLEAN, git : Nat, reg : Nat, runs : Nat]

(* `back` is where a rebuild returns to, `todo` what the sweep has left,   *)
(* `left` the urgent rebuilds it may still do before its next project.     *)
Idle == [at |-> "idle", name |-> "none", force |-> TRUE, back |-> "idle",
         todo |-> {}, left |-> 0, rev |-> 0, seen |-> Placeholder]
Resting == [name |-> "none", todo |-> <<>>, seen |-> Placeholder]

TypeOK ==
  /\ disk \in [Names -> Project]
  /\ records \in [Names -> Record]
  /\ revision \in [Names -> Nat]
  /\ pending \subseteq Names
  /\ \A i \in 1 .. Len(urgent) : /\ urgent[i] \in Names
                                /\ \A k \in 1 .. i - 1 : urgent[k] # urgent[i]
  /\ burst \in 0 .. Burst
  /\ work.at \in {"idle", "merge", "drain", "check", "erase", "git",
                  "metadata", "recheck", "store"}
  /\ work.todo \subseteq Names /\ work.left \in 0 .. Burst
  /\ work.at \in {"idle", "merge", "drain"} \/ work.name \in Names
  /\ control.name \in Names \cup {"none"}
  /\ asked \subseteq Names
  /\ changes \in 0 .. MaxChanges /\ errors \in 0 .. MaxErrors
  /\ raced \subseteq Names

Without(s, n) ==
  LET left[k \in 0 .. Len(s)] ==
        IF k = 0 THEN <<>>
        ELSE IF s[k] # n THEN Append(left[k - 1], s[k])
        ELSE left[k - 1]
  IN left[Len(s)]
With(s, n) == IF \E i \in 1 .. Len(s) : s[i] = n THEN s ELSE Append(s, n)
Known(n) == records[n].known
Metadata(rec, n) == [rec EXCEPT !.reg = disk[n].reg, !.runs = disk[n].runs]

-----------------------------------------------------------------------------
(* What happens on disk.  Who changes a project asks the daemon for a      *)
(* refresh, which may be lost (a socket with a timeout of two seconds).    *)

Changed(n) ==
  /\ changes < MaxChanges /\ changes' = changes + 1
  /\ \/ asked' = asked \cup {n} /\ UNCHANGED errors
     \/ /\ errors < MaxErrors /\ errors' = errors + 1
        /\ UNCHANGED asked
  /\ UNCHANGED <<cache, burst, work, control, raced>>

push(n) ==
  /\ disk[n].there
  /\ disk' = [disk EXCEPT ![n].git = @ + 1]
  /\ Changed(n)

writeCiRunRecord(n) ==
  /\ disk[n].there
  /\ disk' = [disk EXCEPT ![n].runs = @ + 1]
  /\ Changed(n)

removeProject(n) ==
  /\ disk[n].there
  /\ disk' = [disk EXCEPT ![n].there = FALSE]
  /\ Changed(n)

(* A hook or a command asks again without a change. *)
ask(n) ==
  /\ asked' = asked \cup {n}
  /\ UNCHANGED <<disk, cache, burst, work, control, counts>>

-----------------------------------------------------------------------------
(* The control thread answers one request at a time. *)

Answers(n, steps) ==
  /\ control.todo = <<>>
  /\ control' = [name |-> n, todo |-> steps, seen |-> Placeholder]

answerRefresh(n) ==
  /\ n \in asked
  /\ asked' = asked \ {n}
  /\ Answers(n, <<"refresh">>)
  /\ UNCHANGED <<disk, cache, burst, work, counts>>

(* The request writes to disk first.  A project that is created starts     *)
(* with a ref of its own and without runs of an earlier one.               *)
Writes(n, p) ==
  /\ changes < MaxChanges /\ changes' = changes + 1
  /\ disk' = [disk EXCEPT ![n] = p]
  /\ UNCHANGED <<cache, burst, work, asked, errors>>

answerCreate(n) ==
  /\ ~disk[n].there
  /\ Answers(n, <<"refresh", "read", "store">>)
  /\ raced' = IF work.at = "erase" /\ work.name = n THEN raced \cup {n}
              ELSE raced
  /\ Writes(n, [disk[n] EXCEPT !.there = TRUE, !.git = @ + 1])

Registered(n) == [disk[n] EXCEPT !.reg = @ + 1]
answerRegister(n) ==
  /\ disk[n].there
  /\ Answers(n, <<"read", "store", "refresh">>)
  /\ Writes(n, Registered(n))
  /\ UNCHANGED raced
answerForget(n) ==
  /\ disk[n].there
  /\ Answers(n, <<"read", "store">>)
  /\ Writes(n, Registered(n))
  /\ UNCHANGED raced

Doing(step) == control.todo # <<>> /\ Head(control.todo) = step
Onward == IF Len(control.todo) = 1 THEN Resting
          ELSE [control EXCEPT !.todo = Tail(@), !.seen = Placeholder]
Added(n) == IF disk[n].there /\ ~Known(n)
              THEN [records EXCEPT ![n] = Placeholder] ELSE records

(* A refresh of a name that waits already is not queued twice, but one of  *)
(* a name that is being rebuilt is.                                        *)
UrgentUnlessWorking(n) ==  \* mutant
  IF work.name = n THEN urgent ELSE With(urgent, n)
Urgent(n) == With(urgent, n)
refresh ==
  /\ Doing("refresh")
  /\ records' = Added(control.name)
  /\ pending' = pending \ {control.name}
  /\ urgent' = Urgent(control.name)
  /\ control' = Onward
  /\ UNCHANGED <<disk, revision, burst, work, asked, counts>>

(* refreshMetadata reads the stores and takes the lock afterwards. *)
refreshMetadataReads ==
  /\ Doing("read")
  /\ control' = [control EXCEPT !.todo = Tail(@),
                   !.seen = Metadata(Placeholder, control.name)]
  /\ UNCHANGED <<disk, cache, burst, work, asked, counts>>

refreshMetadata ==
  LET n == control.name  rec == Added(n)[n] IN
    /\ Doing("store")
    /\ IF ~rec.known
         THEN UNCHANGED <<records, revision>>
         ELSE /\ records' = [records EXCEPT ![n] =
                   [rec EXCEPT !.reg = control.seen.reg,
                               !.runs = control.seen.runs]]
              /\ revision' = [revision EXCEPT ![n] = @ + 1]
    /\ control' = Onward
    /\ UNCHANGED <<disk, pending, urgent, burst, work, asked, counts>>

-----------------------------------------------------------------------------
(* The worker thread (run and sweep). *)

Rebuilds(n, force, back) ==
  work' = [work EXCEPT !.at = "check", !.name = n, !.force = force,
                       !.back = back]
Outside == <<disk, control, asked>>

UrgentTurnAlways == urgent # <<>>  \* mutant
UrgentTurn == urgent # <<>> /\ (burst < Burst \/ pending = {})

runUrgent ==
  /\ work.at = "idle"
  /\ UrgentTurn
  /\ urgent' = Tail(urgent)
  /\ burst' = IF burst < Burst THEN burst + 1 ELSE burst
  /\ Rebuilds(Head(urgent), TRUE, "idle")
  /\ UNCHANGED <<Outside, records, revision, pending, counts>>

runPending ==
  /\ work.at = "idle"
  /\ ~UrgentTurn
  /\ \E n \in pending :
       /\ pending' = pending \ {n}
       /\ Rebuilds(n, TRUE, "idle")
  /\ burst' = 0
  /\ UNCHANGED <<Outside, records, revision, urgent, counts>>

(* sweep, whenever its time has come: the inventory is read before the     *)
(* lock is taken.                                                          *)
inventory ==
  /\ work.at = "idle"
  /\ work' = [work EXCEPT !.at = "merge",
                          !.todo = {n \in Names : disk[n].there}]
  /\ burst' = 0
  /\ UNCHANGED <<Outside, cache, counts>>

sweepMerges ==
  /\ work.at = "merge"
  /\ records' = [n \in Names |->
                   IF n \notin work.todo THEN NoRecord
                   ELSE IF Known(n) THEN records[n] ELSE Placeholder]
  /\ revision' = [n \in Names |->
                    IF n \notin work.todo /\ Known(n) THEN 0 ELSE revision[n]]
  /\ work' = [work EXCEPT !.at = "drain", !.left = Burst]
  /\ UNCHANGED <<Outside, pending, urgent, burst, counts>>

drainUrgent ==
  /\ work.at = "drain" /\ work.todo # {} /\ work.left > 0
  /\ urgent # <<>>
  /\ urgent' = Tail(urgent)
  /\ work' = [work EXCEPT !.at = "check", !.name = Head(urgent), !.force = TRUE,
                          !.back = "drain", !.left = @ - 1]
  /\ UNCHANGED <<Outside, records, revision, pending, burst, counts>>

sweepNext ==
  /\ work.at = "drain" /\ (urgent = <<>> \/ work.left = 0)
  /\ \E n \in work.todo :
       /\ work' = [work EXCEPT !.at = "check", !.name = n, !.force = FALSE,
                     !.back = "drain", !.todo = @ \ {n}, !.left = Burst]
       /\ pending' = pending \ {n}
  /\ UNCHANGED <<Outside, records, revision, urgent, burst, counts>>

sweepEnds ==
  /\ work.at = "drain" /\ work.todo = {}
  /\ work' = Idle
  /\ UNCHANGED <<Outside, cache, burst, counts>>

-----------------------------------------------------------------------------
(* rebuild, by the worker: every step but the last reads without the lock  *)
(* of the records.                                                         *)

Returns == work' = IF work.back = "idle" THEN Idle
                   ELSE [work EXCEPT !.at = "drain", !.name = "none",
                           !.seen = Placeholder, !.rev = 0]

(* isRepositoryDirectory; then the revision of the metadata shown so far.  *)
rebuildStarts ==
  /\ work.at = "check"
  /\ work' = [work EXCEPT !.at = IF disk[work.name].there THEN "git"
                                 ELSE "erase",
                          !.rev = revision[work.name]]
  /\ UNCHANGED <<Outside, cache, burst, counts>>

rebuildChecksAgain ==
  /\ work.at = "recheck"
  /\ work' = [work EXCEPT !.at = IF disk[work.name].there THEN "store"
                                 ELSE "erase"]
  /\ UNCHANGED <<Outside, cache, burst, counts>>

erase ==
  LET n == work.name IN
    /\ work.at = "erase"
    /\ records' = [records EXCEPT ![n] = NoRecord]
    /\ revision' = [revision EXCEPT ![n] = 0]
    /\ pending' = pending \ {n}
    /\ urgent' = Without(urgent, n)
    /\ Returns
    /\ UNCHANGED <<Outside, burst, counts>>

(* Unless it is forced, a rebuild keeps a record whose refs did not move.  *)
Usable(n) == Known(n) /\ ~records[n].indexing
KeepsFailed(n) == /\ ~work.force /\ Usable(n)  \* mutant
                  /\ records[n].git = disk[n].git
Keeps(n) == /\ ~work.force /\ Usable(n) /\ ~records[n].failed
            /\ records[n].git = disk[n].git
rebuildReadsGit ==
  LET n == work.name IN
    /\ work.at = "git"
    /\ work' = [work EXCEPT !.at = "metadata", !.seen =
                  IF Keeps(n) THEN records[n]
                  ELSE [Placeholder EXCEPT !.git = disk[n].git,
                                           !.indexing = FALSE]]
    /\ UNCHANGED <<Outside, cache, burst, counts>>

rebuildReadsMetadata ==
  /\ work.at = "metadata"
  /\ work' = [work EXCEPT !.at = "recheck", !.seen = Metadata(@, work.name)]
  /\ UNCHANGED <<Outside, cache, burst, counts>>

(* Git or a store cannot be read: the usable snapshot stays, with an error *)
(* that makes the next sweep read everything.                              *)
rebuildFails ==
  LET n == work.name IN
    /\ work.at \in {"git", "metadata"}
    /\ errors < MaxErrors /\ errors' = errors + 1
    /\ work' = [work EXCEPT !.at = "recheck", !.seen =
                  [(IF Usable(n) THEN records[n] ELSE work.seen)
                     EXCEPT !.failed = TRUE, !.indexing = FALSE]]
    /\ UNCHANGED <<Outside, cache, burst, changes, raced>>

(* A registration that was stored meanwhile wins. *)
MergedBlindly == work.seen  \* mutant
Merged ==
  IF revision[work.name] # work.rev /\ Known(work.name)
    THEN [work.seen EXCEPT !.reg = records[work.name].reg]
    ELSE work.seen
rebuildStores ==
  /\ work.at = "store"
  /\ records' = [records EXCEPT ![work.name] = Merged]
  /\ Returns
  /\ UNCHANGED <<Outside, revision, pending, urgent, burst, counts>>

-----------------------------------------------------------------------------

Fresh(n) == [there |-> n \in Hosted, git |-> IF n \in Hosted THEN 1 ELSE 0,
             reg |-> 0, runs |-> 0]

Init ==
  /\ disk = [n \in Names |-> Fresh(n)]
  /\ records = [n \in Names |-> IF n \in Hosted THEN Placeholder ELSE NoRecord]
  /\ revision = [n \in Names |-> 0]
  /\ pending = Hosted
  /\ urgent = <<>>
  /\ burst = 0
  /\ work = Idle
  /\ control = Resting
  /\ asked = {}
  /\ changes = 0
  /\ errors = 0
  /\ raced = {}

Outsiders == \E n \in Changing :
  push(n) \/ writeCiRunRecord(n) \/ removeProject(n) \/ ask(n)

Control ==
  \/ \E n \in Changing : \/ answerRefresh(n) \/ answerCreate(n)
                         \/ answerRegister(n) \/ answerForget(n)
  \/ refresh \/ refreshMetadataReads \/ refreshMetadata

Rebuild ==
  \/ rebuildStarts \/ erase \/ rebuildReadsGit \/ rebuildReadsMetadata
  \/ rebuildChecksAgain \/ rebuildFails \/ rebuildStores

Worker ==
  \/ runUrgent \/ runPending
  \/ inventory \/ sweepMerges \/ drainUrgent \/ sweepNext \/ sweepEnds
  \/ Rebuild

Next == Outsiders \/ Control \/ Worker

(* The two threads go on, and requests that were sent are answered.  How   *)
(* often the time of a sweep comes is left to the properties.              *)
Fairness ==
  /\ WF_vars(Worker)
  /\ WF_vars(refresh \/ refreshMetadataReads \/ refreshMetadata)
  /\ \A n \in Names : WF_vars(answerRefresh(n))

Spec == Init /\ [][Next]_vars
FairSpec == Spec /\ Fairness

-----------------------------------------------------------------------------
(* Properties. *)

(* When every request that was sent has been served, the cache is right    *)
(* about refs and registrations without a sweep: a refresh asked for       *)
(* during a rebuild is not swallowed by the older result.  Excepted are a  *)
(* rebuild that failed, a lost request, and a project created after the    *)
(* worker found its name free and before it erased it: its refresh goes    *)
(* with the erasure.                                                       *)
ServedIsFresh ==
  /\ work.at = "idle" /\ control.todo = <<>> /\ asked = {}
  /\ urgent = <<>> /\ pending = {} /\ errors = 0
  => \A n \in Names \ raced :
       IF disk[n].there
         THEN /\ Known(n) /\ ~records[n].indexing
              /\ records[n].git = disk[n].git /\ records[n].reg = disk[n].reg
         ELSE ~Known(n)

(* What the dashboard shows of a project's checkouts never goes back to    *)
(* what was true before ("an immediate registration update wins over a     *)
(* rebuild that started earlier").  Records with an error are excepted: a  *)
(* first rebuild that fails has read nothing yet.                          *)
RegistrationWins ==
  [][\A n \in Names :
       Known(n) /\ records'[n].known /\ ~records'[n].failed =>
         records'[n].reg >= records[n].reg]_records

(* If sweeps keep coming, the whole cache is right in the end, whatever    *)
(* failed, was lost, or was stored in the wrong order.                     *)
Right(n) == IF disk[n].there
              THEN /\ Known(n) /\ ~records[n].indexing /\ ~records[n].failed
                   /\ records[n].git = disk[n].git
                   /\ records[n].reg = disk[n].reg
                   /\ records[n].runs = disk[n].runs
              ELSE ~Known(n)
SweepsSettle == ([]<>(work.at = "merge")) => <>[](\A n \in Names : Right(n))

(* Hooks that never stop do not keep a project from its first rebuild,     *)
(* also without a sweep (kUrgentRefreshBurst).                             *)
PendingIsServed == \A n \in Names : n \in pending ~> n \notin pending
=============================================================================
