------------------------------- MODULE Projects -------------------------------
(***************************************************************************)
(* Hosted projects and their metadata (repository_store.cpp,               *)
(* metadata_store.cpp, recovery.cpp): repositories, the trash, checkout    *)
(* registrations and the event log with its archives.                      *)
(*                                                                         *)
(* Two locks order the processes.  The lifecycle lock, on the repository   *)
(* root, is held for a whole operation; op says what its holder still has  *)
(* to do.  The metadata lock, on the state root, is held for one critical  *)
(* section, which is one step here.  The runner gateway takes only the     *)
(* second, and a repository deleted by hand takes neither.  A process may  *)
(* die at every point between two files.                                   *)
(*                                                                         *)
(* A repository is a number that is never used twice, so that what was     *)
(* stored for one can be told from what is stored for its successor.       *)
(***************************************************************************)
EXTENDS Naturals, SequencesExt

CONSTANTS
  Names,     \* project names
  Clients,   \* hosts that register checkouts
  MaxLines,  \* kMaximumEventLogBytes, in events
  MaxRepos,  \* bound: repositories created or restored, in all
  MaxEvents, \* bound: events after which no operation starts another
  MaxCrashes \* bound: processes that die inside an operation

ASSUME ProjectsAssumption ==
  /\ {MaxRepos, MaxEvents, MaxCrashes} \subseteq Nat
  /\ MaxLines \in Nat \ {0}

VARIABLES
  repo,     \* the repository of each name, 0 without one
  born,     \* repositories so far
  trash,    \* <<name, repository>> pairs retained in .trash
  dirs,     \* names with a directory under checkouts/
  reg,      \* for which repository each client registered, 0 if it did not
  log,      \* the event directory, see EventDirectory
  said,     \* events so far
  op,       \* the operation that holds the lifecycle lock
  told,     \* history: the events whose append returned
  orphaned, \* history: <<name, repository>> whose removal died or never ran
  crashes   \* processes that died so far

vars == <<repo, born, trash, dirs, reg, log, said, op, told, orphaned, crashes>>

-----------------------------------------------------------------------------

(* A line of an event log: a whole record; a record cut short by a crash,  *)
(* without a newline ("torn"); or one that parseEvents rejects ("broken"). *)
Event == [name : Names, of : Nat, id : Nat]
Line == [event : Event, form : {"whole", "torn", "broken"}]
Whole(e) == [event |-> e, form |-> "whole"]

(* files are the inodes; archives and live name some of them, so that two  *)
(* names may be links to one file; live is 0 without an events.log.        *)
EventDirectory == [files : Seq(Seq(Line)), archives : Seq(Nat), live : Nat]

Nothing == [kind |-> "none", name |-> "none", of |-> 0, todo |-> {}]
Operation ==
  [kind : {"none", "register", "remove", "sweep", "restore"},
   name : Names \cup {"none"}, of : 0 .. MaxRepos, todo : SUBSET Names]

(* A registration lies in its project's directory.  (log is an             *)
(* EventDirectory.)                                                        *)
TypeOK ==
  /\ repo \in [Names -> 0 .. MaxRepos]
  /\ born \in 0 .. MaxRepos
  /\ trash \subseteq Names \X (1 .. MaxRepos)
  /\ dirs \subseteq Names
  /\ reg \in [Names -> [Clients -> 0 .. MaxRepos]]
  /\ \A n \in Names, c \in Clients : reg[n][c] # 0 => n \in dirs
  /\ said \in Nat
  /\ op \in Operation
  /\ told \subseteq Event
  /\ orphaned \subseteq Names \X (1 .. MaxRepos)
  /\ crashes \in 0 .. MaxCrashes

Free == op = Nothing
OrphanByTrash(n) == repo[n] = 0 \/ \E r \in 1 .. born : <<n, r>> \in trash  \* mutant
Orphan(n) == repo[n] = 0
Existed(n) == repo[n] # 0 \/ \E r \in 1 .. born : <<n, r>> \in trash \cup orphaned
Abandoned == IF op.kind = "remove" THEN {<<op.name, op.of>>} ELSE {}
NoReports == [c \in Clients |-> 0]
Logs == Range(log.archives) \cup ({log.live} \ {0})
Torn(f) == f # <<>> /\ Last(f).form = "torn"
EventsOf(f) == {f[i].event : i \in {k \in DOMAIN f : f[k].form = "whole"}}
Mentions(f, n) == \E e \in EventsOf(f) : e.name = n

(* parseEvents takes every log: it ignores a torn last line only. *)
Readable == \A f \in Logs : \A i \in DOMAIN log.files[f] : log.files[f][i].form # "broken"

(* listProjectMetadataNames *)
Named == dirs \cup {n \in Names : \E f \in Logs : Mentions(log.files[f], n)}

-----------------------------------------------------------------------------
(* The event log. *)

(* openat with O_CREAT *)
Opened(d) ==
  IF d.live # 0 THEN d
  ELSE [d EXCEPT !.files = Append(@, <<>>), !.live = Len(d.files) + 1]

(* rotateEvents: the log gets its archive name, then loses its own. *)
Linked(d) == [d EXCEPT !.archives = Append(@, d.live)]
Unlinked(d) == [d EXCEPT !.live = 0]
rotateEvents(d) == Opened(Unlinked(Linked(d)))

Full(d) == d.live # 0 /\ Len(d.files[d.live]) >= MaxLines
Roomy(d) == IF Full(d) THEN rotateEvents(d) ELSE Opened(d)

(* A record written after a torn line continues it, and what results is    *)
(* rarely a record.                                                        *)
Written(f, line, glued) ==
  IF Torn(f) THEN Append(Front(f), [line EXCEPT !.form = glued])
  ELSE Append(f, line)

(* appendStateEvent, as a step of the log only. *)
appendStateEvent(n, glued) ==
  LET d == Roomy(log)
      e == [name |-> n, of |-> repo[n], id |-> said + 1]
  IN /\ log' = [d EXCEPT !.files[d.live] = Written(@, Whole(e), glued)]
     /\ said' = said + 1
     /\ told' = told \cup {e}

(* appendStateEvent of a process that dies: inside the rotation, or with   *)
(* part of its record written.                                             *)
appendInterrupted(n) ==
  /\ Existed(n)
  /\ crashes < MaxCrashes
  /\ crashes' = crashes + 1
  /\ said < MaxEvents
  /\ said' = said + 1
  /\ \/ Full(log) /\ log' \in {Linked(log), Unlinked(Linked(log))}
     \/ LET d == Roomy(log)
            e == [name |-> n, of |-> repo[n], id |-> said + 1]
        IN /\ ~Torn(d.files[d.live])
           /\ log' = [d EXCEPT !.files[d.live] =
                                 Append(@, [event |-> e, form |-> "torn"])]
  /\ op' \in IF op.kind = "register" /\ op.name = n THEN {op, Nothing} ELSE {op}
  /\ UNCHANGED <<repo, born, trash, dirs, reg, told, orphaned>>

(* A gateway records what a job of the project does (ci_gateway.cpp,       *)
(* recordEvent), whether or not the project still exists.                  *)
recordEvent(n, glued) ==
  /\ Existed(n)
  /\ said < MaxEvents
  /\ appendStateEvent(n, glued)
  /\ UNCHANGED <<repo, born, trash, dirs, reg, op, orphaned, crashes>>

(* The receive hook and the daemon record an event only for a repository   *)
(* that is there.                                                          *)
appendHostedStateEvent(n, glued) ==
  /\ Free
  /\ repo[n] # 0
  /\ recordEvent(n, glued)

-----------------------------------------------------------------------------
(* Removal of a project's metadata. *)

(* What a scrub keeps of a log: serializeEvent gives back every record.    *)
KeptNothing(f, n) == <<>>  \* mutant
Kept(f, n) ==
  LET kept[k \in 0 .. Len(f)] ==
        IF k = 0 THEN <<>>
        ELSE IF f[k].form = "whole" /\ f[k].event.name # n
          THEN Append(kept[k - 1], f[k])
        ELSE kept[k - 1]
  IN kept[Len(f)]

(* The scrub of some of the logs, each rewritten in place if it mentions   *)
(* the project.                                                            *)
Scrubbed(n, some) ==
  [log EXCEPT !.files = [i \in DOMAIN @ |->
     IF i \in some /\ Mentions(@[i], n) THEN Kept(@[i], n) ELSE @[i]]]

removeLiveMetadata(n) ==  \* mutant
  /\ dirs' = dirs \ {n}
  /\ reg' = [reg EXCEPT ![n] = NoReports]
  /\ log' = Scrubbed(n, {log.live})

removeProjectMetadata(n) ==
  /\ dirs' = dirs \ {n}
  /\ reg' = [reg EXCEPT ![n] = NoReports]
  /\ log' = Scrubbed(n, Logs)

(* A rewritten log that was not truncated: its old text goes on after the  *)
(* new one, from somewhere inside a line.                                  *)
Overlapped(f, n, cut) ==
  LET kept == Kept(f, n)
      tail == SubSeq(f, Len(kept) + 1, Len(f))
  IN kept \o (IF Head(tail).form = "torn" THEN tail
              ELSE <<[Head(tail) EXCEPT !.form = cut]>> \o Tail(tail))

(* A removal of metadata that dies: among the registrations, or with their *)
(* directory gone and some of the logs rewritten, one of them perhaps not  *)
(* truncated.                                                              *)
scrubInterrupted(n) ==
  /\ Readable
  /\ crashes < MaxCrashes
  /\ crashes' = crashes + 1
  /\ \/ \E kept \in SUBSET Clients :
          /\ reg' = [reg EXCEPT ![n] = [c \in Clients |-> IF c \in kept THEN @[c] ELSE 0]]
          /\ UNCHANGED <<dirs, log>>
     \/ /\ dirs' = dirs \ {n}
        /\ reg' = [reg EXCEPT ![n] = NoReports]
        /\ \E done \in SUBSET Logs :
             \/ log' = Scrubbed(n, done)
             \/ \E i \in Logs \ done, cut \in {"whole", "broken"} :
                  /\ Mentions(log.files[i], n)
                  /\ log' = [Scrubbed(n, done) EXCEPT !.files[i] = Overlapped(@, n, cut)]
  /\ op' = Nothing
  /\ orphaned' = orphaned \cup Abandoned
  /\ UNCHANGED <<repo, born, trash, said, told>>

-----------------------------------------------------------------------------
(* Operations under the lifecycle lock. *)

createBareRepositoryUnlocked(n) ==  \* mutant
  /\ repo[n] = 0
  /\ born < MaxRepos
  /\ born' = born + 1
  /\ repo' = [repo EXCEPT ![n] = born + 1]
  /\ UNCHANGED <<trash, dirs, reg, log, said, op, told, orphaned, crashes>>

createBareRepository(n) ==
  /\ Free
  /\ repo[n] = 0
  /\ born < MaxRepos
  /\ born' = born + 1
  /\ repo' = [repo EXCEPT ![n] = born + 1]
  /\ UNCHANGED <<trash, dirs, reg, log, said, op, told, orphaned, crashes>>

(* registerHostedCheckout: the registration, then its event. *)
registerCheckout(n, c) ==
  /\ Free
  /\ repo[n] # 0
  /\ said < MaxEvents
  /\ dirs' = dirs \cup {n}
  /\ reg' = [reg EXCEPT ![n][c] = repo[n]]
  /\ op' = [Nothing EXCEPT !.kind = "register", !.name = n]
  /\ UNCHANGED <<repo, born, trash, log, said, told, orphaned, crashes>>

registered(glued) ==
  /\ op.kind = "register"
  /\ appendStateEvent(op.name, glued)
  /\ op' = Nothing
  /\ UNCHANGED <<repo, born, trash, dirs, reg, orphaned, crashes>>

(* The directory stays: the lifecycle sweep owns its removal. *)
forgetHostedCheckout(n, c) ==
  /\ Free
  /\ reg[n][c] # 0
  /\ reg' = [reg EXCEPT ![n][c] = 0]
  /\ UNCHANGED <<repo, born, trash, dirs, log, said, op, told, orphaned, crashes>>

(* removeProject: the dry run of the metadata's removal, the move to the   *)
(* trash, and then the metadata, which is left if a log cannot be read.    *)
removeProject(n) ==
  /\ Free
  /\ repo[n] # 0
  /\ Readable
  /\ repo' = [repo EXCEPT ![n] = 0]
  /\ trash' = trash \cup {<<n, repo[n]>>}
  /\ op' = [Nothing EXCEPT !.kind = "remove", !.name = n, !.of = repo[n]]
  /\ UNCHANGED <<born, dirs, reg, log, said, told, orphaned, crashes>>

removed ==
  /\ op.kind = "remove"
  /\ op' = Nothing
  /\ IF Readable
     THEN removeProjectMetadata(op.name) /\ UNCHANGED orphaned
     ELSE /\ orphaned' = orphaned \cup Abandoned
          /\ UNCHANGED <<dirs, reg, log>>
  /\ UNCHANGED <<repo, born, trash, said, told, crashes>>

(* An administrator deletes a repository without the program. *)
deletedByHand(n) ==
  /\ repo[n] # 0
  /\ repo' = [repo EXCEPT ![n] = 0]
  /\ orphaned' = orphaned \cup {<<n, repo[n]>>}
  /\ UNCHANGED <<born, trash, dirs, reg, log, said, op, told, crashes>>

(* sweepOrphanProjectMetadata: every name with metadata, then one by one   *)
(* those without a repository.                                             *)
sweepOrphanProjectMetadata ==
  /\ Free
  /\ Readable
  /\ Named # {}
  /\ op' = [Nothing EXCEPT !.kind = "sweep", !.todo = Named]
  /\ UNCHANGED <<repo, born, trash, dirs, reg, log, said, told, orphaned, crashes>>

sweepName(n) ==
  /\ op.kind = "sweep"
  /\ n \in op.todo
  /\ LET rest == op.todo \ {n}
     IN /\ IF Orphan(n) /\ Readable THEN removeProjectMetadata(n)
           ELSE UNCHANGED <<dirs, reg, log>>
        /\ op' = IF rest = {} \/ (Orphan(n) /\ ~Readable) THEN Nothing
                 ELSE [op EXCEPT !.todo = rest]
  /\ UNCHANGED <<repo, born, trash, said, told, orphaned, crashes>>

(* restoreTrashedRepository: the checks, then the copy.  The trash keeps   *)
(* its entry and the name gets a repository of its own.                    *)
restoreTrashedRepository(n) ==
  /\ Free
  /\ trash # {}
  /\ repo[n] = 0
  /\ Readable
  /\ n \notin Named
  /\ born < MaxRepos
  /\ op' = [Nothing EXCEPT !.kind = "restore", !.name = n]
  /\ UNCHANGED <<repo, born, trash, dirs, reg, log, said, told, orphaned, crashes>>

restored ==
  /\ op.kind = "restore"
  /\ op' = Nothing
  /\ born' = born + 1
  /\ repo' = [repo EXCEPT ![op.name] = born + 1]
  /\ UNCHANGED <<trash, dirs, reg, log, said, told, orphaned, crashes>>

(* The holder of the lifecycle lock dies between two steps. *)
crash ==
  /\ ~Free
  /\ crashes < MaxCrashes
  /\ crashes' = crashes + 1
  /\ op' = Nothing
  /\ orphaned' = orphaned \cup Abandoned
  /\ UNCHANGED <<repo, born, trash, dirs, reg, log, said, told>>

-----------------------------------------------------------------------------

Init ==
  /\ repo = [n \in Names |-> 0]
  /\ born = 0
  /\ trash = {}
  /\ dirs = {}
  /\ reg = [n \in Names |-> NoReports]
  /\ log = [files |-> <<>>, archives |-> <<>>, live |-> 0]
  /\ said = 0
  /\ op = Nothing
  /\ told = {}
  /\ orphaned = {}
  /\ crashes = 0

Forms == {"whole", "broken"}
Next ==
  \/ \E n \in Names :
       \/ createBareRepository(n)
       \/ \E c \in Clients : registerCheckout(n, c) \/ forgetHostedCheckout(n, c)
       \/ removeProject(n)
       \/ deletedByHand(n)
       \/ restoreTrashedRepository(n)
       \/ sweepName(n)
       \/ appendInterrupted(n)
       \/ \E glued \in Forms : recordEvent(n, glued) \/ appendHostedStateEvent(n, glued)
       \/ op.kind = "remove" /\ op.name = n /\ scrubInterrupted(n)
       \/ op.kind = "sweep" /\ n \in op.todo /\ Orphan(n) /\ scrubInterrupted(n)
  \/ \E glued \in Forms : registered(glued)
  \/ removed
  \/ sweepOrphanProjectMetadata
  \/ restored
  \/ crash

Spec == Init /\ [][Next]_vars

(* Fairness: a process that holds the lifecycle lock goes on, and the      *)
(* index sweeps from time to time.                                         *)
Fairness ==
  /\ WF_vars(\E n \in Names : sweepName(n))
  /\ WF_vars(removed)
  /\ WF_vars(restored)
  /\ WF_vars(\E glued \in Forms : registered(glued))
  /\ WF_vars(sweepOrphanProjectMetadata)

FairSpec == Spec /\ Fairness

-----------------------------------------------------------------------------
(* Properties. *)

(* What a live project shows as its registrations was registered for this  *)
(* repository, never for an earlier one of the name, unless that one was   *)
(* deleted by hand or its removal died (removal, creation and registration *)
(* share the lifecycle lock).                                              *)
OwnRegistrations ==
  \A n \in Names, c \in Clients :
    repo[n] # 0 /\ reg[n][c] # 0
      => reg[n][c] = repo[n] \/ <<n, reg[n][c]>> \in orphaned

(* A live project's registrations vanish only when their client forgets    *)
(* them: neither a sweep nor the removal of an earlier repository of the   *)
(* name takes them.                                                        *)
NothingTaken ==
  [][\A n \in Names, c \in Clients :
       /\ repo[n] # 0 /\ reg[n][c] = repo[n]
       /\ repo'[n] # 0 /\ reg'[n][c] = 0
       => Free /\ dirs' = dirs /\ log' = log]_vars

(* While the logs can be read, every event that was recorded for a live    *)
(* repository is in one of them: rotation, the scrubs of other projects    *)
(* and the crashes of both lose none.                                      *)
NoEventLost ==
  Readable =>
    \A e \in told : e.of # 0 /\ repo[e.name] = e.of
                      => \E f \in Logs : e \in EventsOf(log.files[f])

(* Metadata of a project without a repository is removed by a sweep,       *)
(* whoever left it: a removal that died, a deletion by hand, or an event   *)
(* of a job that outlived its project.                                     *)
OrphansGo ==
  \A n \in Names :
    n \in Named /\ repo[n] = 0 ~> n \notin Named \/ repo[n] # 0 \/ ~Readable

(* A crash while an event is appended leaves the event logs readable. *)
LogsReadable == Readable

=============================================================================
