------------------------------ MODULE CiOutputs ------------------------------
(***************************************************************************)
(* Where the results of CI runs of one project go, and what takes them     *)
(* away again: commitCiRun (ci_results.cpp) writes artifacts, releases,    *)
(* the Pages site and the run record, one file after another and without a *)
(* lock; the retention sweep (sweepCiArtifacts), the deletion of a tag     *)
(* (receive hook) and the removal of the project delete beside it; the     *)
(* Pages server reads.                                                     *)
(*                                                                         *)
(* The queue is the one of CiQueue, reduced to what it promises: one run   *)
(* of a ref at a time, in any order, and a run whose handler died is       *)
(* queued again or, when its attempts are used up, given up.  Runs of the  *)
(* default branch declare one CI artifact and a site, runs of the tag one  *)
(* release asset; all outputs are staged in the run's incoming/ directory. *)
(***************************************************************************)
EXTENDS Naturals, FiniteSets, FiniteSetsExt

CONSTANTS
  Runs,          \* run ids; they sort by the time of the push
  KeepVersions,  \* pages_keep_versions
  RunsKeep,      \* ci_runs_keep, 0 keeps every run directory
  MaxCrashes,    \* bound: handlers that die
  WholeCommits,  \* TRUE: no handler dies after its site went live
  QuietSweep,    \* TRUE: no sweep between a bundle and its sidecar
  QuietTag,      \* TRUE: the tag is not deleted while a run of it is queued
  BriefRequests, \* TRUE: a page request sees at most one publication
  QuietRemoval   \* TRUE: the project is removed while none of its runs is queued

ASSUME OutputsAssumption ==
  /\ Runs \subseteq Nat \ {0} /\ IsFiniteSet(Runs)
  /\ KeepVersions \in Nat /\ RunsKeep \in Nat
  /\ MaxCrashes \in Nat
  /\ {WholeCommits, QuietSweep, QuietTag, BriefRequests, QuietRemoval}
       \subseteq BOOLEAN

VARIABLES
  sites,    \* the runs of the default branch so far; the others build the tag
  run,      \* the job of each run and the handler that works on it
  rec,      \* the status in run.ini, "None" without a run directory
  staged,   \* incoming/: the outputs that are held whole
  art,      \* artifacts/: the bundle and its sidecar
  tag,      \* the run whose commit the tag names, 0 without the tag
  release,  \* releases/PROJECT/TAG
  version,  \* versions/RUN of the Pages store
  current,  \* the run the Pages pointer names, 0 without a pointer
  request,  \* the version a page request has read from the pointer, or 0
  removed,  \* how far the removal of the project got
  crashes   \* handlers that died so far

vars == <<sites, run, rec, staged, art, tag, release, version, current, request,
          removed, crashes>>

files == <<rec, staged, art, release, version, current>>
rest == <<sites, tag, request, removed, crashes>>

Active == {"Pending", "Running"}
Places == {"new", "queued", "running", "artifact", "sidecar", "asset",
           "assetSidecar", "releaseIni", "unrelease", "site", "copy", "point",
           "prune", "record", "ended", "lost", "done", "givenUp"}

(* `got` remembers what takeStaged answered, `minimal` that the gateway    *)
(* could not read the workflow any more (preparedOrMinimal).               *)
Handler == [at : Places, got : BOOLEAN, minimal : BOOLEAN,
            result : {"Success", "Failure", "Error"}]
NoArtifact == [tar |-> FALSE, ini |-> "none"]
NoRelease == [tar |-> 0, asset |-> 0, record |-> 0]

At(r, p) == run[r].at = p
Moves(r, p) == run' = [run EXCEPT ![r].at = p, ![r].got = FALSE]
Starts(p) == [at |-> p, got |-> FALSE, minimal |-> FALSE, result |-> "Failure"]
Enters(r, p) == run' = [run EXCEPT ![r] = Starts(p)]
Busy(r) == run[r].at \notin {"new", "queued", "done", "givenUp"}
Resting == {"new", "done", "givenUp"}
SameRef(r, q) == r \in sites <=> q \in sites

TypeOK ==
  /\ sites \subseteq Runs
  /\ run \in [Runs -> Handler]
  /\ rec \in [Runs -> {"None", "Success", "Failure", "Error"} \cup Active]
  /\ staged \in [Runs -> SUBSET {"artifact", "asset", "site"}]
  /\ art \in [Runs -> [tar : BOOLEAN, ini : {"none", "stored", "noted"}]]
  /\ tag \in (Runs \ sites) \cup {0}
  /\ release \in [tar : (Runs \ sites) \cup {0}, asset : (Runs \ sites) \cup {0},
                  record : (Runs \ sites) \cup {0}]
  /\ version \in [Runs -> {"none", "partial", "whole"}]
  /\ current \in sites \cup {0}
  /\ request \in sites \cup {0}
  /\ removed \in {"no", "repository", "ci", "all"}
  /\ crashes \in Nat

-----------------------------------------------------------------------------
(* The queue, as far as the stores can tell. *)

(* A push of the branch or of the tag queues a run; ids are drawn in order. *)
push(r, ref) ==
  /\ At(r, "new")
  /\ removed = "no"
  /\ \A q \in Runs : q < r => ~At(q, "new")
  /\ Moves(r, "queued")
  /\ rec' = [rec EXCEPT ![r] = "Pending"]
  /\ sites' = IF ref = "branch" THEN sites \cup {r} ELSE sites
  /\ tag' = IF ref = "tag" THEN r ELSE tag
  /\ UNCHANGED <<staged, art, release, version, current, request, removed,
                 crashes>>

(* A runner claims the run.  Without the repository prepareCiJob fails and *)
(* the run ends as an error.                                               *)
claim(r) ==
  /\ At(r, "queued")
  /\ \A q \in Runs : SameRef(r, q) => ~Busy(q)
  /\ IF removed = "no"
       THEN Moves(r, "running") /\ rec' = [rec EXCEPT ![r] = "Running"]
       ELSE Enters(r, "done") /\ rec' = [rec EXCEPT ![r] = "Error"]
  /\ UNCHANGED <<staged, art, release, version, current, rest>>

(* The steps are over and the declared outputs staged: the site whenever   *)
(* the steps succeeded, a bundle unless packing or sending it failed.  The *)
(* gateway reads the workflow again before it commits.                     *)
build(r, result, outputs, minimal) ==
  /\ At(r, "running")
  /\ minimal => removed # "no"
  /\ outputs \subseteq (IF r \in sites THEN {"artifact", "site"} ELSE {"asset"})
  /\ r \in sites => ("site" \in outputs <=> result = "Success")
  /\ result = "Failure" => "asset" \notin outputs
  /\ staged' = [staged EXCEPT ![r] = outputs]
  /\ run' = [run EXCEPT ![r].result = result, ![r].minimal = minimal,
               ![r].at = IF r \in sites THEN "artifact"
                         ELSE IF minimal THEN "record"
                         ELSE IF result = "Success" THEN "asset"
                         ELSE "unrelease"]
  /\ UNCHANGED <<rec, art, release, version, current, rest>>

(* The handler's process dies. *)
crash(r) ==
  /\ Busy(r) /\ ~At(r, "lost")
  /\ crashes < MaxCrashes
  /\ WholeCommits => current # r
  /\ crashes' = crashes + 1
  /\ Enters(r, "lost")
  /\ UNCHANGED <<files, sites, tag, request, removed>>

(* Its lease lapses: the run is queued again without what it had stored    *)
(* (resetRunForRequeue), or given up as it is when that was its last       *)
(* attempt, which CiQueue counts.                                          *)
requeueLocked(r, last) ==
  /\ At(r, "lost")
  /\ IF last
       THEN /\ Enters(r, "givenUp")
            /\ rec' = [rec EXCEPT ![r] = "Error"]
            /\ UNCHANGED <<staged, art>>
       ELSE /\ Enters(r, "queued")
            /\ rec' = [rec EXCEPT ![r] = "Pending"]
            /\ staged' = [staged EXCEPT ![r] = {}]
            /\ art' = [art EXCEPT ![r] = NoArtifact]
  /\ UNCHANGED <<release, version, current, rest>>

-----------------------------------------------------------------------------
(* commitCiRun: the CI artifact. *)

(* takeStaged renames the verified upload to its place, or says why not. *)
writeSidecarFirst(r) ==  \* mutant
  LET held == "artifact" \in staged[r] IN
    /\ At(r, "artifact")
    /\ run' = [run EXCEPT ![r].at = "sidecar", ![r].got = held]
    /\ art' = [art EXCEPT ![r].ini = IF held THEN "stored" ELSE "noted"]
    /\ UNCHANGED <<rec, staged, release, version, current, rest>>
takeArtifact(r) ==
  LET held == "artifact" \in staged[r] IN
    /\ At(r, "artifact")
    /\ run' = [run EXCEPT ![r].at = "sidecar", ![r].got = held]
    /\ staged' = [staged EXCEPT ![r] = @ \ {"artifact"}]
    /\ art' = [art EXCEPT ![r].tar = @ \/ held]
    /\ UNCHANGED <<rec, release, version, current, rest>>

(* Without the check that the ref is a release trigger. *)
AfterArtifact(r) == IF run[r].result = "Success" /\ ~run[r].minimal
                      THEN "site" ELSE "record"

writeCiArtifactRecord(r) ==
  /\ At(r, "sidecar")
  /\ art' = [art EXCEPT ![r].ini = IF run[r].got THEN "stored" ELSE "noted"]
  /\ Moves(r, AfterArtifact(r))
  /\ UNCHANGED <<rec, staged, release, version, current, rest>>

-----------------------------------------------------------------------------
(* commitCiRun: the release of a tag (a workflow of version 1: the earlier *)
(* release of the tag stays while its files are replaced one by one).      *)

takeAsset(r) ==
  LET held == "asset" \in staged[r] IN
    /\ At(r, "asset")
    /\ run' = [run EXCEPT ![r].at = "assetSidecar", ![r].got = held]
    /\ staged' = [staged EXCEPT ![r] = @ \ {"asset"}]
    /\ release' = IF held THEN [release EXCEPT !.tar = r] ELSE release
    /\ UNCHANGED <<rec, art, version, current, rest>>

(* A sidecar with a note lists no bundle. *)
assetRecordKeepsOld(r) ==  \* mutant
  /\ At(r, "assetSidecar")
  /\ release' = [release EXCEPT !.asset = IF run[r].got THEN r ELSE @]
  /\ Moves(r, "releaseIni")
  /\ UNCHANGED <<rec, staged, art, version, current, rest>>
writeCiReleaseArtifactRecord(r) ==
  /\ At(r, "assetSidecar")
  /\ release' = [release EXCEPT !.asset = IF run[r].got THEN r ELSE 0]
  /\ Moves(r, "releaseIni")
  /\ UNCHANGED <<rec, staged, art, version, current, rest>>

writeCiReleaseRecord(r) ==
  /\ At(r, "releaseIni")
  /\ release' = [release EXCEPT !.record = r]
  /\ Moves(r, "record")
  /\ UNCHANGED <<rec, staged, art, version, current, rest>>

(* A tag build that failed takes back what an earlier one published. *)
removeCiRelease(r) ==
  /\ At(r, "unrelease")
  /\ release' = NoRelease
  /\ Moves(r, "record")
  /\ UNCHANGED <<rec, staged, art, version, current, rest>>

-----------------------------------------------------------------------------
(* commitCiRun: the Pages site (publishPagesSite). *)

(* Unless a newer site is live, versions/RUN is emptied to be filled. *)
publishStarts(r) ==
  /\ At(r, "site")
  /\ IF current > r \/ "site" \notin staged[r]
       THEN Moves(r, "record") /\ UNCHANGED <<staged, version>>
       ELSE /\ version' = [version EXCEPT ![r] = "partial"]
            /\ staged' = [staged EXCEPT ![r] = @ \ {"site"}]
            /\ Moves(r, "copy")
  /\ UNCHANGED <<rec, art, release, current, rest>>

(* The publication failed: the version is removed, the run an error. *)
publishFailsQuietly(r) ==  \* mutant
  /\ run[r].at \in {"copy", "point"}
  /\ version' = [version EXCEPT ![r] = "none"]
  /\ Moves(r, "record")
  /\ UNCHANGED <<rec, staged, art, release, current, rest>>
publishFails(r) ==
  /\ run[r].at \in {"copy", "point"}
  /\ version' = [version EXCEPT ![r] = "none"]
  /\ run' = [run EXCEPT ![r].at = "record", ![r].result = "Error"]
  /\ UNCHANGED <<rec, staged, art, release, current, rest>>

pointBeforeCopy(r) ==  \* mutant
  /\ At(r, "copy")
  /\ current' = r
  /\ Moves(r, "prune")
  /\ UNCHANGED <<rec, staged, art, release, version, rest>>
copySite(r) ==
  /\ At(r, "copy")
  /\ version' = [version EXCEPT ![r] = "whole"]
  /\ Moves(r, "point")
  /\ UNCHANGED <<rec, staged, art, release, current, rest>>

(* The pointer is replaced in one rename. *)
setCurrent(r) ==
  /\ At(r, "point")
  /\ BriefRequests => request \in {0, current}
  /\ current' = r
  /\ Moves(r, "prune")
  /\ UNCHANGED <<rec, staged, art, release, version, rest>>

(* Every version but the KeepVersions newest goes, by run id; never the    *)
(* one just published.                                                     *)
Versions == {q \in sites : version[q] # "none"}
OldOffByOne(r) == {q \in Versions \ {r} :  \* mutant
                     Cardinality({p \in Versions : p > q}) + 1 >= KeepVersions}
Old(r) == {q \in Versions \ {r} :
             Cardinality({p \in Versions : p > q}) >= KeepVersions}
pruneVersions(r) ==
  /\ At(r, "prune")
  /\ version' = IF KeepVersions = 0 THEN version
                ELSE [q \in Runs |-> IF q \in Old(r) THEN "none"
                                         ELSE version[q]]
  /\ Moves(r, "record")
  /\ UNCHANGED <<rec, staged, art, release, current, rest>>

(* readCurrentPage: the pointer first, then the page below that version. *)
readCurrent ==
  /\ request = 0 /\ current # 0
  /\ request' = current
  /\ UNCHANGED <<sites, run, files, tag, removed, crashes>>
readSiteFile ==
  /\ request # 0
  /\ request' = 0
  /\ UNCHANGED <<sites, run, files, tag, removed, crashes>>

-----------------------------------------------------------------------------
(* commitCiRun ends: what is left of the staging goes, then the record is  *)
(* written; the claim is released afterwards.                              *)
writeCiRunRecord(r) ==
  /\ At(r, "record")
  /\ staged' = [staged EXCEPT ![r] = {}]
  /\ rec' = [rec EXCEPT ![r] = run[r].result]
  /\ Moves(r, "ended")
  /\ UNCHANGED <<art, release, version, current, rest>>

releaseCiClaim(r) ==
  /\ At(r, "ended")
  /\ Enters(r, "done")
  /\ UNCHANGED <<files, rest>>

-----------------------------------------------------------------------------
(* What deletes beside the handlers. *)

Directories == {r \in Runs : rec[r] # "None"}
InUse == {r \in Directories : rec[r] \in Active}

(* Run directories beyond the RunsKeep newest go, active ones excepted. *)
Expendable ==
  {r \in Directories \ InUse :
     RunsKeep > 0 /\ Cardinality({q \in Directories : q > r}) >= RunsKeep}

(* The artifacts whose sidecar the sweep reads; the newest run's are kept. *)
Entries == {r \in Directories \ Expendable : art[r].ini # "none"}
DueAll == Entries  \* mutant
Due == Entries \ {r \in Entries : \A q \in Entries : q <= r}

(* sweepCiArtifacts, by the primary runner under the queue's lock: old run *)
(* directories, the staging of runs that ended, bundles without a sidecar, *)
(* and the artifacts that are expired or over budget (any set of them).    *)
AllStaging == Directories  \* mutant
EndedStaging == Directories \ InUse

sweepCiArtifacts(evicted) ==
  /\ QuietSweep => \A r \in Runs : ~At(r, "sidecar")
  /\ evicted \subseteq Due
  /\ rec' = [r \in Runs |-> IF r \in Expendable THEN "None" ELSE rec[r]]
  /\ staged' = [r \in Runs |-> IF r \in EndedStaging THEN {} ELSE staged[r]]
  /\ art' = [r \in Runs |->
               IF r \in Expendable \cup evicted
                  \/ (r \in Directories /\ art[r].ini = "none")
                 THEN NoArtifact ELSE art[r]]
  /\ UNCHANGED <<run, release, version, current, rest>>

(* The receive hook, when the tag is deleted. *)
deleteTag ==
  /\ removed = "no" /\ tag # 0
  /\ QuietTag => \A r \in Runs \ sites : run[r].at \in Resting
  /\ tag' = 0
  /\ release' = NoRelease
  /\ UNCHANGED <<sites, run, rec, staged, art, version, current, request,
                 removed, crashes>>

(* remove-project moves the repository away, then drops the CI state and   *)
(* then the Pages tree; jobs of single runs stay where they are.           *)
removeRepository ==
  /\ removed = "no"
  /\ QuietRemoval => \A r \in Runs : run[r].at \in Resting
  /\ removed' = "repository"
  /\ tag' = 0
  /\ UNCHANGED <<sites, run, files, request, crashes>>
removeProjectCi ==
  /\ removed = "repository"
  /\ removed' = "ci"
  /\ rec' = [r \in Runs |-> "None"]
  /\ staged' = [r \in Runs |-> {}]
  /\ art' = [r \in Runs |-> NoArtifact]
  /\ release' = NoRelease
  /\ UNCHANGED <<sites, run, tag, version, current, request, crashes>>
removeProjectPages ==
  /\ removed = "ci"
  /\ removed' = "all"
  /\ version' = [r \in Runs |-> "none"]
  /\ current' = 0
  /\ UNCHANGED <<sites, run, rec, staged, art, tag, release, request,
                 crashes>>

-----------------------------------------------------------------------------

Init ==
  /\ sites = {}
  /\ run = [r \in Runs |-> Starts("new")]
  /\ rec = [r \in Runs |-> "None"]
  /\ staged = [r \in Runs |-> {}]
  /\ art = [r \in Runs |-> NoArtifact]
  /\ tag = 0
  /\ release = NoRelease
  /\ version = [r \in Runs |-> "none"]
  /\ current = 0
  /\ request = 0
  /\ removed = "no"
  /\ crashes = 0

Work(r) ==
  \/ claim(r)
  \/ \E result \in {"Success", "Failure"}, minimal \in BOOLEAN,
        outputs \in SUBSET {"artifact", "asset", "site"} :
        build(r, result, outputs, minimal)
  \/ takeArtifact(r) \/ writeCiArtifactRecord(r)
  \/ takeAsset(r) \/ writeCiReleaseArtifactRecord(r) \/ writeCiReleaseRecord(r)
  \/ removeCiRelease(r)
  \/ publishStarts(r) \/ publishFails(r) \/ copySite(r) \/ setCurrent(r)
  \/ pruneVersions(r)
  \/ writeCiRunRecord(r) \/ releaseCiClaim(r)
  \/ \E last \in BOOLEAN : requeueLocked(r, last)

Sweep == \E evicted \in SUBSET Runs : sweepCiArtifacts(evicted)

Next ==
  \/ \E r \in Runs : push(r, "branch") \/ push(r, "tag") \/ Work(r) \/ crash(r)
  \/ readCurrent \/ readSiteFile
  \/ Sweep
  \/ deleteTag
  \/ removeRepository \/ removeProjectCi \/ removeProjectPages

Spec == Init /\ [][Next]_vars

-----------------------------------------------------------------------------
(* Properties. *)

(* The version that the Pages pointer names is there and whole, whatever   *)
(* publication is under way, failed or died (publishPagesSite fills a      *)
(* fresh version and moves the pointer last).                              *)
CurrentIsWhole ==
  removed = "no" /\ current # 0 => version[current] = "whole"

(* The version a page request has read from the pointer is not pruned      *)
(* under it by a publication that moves the pointer on, unless a version   *)
(* that never went live, because its handler died, counts as a newer one.  *)
RequestKeepsSite ==
  [][removed = "no" /\ request # 0 /\ version[request] = "whole"
       => \/ version'[request] = "whole"
          \/ \E q \in Runs : /\ q > request /\ q # current
                             /\ version[q] # "none" /\ rec[q] # "Success"]_version

(* A run of the default branch that reports success has published: its     *)
(* site or a newer one is live (commitCiRun turns a failed publication     *)
(* into an error).                                                         *)
SuccessIsLive ==
  removed = "no" => \A r \in sites : rec[r] = "Success" => current >= r

(* Nothing is taken that is in use: the bundle a sidecar lists is there    *)
(* (it is put in place before its sidecar and goes before or with it), and *)
(* what a handler has staged is neither swept nor dropped with its run     *)
(* directory while its commit still needs it.                              *)
InUseIsKept ==
  removed = "no" =>
    /\ \A r \in Runs : art[r].ini = "stored" => art[r].tar
    /\ \A r \in sites :
         /\ At(r, "site") => "site" \in staged[r]
         /\ Busy(r) /\ run[r].at \notin {"ended", "lost"} => rec[r] # "None"

(* The artifact of the project's newest run outlives the sweep's timer,    *)
(* its budgets and its pruning of old run directories.                     *)
NewestIsKept ==
  [][Sweep => \A r \in Directories :
       art[r].ini = "stored" /\ (\A q \in Directories : q <= r)
         => art'[r] = art[r]]_vars

(* Once no build of the tag is under way, a release that lists an asset    *)
(* lists that of the build it names, and has it, unless a build was given  *)
(* up in the middle of its release.                                        *)
ReleaseIsOneBuild ==
  /\ removed = "no"
  /\ \A r \in Runs \ sites : run[r].at \in {"new", "done"}
  /\ release.record # 0 /\ release.asset # 0
  => release.asset = release.record /\ release.tar = release.record
=============================================================================
