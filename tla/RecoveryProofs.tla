--------------------------- MODULE RecoveryProofs ---------------------------
(***************************************************************************)
(* Theorems about backup and restore, for every set of projects and every  *)
(* bound: what a published backup holds, what becomes of a pushed commit,  *)
(* and how a restore ends.                                                 *)
(***************************************************************************)
EXTENDS Recovery, TLAPS

-----------------------------------------------------------------------------
(* The inductive invariant. *)

(* Metadata is in its directory, and no event is ahead of the repository   *)
(* it is about.                                                            *)
Fits(e, r, v) ==
  /\ r # {} => "checkouts" \in e
  /\ v # Nothing => "events" \in e
MetadataFits ==
  /\ Fits(entries, reg, ev)
  /\ \A p \in Hosted : ev[p] <= live[p]

(* A push that runs has room for its commit, in the repository or in the   *)
(* staging directory that a rollback moved it to.                          *)
HandlesFit ==
  \A p \in Project :
    /\ handle[p] = "live" => live[p] # 0 /\ live[p] < MaxTip
    /\ handle[p] = "stage" =>
         /\ stage[p] < MaxTip
         /\ "staging" \in entries
         /\ job.at \notin {"install", "metadata"}
         /\ At("undo") => p \notin job.done

(* Nothing is staged without a staging directory. *)
StageFits == "staging" \notin entries => stage = Nothing

(* The backup that was published fits itself. *)
BackupFits ==
  backup # NoBackup =>
    /\ Fits(backup.entries, backup.reg, backup.ev)
    /\ \A p \in Project : backup.ev[p] <= backup.tip[p]

(* What a running backup knows: while it takes its first fingerprints, and *)
(* from the copy of the state root on, when there is a moment w of the     *)
(* host that all it has seen and copied agrees with.                       *)
Fingerprinting ==
  At("before") =>
    /\ \A p \in Project : job.before[p] <= live[p]
    /\ Names \cap reserved \subseteq job.todo
    /\ job.copy.tip = Nothing

Agrees(w) ==
  /\ \A p \in Project :
       /\ w[p] <= live[p] /\ (live[p] # 0 => w[p] # 0)
       /\ job.before[p] <= w[p]
       /\ p \in job.copy.reg => w[p] # 0
       /\ job.copy.ev[p] <= w[p]
       /\ job.copy.tip[p] # 0 => w[p] <= job.copy.tip[p] /\ job.copy.tip[p] <= live[p]
       /\ live[p] # 0 /\ (At("after") \/ p \notin job.todo) => job.copy.tip[p] # 0
       /\ At("after") /\ p \notin job.todo => job.copy.tip[p] = w[p]

Mirroring ==
  job.at \in {"clone", "compare", "after"} =>
    /\ "staging" \notin entries /\ reserved = {}
    /\ Fits(job.copy.entries, job.copy.reg, job.copy.ev)
    /\ \E w \in seen : Agrees(w)

Capture == (Capturing => live \in seen) /\ Fingerprinting /\ Mirroring

(* What a running restore knows: while it installs repositories, while it  *)
(* installs metadata, and while it takes both back.                        *)
Installing ==
  At("install") =>
    /\ job.todo \subseteq BackedUp /\ job.done = BackedUp \ job.todo
    /\ entries \ {"runtime"} = {"staging"} /\ reg = {} /\ ev = Nothing
    /\ \A p \in Project :
         /\ stage[p] = IF p \in job.todo THEN backup.tip[p] ELSE 0
         /\ p \in job.todo => live[p] = 0
         /\ p \in job.done => live[p] >= backup.tip[p]

InPlace == backup.entries \ job.todo
Publishing ==
  At("metadata") =>
    /\ job.todo \subseteq backup.entries /\ job.done = BackedUp \cup InPlace
    /\ entries \ {"runtime"} = {"staging"} \cup InPlace
    /\ reg = IF "checkouts" \in InPlace THEN backup.reg ELSE {}
    /\ ev = IF "events" \in InPlace THEN backup.ev ELSE Nothing
    /\ stage = Nothing
    /\ \A p \in BackedUp : live[p] >= backup.tip[p]

Undoing ==
  At("undo") =>
    /\ "staging" \in entries
    /\ job.done \subseteq BackedUp \cup Supported
    /\ \A p \in job.done \cap BackedUp : stage[p] = 0
    /\ job.undone => /\ entries \cap Supported \subseteq job.done
                     /\ BackedUp \cap Hosted \subseteq job.done

Restoring ==
  /\ job.at \in {"install", "metadata", "undo"} => backup # NoBackup
  /\ Installing /\ Publishing /\ Undoing

RecoveryInv ==
  /\ TypeOK /\ MetadataFits /\ HandlesFit /\ StageFits /\ BackupFits
  /\ Capture /\ Restoring

-----------------------------------------------------------------------------
(* Types. *)

JobType == [at : {"idle", "before", "clone", "compare", "after", "install",
                  "metadata", "undo"},
            todo : SUBSET (Project \cup Supported),
            done : SUBSET (Project \cup Supported),
            before : Tips, copy : Data, undone : BOOLEAN]

(* The numbers of commits are numbers. *)
LEMMA TipsAre ==
  /\ Nothing \in Tips
  /\ \A f \in Tips : f \in [Project -> Nat]
  /\ \A f \in Tips, p \in Project, n \in 0..MaxTip : [f EXCEPT ![p] = n] \in Tips
  BY RecoveryAssumption DEF Tips, Nothing

(* What a well-formed job is made of. *)
LEMMA JobFields ==
  ASSUME NEW j \in JobType
  PROVE  /\ j.todo \subseteq Project \cup Supported
         /\ j.done \subseteq Project \cup Supported
         /\ j.before \in Tips /\ j.undone \in BOOLEAN
         /\ j.copy.tip \in Tips /\ j.copy.ev \in Tips
         /\ j.copy.entries \subseteq Supported /\ j.copy.reg \subseteq Project
  BY DEF JobType, Data

(* Idle is well formed. *)
LEMMA IdleType == Idle \in JobType /\ Idle.at = "idle"
  BY TipsAre DEF Idle, Empty, JobType, Data, Supported

(* The empty host is well typed. *)
LEMMA TypeInit == Init => TypeOK
  BY IdleType, TipsAre DEF Init, TypeOK, JobType, Entry

(* Backup steps keep the job well formed. *)
LEMMA BackupType ==
  ASSUME TypeOK, Backup
  PROVE  TypeOK'
<1>a. /\ job \in JobType /\ live \in Tips /\ ev \in Tips
      /\ reserved \subseteq Project /\ reg \subseteq Project
      /\ seen \subseteq Tips
      /\ Names \subseteq Project /\ 1 \in Nat
  BY DEF TypeOK, JobType, Names, Hosted
<1>b. ASSUME job' \in JobType, seen' \subseteq Tips, UNCHANGED <<repos, state, stage, handle, bounds>>,
             backup' = backup \/ backup' \in Data
      PROVE  TypeOK'
  BY <1>b DEF TypeOK, JobType, repos, state, bounds
<1>1. CASE backupStarts
  <2>1. job' \in JobType
    BY <1>1, <1>a, IdleType DEF backupStarts, JobType
  <2> QED BY <1>1, <2>1, <1>a, <1>b DEF backupStarts
<1>2. ASSUME Stops, UNCHANGED <<repos, state, stage, handle, bounds>>,
             backup' = backup \/ backup' \in Data
      PROVE  TypeOK'
  BY <1>2, <1>b, IdleType DEF Stops
<1>3. ASSUME NEW p \in Project, fingerprint(p)
      PROVE  TypeOK'
  <2>1. CASE p \in reserved
    BY <1>3, <2>1, <1>2 DEF fingerprint
  <2>2. CASE p \notin reserved
    <3>1. [job.before EXCEPT ![p] = live[p]] \in Tips
      BY <1>a, JobFields DEF Tips
    <3>2. job' \in JobType
      BY <1>3, <2>2, <3>1, <1>a DEF fingerprint, JobType
    <3> QED BY <1>3, <2>2, <3>2, <1>a, <1>b DEF fingerprint
  <2> QED BY <2>1, <2>2
<1>4. CASE copyTree
  <2>1. CASE ValidState
    <3>1. job.copy \in Data /\ entries \subseteq Supported
      BY <2>1, <1>a DEF JobType, ValidState
    <3>2. [job.copy EXCEPT !.entries = entries, !.reg = reg, !.ev = ev] \in Data
      BY <3>1, <1>a DEF Data
    <3>3. job' \in JobType
      <4>1. job' = [job EXCEPT !.at = "clone", !.todo = Names,
                               !.copy = [job.copy EXCEPT !.entries = entries, !.reg = reg, !.ev = ev]]
        BY <1>4, <2>1, <3>1, <1>a DEF copyTree, JobType, Data
      <4>2. Names \in SUBSET (Project \cup Supported)
        BY <1>a
      <4> QED BY <4>1, <4>2, <3>2, <1>a DEF JobType
    <3> QED BY <1>4, <2>1, <3>3, <1>a, <1>b DEF copyTree
  <2>2. CASE ~ValidState
    BY <1>4, <2>2, <1>2 DEF copyTree
  <2> QED BY <2>1, <2>2
<1>5. ASSUME NEW p \in Project, mirrorClones(p)
      PROVE  TypeOK'
  <2>1. [job.copy.tip EXCEPT ![p] = live[p]] \in Tips
    BY <1>a, JobFields DEF Tips
  <2>2. [job.copy EXCEPT !.tip[p] = live[p]] \in Data
    BY <2>1, <1>a DEF JobType, Data
  <2>3. job' \in JobType
    BY <1>5, <2>2, <1>a DEF mirrorClones, JobType
  <2> QED BY <1>5, <2>3, <1>a, <1>b DEF mirrorClones
<1>6. ASSUME NEW p \in Project, mirrorCompares(p)
      PROVE  TypeOK'
  <2>1. CASE job.copy.tip[p] = live[p]
    <3>1. job' \in JobType
      <4>1. job.todo \ {p} \in SUBSET (Project \cup Supported)
        BY <1>a, JobFields
      <4>2. job' = [job EXCEPT !.at = "clone", !.todo = job.todo \ {p}]
        BY <1>6, <2>1 DEF mirrorCompares
      <4> QED BY <4>1, <4>2, <1>a DEF JobType
    <3> QED BY <1>6, <2>1, <3>1, <1>a, <1>b DEF mirrorCompares
  <2>2. CASE job.copy.tip[p] # live[p]
    BY <1>6, <2>2, <1>2 DEF mirrorCompares
  <2> QED BY <2>1, <2>2
<1>7. ASSUME NEW p \in Project, comparesAgain(p)
      PROVE  TypeOK'
  <2>1. CASE live[p] = job.before[p]
    <3>1. job' \in JobType
      BY <1>7, <2>1, <1>a DEF comparesAgain, Visited, JobType
    <3> QED BY <1>7, <2>1, <3>1, <1>a, <1>b DEF comparesAgain
  <2>2. CASE live[p] # job.before[p]
    BY <1>7, <2>2, <1>2 DEF comparesAgain
  <2> QED BY <2>1, <2>2
<1>8. CASE mirrorsEnd
  <2>1. job' \in JobType
    BY <1>8, <1>a DEF mirrorsEnd, Moves, JobType
  <2> QED BY <1>8, <2>1, <1>a, <1>b DEF mirrorsEnd
<1>9. CASE backupEnds
  <2>1. job.copy \in Data
    BY <1>a DEF JobType
  <2> QED BY <1>9, <2>1, <1>2 DEF backupEnds
<1> QED BY <1>1, <1>3, <1>4, <1>5, <1>6, <1>7, <1>8, <1>9 DEF Backup

(* Restore steps keep the types. *)
LEMMA RestoreType ==
  ASSUME TypeOK, Restoring, Restore
  PROVE  TypeOK'
<1>a. /\ job \in JobType /\ live \in Tips /\ ev \in Tips /\ stage \in Tips
      /\ reserved \subseteq Project /\ reg \subseteq Project
      /\ entries \subseteq Entry /\ seen \subseteq Tips
      /\ handle \in [Project -> {"none", "live", "stage"}]
      /\ backup = NoBackup \/ backup \in Data
      /\ crashes \in Nat /\ losses \in Nat
      /\ Nothing \in Tips
      /\ Supported \subseteq Entry
  BY TipsAre DEF TypeOK, JobType, Entry
<1>b. ASSUME job' \in JobType, live' \in Tips, ev' \in Tips, stage' \in Tips,
             reg' \subseteq Project, entries' \subseteq Entry, seen' \subseteq Tips,
             handle' \in [Project -> {"none", "live", "stage"}],
             UNCHANGED <<reserved, backup, bounds>>
      PROVE  TypeOK'
  BY <1>a, <1>b DEF TypeOK, JobType, bounds
<1>c. ASSUME Stops
      PROVE  job' \in JobType /\ seen' \subseteq Tips
  BY <1>c, IdleType DEF Stops
<1>1. CASE restoreStarts
  <2>1. BackedUp \subseteq Project
    BY DEF BackedUp
  <2>2. job' \in JobType
    BY <1>1, <2>1, IdleType DEF restoreStarts, JobType
  <2>3. stage' \in Tips /\ entries' \subseteq Entry
    BY <1>1, <1>a DEF restoreStarts, Data, Entry
  <2> QED BY <1>1, <2>2, <2>3, <1>a, <1>b DEF restoreStarts, repos
<1>2. CASE stagingFails \/ restoreEnds \/ keepsStage
  <2>1. Stops /\ UNCHANGED <<live, ev, reg, handle, reserved, backup, bounds>>
        /\ stage' \in {stage, Nothing}
        /\ entries' \in {entries, entries \ {"staging"}}
    BY <1>2 DEF stagingFails, restoreEnds, keepsStage, repos, state
  <2> QED BY <2>1, <1>a, <1>b, <1>c
<1>3. ASSUME NEW p \in Project, publishDirectory(p)
      PROVE  TypeOK'
  <2>1. job' \in JobType
    BY <1>3, <1>a DEF publishDirectory, JobType
  <2>2. live' \in Tips /\ stage' \in Tips
    BY <1>3, <1>a, RecoveryAssumption DEF publishDirectory, Tips
  <2> QED BY <1>3, <2>1, <2>2, <1>a, <1>b DEF publishDirectory, state
<1>4. ASSUME NEW p \in Project, undoRepository(p)
      PROVE  TypeOK'
  <2>1. job' \in JobType
    BY <1>4, <1>a DEF undoRepository, JobType
  <2>2. live' \in Tips /\ stage' \in Tips
    BY <1>4, <1>a, RecoveryAssumption DEF undoRepository, Tips
  <2>3. handle' \in [Project -> {"none", "live", "stage"}]
    BY <1>4, <1>a DEF undoRepository
  <2> QED BY <1>4, <2>1, <2>2, <2>3, <1>a, <1>b DEF undoRepository, state
<1>5. ASSUME NEW x, undoFails(x)
      PROVE  TypeOK'
  <2>1. job' \in JobType
    BY <1>5, <1>a DEF undoFails, JobType
  <2> QED BY <1>5, <2>1, <1>a, <1>b DEF undoFails, repos, state
<1>6. CASE repositoriesInstalled \/ installFails
  <2>1. job' \in JobType
    <3>1. CASE repositoriesInstalled
      <4>1. backup.entries \subseteq Supported
        BY <1>a, <3>1 DEF Data, Restoring, repositoriesInstalled, At
      <4> QED BY <3>1, <4>1, <1>a DEF repositoriesInstalled, Moves, JobType
    <3>2. CASE installFails
      BY <3>2, <1>a DEF installFails, JobType
    <3> QED BY <1>6, <3>1, <3>2
  <2> QED BY <1>6, <2>1, <1>a, <1>b DEF repositoriesInstalled, installFails, repos, state
<1>7. ASSUME NEW e \in Supported, publishEntry(e)
      PROVE  TypeOK'
  <2>1. job' \in JobType
    BY <1>7, <1>a DEF publishEntry, JobType
  <2>2. backup \in Data
    BY <1>7, <1>a DEF publishEntry, At, Restoring
  <2>3. ev' \in Tips /\ reg' \subseteq Project
    BY <1>7, <2>2, <1>a DEF publishEntry, Data
  <2>4. entries' \subseteq Entry
    BY <1>7, <1>a DEF publishEntry
  <2> QED BY <1>7, <2>1, <2>3, <2>4, <1>a, <1>b DEF publishEntry, repos
<1>8. ASSUME NEW e \in Supported, undoEntry(e)
      PROVE  TypeOK'
  <2>1. job' \in JobType
    BY <1>8, <1>a DEF undoEntry, JobType
  <2> QED BY <1>8, <2>1, <1>a, <1>b DEF undoEntry, repos
<1> QED BY <1>1, <1>2, <1>3, <1>4, <1>5, <1>6, <1>7, <1>8 DEF Restore

(* Every step keeps the types. *)
LEMMA TypeNext ==
  ASSUME TypeOK, HandlesFit, Restoring, [Next]_vars
  PROVE  TypeOK'
<1>a. /\ job \in JobType /\ live \in Tips /\ ev \in Tips /\ stage \in Tips
      /\ \A p \in Project : live[p] \in 0..MaxTip /\ stage[p] \in 0..MaxTip
      /\ 1 \in 0..MaxTip /\ 0 \in 0..MaxTip /\ MaxTip \in Nat
      /\ Nothing \in Tips
  BY TipsAre, RecoveryAssumption DEF TypeOK, JobType, Tips
<1>b. \A f \in Tips, p \in Project, n \in 0..MaxTip : [f EXCEPT ![p] = n] \in Tips
  BY TipsAre
<1>1. ASSUME NEW p \in Project, openPush(p)
      PROVE  TypeOK'
  BY <1>1 DEF openPush, TypeOK, repos, state, bounds
<1>2. ASSUME NEW p \in Project, finishPush(p)
      PROVE  TypeOK'
  <2>1. handle[p] \in {"live", "stage"}
    BY <1>2 DEF finishPush, TypeOK
  <2>2. live' \in Tips /\ stage' \in Tips
    <3>1. CASE handle[p] = "live"
      <4>1. live[p] + 1 \in 0..MaxTip
        BY <3>1, <1>a DEF HandlesFit
      <4> QED BY <1>2, <3>1, <4>1, <1>a, <1>b DEF finishPush
    <3>2. CASE handle[p] = "stage"
      <4>1. stage[p] + 1 \in 0..MaxTip
        BY <3>2, <1>a DEF HandlesFit
      <4> QED BY <1>2, <3>2, <4>1, <1>a, <1>b DEF finishPush
    <3> QED BY <2>1, <3>1, <3>2
  <2> QED BY <1>2, <2>2 DEF finishPush, Witness, TypeOK, state, bounds
<1>3. ASSUME NEW p \in Project, appendHostedStateEvent(p) \/ registerHostedCheckout(p)
      PROVE  TypeOK'
  <2>1. ev' \in Tips
    BY <1>3, <1>a, <1>b DEF appendHostedStateEvent, registerHostedCheckout
  <2> QED BY <1>3, <2>1 DEF appendHostedStateEvent, registerHostedCheckout, TypeOK, repos,
      bounds, Entry, Supported
<1>4. ASSUME NEW p \in Project, createBareRepository(p)
      PROVE  TypeOK'
  <2>1. live' \in Tips /\ ev' \in Tips
    BY <1>4, <1>a, <1>b DEF createBareRepository
  <2> QED BY <1>4, <2>1 DEF createBareRepository, TypeOK, bounds
<1>5. ASSUME NEW p \in Project, NEW dies \in BOOLEAN, removeBareRepository(p, dies)
      PROVE  TypeOK'
  <2>1. live' \in Tips /\ ev' \in Tips
    BY <1>5, <1>a, <1>b DEF removeBareRepository, Purged, state
  <2>2. crashes' \in Nat /\ entries' = entries /\ reg' \subseteq Project
    BY <1>5 DEF removeBareRepository, Purged, state, TypeOK
  <2> QED BY <1>5, <2>1, <2>2 DEF removeBareRepository, TypeOK
<1>6. ASSUME NEW p \in Project, crash(p)
      PROVE  TypeOK'
  <2>1. job' \in JobType /\ seen' = {}
    BY <1>6, IdleType DEF crash, Stops
  <2> QED BY <1>6, <2>1 DEF crash, TypeOK, JobType, state
<1>7. CASE sweepOrphanProjectMetadata
  <2>1. ev' \in Tips
    BY <1>7, <1>a DEF sweepOrphanProjectMetadata, Tips
  <2> QED BY <1>7, <2>1 DEF sweepOrphanProjectMetadata, TypeOK, repos, bounds
<1>8. CASE recordRuntimeComponent
  BY <1>8 DEF recordRuntimeComponent, TypeOK, repos, bounds, Entry
<1>9. CASE provision
  BY <1>9, <1>a DEF provision, TypeOK
<1>10. CASE UNCHANGED vars
  BY <1>10 DEF vars, repos, state, bounds, TypeOK
<1> QED BY <1>1, <1>2, <1>3, <1>4, <1>5, <1>6, <1>7, <1>8, <1>9, <1>10, BackupType,
           RestoreType DEF Next, Clients, Operators

-----------------------------------------------------------------------------
(* The parts of the inductive invariant. *)

(* What types say of the numbers. *)
LEMMA Numbers ==
  ASSUME TypeOK
  PROVE  /\ live \in [Project -> Nat] /\ stage \in [Project -> Nat] /\ ev \in [Project -> Nat]
         /\ job.before \in [Project -> Nat] /\ job.copy.tip \in [Project -> Nat]
         /\ job.copy.ev \in [Project -> Nat]
         /\ seen \subseteq [Project -> Nat]
         /\ backup # NoBackup => /\ backup.tip \in [Project -> Nat]
                                 /\ backup.ev \in [Project -> Nat]
                                 /\ backup.entries \subseteq Supported
                                 /\ backup.reg \subseteq Project
         /\ MaxTip \in Nat
         /\ job \in JobType
         /\ handle \in [Project -> {"none", "live", "stage"}]
<1>1. job \in JobType
  BY DEF TypeOK, JobType
<1>2. backup # NoBackup => backup \in Data
  BY DEF TypeOK
<1>3. \A d \in Data : /\ d.tip \in Tips /\ d.ev \in Tips
                      /\ d.entries \subseteq Supported /\ d.reg \subseteq Project
  BY DEF Data
<1>4. /\ live \in Tips /\ stage \in Tips /\ ev \in Tips /\ seen \subseteq Tips
      /\ handle \in [Project -> {"none", "live", "stage"}]
  BY DEF TypeOK
<1> QED BY <1>1, <1>2, <1>3, <1>4, JobFields, TipsAre, RecoveryAssumption

(* A push that ends moves one repository by one commit, or one staged one. *)
LEMMA PushEnds ==
  ASSUME TypeOK, HandlesFit, NEW p \in Project, finishPush(p)
  PROVE  /\ UNCHANGED <<reserved, state, backup, job>>
         /\ handle' = [handle EXCEPT ![p] = "none"]
         /\ \A q \in Project : /\ live'[q] >= live[q] /\ stage'[q] >= stage[q]
                               /\ live'[q] = 0 <=> live[q] = 0
                               /\ q # p => live'[q] = live[q] /\ stage'[q] = stage[q]
         /\ handle[p] = "live" => stage' = stage
         /\ handle[p] = "stage" => live' = live
         /\ handle[p] \in {"live", "stage"}
         /\ Names' = Names
<1>1. /\ UNCHANGED <<reserved, state, backup, job>>
      /\ handle' = [handle EXCEPT ![p] = "none"]
      /\ handle[p] \in {"live", "stage"}
      /\ handle[p] = "live" => live' = [live EXCEPT ![p] = @ + 1] /\ stage' = stage
      /\ handle[p] = "stage" => stage' = [stage EXCEPT ![p] = @ + 1] /\ live' = live
  BY Numbers DEF finishPush
<1>2. \A q \in Project : /\ live'[q] >= live[q] /\ stage'[q] >= stage[q]
                         /\ live'[q] = 0 <=> live[q] = 0
                         /\ q # p => live'[q] = live[q] /\ stage'[q] = stage[q]
  BY <1>1, Numbers DEF HandlesFit
<1>3. Names' = Names
  BY <1>1, <1>2 DEF Names, Hosted
<1> QED BY <1>1, <1>2, <1>3

(* The steps of a backup change nothing of the host; the last publishes    *)
(* the copy, the others stay in its phases or give up.                     *)
LEMMA BackupKeeps ==
  ASSUME TypeOK, Backup
  PROVE  /\ UNCHANGED <<repos, state, stage, handle, bounds>>
         /\ job'.at \in {"before", "clone", "compare", "after", "idle"}
         /\ backup' = backup \/ backupEnds
<1>a. job \in JobType
  BY Numbers
<1>1. CASE backupStarts
  BY <1>1, IdleType DEF backupStarts, JobType
<1>2. ASSUME NEW p \in Project, fingerprint(p)
      PROVE  /\ UNCHANGED <<repos, state, stage, handle, bounds, backup>>
             /\ job'.at \in {"before", "idle"}
  BY <1>2, <1>a, IdleType DEF fingerprint, Stops, At, JobType
<1>3. CASE copyTree
  <2>1. job'.at \in {"clone", "idle"}
    BY <1>3, <1>a, IdleType DEF copyTree, Stops, JobType
  <2> QED BY <1>3, <2>1 DEF copyTree
<1>4. ASSUME NEW p \in Project, mirrorClones(p)
      PROVE  /\ UNCHANGED <<repos, state, stage, handle, bounds, backup>>
             /\ job'.at = "compare"
  BY <1>4, <1>a DEF mirrorClones, JobType
<1>5. ASSUME NEW p \in Project, mirrorCompares(p)
      PROVE  /\ UNCHANGED <<repos, state, stage, handle, bounds, backup>>
             /\ job'.at \in {"clone", "idle"}
  BY <1>5, <1>a, IdleType DEF mirrorCompares, Stops, JobType
<1>6. ASSUME NEW p \in Project, comparesAgain(p)
      PROVE  /\ UNCHANGED <<repos, state, stage, handle, bounds, backup>>
             /\ job'.at \in {"after", "idle"}
  BY <1>6, <1>a, IdleType DEF comparesAgain, Stops, Visited, At, JobType
<1>7. CASE mirrorsEnd
  BY <1>7, <1>a DEF mirrorsEnd, Moves, JobType
<1>8. CASE backupEnds
  BY <1>8, IdleType DEF backupEnds, Stops
<1> QED BY <1>1, <1>2, <1>3, <1>4, <1>5, <1>6, <1>7, <1>8 DEF Backup

(* What the steps beside a backup or restore leave alone.                  *)
LEMMA Unlocked ==
  ASSUME TypeOK,
         \/ \E p \in Project : \/ appendHostedStateEvent(p) \/ Operators(p)
         \/ sweepOrphanProjectMetadata \/ provision
  PROVE  /\ job.at = "idle" /\ UNCHANGED <<job, backup, seen>>
         /\ stage' = stage \/ provision
<1>1. ASSUME NEW p \in Project, Operators(p)
      PROVE  /\ job.at = "idle" /\ UNCHANGED <<job, backup, seen, stage>>
  BY <1>1 DEF Operators, createBareRepository, registerHostedCheckout, removeBareRepository,
              Locked
<1>2. ASSUME NEW p \in Project, appendHostedStateEvent(p)
      PROVE  /\ job.at = "idle" /\ UNCHANGED <<job, backup, seen, stage>>
  BY <1>2 DEF appendHostedStateEvent, Locked
<1> QED BY <1>1, <1>2 DEF sweepOrphanProjectMetadata, provision, Locked

(* Metadata. *)
LEMMA MetadataStep ==
  ASSUME RecoveryInv, [Next]_vars
  PROVE  MetadataFits'
<1>a. /\ TypeOK /\ MetadataFits /\ HandlesFit /\ BackupFits /\ Restoring
  BY DEF RecoveryInv
<1>b. /\ Fits(entries, reg, ev)
      /\ \A p \in Project : live[p] # 0 => ev[p] <= live[p]
      /\ live \in [Project -> Nat] /\ ev \in [Project -> Nat] /\ Nothing \in [Project -> Nat]
      /\ \A p \in Project : Nothing[p] = 0
  BY <1>a, Numbers, TipsAre DEF MetadataFits, Hosted, Nothing
<1>c. ASSUME Fits(entries, reg, ev)', \A p \in Project : live'[p] # 0 => ev'[p] <= live'[p]
      PROVE  MetadataFits'
  BY <1>c DEF MetadataFits, Hosted
<1>d. ASSUME UNCHANGED <<entries, reg, ev, live>>
      PROVE  MetadataFits'
  BY <1>d, <1>a DEF MetadataFits, Fits, Hosted
<1>1. ASSUME NEW p \in Project, finishPush(p)
      PROVE  MetadataFits'
  <2>1. UNCHANGED <<entries, reg, ev>>
    BY <1>1, <1>a, PushEnds DEF state
  <2>2. Fits(entries, reg, ev)'
    BY <2>1, <1>b DEF Fits
  <2>3. \A q \in Project : live'[q] >= live[q] /\ (live'[q] = 0 <=> live[q] = 0)
                           /\ live'[q] \in Nat
    <3>1. live' \in [Project -> Nat]
      BY <1>1, <1>b DEF finishPush
    <3> QED BY <1>1, <1>a, PushEnds, <3>1
  <2>4. \A q \in Project : live'[q] # 0 => ev'[q] <= live'[q]
    BY <2>1, <2>3, <1>b
  <2> QED BY <2>2, <2>4, <1>c
<1>2. ASSUME NEW p \in Project, \/ appendHostedStateEvent(p) \/ createBareRepository(p)
                                \/ registerHostedCheckout(p)
      PROVE  MetadataFits'
  <2>1. Fits(entries, reg, ev)'
    <3>1. CASE createBareRepository(p)
      <4>1. ev = Nothing => ev' = Nothing
        BY <3>1, <1>b DEF createBareRepository, Nothing
      <4> QED BY <3>1, <4>1, <1>b DEF createBareRepository, Fits
    <3> QED BY <1>2, <3>1, <1>b DEF appendHostedStateEvent, registerHostedCheckout, repos, Fits
  <2>2. \A q \in Project : live'[q] # 0 => ev'[q] <= live'[q]
    BY <1>2, <1>b DEF appendHostedStateEvent, registerHostedCheckout, createBareRepository, repos
  <2> QED BY <2>1, <2>2, <1>c
<1>3. ASSUME NEW p \in Project, NEW dies \in BOOLEAN, removeBareRepository(p, dies)
      PROVE  MetadataFits'
  <2>1. /\ entries' = entries /\ reg' \subseteq reg
        /\ ev' = ev \/ ev' = [ev EXCEPT ![p] = 0]
        /\ live' = [live EXCEPT ![p] = 0]
    BY <1>3 DEF removeBareRepository, Purged, state
  <2>2. ev = Nothing => ev' = Nothing
    BY <2>1, <1>b DEF Nothing
  <2>3. Fits(entries, reg, ev)'
    BY <2>1, <2>2, <1>b DEF Fits
  <2>4. \A q \in Project : live'[q] # 0 => ev'[q] <= live'[q]
    BY <2>1, <1>b
  <2> QED BY <2>3, <2>4, <1>c
<1>4. CASE sweepOrphanProjectMetadata
  <2>1. /\ entries' = entries /\ reg' \subseteq reg /\ live' = live
        /\ ev' = [q \in Project |-> IF q \in Hosted THEN ev[q] ELSE 0]
    BY <1>4 DEF sweepOrphanProjectMetadata, repos
  <2>2. ev = Nothing => ev' = Nothing
    BY <2>1 DEF Nothing
  <2>3. Fits(entries, reg, ev)'
    BY <2>1, <2>2, <1>b DEF Fits
  <2>4. \A q \in Project : live'[q] # 0 => ev'[q] <= live'[q]
    BY <2>1, <1>b DEF Hosted
  <2> QED BY <2>3, <2>4, <1>c
<1>5. CASE recordRuntimeComponent
  <2>1. Fits(entries, reg, ev)'
    BY <1>5, <1>b DEF recordRuntimeComponent, Fits
  <2> QED BY <1>5, <2>1, <1>b, <1>c DEF recordRuntimeComponent, repos
<1>6. CASE provision
  <2>1. Fits(entries, reg, ev)'
    BY <1>6 DEF provision, Fits
  <2> QED BY <1>6, <2>1, <1>b, <1>c DEF provision
<1>7. CASE restoreStarts \/ stagingFails \/ restoreEnds
  <2>1. /\ UNCHANGED <<reg, ev, live>>
        /\ "checkouts" \in entries => "checkouts" \in entries'
        /\ "events" \in entries => "events" \in entries'
    BY <1>7 DEF restoreStarts, Startable, stagingFails, restoreEnds, repos
  <2>2. Fits(entries, reg, ev)'
    BY <2>1, <1>b DEF Fits
  <2> QED BY <2>1, <2>2, <1>b, <1>c
<1>8. ASSUME NEW p \in Project, publishDirectory(p)
      PROVE  MetadataFits'
  <2>1. UNCHANGED <<entries, reg, ev>> /\ ev = Nothing
    BY <1>8, <1>a DEF publishDirectory, state, Restoring, Installing
  <2>2. live' = [live EXCEPT ![p] = stage[p]] /\ stage[p] \in Nat
    BY <1>8, <1>a, Numbers DEF publishDirectory
  <2>3. live' \in [Project -> Nat]
    BY <2>2, <1>b
  <2>4. Fits(entries, reg, ev)'
    BY <2>1, <1>b DEF Fits
  <2> QED BY <2>1, <2>3, <2>4, <1>b, <1>c
<1>9. ASSUME NEW p \in Project, undoRepository(p)
      PROVE  MetadataFits'
  <2>1. UNCHANGED <<entries, reg, ev>> /\ live' = [live EXCEPT ![p] = 0]
    BY <1>9 DEF undoRepository, state
  <2>2. Fits(entries, reg, ev)'
    BY <2>1, <1>b DEF Fits
  <2> QED BY <2>1, <2>2, <1>b, <1>c
<1>10. ASSUME NEW e \in Supported, publishEntry(e)
       PROVE  MetadataFits'
  <2>1. /\ entries' = entries \cup {e} /\ live' = live
        /\ reg' = IF e = "checkouts" THEN backup.reg ELSE reg
        /\ ev' = IF e = "events" THEN backup.ev ELSE ev
    BY <1>10 DEF publishEntry, repos
  <2>2. Fits(entries, reg, ev)'
    BY <2>1, <1>b DEF Fits
  <2>3. /\ \A p \in BackedUp : live[p] >= backup.tip[p]
        /\ \A p \in Project : backup.ev[p] <= backup.tip[p]
        /\ backup.tip \in [Project -> Nat] /\ backup.ev \in [Project -> Nat]
    BY <1>10, <1>a, Numbers DEF publishEntry, At, Restoring, Publishing, BackupFits
  <2>4. \A p \in Project : backup.ev[p] <= live[p]
    BY <2>3, <1>b DEF BackedUp
  <2>5. \A p \in Project : live'[p] # 0 => ev'[p] <= live'[p]
    BY <2>1, <2>4, <1>b
  <2> QED BY <2>2, <2>5, <1>c
<1>11. ASSUME NEW e \in Supported, undoEntry(e)
       PROVE  MetadataFits'
  <2>1. /\ entries' = entries \ {e} /\ live' = live
        /\ reg' = IF e = "checkouts" THEN {} ELSE reg
        /\ ev' = IF e = "events" THEN Nothing ELSE ev
    BY <1>11 DEF undoEntry, repos
  <2>2. Fits(entries, reg, ev)'
    BY <2>1, <1>b DEF Fits
  <2>3. \A p \in Project : live'[p] # 0 => ev'[p] <= live'[p]
    BY <2>1, <1>b
  <2> QED BY <2>2, <2>3, <1>c
<1>12. ASSUME \/ \E p \in Project : openPush(p) \/ crash(p)
              \/ UNCHANGED vars
              \/ repositoriesInstalled \/ installFails \/ keepsStage \/ \E x : undoFails(x)
       PROVE  MetadataFits'
  BY <1>12, <1>d DEF openPush, crash, vars, repositoriesInstalled, installFails, keepsStage,
     undoFails, repos, state
<1>13. CASE Backup
  BY <1>13, <1>a, <1>d, BackupKeeps DEF repos, state
<1> QED BY <1>1, <1>2, <1>3, <1>4, <1>5, <1>6, <1>7, <1>8, <1>9, <1>10, <1>11, <1>12, <1>13
        DEF Next, Clients, Operators, Restore


(* Where a restore goes next. *)
LEMMA RestoreMoves ==
  ASSUME TypeOK
  PROVE  /\ restoreStarts => job' = [Idle EXCEPT !.at = "install", !.todo = BackedUp]
                             /\ job'.at = "install" /\ job'.todo = BackedUp /\ job'.done = {}
         /\ (stagingFails \/ restoreEnds \/ keepsStage \/ \E p \in Project : crash(p))
              => job'.at = "idle"
         /\ \A p \in Project : publishDirectory(p) =>
              /\ job.at = "install" /\ job'.at = "install" /\ p \in job.todo
              /\ job'.todo = job.todo \ {p} /\ job'.done = job.done \cup {p}
         /\ repositoriesInstalled =>
              /\ job.at = "install" /\ job.todo = {} /\ job'.at = "metadata"
              /\ job'.todo = backup.entries /\ job'.done = job.done
         /\ \A e \in Supported : publishEntry(e) =>
              /\ job.at = "metadata" /\ job'.at = "metadata" /\ e \in job.todo
              /\ job'.todo = job.todo \ {e} /\ job'.done = job.done \cup {e}
         /\ installFails =>
              /\ job.at \in {"install", "metadata"} /\ job'.at = "undo"
              /\ job'.done = job.done
         /\ \A x : undoEntry(x) \/ undoRepository(x) \/ undoFails(x) =>
              /\ job.at = "undo" /\ job'.at = "undo" /\ x \in job.done
              /\ job'.done = job.done \ {x}
              /\ job'.undone => job.undone /\ ~undoFails(x)
<1>a. job \in JobType
  BY Numbers
<1>1. restoreStarts => job' = [Idle EXCEPT !.at = "install", !.todo = BackedUp]
                       /\ job'.at = "install" /\ job'.todo = BackedUp /\ job'.done = {}
  BY DEF restoreStarts, Idle
<1>2. (stagingFails \/ restoreEnds \/ keepsStage \/ \E p \in Project : crash(p))
        => job'.at = "idle"
  BY IdleType DEF stagingFails, restoreEnds, keepsStage, crash, Stops
<1>3. ASSUME NEW p \in Project, publishDirectory(p)
      PROVE  /\ job.at = "install" /\ job'.at = "install" /\ p \in job.todo
             /\ job'.todo = job.todo \ {p} /\ job'.done = job.done \cup {p}
  BY <1>3, <1>a DEF publishDirectory, At, JobType
<1>4. ASSUME repositoriesInstalled
      PROVE  /\ job.at = "install" /\ job.todo = {} /\ job'.at = "metadata"
             /\ job'.todo = backup.entries /\ job'.done = job.done
  BY <1>4, <1>a DEF repositoriesInstalled, Moves, At, JobType
<1>5. ASSUME NEW e \in Supported, publishEntry(e)
      PROVE  /\ job.at = "metadata" /\ job'.at = "metadata" /\ e \in job.todo
             /\ job'.todo = job.todo \ {e} /\ job'.done = job.done \cup {e}
  BY <1>5, <1>a DEF publishEntry, At, JobType
<1>6. ASSUME installFails
      PROVE  /\ job.at \in {"install", "metadata"} /\ job'.at = "undo"
             /\ job'.done = job.done
  BY <1>6, <1>a DEF installFails, JobType
<1>7. ASSUME NEW x, undoFails(x)
      PROVE  /\ job.at = "undo" /\ job'.at = "undo" /\ x \in job.done
             /\ job'.done = job.done \ {x} /\ ~job'.undone
  BY <1>7, <1>a DEF undoFails, At, JobType
<1>8. ASSUME NEW x, undoEntry(x) \/ undoRepository(x)
      PROVE  /\ job.at = "undo" /\ job'.at = "undo" /\ x \in job.done
             /\ job'.done = job.done \ {x} /\ job'.undone = job.undone
  <2>1. job' = [job EXCEPT !.done = @ \ {x}] /\ At("undo") /\ x \in job.done
    BY <1>8 DEF undoEntry, undoRepository
  <2> QED BY <2>1, <1>a DEF At, JobType
<1> QED BY <1>1, <1>2, <1>3, <1>4, <1>5, <1>6, <1>7, <1>8

(* Pushes that run. *)
LEMMA HandlesStep ==
  ASSUME RecoveryInv, [Next]_vars
  PROVE  HandlesFit'
<1>a. /\ TypeOK /\ HandlesFit /\ Restoring
      /\ handle \in [Project -> {"none", "live", "stage"}]
      /\ live \in [Project -> Nat] /\ stage \in [Project -> Nat] /\ MaxTip \in Nat
      /\ job \in JobType
  BY Numbers DEF RecoveryInv
<1>b. ASSUME UNCHANGED <<handle, live, stage>>, entries \subseteq entries',
             job'.at \notin {"install", "metadata"} \/ \A p \in Project : handle[p] # "stage",
             job'.at = "undo" => \A p \in Project : handle[p] = "stage" => p \notin job'.done
      PROVE  HandlesFit'
  BY <1>b, <1>a DEF HandlesFit, At
<1>c. job.at \in {"install", "metadata"} => \A p \in Project : handle[p] # "stage"
  BY <1>a DEF HandlesFit
<1>d. ASSUME UNCHANGED <<handle, live, stage, job>>, entries \subseteq entries'
      PROVE  HandlesFit'
  BY <1>d, <1>a DEF HandlesFit, At
<1>1. ASSUME NEW p \in Project, openPush(p)
      PROVE  HandlesFit'
  BY <1>1, <1>a DEF openPush, HandlesFit, Hosted, repos, state, At
<1>2. ASSUME NEW p \in Project, finishPush(p)
      PROVE  HandlesFit'
  <2>1. /\ UNCHANGED <<entries, job>> /\ handle' = [handle EXCEPT ![p] = "none"]
        /\ \A q \in Project : q # p => live'[q] = live[q] /\ stage'[q] = stage[q]
    BY <1>2, <1>a, PushEnds DEF state
  <2> QED BY <2>1, <1>a DEF HandlesFit, At
<1>3. ASSUME NEW p \in Project, createBareRepository(p)
      PROVE  HandlesFit'
  <2>1. /\ live' = [live EXCEPT ![p] = 1] /\ live[p] = 0
        /\ UNCHANGED <<stage, handle, entries, job>>
    BY <1>3, <1>a DEF createBareRepository, Names, Hosted
  <2> QED BY <2>1, <1>a DEF HandlesFit, At
<1>4. ASSUME NEW p \in Project, NEW dies \in BOOLEAN, removeBareRepository(p, dies)
      PROVE  HandlesFit'
  <2>1. /\ live' = [live EXCEPT ![p] = 0]
        /\ handle' = [handle EXCEPT ![p] = IF @ = "live" THEN "none" ELSE @]
        /\ UNCHANGED <<stage, entries, job>>
    BY <1>4 DEF removeBareRepository, state
  <2> QED BY <2>1, <1>a DEF HandlesFit, At
<1>5. CASE provision
  BY <1>5 DEF provision, HandlesFit
<1>6. CASE restoreStarts
  <2>1. entries = {} /\ UNCHANGED <<live, handle>>
    BY <1>6 DEF restoreStarts, Startable, repos
  <2>2. \A p \in Project : handle'[p] # "stage"
    BY <2>1, <1>a DEF HandlesFit
  <2> QED BY <2>1, <2>2, <1>a DEF HandlesFit
<1>7. CASE stagingFails \/ restoreEnds
  <2>1. /\ UNCHANGED <<live, handle>>
        /\ job.at \in {"install", "metadata"}
    BY <1>7 DEF stagingFails, restoreEnds, At, repos
  <2>2. \A p \in Project : handle'[p] # "stage"
    BY <2>1, <1>c
  <2> QED BY <2>1, <2>2, <1>a DEF HandlesFit
<1>8. ASSUME NEW p \in Project, publishDirectory(p)
      PROVE  HandlesFit'
  <2>1. /\ live' = [live EXCEPT ![p] = stage[p]] /\ live[p] = 0 /\ handle' = handle
        /\ job.at = "install"
    BY <1>8, <1>a DEF publishDirectory, Names, Hosted, At
  <2>2. \A q \in Project : handle'[q] # "stage"
    BY <2>1, <1>c
  <2>3. handle[p] # "live"
    BY <2>1, <1>a DEF HandlesFit
  <2> QED BY <2>1, <2>2, <2>3, <1>a DEF HandlesFit
<1>9. ASSUME NEW p \in Project, undoRepository(p)
      PROVE  HandlesFit'
  <2>1. /\ live' = [live EXCEPT ![p] = 0] /\ stage' = [stage EXCEPT ![p] = live[p]]
        /\ handle' = [handle EXCEPT ![p] = IF @ = "live" THEN "stage" ELSE @]
        /\ entries' = entries
    BY <1>9 DEF undoRepository, state
  <2>2. "staging" \in entries
    BY <1>9, <1>a DEF undoRepository, Restoring, Undoing
  <2>3. /\ job.at = "undo" /\ job'.at = "undo" /\ p \in job.done
        /\ job'.done = job.done \ {p}
    BY <1>9, <1>a, RestoreMoves
  <2>4. handle[p] # "stage"
    BY <2>3, <1>a DEF HandlesFit, At
  <2> QED BY <2>1, <2>2, <2>3, <2>4, <1>a DEF HandlesFit, At
<1>10. CASE repositoriesInstalled \/ installFails \/ keepsStage
            \/ \E p \in Project : crash(p)
  <2>1. UNCHANGED <<handle, live, stage, entries>>
    BY <1>10 DEF repositoriesInstalled, installFails, keepsStage, crash, repos, state
  <2>2. job'.at = "idle" \/ job.at \in {"install", "metadata"}
    BY <1>10, <1>a, RestoreMoves
  <2> QED BY <2>1, <2>2, <1>b, <1>c
<1>11. ASSUME NEW e \in Supported, publishEntry(e)
       PROVE  HandlesFit'
  <2>1. UNCHANGED <<handle, live, stage>> /\ entries \subseteq entries' /\ job.at = "metadata"
        /\ job'.at = "metadata"
    BY <1>11, <1>a, RestoreMoves DEF publishEntry, repos
  <2> QED BY <2>1, <1>b, <1>c
<1>12. ASSUME NEW x, (undoEntry(x) /\ x \in Supported) \/ undoFails(x)
       PROVE  HandlesFit'
  <2>1. /\ UNCHANGED <<handle, live, stage>>
        /\ "staging" \in entries => "staging" \in entries'
    BY <1>12 DEF undoEntry, undoFails, repos, state, Supported
  <2>2. /\ job'.at = "undo" /\ job.at = "undo" /\ job'.done \subseteq job.done
    BY <1>12, <1>a, RestoreMoves
  <2> QED BY <2>1, <2>2, <1>a DEF HandlesFit, At
<1>13. CASE Backup
  <2>1. /\ UNCHANGED <<handle, live, stage, entries>>
        /\ job'.at \in {"before", "clone", "compare", "after", "idle"}
    BY <1>13, <1>a, BackupKeeps DEF repos, state
  <2> QED BY <2>1, <1>b
<1>14. ASSUME \/ \E p \in Project : appendHostedStateEvent(p) \/ registerHostedCheckout(p)
              \/ sweepOrphanProjectMetadata \/ recordRuntimeComponent
              \/ UNCHANGED vars
       PROVE  HandlesFit'
  BY <1>14, <1>d DEF appendHostedStateEvent, registerHostedCheckout, vars,
     sweepOrphanProjectMetadata, recordRuntimeComponent, repos, state
<1> QED BY <1>1, <1>2, <1>3, <1>4, <1>5, <1>6, <1>7, <1>8, <1>9, <1>10, <1>11, <1>12, <1>13,
           <1>14 DEF Next, Clients, Operators, Restore

(* Nothing is staged without a staging directory, and what is published    *)
(* fits itself.                                                            *)
LEMMA StageStep ==
  ASSUME RecoveryInv, [Next]_vars
  PROVE  StageFits'
<1>a. TypeOK /\ HandlesFit /\ StageFits /\ Restoring
  BY DEF RecoveryInv
<1>b. ASSUME stage' = stage \/ stage' = Nothing,
             "staging" \in entries => "staging" \in entries'
      PROVE  StageFits'
  BY <1>b, <1>a DEF StageFits
<1>c. ASSUME "staging" \in entries'
      PROVE  StageFits'
  BY <1>c DEF StageFits
<1>1. ASSUME NEW p \in Project, finishPush(p)
      PROVE  StageFits'
  <2>1. CASE handle[p] = "stage"
    BY <1>1, <2>1, <1>a, <1>c DEF HandlesFit, finishPush, state
  <2>2. CASE handle[p] = "live"
    BY <1>1, <2>2, <1>b DEF finishPush, state
  <2> QED BY <2>1, <2>2, <1>1, <1>a, PushEnds
<1>2. CASE provision \/ stagingFails
  BY <1>2 DEF provision, stagingFails, StageFits
<1>3. CASE restoreStarts
  BY <1>3, <1>c DEF restoreStarts
<1>4. CASE restoreEnds
  <2>1. stage' = Nothing
    BY <1>4, <1>a DEF restoreEnds, Restoring, Publishing
  <2> QED BY <2>1 DEF StageFits
<1>5. ASSUME NEW p \in Project, publishDirectory(p) \/ undoRepository(p)
      PROVE  StageFits'
  <2>1. "staging" \in entries /\ entries' = entries
    BY <1>5, <1>a DEF publishDirectory, undoRepository, Restoring, Installing, Undoing, state
  <2> QED BY <2>1, <1>c
<1>6. CASE Backup
  BY <1>6, <1>a, <1>b, BackupKeeps DEF state
<1>7. ASSUME NEW e \in Supported, publishEntry(e) \/ undoEntry(e)
      PROVE  StageFits'
  BY <1>7, <1>b DEF publishEntry, undoEntry, Supported
<1>8. ASSUME \/ \E p \in Project : \/ openPush(p) \/ crash(p) \/ appendHostedStateEvent(p)
                                  \/ Operators(p)
             \/ sweepOrphanProjectMetadata \/ recordRuntimeComponent
             \/ repositoriesInstalled \/ installFails \/ keepsStage \/ \E x : undoFails(x)
             \/ UNCHANGED vars
      PROVE  StageFits'
  <2>1. stage' = stage /\ entries \subseteq entries'
    BY <1>8 DEF openPush, crash, appendHostedStateEvent, Operators, createBareRepository,
       registerHostedCheckout, removeBareRepository, sweepOrphanProjectMetadata,
       recordRuntimeComponent, repositoriesInstalled, installFails, keepsStage, undoFails,
       vars, state
  <2> QED BY <2>1, <1>b
<1>9. ASSUME NEW p \in Project, Clients(p) \/ Operators(p) \/ crash(p)
      PROVE  StageFits'
  BY <1>9, <1>1, <1>8 DEF Clients
<1>10. CASE Restore
  BY <1>10, <1>2, <1>3, <1>4, <1>5, <1>7, <1>8 DEF Restore
<1> QED BY <1>2, <1>6, <1>8, <1>9, <1>10 DEF Next

LEMMA BackupStep ==
  ASSUME RecoveryInv, [Next]_vars
  PROVE  BackupFits'
<1>a. TypeOK /\ BackupFits /\ Capture
  BY DEF RecoveryInv
<1>1. CASE backupEnds
  <2>1. job.at = "after" /\ job.todo = {} /\ backup' = job.copy
    BY <1>1 DEF backupEnds, At
  <2>2. Fits(job.copy.entries, job.copy.reg, job.copy.ev)
    BY <2>1, <1>a DEF Capture, Mirroring
  <2>3. PICK w \in seen : Agrees(w)
    BY <2>1, <1>a DEF Capture, Mirroring
  <2>4. \A p \in Project : job.copy.ev[p] <= job.copy.tip[p]
    BY <2>1, <2>3 DEF Agrees, At
  <2> QED BY <2>1, <2>2, <2>4 DEF BackupFits, Fits
<1>2. CASE backup' = backup
  BY <1>2, <1>a DEF BackupFits, Fits
<1>3. backup' = backup \/ backupEnds
  <2>1. CASE Backup
    BY <2>1, <1>a, BackupKeeps
  <2>2. CASE Restore
    BY <2>2 DEF Restore, restoreStarts, stagingFails, publishDirectory, undoRepository,
       undoFails, repositoriesInstalled, publishEntry, undoEntry, installFails, keepsStage,
       restoreEnds
  <2>3. ASSUME NEW p \in Project, Clients(p) \/ Operators(p) \/ crash(p)
        PROVE  backup' = backup
    BY <2>3 DEF Clients, Operators, openPush, finishPush, appendHostedStateEvent, crash,
       createBareRepository, registerHostedCheckout, removeBareRepository
  <2> QED BY <2>1, <2>2, <2>3 DEF Next, sweepOrphanProjectMetadata, recordRuntimeComponent,
          provision, vars
<1> QED BY <1>1, <1>2, <1>3


(* What a backup may see of the other steps: pushes that end, and a daemon *)
(* that starts.                                                            *)
LEMMA BesideBackup ==
  ASSUME RecoveryInv, [Next]_vars, Capturing, Capturing'
  PROVE  \/ Backup
         \/ UNCHANGED vars
         \/ \E p \in Project : openPush(p) \/ finishPush(p)
         \/ recordRuntimeComponent
<1>a. TypeOK /\ job.at \in {"before", "clone", "compare", "after"}
      /\ job'.at \in {"before", "clone", "compare", "after"}
  BY DEF RecoveryInv, Capturing
<1>1. ASSUME NEW p \in Project, crash(p)
      PROVE  FALSE
  BY <1>1, <1>a, RestoreMoves
<1>2. ASSUME \/ \E p \in Project : appendHostedStateEvent(p) \/ Operators(p)
             \/ sweepOrphanProjectMetadata \/ provision
      PROVE  FALSE
  BY <1>2, <1>a, Unlocked
<1>3. ASSUME Restore
      PROVE  FALSE
  <2>1. CASE restoreStarts \/ stagingFails \/ restoreEnds \/ keepsStage
             \/ repositoriesInstalled \/ installFails
    BY <2>1, <1>a, RestoreMoves
  <2>2. ASSUME NEW x, x \in Project, publishDirectory(x) \/ undoRepository(x) \/ undoFails(x)
        PROVE  FALSE
    BY <2>2, <1>a, RestoreMoves
  <2>3. ASSUME NEW x, x \in Supported, publishEntry(x) \/ undoEntry(x) \/ undoFails(x)
        PROVE  FALSE
    BY <2>3, <1>a, RestoreMoves
  <2> QED BY <1>3, <2>1, <2>2, <2>3 DEF Restore
<1> QED BY <1>1, <1>2, <1>3 DEF Next, Clients

(* A backup begins with its first fingerprints. *)
LEMMA CaptureBegins ==
  ASSUME RecoveryInv, [Next]_vars, Capturing'
  PROVE  Capturing \/ backupStarts
<1>a. TypeOK /\ job'.at \in {"before", "clone", "compare", "after"}
  BY DEF RecoveryInv, Capturing
<1>1. CASE Restore
  <2>1. CASE restoreStarts \/ stagingFails \/ restoreEnds \/ keepsStage
             \/ repositoriesInstalled \/ installFails
    BY <2>1, <1>a, RestoreMoves
  <2>2. ASSUME NEW x, x \in Project, publishDirectory(x) \/ undoRepository(x) \/ undoFails(x)
        PROVE  FALSE
    BY <2>2, <1>a, RestoreMoves
  <2>3. ASSUME NEW x, x \in Supported, publishEntry(x) \/ undoEntry(x) \/ undoFails(x)
        PROVE  FALSE
    BY <2>3, <1>a, RestoreMoves
  <2> QED BY <1>1, <2>1, <2>2, <2>3 DEF Restore
<1>2. CASE Backup
  BY <1>2 DEF Backup, fingerprint, copyTree, mirrorClones, mirrorCompares, mirrorsEnd,
     comparesAgain, backupEnds, At, Capturing
<1>3. ASSUME \/ \E p \in Project : appendHostedStateEvent(p) \/ Operators(p)
             \/ sweepOrphanProjectMetadata \/ provision
      PROVE  FALSE
  BY <1>3, <1>a, Unlocked
<1>4. ASSUME NEW p \in Project, crash(p)
      PROVE  FALSE
  BY <1>4, <1>a, RestoreMoves
<1>5. ASSUME \/ UNCHANGED vars \/ recordRuntimeComponent
             \/ \E p \in Project : openPush(p) \/ finishPush(p)
      PROVE  job' = job
  BY <1>5 DEF vars, recordRuntimeComponent, openPush, finishPush
<1> QED BY <1>a, <1>1, <1>2, <1>3, <1>4, <1>5 DEF Next, Clients, Capturing

(* The first fingerprints. *)
LEMMA FingerprintingStep ==
  ASSUME RecoveryInv, [Next]_vars
  PROVE  Fingerprinting'
<1>a. /\ TypeOK /\ HandlesFit /\ Fingerprinting
      /\ live \in [Project -> Nat] /\ job \in JobType
      /\ job.before \in [Project -> Nat]
  BY Numbers DEF RecoveryInv, Capture
<1> SUFFICES ASSUME job'.at = "before"
             PROVE  /\ \A p \in Project : job'.before[p] <= live'[p]
                    /\ Names' \cap reserved' \subseteq job'.todo
                    /\ job'.copy.tip = Nothing
  BY DEF Fingerprinting, At
<1>1. CASE backupStarts
  <2>1. job' = [Idle EXCEPT !.at = "before", !.todo = Names] /\ UNCHANGED repos
    BY <1>1 DEF backupStarts
  <2>2. job'.before = Nothing /\ job'.todo = Names /\ job'.copy.tip = Nothing
    BY <2>1 DEF Idle, Empty
  <2> QED BY <2>1, <2>2, <1>a DEF Nothing, repos, Names, Hosted
<1>2. ASSUME NEW p \in Project, fingerprint(p)
      PROVE  /\ \A q \in Project : job'.before[q] <= live'[q]
             /\ Names' \cap reserved' \subseteq job'.todo
             /\ job'.copy.tip = Nothing
  <2>1. p \notin reserved /\ job.at = "before"
    BY <1>2, IdleType DEF fingerprint, Stops, At
  <2>2. job' = [job EXCEPT !.todo = job.todo \ {p}, !.before = [job.before EXCEPT ![p] = live[p]]]
        /\ UNCHANGED repos
    BY <1>2, <2>1, <1>a DEF fingerprint, JobType
  <2>3. /\ job'.before = [job.before EXCEPT ![p] = live[p]]
        /\ job'.todo = job.todo \ {p} /\ job'.copy = job.copy
    BY <2>2, <1>a DEF JobType
  <2> QED BY <2>1, <2>2, <2>3, <1>a DEF repos, Fingerprinting, At, Names, Hosted
<1>3. ASSUME job.at = "before", ~backupStarts, \A p \in Project : ~fingerprint(p)
      PROVE  /\ \A p \in Project : job'.before[p] <= live'[p]
             /\ Names' \cap reserved' \subseteq job'.todo
             /\ job'.copy.tip = Nothing
  <2>1. CASE Backup
    <3>1. copyTree
      BY <2>1, <1>3 DEF Backup, mirrorClones, mirrorCompares, comparesAgain, mirrorsEnd,
         backupEnds, At
    <3>2. job'.at # "before"
      BY <3>1, <1>a, IdleType DEF copyTree, Stops, JobType
    <3> QED BY <3>2
  <2>2. ASSUME NEW p \in Project, finishPush(p)
        PROVE  /\ \A q \in Project : job'.before[q] <= live'[q]
               /\ Names' \cap reserved' \subseteq job'.todo
               /\ job'.copy.tip = Nothing
    <3>1. /\ UNCHANGED <<reserved, job>> /\ Names' = Names
          /\ \A q \in Project : live'[q] >= live[q]
      BY <2>2, <1>a, PushEnds
    <3>2. live' \in [Project -> Nat]
      BY <2>2, <1>a DEF finishPush
    <3> QED BY <3>1, <3>2, <1>a, <1>3 DEF Fingerprinting, At
  <2>3. ASSUME \/ UNCHANGED vars \/ recordRuntimeComponent
               \/ \E p \in Project : openPush(p)
        PROVE  /\ \A p \in Project : job'.before[p] <= live'[p]
               /\ Names' \cap reserved' \subseteq job'.todo
               /\ job'.copy.tip = Nothing
    <3>1. UNCHANGED <<live, reserved, job>>
      BY <2>3 DEF vars, recordRuntimeComponent, openPush, repos
    <3> QED BY <3>1, <1>a, <1>3 DEF Fingerprinting, At, Names, Hosted
  <2> QED BY <2>1, <2>2, <2>3, <1>3, BesideBackup DEF Capturing
<1>4. job.at = "before" \/ backupStarts
  <2>1. CASE Backup
    <3>1. ASSUME NEW p \in Project, fingerprint(p)
          PROVE  job.at = "before"
      BY <3>1 DEF fingerprint, At
    <3>2. ASSUME NEW p \in Project, mirrorClones(p) \/ mirrorCompares(p) \/ comparesAgain(p)
          PROVE  FALSE
      BY <3>2, <1>a, IdleType DEF mirrorClones, mirrorCompares, comparesAgain, Visited, Stops,
         At, JobType
    <3>3. CASE copyTree \/ mirrorsEnd \/ backupEnds
      BY <3>3, <1>a, IdleType DEF copyTree, mirrorsEnd, backupEnds, Moves, Stops, At, JobType
    <3> QED BY <2>1, <3>1, <3>2, <3>3 DEF Backup
  <2>2. ASSUME \/ UNCHANGED vars \/ recordRuntimeComponent
               \/ \E p \in Project : openPush(p) \/ finishPush(p)
        PROVE  job' = job
    BY <2>2 DEF vars, recordRuntimeComponent, openPush, finishPush
  <2> QED BY <2>1, <2>2, BesideBackup, CaptureBegins DEF Capturing
<1> QED BY <1>1, <1>2, <1>3, <1>4


(* The moment that a running backup agrees with. *)
LEMMA MirroringStep ==
  ASSUME RecoveryInv, [Next]_vars
  PROVE  Mirroring'
<1>a. /\ TypeOK /\ HandlesFit /\ MetadataFits /\ Capture
      /\ live \in [Project -> Nat] /\ ev \in [Project -> Nat] /\ job \in JobType
      /\ job.before \in [Project -> Nat] /\ job.copy.tip \in [Project -> Nat]
      /\ job.copy.ev \in [Project -> Nat] /\ seen \subseteq [Project -> Nat]
      /\ job.copy \in Data
  BY Numbers DEF RecoveryInv, JobType
<1> SUFFICES ASSUME job'.at \in {"clone", "compare", "after"}
             PROVE  /\ "staging" \notin entries' /\ reserved' = {}
                    /\ Fits(job'.copy.entries, job'.copy.reg, job'.copy.ev)
                    /\ \E w \in seen' : Agrees(w)'
  BY DEF Mirroring, Fits
<1>b. Capturing'
  BY DEF Capturing
<1>1. CASE copyTree
  <2>1. /\ job.at = "before" /\ job.todo = {} /\ ValidState
        /\ UNCHANGED <<live, reserved, entries, seen>>
    BY <1>1, IdleType DEF copyTree, Stops, At, repos, state
  <2>2. job' = [job EXCEPT !.at = "clone", !.todo = Names,
                           !.copy = [job.copy EXCEPT !.entries = entries, !.reg = reg, !.ev = ev]]
    BY <1>1, <2>1, <1>a DEF copyTree, JobType, Data
  <2>3. /\ job'.at = "clone" /\ job'.todo = Names /\ job'.before = job.before
        /\ job'.copy.entries = entries /\ job'.copy.reg = reg /\ job'.copy.ev = ev
        /\ job'.copy.tip = job.copy.tip
    BY <2>2, <1>a DEF JobType, Data
  <2>4. /\ \A p \in Project : job.before[p] <= live[p]
        /\ Names \cap reserved = {} /\ job.copy.tip = Nothing
    BY <2>1, <1>a DEF Capture, Fingerprinting, At
  <2>5. reserved = {}
    BY <2>4 DEF Names
  <2>6. \A p \in Project : /\ p \in reg => live[p] # 0
                           /\ ev[p] <= live[p]
    BY <2>1, <2>5, <1>a DEF ValidState, HasMetadata, Names, Hosted, MetadataFits
  <2>7. "staging" \notin entries
    BY <2>1 DEF ValidState, Supported
  <2>8. Agrees(live)'
    <3>1. \A p \in Project : live[p] # 0 => p \in Names
      BY DEF Names, Hosted
    <3> QED BY <2>1, <2>3, <2>4, <2>6, <3>1, <1>a DEF Agrees, At, Nothing
  <2>9. live \in seen'
    BY <2>1, <1>a DEF Capture, Capturing
  <2>10. Agrees(live)' => \E w \in seen' : Agrees(w)'
    <3>1. live' = live
      BY <2>1
    <3> QED BY <2>9, <3>1 DEF Agrees
  <2>11. Fits(job'.copy.entries, job'.copy.reg, job'.copy.ev)
    BY <2>3, <1>a DEF MetadataFits, Fits
  <2> QED BY <2>1, <2>5, <2>7, <2>8, <2>10, <2>11
<1>2. CASE ~copyTree
  <2>a. job.at \in {"clone", "compare", "after"}
    <3>1. job.at # "before"
      <4>1. SUFFICES ASSUME job.at = "before"
                     PROVE  FALSE
        OBVIOUS
      <4>2. Capturing
        BY <4>1 DEF Capturing
      <4>3. CASE Backup
        BY <4>3, <4>1, <1>2, <1>a, IdleType DEF Backup, backupStarts, fingerprint,
           mirrorClones, mirrorCompares, comparesAgain, mirrorsEnd, backupEnds, Stops, At,
           Locked, JobType
      <4>4. ASSUME \/ UNCHANGED vars \/ recordRuntimeComponent
                   \/ \E p \in Project : openPush(p) \/ finishPush(p)
            PROVE  job' = job
        BY <4>4 DEF vars, recordRuntimeComponent, openPush, finishPush
      <4> QED BY <4>1, <4>2, <4>3, <4>4, <1>b, BesideBackup
    <3>2. ~backupStarts
      BY DEF backupStarts, Idle
    <3> QED BY <3>1, <3>2, <1>b, CaptureBegins DEF Capturing
  <2>b. /\ "staging" \notin entries /\ reserved = {}
        /\ Fits(job.copy.entries, job.copy.reg, job.copy.ev)
    BY <2>a, <1>a DEF Capture, Mirroring
  <2>c. PICK w \in seen : Agrees(w)
    BY <2>a, <1>a DEF Capture, Mirroring
  <2>d. /\ w \in [Project -> Nat]
        /\ \A p \in Project :
             /\ w[p] <= live[p] /\ (live[p] # 0 => w[p] # 0)
             /\ job.before[p] <= w[p]
             /\ p \in job.copy.reg => w[p] # 0
             /\ job.copy.ev[p] <= w[p]
             /\ job.copy.tip[p] # 0 => w[p] <= job.copy.tip[p] /\ job.copy.tip[p] <= live[p]
             /\ live[p] # 0 /\ (job.at = "after" \/ p \notin job.todo) => job.copy.tip[p] # 0
             /\ job.at = "after" /\ p \notin job.todo => job.copy.tip[p] = w[p]
    BY <2>c, <1>a DEF Agrees, At
  <2>e. ASSUME "staging" \notin entries', UNCHANGED reserved, UNCHANGED <<job.copy.entries,
               job.copy.reg, job.copy.ev, job.before>>, w \in seen',
               \A p \in Project :
                 /\ w[p] <= live'[p] /\ (live'[p] # 0 => w[p] # 0)
                 /\ job'.copy.tip[p] # 0 => w[p] <= job'.copy.tip[p] /\ job'.copy.tip[p] <= live'[p]
                 /\ live'[p] # 0 /\ (job'.at = "after" \/ p \notin job'.todo) => job'.copy.tip[p] # 0
                 /\ job'.at = "after" /\ p \notin job'.todo => job'.copy.tip[p] = w[p]
        PROVE  /\ "staging" \notin entries' /\ reserved' = {}
               /\ Fits(job'.copy.entries, job'.copy.reg, job'.copy.ev)
               /\ \E v \in seen' : Agrees(v)'
    <3>1. Agrees(w)'
      BY <2>d, <2>e DEF Agrees, At
    <3> QED BY <3>1, <2>b, <2>e
  <2>1. ASSUME NEW p \in Project, finishPush(p)
        PROVE  /\ "staging" \notin entries' /\ reserved' = {}
               /\ Fits(job'.copy.entries, job'.copy.reg, job'.copy.ev)
               /\ \E v \in seen' : Agrees(v)'
    <3>1. /\ UNCHANGED <<reserved, entries, job>>
          /\ \A q \in Project : live'[q] >= live[q] /\ (live'[q] = 0 <=> live[q] = 0)
      BY <2>1, <1>a, PushEnds DEF state
    <3>2. live' \in [Project -> Nat]
      BY <2>1, <1>a DEF finishPush
    <3>3. w \in seen'
      BY <2>1, <2>a, <2>c DEF finishPush, Witness, Locked
    <3> QED BY <3>1, <3>2, <3>3, <2>a, <2>b, <2>d, <2>e, <1>a
  <2>2. ASSUME \/ UNCHANGED vars \/ recordRuntimeComponent
               \/ \E p \in Project : openPush(p)
        PROVE  /\ "staging" \notin entries' /\ reserved' = {}
               /\ Fits(job'.copy.entries, job'.copy.reg, job'.copy.ev)
               /\ \E v \in seen' : Agrees(v)'
    <3>1. UNCHANGED <<reserved, live, job, seen>> /\ entries' \subseteq entries \cup {"runtime"}
      BY <2>2 DEF vars, recordRuntimeComponent, openPush, repos, state
    <3> QED BY <3>1, <2>b, <2>c, <2>d, <2>e
  <2>3. ASSUME NEW p \in Project, mirrorClones(p)
        PROVE  /\ "staging" \notin entries' /\ reserved' = {}
               /\ Fits(job'.copy.entries, job'.copy.reg, job'.copy.ev)
               /\ \E v \in seen' : Agrees(v)'
    <3>1. /\ UNCHANGED <<reserved, live, entries, seen>> /\ p \in job.todo
          /\ job' = [job EXCEPT !.copy = [job.copy EXCEPT !.tip = [job.copy.tip EXCEPT ![p] = live[p]]],
                                !.at = "compare"]
      BY <2>3, <1>a DEF mirrorClones, repos, state, JobType, Data
    <3>2. /\ job'.at = "compare" /\ job'.todo = job.todo /\ job'.before = job.before
          /\ job'.copy.entries = job.copy.entries /\ job'.copy.reg = job.copy.reg
          /\ job'.copy.ev = job.copy.ev
          /\ job'.copy.tip = [job.copy.tip EXCEPT ![p] = live[p]]
      BY <3>1, <1>a DEF JobType, Data
    <3> QED BY <3>1, <3>2, <2>b, <2>c, <2>d, <2>e, <1>a
  <2>4. ASSUME NEW p \in Project, mirrorCompares(p)
        PROVE  /\ "staging" \notin entries' /\ reserved' = {}
               /\ Fits(job'.copy.entries, job'.copy.reg, job'.copy.ev)
               /\ \E v \in seen' : Agrees(v)'
    <3>1. /\ UNCHANGED <<reserved, live, entries, seen>> /\ job.copy.tip[p] # 0
          /\ job' = [job EXCEPT !.at = "clone", !.todo = @ \ {p}]
      BY <2>4, IdleType DEF mirrorCompares, Stops, repos, state
    <3>2. /\ job'.at = "clone" /\ job'.todo = job.todo \ {p} /\ job'.before = job.before
          /\ job'.copy = job.copy
      BY <3>1, <1>a DEF JobType
    <3> QED BY <3>1, <3>2, <2>a, <2>b, <2>c, <2>d, <2>e
  <2>5. ASSUME mirrorsEnd
        PROVE  /\ "staging" \notin entries' /\ reserved' = {}
               /\ Fits(job'.copy.entries, job'.copy.reg, job'.copy.ev)
               /\ \E v \in seen' : Agrees(v)'
    <3>1. /\ UNCHANGED <<reserved, live, entries, seen>> /\ job.todo = {}
          /\ job' = [job EXCEPT !.at = "after", !.todo = Names]
      BY <2>5 DEF mirrorsEnd, Moves, repos, state
    <3>2. /\ job'.at = "after" /\ job'.todo = Names /\ job'.before = job.before
          /\ job'.copy = job.copy
      BY <3>1, <1>a DEF JobType
    <3>3. \A p \in Project : p \notin Names => live[p] = 0
      BY DEF Names, Hosted
    <3>4. \A p \in Project : live[p] = 0 => w[p] = 0 /\ job.copy.tip[p] = 0
      BY <2>d, <1>a
    <3> QED BY <3>1, <3>2, <3>3, <3>4, <2>b, <2>c, <2>d, <2>e
  <2>6. ASSUME NEW p \in Project, comparesAgain(p)
        PROVE  /\ "staging" \notin entries' /\ reserved' = {}
               /\ Fits(job'.copy.entries, job'.copy.reg, job'.copy.ev)
               /\ \E v \in seen' : Agrees(v)'
    <3>1. /\ UNCHANGED <<reserved, live, entries, seen>> /\ live[p] = job.before[p]
          /\ job' = [job EXCEPT !.todo = @ \ {p}] /\ job.at = "after"
      BY <2>6, IdleType DEF comparesAgain, Visited, Stops, At, repos, state
    <3>2. /\ job'.at = "after" /\ job'.todo = job.todo \ {p} /\ job'.before = job.before
          /\ job'.copy = job.copy
      BY <3>1, <1>a DEF JobType
    <3>3. job.copy.tip[p] = w[p]
      <4>1. w[p] = live[p]
        BY <3>1, <2>d, <1>a
      <4>2. live[p] = 0 => job.copy.tip[p] = 0
        BY <2>d, <1>a
      <4>3. live[p] # 0 => job.copy.tip[p] = live[p]
        BY <4>1, <3>1, <2>d, <1>a
      <4> QED BY <4>1, <4>2, <4>3
    <3> QED BY <3>1, <3>2, <3>3, <2>b, <2>c, <2>d, <2>e
  <2>7. ~backupStarts /\ ~backupEnds /\ \A p \in Project : ~fingerprint(p)
    <3>1. ~backupStarts
      BY <2>a DEF backupStarts, Locked
    <3>2. ~backupEnds
      BY IdleType DEF backupEnds, Stops
    <3>3. \A p \in Project : ~fingerprint(p)
      BY <2>a DEF fingerprint, At
    <3> QED BY <3>1, <3>2, <3>3
  <2>8. CASE Backup
    BY <2>8, <2>3, <2>4, <2>5, <2>6, <2>7, <1>2 DEF Backup
  <2> QED BY <2>1, <2>2, <2>8, <2>a, <1>b, BesideBackup DEF Capturing
<1> QED BY <1>1, <1>2

(* The present is a moment that a running backup may mirror. *)
LEMMA CaptureStep ==
  ASSUME RecoveryInv, [Next]_vars
  PROVE  Capture'
<1>a. TypeOK /\ Capture /\ job \in JobType
  BY Numbers DEF RecoveryInv
<1>1. ASSUME Capturing'
      PROVE  live' \in seen'
  <2>1. CASE backupStarts
    BY <2>1 DEF backupStarts, repos
  <2>2. ASSUME NEW p \in Project, finishPush(p), Capturing
        PROVE  live' \in seen'
    BY <2>2 DEF finishPush, Witness, Capturing, Locked
  <2>3. ASSUME Capturing, \/ UNCHANGED vars \/ recordRuntimeComponent
                          \/ \E p \in Project : openPush(p)
        PROVE  live' \in seen'
    BY <2>3, <1>a DEF vars, recordRuntimeComponent, openPush, repos, Capture
  <2>4. ASSUME Capturing, Backup
        PROVE  live' \in seen'
    <3>1. live' = live /\ live \in seen
      BY <2>4, <1>a, BackupKeeps DEF repos, Capture
    <3>2. ~Stops
      BY <1>1, IdleType DEF Stops, Capturing
    <3>3. seen' = seen \/ backupStarts
      BY <2>4, <3>2 DEF Backup, fingerprint, copyTree, mirrorClones, mirrorCompares,
         mirrorsEnd, comparesAgain, backupEnds
    <3> QED BY <3>1, <3>3, <2>1
  <2> QED BY <1>1, <2>1, <2>2, <2>3, <2>4, CaptureBegins, BesideBackup
<1> QED BY <1>1, FingerprintingStep, MirroringStep DEF Capture


(* While a restore holds the locks, the steps beside it open and end       *)
(* pushes, and note that a daemon started.                                 *)
LEMMA BesideRestore ==
  ASSUME RecoveryInv, [Next]_vars, job'.at \in {"install", "metadata", "undo"}
  PROVE  \/ Restore
         \/ UNCHANGED vars
         \/ \E p \in Project : openPush(p) \/ finishPush(p)
         \/ recordRuntimeComponent
<1>a. TypeOK
  BY DEF RecoveryInv
<1>1. ~Backup
  BY <1>a, BackupKeeps
<1>2. ASSUME \/ \E p \in Project : appendHostedStateEvent(p) \/ Operators(p)
             \/ sweepOrphanProjectMetadata \/ provision
      PROVE  FALSE
  BY <1>2, <1>a, Unlocked
<1>3. ASSUME NEW p \in Project, crash(p)
      PROVE  FALSE
  BY <1>3, <1>a, RestoreMoves
<1> QED BY <1>1, <1>2, <1>3 DEF Next, Clients

(* What those leave alone: a push only adds commits. *)
LEMMA BesideKeeps ==
  ASSUME RecoveryInv,
         \/ UNCHANGED vars
         \/ \E p \in Project : openPush(p) \/ finishPush(p)
         \/ recordRuntimeComponent
  PROVE  /\ UNCHANGED <<job, backup, reg, ev>>
         /\ entries' \in {entries, entries \cup {"runtime"}}
         /\ \A p \in Project : /\ live'[p] >= live[p] /\ (live'[p] = 0 <=> live[p] = 0)
                               /\ live'[p] \in Nat /\ stage'[p] \in Nat
                               /\ handle[p] # "stage" => stage'[p] = stage[p]
         /\ (\A p \in Project : handle[p] # "stage") => stage' = stage
         /\ Hosted' = Hosted
<1>a. /\ TypeOK /\ HandlesFit
      /\ live \in [Project -> Nat] /\ stage \in [Project -> Nat]
  BY Numbers DEF RecoveryInv
<1>1. ASSUME NEW p \in Project, finishPush(p)
      PROVE  /\ UNCHANGED <<job, backup, reg, ev, entries>>
             /\ \A q \in Project : /\ live'[q] >= live[q] /\ (live'[q] = 0 <=> live[q] = 0)
                                   /\ live'[q] \in Nat /\ stage'[q] \in Nat
                                   /\ handle[q] # "stage" => stage'[q] = stage[q]
             /\ (\A q \in Project : handle[q] # "stage") => stage' = stage
  <2>1. live' \in [Project -> Nat] /\ stage' \in [Project -> Nat]
    BY <1>1, <1>a DEF finishPush
  <2>2. /\ UNCHANGED <<job, backup, reg, ev, entries>>
        /\ \A q \in Project : /\ live'[q] >= live[q] /\ (live'[q] = 0 <=> live[q] = 0)
                              /\ q # p => stage'[q] = stage[q]
        /\ handle[p] = "live" => stage' = stage
        /\ handle[p] \in {"live", "stage"}
    BY <1>1, <1>a, PushEnds DEF state
  <2> QED BY <2>1, <2>2
<1>2. ASSUME UNCHANGED vars \/ recordRuntimeComponent \/ \E p \in Project : openPush(p)
      PROVE  /\ UNCHANGED <<job, backup, reg, ev, live, stage>>
             /\ entries' \in {entries, entries \cup {"runtime"}}
  BY <1>2 DEF vars, recordRuntimeComponent, openPush, repos, state
<1> QED BY <1>1, <1>2, <1>a DEF Hosted

(* A restore. *)
LEMMA RestoreStep ==
  ASSUME RecoveryInv, [Next]_vars
  PROVE  Restoring'
<1>a. /\ TypeOK /\ MetadataFits /\ HandlesFit /\ StageFits /\ BackupFits /\ Restoring
      /\ live \in [Project -> Nat] /\ stage \in [Project -> Nat]
      /\ job \in JobType /\ job.todo \subseteq Project \cup Supported
      /\ Project \cap Supported = {}
      /\ "runtime" \notin Supported /\ "staging" \notin Supported
  BY Numbers, JobFields, RecoveryAssumption DEF RecoveryInv, Supported
<1>b. ASSUME job.at \in {"install", "metadata", "undo"}
      PROVE  /\ backup # NoBackup /\ backup.tip \in [Project -> Nat]
             /\ backup.entries \subseteq Supported
             /\ \A p \in Project : p \in BackedUp <=> backup.tip[p] # 0
             /\ BackedUp \subseteq Project
  BY <1>a, <1>b, Numbers DEF Restoring, BackedUp
<1>c. job.at \in {"install", "metadata"} => \A p \in Project : handle[p] # "stage"
  BY <1>a DEF HandlesFit
<1>d. UNCHANGED backup => BackedUp' = BackedUp
  BY DEF BackedUp
<1> SUFFICES ASSUME job'.at \in {"install", "metadata", "undo"}
             PROVE  Restoring'
  BY DEF Restoring, Installing, Publishing, Undoing, At
<1>1. CASE restoreStarts
  <2>1. /\ backup # NoBackup /\ entries = {} /\ BackedUp \cap Names = {} /\ stage' = backup.tip
        /\ entries' = {"staging"}
        /\ UNCHANGED <<live, reg, ev, backup>>
    BY <1>1 DEF restoreStarts, Startable, repos
  <2>2. job'.at = "install" /\ job'.todo = BackedUp /\ job'.done = {}
    BY <1>1, <1>a, RestoreMoves
  <2>3. reg = {} /\ ev = Nothing
    BY <2>1, <1>a DEF MetadataFits, Fits
  <2>4. \A p \in Project : /\ p \in BackedUp => live[p] = 0
                           /\ p \notin BackedUp => backup.tip[p] = 0
    BY <2>1 DEF BackedUp, Names, Hosted
  <2>5. Installing'
    BY <2>1, <2>2, <2>3, <2>4, <1>d DEF Installing
  <2> QED BY <2>1, <2>2, <2>5 DEF Restoring, Publishing, Undoing, At
<1>2. ASSUME NEW p \in Project, publishDirectory(p)
      PROVE  Restoring'
  <2>1. /\ live' = [live EXCEPT ![p] = stage[p]] /\ stage' = [stage EXCEPT ![p] = 0]
        /\ UNCHANGED <<entries, reg, ev, backup>>
    BY <1>2 DEF publishDirectory, state
  <2>2. /\ job.at = "install" /\ job'.at = "install" /\ p \in job.todo
        /\ job'.todo = job.todo \ {p} /\ job'.done = job.done \cup {p}
    BY <1>2, <1>a, RestoreMoves
  <2>3. /\ job.todo \subseteq BackedUp /\ job.done = BackedUp \ job.todo
        /\ entries \ {"runtime"} = {"staging"} /\ reg = {} /\ ev = Nothing
        /\ \A q \in Project :
             /\ stage[q] = IF q \in job.todo THEN backup.tip[q] ELSE 0
             /\ q \in job.todo => live[q] = 0
             /\ q \in job.done => live[q] >= backup.tip[q]
    BY <2>2, <1>a DEF Restoring, Installing, At
  <2>4. backup.tip \in [Project -> Nat]
    BY <2>2, <1>b
  <2>5. \A q \in Project :
          /\ stage'[q] = IF q \in job'.todo THEN backup.tip[q] ELSE 0
          /\ q \in job'.todo => live'[q] = 0
          /\ q \in job'.done => live'[q] >= backup.tip[q]
    BY <2>1, <2>2, <2>3, <2>4, <1>a
  <2>6. job'.todo \subseteq BackedUp /\ job'.done = BackedUp \ job'.todo
    BY <2>2, <2>3
  <2>7. Installing'
    BY <2>1, <2>3, <2>5, <2>6, <1>d DEF Installing
  <2> QED BY <2>1, <2>2, <2>7, <1>b DEF Restoring, Publishing, Undoing, At
<1>3. CASE repositoriesInstalled
  <2>1. UNCHANGED <<live, stage, entries, reg, ev, backup>>
    BY <1>3 DEF repositoriesInstalled, repos, state
  <2>2. /\ job.at = "install" /\ job.todo = {} /\ job'.at = "metadata"
        /\ job'.todo = backup.entries /\ job'.done = job.done
    BY <1>3, <1>a, RestoreMoves
  <2>3. /\ job.done = BackedUp
        /\ entries \ {"runtime"} = {"staging"} /\ reg = {} /\ ev = Nothing
        /\ \A q \in Project : stage[q] = 0 /\ (q \in job.done => live[q] >= backup.tip[q])
    BY <2>2, <1>a DEF Restoring, Installing, At
  <2>4. stage = Nothing
    BY <2>3, <1>a DEF Nothing
  <2>5. InPlace' = {}
    BY <2>1, <2>2 DEF InPlace
  <2>6. \A q \in BackedUp : live[q] >= backup.tip[q]
    BY <2>3 DEF BackedUp
  <2>7. Publishing'
    BY <2>1, <2>2, <2>3, <2>4, <2>5, <2>6, <1>d DEF Publishing
  <2> QED BY <2>1, <2>2, <2>7, <1>b DEF Restoring, Installing, Undoing, At
<1>4. ASSUME NEW e \in Supported, publishEntry(e)
      PROVE  Restoring'
  <2>1. /\ UNCHANGED <<live, stage, backup>> /\ entries' = entries \cup {e}
        /\ reg' = IF e = "checkouts" THEN backup.reg ELSE reg
        /\ ev' = IF e = "events" THEN backup.ev ELSE ev
    BY <1>4 DEF publishEntry, repos
  <2>2. /\ job.at = "metadata" /\ job'.at = "metadata" /\ e \in job.todo
        /\ job'.todo = job.todo \ {e} /\ job'.done = job.done \cup {e}
    BY <1>4, <1>a, RestoreMoves
  <2>3. /\ job.todo \subseteq backup.entries /\ job.done = BackedUp \cup InPlace
        /\ entries \ {"runtime"} = {"staging"} \cup InPlace
        /\ reg = IF "checkouts" \in InPlace THEN backup.reg ELSE {}
        /\ ev = IF "events" \in InPlace THEN backup.ev ELSE Nothing
        /\ stage = Nothing
        /\ \A p \in BackedUp : live[p] >= backup.tip[p]
    BY <2>2, <1>a DEF Restoring, Publishing, At
  <2>4. InPlace' = InPlace \cup {e}
    BY <2>1, <2>2, <2>3 DEF InPlace
  <2>5. entries' \ {"runtime"} = {"staging"} \cup InPlace'
    BY <2>1, <2>3, <2>4, <1>a
  <2>6. /\ reg' = IF "checkouts" \in InPlace' THEN backup.reg ELSE {}
        /\ ev' = IF "events" \in InPlace' THEN backup.ev ELSE Nothing
    BY <2>1, <2>3, <2>4
  <2>7. job'.todo \subseteq backup.entries /\ job'.done = BackedUp \cup InPlace'
    BY <2>2, <2>3, <2>4
  <2>8. Publishing'
    BY <2>1, <2>3, <2>5, <2>6, <2>7, <1>d DEF Publishing
  <2> QED BY <2>1, <2>2, <2>8, <1>b DEF Restoring, Installing, Undoing, At
<1>5. CASE installFails
  <2>1. UNCHANGED <<live, stage, entries, reg, ev, backup>>
    BY <1>5 DEF installFails, repos, state
  <2>2. job.at \in {"install", "metadata"} /\ job'.at = "undo" /\ job'.done = job.done
    BY <1>5, <1>a, RestoreMoves
  <2>3. backup # NoBackup /\ backup.entries \subseteq Supported /\ BackedUp \subseteq Project
    BY <2>2, <1>b
  <2>4. Undoing'
    <3>1. CASE job.at = "install"
      <4>1. /\ job.todo \subseteq BackedUp /\ job.done = BackedUp \ job.todo
            /\ entries \ {"runtime"} = {"staging"}
            /\ \A q \in Project : /\ q \notin job.todo => stage[q] = 0
                                  /\ q \in job.todo => live[q] = 0
        BY <3>1, <1>a DEF Restoring, Installing, At
      <4>2. "staging" \in entries /\ entries \cap Supported = {}
        BY <4>1, <1>a
      <4>3. BackedUp \cap Hosted \subseteq job.done
        BY <4>1 DEF Hosted
      <4> QED BY <2>1, <2>2, <2>3, <4>1, <4>2, <4>3, <1>d DEF Undoing, Hosted
    <3>2. CASE job.at = "metadata"
      <4>1. /\ job.done = BackedUp \cup InPlace
            /\ entries \ {"runtime"} = {"staging"} \cup InPlace
            /\ stage = Nothing
        BY <3>2, <1>a DEF Restoring, Publishing, At
      <4>2. InPlace \subseteq Supported
        BY <2>3 DEF InPlace
      <4>3. "staging" \in entries /\ entries \cap Supported \subseteq job.done
        BY <4>1, <1>a
      <4>4. \A q \in BackedUp : stage[q] = 0
        BY <4>1, <2>3 DEF Nothing
      <4> QED BY <2>1, <2>2, <4>1, <4>2, <4>3, <4>4, <1>d DEF Undoing, Hosted
    <3> QED BY <2>2, <3>1, <3>2
  <2> QED BY <2>1, <2>2, <2>3, <2>4 DEF Restoring, Installing, Publishing, At
<1>6. ASSUME job.at = "undo", job'.at = "undo", UNCHANGED backup,
             "staging" \in entries',
             job'.done \subseteq job.done,
             \A p \in job'.done \cap BackedUp : stage'[p] = stage[p],
             job'.undone => /\ job.undone
                            /\ entries' \cap Supported \subseteq job'.done
                            /\ BackedUp \cap Hosted' \subseteq job'.done
      PROVE  Restoring'
  <2>1. /\ job.done \subseteq BackedUp \cup Supported
        /\ \A p \in job.done \cap BackedUp : stage[p] = 0
    BY <1>6, <1>a DEF Restoring, Undoing, At
  <2>2. Undoing'
    BY <1>6, <2>1, <1>d DEF Undoing
  <2> QED BY <1>6, <2>2, <1>b DEF Restoring, Installing, Publishing, At
<1>7. ASSUME job.at = "undo"
      PROVE  /\ "staging" \in entries /\ job.done \subseteq BackedUp \cup Supported
             /\ \A p \in job.done \cap BackedUp : stage[p] = 0
             /\ job.undone => /\ entries \cap Supported \subseteq job.done
                              /\ BackedUp \cap Hosted \subseteq job.done
  BY <1>7, <1>a DEF Restoring, Undoing, At
<1>8. ASSUME NEW e \in Supported, undoEntry(e)
      PROVE  Restoring'
  <2>1. UNCHANGED <<live, stage, backup>> /\ entries' = entries \ {e}
    BY <1>8 DEF undoEntry, repos
  <2>2. /\ job.at = "undo" /\ job'.at = "undo" /\ job'.done = job.done \ {e}
        /\ job'.undone => job.undone
    BY <1>8, <1>a, RestoreMoves
  <2>3. e \notin BackedUp
    BY <2>2, <1>b, <1>a
  <2>4. Hosted' = Hosted
    BY <2>1 DEF Hosted
  <2> QED BY <2>1, <2>2, <2>3, <2>4, <1>a, <1>6, <1>7
<1>9. ASSUME NEW p \in Project, undoRepository(p)
      PROVE  Restoring'
  <2>1. /\ live' = [live EXCEPT ![p] = 0] /\ stage' = [stage EXCEPT ![p] = live[p]]
        /\ UNCHANGED <<entries, backup>>
    BY <1>9 DEF undoRepository, state
  <2>2. /\ job.at = "undo" /\ job'.at = "undo" /\ job'.done = job.done \ {p}
        /\ job'.undone => job.undone
    BY <1>9, <1>a, RestoreMoves
  <2>3. Hosted' = Hosted \ {p}
    BY <2>1, <1>a DEF Hosted
  <2>4. \A q \in job'.done \cap BackedUp : stage'[q] = stage[q]
    BY <2>1, <2>2, <1>a, <1>b
  <2>5. p \notin Supported
    BY <1>a
  <2> QED BY <2>1, <2>2, <2>3, <2>4, <2>5, <1>6, <1>7
<1>10. ASSUME NEW x, undoFails(x)
       PROVE  Restoring'
  <2>1. UNCHANGED <<live, stage, entries, backup>>
    BY <1>10 DEF undoFails, repos, state
  <2>2. /\ job.at = "undo" /\ job'.at = "undo" /\ job'.done = job.done \ {x}
        /\ ~job'.undone
    BY <1>10, <1>a, RestoreMoves
  <2> QED BY <2>1, <2>2, <1>6, <1>7
<1>11. ASSUME \/ UNCHANGED vars
              \/ \E p \in Project : openPush(p) \/ finishPush(p)
              \/ recordRuntimeComponent
       PROVE  Restoring'
  <2>1. /\ UNCHANGED <<job, backup, reg, ev>>
        /\ entries' \in {entries, entries \cup {"runtime"}}
        /\ \A p \in Project : /\ live'[p] >= live[p] /\ (live'[p] = 0 <=> live[p] = 0)
                              /\ live'[p] \in Nat
                              /\ handle[p] # "stage" => stage'[p] = stage[p]
        /\ (\A p \in Project : handle[p] # "stage") => stage' = stage
        /\ Hosted' = Hosted
    BY <1>11, BesideKeeps
  <2>2. BackedUp' = BackedUp /\ InPlace' = InPlace
    BY <2>1 DEF BackedUp, InPlace
  <2>3. Installing'
    <3>1. SUFFICES ASSUME job.at = "install"
                   PROVE  Installing'
      BY <2>1 DEF Installing, At
    <3>2. Installing /\ stage' = stage /\ backup.tip \in [Project -> Nat]
      BY <3>1, <2>1, <1>a, <1>b, <1>c DEF Restoring
    <3>3. \A p \in Project : /\ p \in job.todo => live'[p] = 0
                             /\ p \in job.done => live'[p] >= backup.tip[p]
      BY <3>1, <3>2, <2>1, <1>a DEF Installing, At
    <3>4. entries' \ {"runtime"} = entries \ {"runtime"}
      BY <2>1
    <3> QED BY <3>1, <3>2, <3>3, <3>4, <2>1, <2>2 DEF Installing, At
  <2>4. Publishing'
    <3>1. SUFFICES ASSUME job.at = "metadata"
                   PROVE  Publishing'
      BY <2>1 DEF Publishing, At
    <3>2. Publishing /\ stage' = stage /\ backup.tip \in [Project -> Nat] /\ BackedUp \subseteq Project
      BY <3>1, <2>1, <1>a, <1>b, <1>c DEF Restoring
    <3>3. \A p \in BackedUp : live'[p] >= backup.tip[p]
      BY <3>1, <3>2, <2>1, <1>a DEF Publishing, At
    <3>4. entries' \ {"runtime"} = entries \ {"runtime"}
      BY <2>1
    <3> QED BY <3>1, <3>2, <3>3, <3>4, <2>1, <2>2 DEF Publishing, At
  <2>5. CASE job.at = "undo"
    <3>1. \A p \in job.done \cap BackedUp : stage'[p] = stage[p]
      BY <2>1, <2>5, <1>a, <1>b DEF HandlesFit, At
    <3>2. entries' \cap Supported = entries \cap Supported /\ "staging" \in entries'
      BY <2>1, <2>5, <1>7, <1>a
    <3> QED BY <2>1, <2>5, <3>1, <3>2, <1>6, <1>7
  <2>6. CASE job.at # "undo"
    BY <2>1, <2>3, <2>4, <2>6, <1>b DEF Restoring, Undoing, At
  <2> QED BY <2>5, <2>6
<1>12. ~stagingFails /\ ~restoreEnds /\ ~keepsStage
  BY <1>a, RestoreMoves
<1>13. CASE Restore
  BY <1>13, <1>1, <1>2, <1>3, <1>4, <1>5, <1>8, <1>9, <1>10, <1>12 DEF Restore
<1> QED BY <1>11, <1>13, BesideRestore

(* The invariant. *)
LEMMA InitIsRecoveryInv == Init => RecoveryInv
<1> SUFFICES ASSUME Init PROVE RecoveryInv
  OBVIOUS
<1>1. TypeOK
  BY TypeInit
<1>2. job.at = "idle"
  BY IdleType DEF Init
<1>3. MetadataFits /\ StageFits /\ BackupFits
  BY DEF Init, MetadataFits, Fits, StageFits, BackupFits, Hosted, Nothing
<1>4. HandlesFit
  BY DEF Init, HandlesFit
<1>5. Capture /\ Restoring
  BY <1>2 DEF Capture, Capturing, Fingerprinting, Mirroring, Restoring, Installing, Publishing,
     Undoing, At
<1> QED BY <1>1, <1>3, <1>4, <1>5 DEF RecoveryInv

LEMMA RecoveryInvStep ==
  ASSUME RecoveryInv, [Next]_vars
  PROVE  RecoveryInv'
<1>1. TypeOK'
  BY TypeNext DEF RecoveryInv
<1> QED BY <1>1, MetadataStep, HandlesStep, StageStep, BackupStep, CaptureStep, RestoreStep
        DEF RecoveryInv

LEMMA RecoveryInvariant == Spec => []RecoveryInv
  BY InitIsRecoveryInv, RecoveryInvStep, PTL DEF Spec

-----------------------------------------------------------------------------
(* The theorems. *)

(* Every variable keeps its type: a branch stays within its bound, and a   *)
(* backup or restore is in one of its phases.                              *)
THEOREM TypeCorrect == Spec => []TypeOK
<1>1. RecoveryInv => TypeOK
  BY DEF RecoveryInv
<1> QED BY <1>1, RecoveryInvariant, PTL

(* What backupHostedRepositories publishes is the repositories of one      *)
(* moment of the host with metadata that fits them, and never the rest of  *)
(* a restore that died.                                                    *)
THEOREM BackupsAreOneMoment == Spec => BackupIsOneMoment
<1> DEFINE body == backupEnds =>
       /\ stage = Nothing
       /\ backup'.tip \in seen
       /\ \A p \in Project : /\ p \in backup'.reg => backup'.tip[p] # 0
                             /\ backup'.ev[p] <= backup'.tip[p]
<1>1. ASSUME RecoveryInv, backupEnds
      PROVE  /\ stage = Nothing
             /\ backup'.tip \in seen
             /\ \A p \in Project : /\ p \in backup'.reg => backup'.tip[p] # 0
                                   /\ backup'.ev[p] <= backup'.tip[p]
  <2>1. job.at = "after" /\ job.todo = {} /\ backup' = job.copy
    BY <1>1 DEF backupEnds, At
  <2>2. stage = Nothing
    BY <2>1, <1>1 DEF RecoveryInv, Capture, Mirroring, StageFits
  <2>3. PICK w \in seen : Agrees(w)
    BY <2>1, <1>1 DEF RecoveryInv, Capture, Mirroring
  <2>4. job.copy.tip \in [Project -> Nat] /\ w \in [Project -> Nat]
    BY <1>1, Numbers DEF RecoveryInv
  <2>5. \A p \in Project : job.copy.tip[p] = w[p]
    BY <2>1, <2>3 DEF Agrees, At
  <2>6. job.copy.tip = w
    BY <2>4, <2>5
  <2>7. \A p \in Project : /\ p \in job.copy.reg => w[p] # 0
                           /\ job.copy.ev[p] <= w[p]
    BY <2>3 DEF Agrees
  <2> QED BY <2>1, <2>2, <2>3, <2>6, <2>7
<1>2. RecoveryInv /\ [Next]_vars => [body]_vars
  BY <1>1
<1> QED BY <1>2, RecoveryInvariant, PTL DEF Spec, BackupIsOneMoment

(* No step of a restore, of its rollback or of its death loses a commit    *)
(* that a push was told is there.                                          *)
THEOREM PushesStay == Spec => PushStays
<1> DEFINE body ==
      \/ provision
      \/ \E p \in Project, dies \in BOOLEAN : removeBareRepository(p, dies)
      \/ \A p \in Project : \A n \in Pushed(p) : n <= live'[p] \/ n <= stage'[p]
<1>1. ASSUME RecoveryInv, [Next]_vars
      PROVE  body
  <2>a. /\ TypeOK /\ HandlesFit /\ StageFits /\ Restoring
        /\ live \in [Project -> Nat] /\ stage \in [Project -> Nat]
        /\ backup # NoBackup => backup.tip \in [Project -> Nat]
    BY <1>1, Numbers DEF RecoveryInv
  <2>b. \A p \in Project : \A n \in Pushed(p) : /\ n \in Nat /\ n \in {live[p], stage[p]}
                                                /\ backup # NoBackup => n > backup.tip[p]
    BY <2>a DEF Pushed
  <2>c. ASSUME \A p \in Project : live'[p] >= live[p] /\ live'[p] \in Nat,
               \A p \in Project : \A n \in Pushed(p) : n = stage[p] => n <= stage'[p]
        PROVE  body
    BY <2>b, <2>c
  <2>d. ASSUME UNCHANGED <<live, stage>>
        PROVE  body
    BY <2>d, <2>a, <2>b
  <2>1. ASSUME NEW p \in Project, finishPush(p)
        PROVE  body
    <3>1. \A q \in Project : live'[q] >= live[q] /\ stage'[q] >= stage[q]
      BY <2>1, <2>a, PushEnds
    <3>2. live' \in [Project -> Nat] /\ stage' \in [Project -> Nat]
      BY <2>1, <2>a DEF finishPush
    <3> QED BY <3>1, <3>2, <2>a, <2>b
  <2>2. ASSUME NEW p \in Project, createBareRepository(p)
        PROVE  body
    BY <2>2, <2>a, <2>b DEF createBareRepository, Names, Hosted
  <2>3. CASE restoreStarts
    <3>1. stage = Nothing /\ live' = live
      BY <2>3, <2>a DEF restoreStarts, Startable, StageFits, repos
    <3>2. \A p \in Project : stage[p] = 0 /\ stage'[p] \in Nat
      BY <3>1, <2>3, <2>a DEF restoreStarts, Nothing
    <3> QED BY <3>1, <3>2, <2>a, <2>b
  <2>4. CASE stagingFails
    <3>1. \A p \in Project : stage[p] <= backup.tip[p]
      <4>1. Installing /\ At("install") /\ backup # NoBackup /\ job.todo = BackedUp
        BY <2>4, <2>a DEF stagingFails, Restoring, At
      <4> QED BY <4>1, <2>a DEF Installing
    <3>2. live' = live /\ backup # NoBackup
      BY <2>4, <2>a DEF stagingFails, repos, Restoring, At
    <3>3. \A p \in Project : \A n \in Pushed(p) : n = live[p]
      BY <3>1, <3>2, <2>a, <2>b
    <3> QED BY <3>2, <3>3, <2>a, <2>b
  <2>5. ASSUME NEW p \in Project, publishDirectory(p)
        PROVE  body
    <3>1. live' = [live EXCEPT ![p] = stage[p]] /\ stage' = [stage EXCEPT ![p] = 0]
          /\ live[p] = 0
      BY <2>5 DEF publishDirectory, Names, Hosted
    <3> QED BY <3>1, <2>a, <2>b
  <2>6. ASSUME NEW p \in Project, undoRepository(p)
        PROVE  body
    <3>1. live' = [live EXCEPT ![p] = 0] /\ stage' = [stage EXCEPT ![p] = live[p]]
      BY <2>6 DEF undoRepository
    <3>2. stage[p] = 0
      <4>1. /\ job.done \subseteq BackedUp \cup Supported
            /\ \A q \in job.done \cap BackedUp : stage[q] = 0
        BY <2>6, <2>a DEF undoRepository, Restoring, Undoing
      <4> QED BY <2>6, <4>1 DEF undoRepository
    <3> QED BY <3>1, <3>2, <2>a, <2>b
  <2>7. CASE Backup
    BY <2>7, <2>a, <2>d, BackupKeeps DEF repos
  <2>8. ASSUME NEW p \in Project, \/ openPush(p) \/ crash(p) \/ appendHostedStateEvent(p)
                                  \/ registerHostedCheckout(p)
        PROVE  body
    BY <2>8, <2>d DEF openPush, crash, appendHostedStateEvent, registerHostedCheckout, repos
  <2>9. ASSUME \/ sweepOrphanProjectMetadata \/ recordRuntimeComponent
               \/ repositoriesInstalled \/ installFails \/ keepsStage \/ restoreEnds
               \/ UNCHANGED vars \/ \E x : undoFails(x)
        PROVE  body
    BY <2>9, <2>d DEF sweepOrphanProjectMetadata, recordRuntimeComponent,
       repositoriesInstalled, installFails, keepsStage, restoreEnds, undoFails, vars, repos
  <2>10. ASSUME NEW e \in Supported, publishEntry(e) \/ undoEntry(e)
         PROVE  body
    BY <2>10, <2>d DEF publishEntry, undoEntry, repos
  <2>11. CASE Restore
    BY <2>11, <2>3, <2>4, <2>5, <2>6, <2>9, <2>10 DEF Restore
  <2>12. ASSUME NEW p \in Project, Clients(p) \/ Operators(p) \/ crash(p)
         PROVE  body
    <3>1. CASE \E dies \in BOOLEAN : removeBareRepository(p, dies)
      BY <3>1
    <3> QED BY <2>12, <3>1, <2>1, <2>2, <2>8 DEF Clients, Operators
  <2> HIDE DEF body
  <2>13. CASE provision
    BY <2>13 DEF body
  <2> QED BY <1>1, <2>7, <2>9, <2>11, <2>12, <2>13 DEF Next
<1>2. RecoveryInv /\ [Next]_vars => [body]_vars
  BY <1>1
<1> QED BY <1>2, RecoveryInvariant, PTL DEF Spec, PushStays

(* A restore that ends well has installed all of the backup; one that was  *)
(* rolled back without a failing rename has left nothing of it in place.   *)
THEOREM RestoresAreWhole == Spec => RestoreIsWhole
<1> DEFINE body ==
      /\ restoreEnds =>
           /\ \A p \in Project : live[p] >= backup.tip[p]
           /\ reg = backup.reg /\ ev = backup.ev
           /\ entries' \ {"runtime"} = backup.entries
      /\ keepsStage /\ job.undone =>
           /\ BackedUp \cap Hosted = {}
           /\ entries \cap Supported = {} /\ reg = {} /\ ev = Nothing
<1>1. ASSUME RecoveryInv, restoreEnds
      PROVE  /\ \A p \in Project : live[p] >= backup.tip[p]
             /\ reg = backup.reg /\ ev = backup.ev
             /\ entries' \ {"runtime"} = backup.entries
  <2>1. job.at = "metadata" /\ job.todo = {} /\ entries' = entries \ {"staging"}
    BY <1>1 DEF restoreEnds, At
  <2>2. /\ InPlace = backup.entries
        /\ entries \ {"runtime"} = {"staging"} \cup InPlace
        /\ reg = IF "checkouts" \in InPlace THEN backup.reg ELSE {}
        /\ ev = IF "events" \in InPlace THEN backup.ev ELSE Nothing
        /\ \A p \in BackedUp : live[p] >= backup.tip[p]
        /\ backup # NoBackup
    BY <2>1, <1>1 DEF RecoveryInv, Restoring, Publishing, InPlace, At
  <2>3. /\ backup.tip \in [Project -> Nat] /\ backup.entries \subseteq Supported
        /\ live \in [Project -> Nat]
    BY <2>2, <1>1, Numbers DEF RecoveryInv
  <2>4. Fits(backup.entries, backup.reg, backup.ev)
    BY <2>2, <1>1 DEF RecoveryInv, BackupFits
  <2>5. reg = backup.reg /\ ev = backup.ev
    BY <2>2, <2>4 DEF Fits
  <2>6. \A p \in Project : live[p] >= backup.tip[p]
    BY <2>2, <2>3 DEF BackedUp
  <2>7. entries' \ {"runtime"} = backup.entries
    BY <2>1, <2>2, <2>3 DEF Supported
  <2> QED BY <2>5, <2>6, <2>7
<1>2. ASSUME RecoveryInv, keepsStage, job.undone
      PROVE  /\ BackedUp \cap Hosted = {}
             /\ entries \cap Supported = {} /\ reg = {} /\ ev = Nothing
  <2>1. At("undo") /\ job.done = {}
    BY <1>2 DEF keepsStage
  <2>2. BackedUp \cap Hosted = {} /\ entries \cap Supported = {}
    BY <2>1, <1>2 DEF RecoveryInv, Restoring, Undoing
  <2>3. Fits(entries, reg, ev)
    BY <1>2 DEF RecoveryInv, MetadataFits
  <2> QED BY <2>2, <2>3 DEF Fits, Supported
<1>3. RecoveryInv /\ [Next]_vars => [body]_vars
  BY <1>1, <1>2
<1> QED BY <1>3, RecoveryInvariant, PTL DEF Spec, RestoreIsWhole

=============================================================================
