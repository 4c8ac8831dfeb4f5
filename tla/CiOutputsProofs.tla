---------------------------- MODULE CiOutputsProofs ----------------------------
(* Theorems about CiOutputs: where the results of CI runs go stays whole,  *)
(* for any number of runs, versions, run directories and dead handlers.    *)
EXTENDS CiOutputs, FiniteSetTheorems, TLAPS

(* The places of commitCiRun that belong to a branch, and to a tag. *)
SitePlaces == {"artifact", "sidecar", "site", "copy", "point", "prune"}
TagPlaces == {"asset", "assetSidecar", "releaseIni", "unrelease"}

Sides == \A r \in Runs : /\ run[r].at \in SitePlaces => r \in sites
                         /\ run[r].at \in TagPlaces => r \notin sites

(* Nothing knows of a run that was not pushed yet. *)
Fresh ==
  \A r \in Runs : At(r, "new") =>
    /\ r \notin sites /\ tag # r /\ current # r
    /\ r \notin {release.tar, release.asset, release.record}

(* The queue's promise: one handler of a ref at a time. *)
Exclusive ==
  \A r, q \in Runs : r # q /\ SameRef(r, q) /\ Busy(r) => ~Busy(q)

OutInv == TypeOK /\ Sides /\ Fresh /\ Exclusive

-----------------------------------------------------------------------------
(* Where a handler is after each way of moving it. *)

Stays(r) == /\ run' \in [Runs -> Handler]
            /\ \A q \in Runs \ {r} : run'[q] = run[q]
IsAt(r, p) == /\ Stays(r)
              /\ run'[r].at = p
              /\ run'[r].result = run[r].result
              /\ run'[r].minimal = run[r].minimal

LEMMA Puts ==
  ASSUME run \in [Runs -> Handler], NEW r \in Runs, NEW h \in Handler,
         run' = [run EXCEPT ![r] = h]
  PROVE  Stays(r) /\ run'[r] = h
  BY DEF Stays

LEMMA GoesTo ==
  ASSUME TypeOK, NEW r \in Runs, NEW p \in Places, NEW b \in BOOLEAN,
         run' = [run EXCEPT ![r].at = p, ![r].got = b]
  PROVE  IsAt(r, p) /\ run'[r].got = b
<1> DEFINE h == [run[r] EXCEPT !.at = p, !.got = b]
<1>1. run \in [Runs -> Handler] /\ run' = [run EXCEPT ![r] = h]
  BY DEF TypeOK
<1>2. run[r] \in Handler
  BY <1>1
<1>3. /\ h \in Handler
      /\ h.at = p /\ h.got = b
      /\ h.result = run[r].result /\ h.minimal = run[r].minimal
  BY <1>2 DEF Handler
<1> HIDE DEF h
<1> QED
  BY <1>1, <1>3 DEF IsAt, Stays

LEMMA MovesTo ==
  ASSUME TypeOK, NEW r \in Runs, NEW p \in Places, Moves(r, p)
  PROVE  IsAt(r, p)
  BY GoesTo DEF Moves

LEMMA EndsWith ==
  ASSUME TypeOK, NEW r \in Runs, NEW p \in Places,
         NEW result \in {"Success", "Failure", "Error"}, NEW minimal \in BOOLEAN,
         run' = [run EXCEPT ![r].result = result, ![r].minimal = minimal, ![r].at = p]
  PROVE  /\ Stays(r)
         /\ run'[r].at = p /\ run'[r].result = result /\ run'[r].minimal = minimal
<1> DEFINE h == [run[r] EXCEPT !.result = result, !.minimal = minimal, !.at = p]
<1>1. run \in [Runs -> Handler] /\ run' = [run EXCEPT ![r] = h]
  BY DEF TypeOK
<1>2. run[r] \in Handler
  BY <1>1
<1>3. /\ h \in Handler
      /\ h.at = p /\ h.result = result /\ h.minimal = minimal
  BY <1>2 DEF Handler
<1> HIDE DEF h
<1>4. Stays(r) /\ run'[r] = h
  BY <1>1, <1>3, Puts
<1> QED
  BY <1>3, <1>4

LEMMA Fails ==
  ASSUME TypeOK, NEW r \in Runs, publishFails(r)
  PROVE  /\ Stays(r) /\ run'[r].at = "record" /\ run'[r].result = "Error"
         /\ run'[r].minimal = run[r].minimal
<1> DEFINE h == [run[r] EXCEPT !.at = "record", !.result = "Error"]
<1>1. run \in [Runs -> Handler] /\ run' = [run EXCEPT ![r] = h]
  BY DEF TypeOK, publishFails
<1>2. run[r] \in Handler
  BY <1>1
<1>3. /\ h \in Handler /\ h.at = "record" /\ h.result = "Error"
      /\ h.minimal = run[r].minimal
  BY <1>2 DEF Handler, Places
<1> HIDE DEF h
<1>4. Stays(r) /\ run'[r] = h
  BY <1>1, <1>3, Puts
<1> QED
  BY <1>3, <1>4

LEMMA EntersAt ==
  ASSUME TypeOK, NEW r \in Runs, NEW p \in Places, Enters(r, p)
  PROVE  /\ Stays(r)
         /\ run'[r] = Starts(p) /\ run'[r].at = p /\ run'[r].minimal = FALSE
<1>1. Starts(p) \in Handler /\ Starts(p).at = p /\ Starts(p).minimal = FALSE
  BY DEF Starts, Handler
<1>2. run \in [Runs -> Handler]
  BY DEF TypeOK
<1> QED
  BY <1>1, <1>2 DEF Enters, Stays

(* What a step of a busy handler may change of who is where. *)
LEMMA PartsKept ==
  ASSUME Sides, Fresh, Exclusive, NEW r \in Runs, Stays(r),
         Busy(r), run'[r].at # "new",
         run'[r].at \in SitePlaces => r \in sites,
         run'[r].at \in TagPlaces => r \notin sites,
         UNCHANGED <<sites, tag>>,
         current' \in {current, r},
         release'.tar \in {release.tar, r, 0},
         release'.asset \in {release.asset, r, 0},
         release'.record \in {release.record, r, 0},
         0 \notin Runs
  PROVE  Sides' /\ Fresh' /\ Exclusive'
  BY DEF Sides, Fresh, Exclusive, Stays, At, Busy, SameRef

-----------------------------------------------------------------------------
(* Types, sides and exclusion. *)

LEMMA PlacesHave ==
  {"new", "queued", "running", "artifact", "sidecar", "asset", "assetSidecar",
   "releaseIni", "unrelease", "site", "copy", "point", "prune", "record", "ended",
   "lost", "done", "givenUp"} \subseteq Places
  BY DEF Places

LEMMA TypeInit == OutputsAssumption /\ Init => OutInv
<1> SUFFICES ASSUME OutputsAssumption, Init PROVE OutInv
  OBVIOUS
<1>1. Starts("new") \in Handler /\ Starts("new").at = "new"
  BY PlacesHave DEF Starts, Handler
<1>2. run \in [Runs -> Handler] /\ \A r \in Runs : run[r].at = "new"
  BY <1>1 DEF Init
<1>3. TypeOK
  BY <1>2 DEF Init, TypeOK, NoArtifact, NoRelease, Active
<1>4. Sides /\ Fresh /\ Exclusive
  BY <1>2 DEF Init, Sides, Fresh, Exclusive, SitePlaces, TagPlaces, Busy, At,
         NoRelease,
              OutputsAssumption
<1> QED
  BY <1>3, <1>4 DEF OutInv

(* Each step of commitCiRun and the queue's own. *)
LEMMA HandlerSteps ==
  ASSUME OutputsAssumption, OutInv, NEW r \in Runs, Work(r) \/ crash(r)
  PROVE  OutInv'
<1> DEFINE Parts == Sides' /\ Fresh' /\ Exclusive'
<1>a. TypeOK /\ Sides /\ Fresh /\ Exclusive /\ 0 \notin Runs
  BY DEF OutInv, OutputsAssumption
<1> USE DEF files, rest
<1>1. CASE claim(r)
  <2>1. PICK p \in {"running", "done"} : Stays(r) /\ run'[r].at = p
    BY <1>1, <1>a, MovesTo, EntersAt, PlacesHave DEF claim, IsAt
  <2>2. TypeOK'
    BY <1>1, <1>a, <2>1 DEF claim, TypeOK, Stays, Active
  <2>3. Parts
    BY <1>1, <1>a, <2>1 DEF claim, Sides, Fresh, Exclusive, Stays, At, Busy, SameRef,
                            SitePlaces, TagPlaces
  <2> QED
    BY <2>2, <2>3 DEF OutInv
<1>2. ASSUME NEW result \in {"Success", "Failure"}, NEW minimal \in BOOLEAN,
             NEW outputs \in SUBSET {"artifact", "asset", "site"},
             build(r, result, outputs, minimal)
      PROVE OutInv'
  <2> DEFINE p == IF r \in sites THEN "artifact"
                  ELSE IF minimal THEN "record"
                  ELSE IF result = "Success" THEN "asset" ELSE "unrelease"
  <2>1. p \in Places
    BY PlacesHave
  <2>2. Stays(r) /\ run'[r].at = p
    <3>1. run' = [run EXCEPT ![r].result = result, ![r].minimal = minimal, ![r].at = p]
      BY <1>2 DEF build
    <3> HIDE DEF p
    <3> QED
      BY <1>a, <2>1, <3>1, EndsWith
  <2>3. TypeOK'
    BY <1>2, <1>a, <2>2 DEF build, TypeOK, Stays
  <2>4. /\ p # "new"
        /\ p \in SitePlaces => r \in sites
        /\ p \in TagPlaces => r \notin sites
    BY DEF SitePlaces, TagPlaces
  <2>5. At(r, "running") /\ UNCHANGED <<release, current, rest>>
    BY <1>2 DEF build
  <2> HIDE DEF p
  <2>6. Parts
    BY <1>a, <2>2, <2>4, <2>5, PartsKept DEF At, Busy
  <2> QED
    BY <2>3, <2>6 DEF OutInv
<1>3. CASE crash(r)
  <2>1. Stays(r) /\ run'[r].at = "lost"
    BY <1>3, <1>a, EntersAt, PlacesHave DEF crash
  <2>2. TypeOK'
    BY <1>3, <1>a, <2>1 DEF crash, TypeOK, Stays
  <2>3. Parts
    BY <1>3, <1>a, <2>1, PartsKept DEF crash, SitePlaces, TagPlaces
  <2> QED
    BY <2>2, <2>3 DEF OutInv
<1>4. ASSUME NEW last \in BOOLEAN, requeueLocked(r, last) PROVE OutInv'
  <2>1. Stays(r) /\ run'[r].at \in {"givenUp", "queued"}
    BY <1>4, <1>a, EntersAt, PlacesHave DEF requeueLocked
  <2>2. TypeOK'
    <3>1. /\ rec' \in [Runs -> {"None", "Success", "Failure", "Error"} \cup Active]
          /\ staged' \in [Runs -> SUBSET {"artifact", "asset", "site"}]
      BY <1>4, <1>a DEF requeueLocked, TypeOK, Active
    <3>2. art' \in [Runs -> [tar : BOOLEAN, ini : {"none", "stored", "noted"}]]
      <4>1. NoArtifact \in [tar : BOOLEAN, ini : {"none", "stored", "noted"}]
        BY DEF NoArtifact
      <4>2. art' = art \/ art' = [art EXCEPT ![r] = NoArtifact]
        BY <1>4 DEF requeueLocked
      <4> QED
        BY <1>a, <4>1, <4>2 DEF TypeOK
    <3>3. UNCHANGED <<release, version, current, rest>>
      BY <1>4 DEF requeueLocked
    <3> QED
      BY <1>a, <2>1, <3>1, <3>2, <3>3 DEF TypeOK, Stays
  <2>3. Parts
    BY <1>4, <1>a, <2>1, PartsKept DEF requeueLocked, At, Busy, SitePlaces, TagPlaces
  <2> QED
    BY <2>2, <2>3 DEF OutInv
<1>5. CASE takeArtifact(r)
  <2> DEFINE held == "artifact" \in staged[r]
             tar == art[r].tar \/ held
  <2>a. held \in BOOLEAN /\ tar \in BOOLEAN
    OBVIOUS
  <2>b. /\ run' = [run EXCEPT ![r].at = "sidecar", ![r].got = held]
        /\ art' = [art EXCEPT ![r].tar = tar]
    BY <1>5 DEF takeArtifact
  <2>c. /\ staged' = [staged EXCEPT ![r] = @ \ {"artifact"}]
        /\ UNCHANGED <<rec, release, version, current, rest>>
        /\ At(r, "artifact")
    BY <1>5 DEF takeArtifact
  <2> HIDE DEF held, tar
  <2>1. Stays(r) /\ run'[r].at = "sidecar"
    BY <1>a, <2>a, <2>b, GoesTo, PlacesHave DEF IsAt
  <2>2. TypeOK'
    BY <1>a, <2>a, <2>b, <2>c, <2>1 DEF TypeOK, Stays
  <2>3. Parts
    BY <1>a, <2>1, <2>c, PartsKept DEF Sides, At, Busy, SitePlaces, TagPlaces
  <2> QED
    BY <2>2, <2>3 DEF OutInv
<1>6. CASE writeCiArtifactRecord(r)
  <2>1. Stays(r) /\ run'[r].at \in {"site", "record"}
    BY <1>6, <1>a, MovesTo, PlacesHave DEF writeCiArtifactRecord, AfterArtifact, IsAt
  <2>2. TypeOK'
    BY <1>6, <1>a, <2>1 DEF writeCiArtifactRecord, TypeOK, Stays
  <2>3. Parts
    BY <1>6, <1>a, <2>1, PartsKept DEF writeCiArtifactRecord, Sides, At, Busy,
           SitePlaces, TagPlaces
  <2> QED
    BY <2>2, <2>3 DEF OutInv
<1>7. CASE takeAsset(r)
  <2> DEFINE held == "asset" \in staged[r]
  <2>a. held \in BOOLEAN
    OBVIOUS
  <2>b. run' = [run EXCEPT ![r].at = "assetSidecar", ![r].got = held]
    BY <1>7 DEF takeAsset
  <2> HIDE DEF held
  <2>1. Stays(r) /\ run'[r].at = "assetSidecar"
    BY <1>a, <2>a, <2>b, GoesTo, PlacesHave DEF IsAt
  <2>2. TypeOK'
    BY <1>7, <1>a, <2>1 DEF takeAsset, TypeOK, Stays, Sides, At, TagPlaces
  <2>3. Parts
    BY <1>7, <1>a, <2>1, PartsKept DEF takeAsset, Sides, TypeOK, At, Busy,
           SitePlaces, TagPlaces
  <2> QED
    BY <2>2, <2>3 DEF OutInv
<1>8. CASE writeCiReleaseArtifactRecord(r)
  <2>1. Stays(r) /\ run'[r].at = "releaseIni"
    BY <1>8, <1>a, MovesTo, PlacesHave DEF writeCiReleaseArtifactRecord, IsAt
  <2>2. TypeOK'
    BY <1>8, <1>a, <2>1 DEF writeCiReleaseArtifactRecord, TypeOK, Stays, Sides, At,
           TagPlaces
  <2>3. Parts
    BY <1>8, <1>a, <2>1, PartsKept DEF writeCiReleaseArtifactRecord, Sides, At, Busy,
           SitePlaces, TagPlaces
  <2> QED
    BY <2>2, <2>3 DEF OutInv
<1>9. CASE writeCiReleaseRecord(r)
  <2>1. Stays(r) /\ run'[r].at = "record"
    BY <1>9, <1>a, MovesTo, PlacesHave DEF writeCiReleaseRecord, IsAt
  <2>2. TypeOK'
    BY <1>9, <1>a, <2>1 DEF writeCiReleaseRecord, TypeOK, Stays, Sides, At, TagPlaces
  <2>3. Parts
    BY <1>9, <1>a, <2>1, PartsKept DEF writeCiReleaseRecord, At, Busy, SitePlaces,
           TagPlaces
  <2> QED
    BY <2>2, <2>3 DEF OutInv
<1>10. CASE removeCiRelease(r)
  <2>1. Stays(r) /\ run'[r].at = "record"
    BY <1>10, <1>a, MovesTo, PlacesHave DEF removeCiRelease, IsAt
  <2>2. TypeOK'
    BY <1>10, <1>a, <2>1 DEF removeCiRelease, TypeOK, Stays, NoRelease
  <2>3. Parts
    BY <1>10, <1>a, <2>1, PartsKept DEF removeCiRelease, NoRelease, At, Busy,
           SitePlaces, TagPlaces
  <2> QED
    BY <2>2, <2>3 DEF OutInv
<1>11. CASE publishStarts(r)
  <2>1. Stays(r) /\ run'[r].at \in {"record", "copy"}
    BY <1>11, <1>a, MovesTo, PlacesHave DEF publishStarts, IsAt
  <2>2. TypeOK'
    BY <1>11, <1>a, <2>1 DEF publishStarts, TypeOK, Stays
  <2>3. Parts
    BY <1>11, <1>a, <2>1, PartsKept DEF publishStarts, Sides, At, Busy, SitePlaces,
           TagPlaces
  <2> QED
    BY <2>2, <2>3 DEF OutInv
<1>12. CASE publishFails(r)
  <2>1. Stays(r) /\ run'[r].at = "record"
    BY <1>12, <1>a, Fails
  <2>2. TypeOK'
    BY <1>12, <1>a, <2>1 DEF publishFails, TypeOK, Stays
  <2>3. Parts
    BY <1>12, <1>a, <2>1, PartsKept DEF publishFails, Busy, SitePlaces, TagPlaces
  <2> QED
    BY <2>2, <2>3 DEF OutInv
<1>13. CASE copySite(r)
  <2>1. Stays(r) /\ run'[r].at = "point"
    BY <1>13, <1>a, MovesTo, PlacesHave DEF copySite, IsAt
  <2>2. TypeOK'
    BY <1>13, <1>a, <2>1 DEF copySite, TypeOK, Stays
  <2>3. Parts
    BY <1>13, <1>a, <2>1, PartsKept DEF copySite, Sides, At, Busy, SitePlaces,
           TagPlaces
  <2> QED
    BY <2>2, <2>3 DEF OutInv
<1>14. CASE setCurrent(r)
  <2>1. Stays(r) /\ run'[r].at = "prune"
    BY <1>14, <1>a, MovesTo, PlacesHave DEF setCurrent, IsAt
  <2>2. TypeOK'
    BY <1>14, <1>a, <2>1 DEF setCurrent, TypeOK, Stays, Sides, At, SitePlaces
  <2>3. Parts
    BY <1>14, <1>a, <2>1, PartsKept DEF setCurrent, Sides, At, Busy, SitePlaces,
           TagPlaces
  <2> QED
    BY <2>2, <2>3 DEF OutInv
<1>15. CASE pruneVersions(r)
  <2>1. Stays(r) /\ run'[r].at = "record"
    BY <1>15, <1>a, MovesTo, PlacesHave DEF pruneVersions, IsAt
  <2>2. TypeOK'
    BY <1>15, <1>a, <2>1 DEF pruneVersions, TypeOK, Stays
  <2>3. Parts
    BY <1>15, <1>a, <2>1, PartsKept DEF pruneVersions, At, Busy, SitePlaces, TagPlaces
  <2> QED
    BY <2>2, <2>3 DEF OutInv
<1>16. CASE writeCiRunRecord(r)
  <2>1. Stays(r) /\ run'[r].at = "ended"
    BY <1>16, <1>a, MovesTo, PlacesHave DEF writeCiRunRecord, IsAt
  <2>2. TypeOK'
    BY <1>16, <1>a, <2>1 DEF writeCiRunRecord, TypeOK, Stays, Handler
  <2>3. Parts
    BY <1>16, <1>a, <2>1, PartsKept DEF writeCiRunRecord, At, Busy, SitePlaces,
           TagPlaces
  <2> QED
    BY <2>2, <2>3 DEF OutInv
<1>17. CASE releaseCiClaim(r)
  <2>1. Stays(r) /\ run'[r].at = "done"
    BY <1>17, <1>a, EntersAt, PlacesHave DEF releaseCiClaim
  <2>2. TypeOK'
    BY <1>17, <1>a, <2>1 DEF releaseCiClaim, TypeOK, Stays
  <2>3. Parts
    BY <1>17, <1>a, <2>1, PartsKept DEF releaseCiClaim, At, Busy, SitePlaces,
           TagPlaces
  <2> QED
    BY <2>2, <2>3 DEF OutInv
<1> QED
  BY <1>1, <1>2, <1>3, <1>4, <1>5, <1>6, <1>7, <1>8, <1>9, <1>10, <1>11, <1>12,
     <1>13, <1>14, <1>15, <1>16, <1>17 DEF Work

LEMMA TypeNext == OutputsAssumption /\ OutInv /\ [Next]_vars => OutInv'
<1> SUFFICES ASSUME OutputsAssumption, OutInv, [Next]_vars PROVE OutInv'
  OBVIOUS
<1> DEFINE Parts == Sides' /\ Fresh' /\ Exclusive'
<1>a. TypeOK /\ Sides /\ Fresh /\ Exclusive /\ 0 \notin Runs
  BY DEF OutInv, OutputsAssumption
<1> USE DEF files, rest
<1>1. ASSUME NEW r \in Runs, NEW ref \in {"branch", "tag"}, push(r, ref)
      PROVE OutInv'
  <2>1. Stays(r) /\ run'[r].at = "queued"
    BY <1>1, <1>a, MovesTo, PlacesHave DEF push, IsAt
  <2>2. TypeOK'
    BY <1>1, <1>a, <2>1 DEF push, TypeOK, Stays, Fresh, Active
  <2>3. Parts
    BY <1>1, <1>a, <2>1 DEF push, Sides, Fresh, Exclusive, Stays, At, Busy, SameRef,
                            SitePlaces, TagPlaces
  <2> QED
    BY <2>2, <2>3 DEF OutInv
<1>2. ASSUME NEW r \in Runs, Work(r) \/ crash(r) PROVE OutInv'
  BY <1>2, HandlerSteps
<1>3. CASE readCurrent \/ readSiteFile
  <2>1. TypeOK' /\ UNCHANGED <<sites, run>>
    BY <1>3, <1>a DEF readCurrent, readSiteFile, TypeOK
  <2>2. Parts
    BY <1>3, <1>a, <2>1 DEF readCurrent, readSiteFile, Sides, Fresh, Exclusive, At,
           Busy, SameRef
  <2> QED
    BY <2>1, <2>2 DEF OutInv
<1>4. ASSUME NEW evicted \in SUBSET Runs, sweepCiArtifacts(evicted) PROVE OutInv'
  <2>1. TypeOK' /\ UNCHANGED <<sites, run>>
    BY <1>4, <1>a DEF sweepCiArtifacts, NoArtifact, TypeOK
  <2>2. Parts
    BY <1>4, <1>a, <2>1 DEF sweepCiArtifacts, Sides, Fresh, Exclusive, At, Busy,
           SameRef
  <2> QED
    BY <2>1, <2>2 DEF OutInv
<1>5. CASE deleteTag
  <2>1. TypeOK' /\ UNCHANGED <<sites, run>>
    BY <1>5, <1>a DEF deleteTag, NoRelease, TypeOK
  <2>2. Parts
    BY <1>5, <1>a, <2>1 DEF deleteTag, NoRelease, Sides, Fresh, Exclusive, At, Busy,
           SameRef
  <2> QED
    BY <2>1, <2>2 DEF OutInv
<1>6. CASE removeRepository
  <2>1. TypeOK' /\ UNCHANGED <<sites, run>>
    BY <1>6, <1>a DEF removeRepository, TypeOK
  <2>2. Parts
    BY <1>6, <1>a, <2>1 DEF removeRepository, Sides, Fresh, Exclusive, At, Busy,
           SameRef
  <2> QED
    BY <2>1, <2>2 DEF OutInv
<1>7. CASE removeProjectCi
  <2>1. TypeOK' /\ UNCHANGED <<sites, run>>
    BY <1>7, <1>a DEF removeProjectCi, NoRelease, NoArtifact, TypeOK
  <2>2. Parts
    BY <1>7, <1>a, <2>1 DEF removeProjectCi, NoRelease, Sides, Fresh, Exclusive, At,
           Busy, SameRef
  <2> QED
    BY <2>1, <2>2 DEF OutInv
<1>8. CASE removeProjectPages
  <2>1. TypeOK' /\ UNCHANGED <<sites, run>>
    BY <1>8, <1>a DEF removeProjectPages, TypeOK
  <2>2. Parts
    BY <1>8, <1>a, <2>1 DEF removeProjectPages, Sides, Fresh, Exclusive, At, Busy,
           SameRef
  <2> QED
    BY <2>1, <2>2 DEF OutInv
<1>9. CASE UNCHANGED vars
  <2>1. TypeOK' /\ UNCHANGED <<sites, run>>
    BY <1>9, <1>a DEF vars, TypeOK
  <2>2. Parts
    BY <1>9, <1>a, <2>1 DEF vars, Sides, Fresh, Exclusive, At, Busy, SameRef
  <2> QED
    BY <2>1, <2>2 DEF OutInv
<1> QED
  BY <1>1, <1>2, <1>3, <1>4, <1>5, <1>6, <1>7, <1>8, <1>9 DEF Next, Sweep

(* Every reachable state is well typed; a release, a site and the tag name *)
(* runs of their own kind.                                                 *)
THEOREM TypeCorrect == Spec => []TypeOK
<1>1. OutInv => TypeOK
  BY DEF OutInv
<1> QED
  BY <1>1, TypeInit, TypeNext, OutputsAssumption, PTL DEF Spec

-----------------------------------------------------------------------------
(* What is staged is there for the commit. *)

LEMMA AllNew == Init => \A r \in Runs : run[r].at = "new" /\ run[r].minimal = FALSE
  BY DEF Init, Starts

LEMMA Built ==
  ASSUME TypeOK, NEW r \in Runs,
         NEW result \in {"Success", "Failure"}, NEW minimal \in BOOLEAN,
         NEW outputs \in SUBSET {"artifact", "asset", "site"},
         build(r, result, outputs, minimal)
  PROVE  /\ Stays(r) /\ run'[r].result = result /\ run'[r].minimal = minimal
         /\ run'[r].at = IF r \in sites THEN "artifact"
                         ELSE IF minimal THEN "record"
                         ELSE IF result = "Success" THEN "asset" ELSE "unrelease"
<1> DEFINE p == IF r \in sites THEN "artifact"
                ELSE IF minimal THEN "record"
                ELSE IF result = "Success" THEN "asset" ELSE "unrelease"
<1>1. p \in Places
  BY PlacesHave
<1>2. run' = [run EXCEPT ![r].result = result, ![r].minimal = minimal, ![r].at = p]
  BY DEF build
<1> HIDE DEF p
<1>3. Stays(r) /\ run'[r].at = p /\ run'[r].result = result /\ run'[r].minimal = minimal
  BY <1>1, <1>2, EndsWith
<1> QED
  BY <1>3 DEF p

LEMMA Takes ==
  ASSUME TypeOK, NEW r \in Runs
  PROVE  /\ takeArtifact(r) =>
              IsAt(r, "sidecar") /\ run'[r].got = ("artifact" \in staged[r])
         /\ takeAsset(r) =>
              IsAt(r, "assetSidecar") /\ run'[r].got = ("asset" \in staged[r])
<1> DEFINE artifact == "artifact" \in staged[r]
           asset == "asset" \in staged[r]
<1>1. artifact \in BOOLEAN /\ asset \in BOOLEAN
  OBVIOUS
<1>2. takeArtifact(r) => run' = [run EXCEPT ![r].at = "sidecar", ![r].got = artifact]
  BY DEF takeArtifact
<1>3. takeAsset(r) => run' = [run EXCEPT ![r].at = "assetSidecar", ![r].got = asset]
  BY DEF takeAsset
<1> HIDE DEF artifact, asset
<1>4. /\ takeArtifact(r) => IsAt(r, "sidecar") /\ run'[r].got = artifact
      /\ takeAsset(r) => IsAt(r, "assetSidecar") /\ run'[r].got = asset
  BY <1>1, <1>2, <1>3, GoesTo, PlacesHave
<1> QED
  BY <1>4 DEF artifact, asset

(* The record of a run that is worked on says so; its workflow can be read *)
(* as long as its repository is there; a site that will be wanted is held. *)
Working ==
  removed = "no" => \A r \in Runs :
    Busy(r) /\ run[r].at \notin {"ended", "lost"} => rec[r] = "Running"
Prepared == removed = "no" => \A r \in Runs : ~run[r].minimal
Staging ==
  removed = "no" => \A r \in sites :
    /\ run[r].at \in {"artifact", "sidecar"} /\ run[r].result = "Success"
         => "site" \in staged[r]
    /\ run[r].at = "site" => "site" \in staged[r]
StagedInv == Working /\ Prepared /\ Staging

LEMMA StagedHandlers ==
  ASSUME OutputsAssumption, OutInv, StagedInv, NEW r \in Runs, Work(r) \/ crash(r)
  PROVE  StagedInv'
<1>a. TypeOK /\ Sides /\ Fresh /\ Exclusive /\ Runs \subseteq Nat \ {0} /\ StagedInv
  BY DEF OutInv, OutputsAssumption
<1> USE DEF files, rest, StagedInv, Working, Prepared, Staging
<1>1. CASE claim(r)
  <2>1. /\ Stays(r) /\ (run'[r].minimal => run[r].minimal)
        /\ run'[r].at = IF removed = "no" THEN "running" ELSE "done"
    BY <1>1, <1>a, MovesTo, EntersAt, PlacesHave DEF claim, IsAt
  <2> QED
    BY <1>1, <1>a, <2>1 DEF claim, Stays, Busy, TypeOK
<1>2. ASSUME NEW result \in {"Success", "Failure"}, NEW minimal \in BOOLEAN,
             NEW outputs \in SUBSET {"artifact", "asset", "site"},
             build(r, result, outputs, minimal)
      PROVE StagedInv'
  <2>1. /\ Stays(r) /\ run'[r].result = result /\ run'[r].minimal = minimal
        /\ run'[r].at = IF r \in sites THEN "artifact"
                        ELSE IF minimal THEN "record"
                        ELSE IF result = "Success" THEN "asset" ELSE "unrelease"
    BY <1>2, <1>a, Built
  <2> QED
    BY <1>2, <1>a, <2>1 DEF build, At, Busy, TypeOK
<1>3. CASE crash(r)
  <2>1. Stays(r) /\ ~run'[r].minimal /\ run'[r].at = "lost"
    BY <1>3, <1>a, EntersAt, PlacesHave DEF crash
  <2> QED
    BY <1>3, <1>a, <2>1 DEF crash, Stays, Busy, TypeOK
<1>4. ASSUME NEW last \in BOOLEAN, requeueLocked(r, last) PROVE StagedInv'
  <2>1. Stays(r) /\ ~run'[r].minimal /\ run'[r].at \in {"givenUp", "queued"}
    BY <1>4, <1>a, EntersAt, PlacesHave DEF requeueLocked
  <2> QED
    BY <1>4, <1>a, <2>1 DEF requeueLocked, Stays, Busy, TypeOK
<1>5. CASE takeArtifact(r)
  <2>1. IsAt(r, "sidecar") /\ run'[r].got = ("artifact" \in staged[r])
    BY <1>5, <1>a, Takes
  <2> QED
    BY <1>5, <1>a, <2>1 DEF takeArtifact, At, Busy, TypeOK
<1>6. CASE writeCiArtifactRecord(r)
  <2>1. IsAt(r, AfterArtifact(r))
    BY <1>6, <1>a, MovesTo, PlacesHave DEF writeCiArtifactRecord, AfterArtifact
  <2> QED
    BY <1>6, <1>a, <2>1 DEF writeCiArtifactRecord, IsAt, AfterArtifact, Stays, At,
           Busy, TypeOK
<1>7. CASE takeAsset(r)
  <2>1. IsAt(r, "assetSidecar") /\ run'[r].got = ("asset" \in staged[r])
    BY <1>7, <1>a, Takes
  <2> QED
    BY <1>7, <1>a, <2>1 DEF takeAsset, At, Busy, TypeOK
<1>8. CASE writeCiReleaseArtifactRecord(r)
  <2>1. IsAt(r, "releaseIni")
    BY <1>8, <1>a, MovesTo, PlacesHave DEF writeCiReleaseArtifactRecord
  <2> QED
    BY <1>8, <1>a, <2>1 DEF writeCiReleaseArtifactRecord, IsAt, Stays, At, Busy,
           TypeOK
<1>9. CASE writeCiReleaseRecord(r)
  <2>1. IsAt(r, "record")
    BY <1>9, <1>a, MovesTo, PlacesHave DEF writeCiReleaseRecord
  <2> QED
    BY <1>9, <1>a, <2>1 DEF writeCiReleaseRecord, IsAt, Stays, At, Busy, TypeOK
<1>10. CASE removeCiRelease(r)
  <2>1. IsAt(r, "record")
    BY <1>10, <1>a, MovesTo, PlacesHave DEF removeCiRelease
  <2> QED
    BY <1>10, <1>a, <2>1 DEF removeCiRelease, IsAt, Stays, At, Busy, TypeOK
<1>11. CASE publishStarts(r)
  <2>1. At(r, "site") /\ UNCHANGED <<rec, art, release, current, rest>>
    BY <1>11 DEF publishStarts
  <2>2. \/ /\ current > r \/ "site" \notin staged[r]
           /\ IsAt(r, "record") /\ UNCHANGED <<staged, version>>
        \/ /\ ~(current > r) /\ IsAt(r, "copy")
           /\ version' = [version EXCEPT ![r] = "partial"]
           /\ staged' = [staged EXCEPT ![r] = @ \ {"site"}]
    BY <1>11, <1>a, MovesTo, PlacesHave DEF publishStarts
  <2> QED
    BY <1>a, <2>1, <2>2 DEF IsAt, Stays, At, Busy, TypeOK
<1>12. CASE publishFails(r)
  <2>1. Stays(r) /\ run'[r].at = "record" /\ run'[r].result = "Error"
        /\ run'[r].minimal = run[r].minimal
    BY <1>12, <1>a, Fails
  <2> QED
    BY <1>12, <1>a, <2>1 DEF publishFails, Busy, TypeOK
<1>13. CASE copySite(r)
  <2>1. IsAt(r, "point")
    BY <1>13, <1>a, MovesTo, PlacesHave DEF copySite
  <2> QED
    BY <1>13, <1>a, <2>1 DEF copySite, IsAt, Stays, At, Busy, TypeOK
<1>14. CASE setCurrent(r)
  <2>1. IsAt(r, "prune")
    BY <1>14, <1>a, MovesTo, PlacesHave DEF setCurrent
  <2> QED
    BY <1>14, <1>a, <2>1 DEF setCurrent, IsAt, Stays, At, Busy, TypeOK
<1>15. CASE pruneVersions(r)
  <2>1. IsAt(r, "record")
    BY <1>15, <1>a, MovesTo, PlacesHave DEF pruneVersions
  <2> QED
    BY <1>15, <1>a, <2>1 DEF pruneVersions, IsAt, Stays, At, Busy, TypeOK
<1>16. CASE writeCiRunRecord(r)
  <2>1. IsAt(r, "ended")
    BY <1>16, <1>a, MovesTo, PlacesHave DEF writeCiRunRecord
  <2> QED
    BY <1>16, <1>a, <2>1 DEF writeCiRunRecord, IsAt, Stays, Busy, TypeOK
<1>17. CASE releaseCiClaim(r)
  <2>1. Stays(r) /\ ~run'[r].minimal /\ run'[r].at = "done"
    BY <1>17, <1>a, EntersAt, PlacesHave DEF releaseCiClaim
  <2> QED
    BY <1>17, <1>a, <2>1 DEF releaseCiClaim, Stays, Busy, TypeOK
<1> QED
  BY <1>1, <1>2, <1>3, <1>4, <1>5, <1>6, <1>7, <1>8, <1>9, <1>10, <1>11, <1>12,
     <1>13, <1>14, <1>15, <1>16, <1>17 DEF Work

LEMMA StagedNext ==
  ASSUME OutputsAssumption, OutInv, StagedInv, [Next]_vars
  PROVE  StagedInv'
<1>a. TypeOK /\ Sides /\ Fresh /\ Exclusive /\ Runs \subseteq Nat \ {0} /\ StagedInv
  BY DEF OutInv, OutputsAssumption
<1> USE DEF files, rest, StagedInv, Working, Prepared, Staging
<1>1. ASSUME NEW r \in Runs, NEW ref \in {"branch", "tag"}, push(r, ref)
      PROVE StagedInv'
  <2>1. IsAt(r, "queued")
    BY <1>1, <1>a, MovesTo, PlacesHave DEF push
  <2> QED
    BY <1>1, <1>a, <2>1 DEF push, IsAt, Stays, Busy, TypeOK
<1>2. ASSUME NEW r \in Runs, Work(r) \/ crash(r) PROVE StagedInv'
  BY <1>2, StagedHandlers
<1>3. CASE readCurrent \/ readSiteFile
  BY <1>3, <1>a DEF readCurrent, readSiteFile, Busy
<1>4. ASSUME NEW evicted \in SUBSET Runs, sweepCiArtifacts(evicted) PROVE StagedInv'
  BY <1>4, <1>a DEF sweepCiArtifacts, Busy, TypeOK, EndedStaging, Directories, InUse,
         Expendable
<1>5. CASE deleteTag
  BY <1>5, <1>a DEF deleteTag, Busy
<1>6. CASE removeRepository \/ removeProjectCi \/ removeProjectPages
  BY <1>6, <1>a DEF removeRepository, removeProjectCi, removeProjectPages
<1>7. CASE UNCHANGED vars
  BY <1>7, <1>a DEF vars, Busy
<1> QED
  BY <1>1, <1>2, <1>3, <1>4, <1>5, <1>6, <1>7 DEF Next, Sweep

LEMMA StagedHolds == Spec => []StagedInv
<1>1. Init => StagedInv
  BY AllNew DEF Init, StagedInv, Working, Prepared, Staging, Busy
<1>2. OutInv /\ StagedInv /\ [Next]_vars => StagedInv'
  BY StagedNext, OutputsAssumption
<1> QED
  BY <1>1, <1>2, TypeInit, TypeNext, OutputsAssumption, PTL DEF Spec

(* A bundle is in place before its sidecar lists it. *)
Bundled ==
  removed = "no" => \A r \in Runs :
    /\ art[r].ini = "stored" => art[r].tar
    /\ run[r].at = "sidecar" /\ run[r].got => art[r].tar

LEMMA BundledHandlers ==
  ASSUME OutputsAssumption, OutInv, Bundled, NEW r \in Runs, Work(r) \/ crash(r),
         QuietSweep
  PROVE  Bundled'
<1>a. TypeOK /\ Sides /\ Fresh /\ Exclusive /\ Runs \subseteq Nat \ {0} /\ Bundled
  BY DEF OutInv, OutputsAssumption
<1> USE DEF files, rest, Bundled
<1>1. CASE claim(r)
  <2>1. /\ Stays(r) /\ (run'[r].minimal => run[r].minimal)
        /\ run'[r].at = IF removed = "no" THEN "running" ELSE "done"
    BY <1>1, <1>a, MovesTo, EntersAt, PlacesHave DEF claim, IsAt
  <2> QED
    BY <1>1, <1>a, <2>1 DEF claim, Stays
<1>2. ASSUME NEW result \in {"Success", "Failure"}, NEW minimal \in BOOLEAN,
             NEW outputs \in SUBSET {"artifact", "asset", "site"},
             build(r, result, outputs, minimal)
      PROVE Bundled'
  <2>1. /\ Stays(r) /\ run'[r].result = result /\ run'[r].minimal = minimal
        /\ run'[r].at = IF r \in sites THEN "artifact"
                        ELSE IF minimal THEN "record"
                        ELSE IF result = "Success" THEN "asset" ELSE "unrelease"
    BY <1>2, <1>a, Built
  <2> QED
    BY <1>2, <1>a, <2>1 DEF build, Stays
<1>3. CASE crash(r)
  <2>1. Stays(r) /\ ~run'[r].minimal /\ run'[r].at = "lost"
    BY <1>3, <1>a, EntersAt, PlacesHave DEF crash
  <2> QED
    BY <1>3, <1>a, <2>1 DEF crash, Stays
<1>4. ASSUME NEW last \in BOOLEAN, requeueLocked(r, last) PROVE Bundled'
  <2>1. Stays(r) /\ ~run'[r].minimal /\ run'[r].at \in {"givenUp", "queued"}
    BY <1>4, <1>a, EntersAt, PlacesHave DEF requeueLocked
  <2> QED
    BY <1>4, <1>a, <2>1 DEF requeueLocked, NoArtifact, Stays, TypeOK
<1>5. CASE takeArtifact(r)
  <2>1. IsAt(r, "sidecar") /\ run'[r].got = ("artifact" \in staged[r])
    BY <1>5, <1>a, Takes
  <2> QED
    BY <1>5, <1>a, <2>1 DEF takeArtifact, TypeOK
<1>6. CASE writeCiArtifactRecord(r)
  <2>1. IsAt(r, AfterArtifact(r))
    BY <1>6, <1>a, MovesTo, PlacesHave DEF writeCiArtifactRecord, AfterArtifact
  <2> QED
    BY <1>6, <1>a, <2>1 DEF writeCiArtifactRecord, IsAt, AfterArtifact, Stays, At
<1>7. CASE takeAsset(r)
  <2>1. IsAt(r, "assetSidecar") /\ run'[r].got = ("asset" \in staged[r])
    BY <1>7, <1>a, Takes
  <2> QED
    BY <1>7, <1>a, <2>1 DEF takeAsset, IsAt, Stays
<1>8. CASE writeCiReleaseArtifactRecord(r)
  <2>1. IsAt(r, "releaseIni")
    BY <1>8, <1>a, MovesTo, PlacesHave DEF writeCiReleaseArtifactRecord
  <2> QED
    BY <1>8, <1>a, <2>1 DEF writeCiReleaseArtifactRecord, IsAt, Stays
<1>9. CASE writeCiReleaseRecord(r)
  <2>1. IsAt(r, "record")
    BY <1>9, <1>a, MovesTo, PlacesHave DEF writeCiReleaseRecord
  <2> QED
    BY <1>9, <1>a, <2>1 DEF writeCiReleaseRecord, IsAt, Stays
<1>10. CASE removeCiRelease(r)
  <2>1. IsAt(r, "record")
    BY <1>10, <1>a, MovesTo, PlacesHave DEF removeCiRelease
  <2> QED
    BY <1>10, <1>a, <2>1 DEF removeCiRelease, IsAt, Stays
<1>11. CASE publishStarts(r)
  <2>1. At(r, "site") /\ UNCHANGED <<rec, art, release, current, rest>>
    BY <1>11 DEF publishStarts
  <2>2. \/ /\ current > r \/ "site" \notin staged[r]
           /\ IsAt(r, "record") /\ UNCHANGED <<staged, version>>
        \/ /\ ~(current > r) /\ IsAt(r, "copy")
           /\ version' = [version EXCEPT ![r] = "partial"]
           /\ staged' = [staged EXCEPT ![r] = @ \ {"site"}]
    BY <1>11, <1>a, MovesTo, PlacesHave DEF publishStarts
  <2> QED
    BY <1>a, <2>1, <2>2 DEF IsAt, Stays
<1>12. CASE publishFails(r)
  <2>1. Stays(r) /\ run'[r].at = "record" /\ run'[r].result = "Error"
        /\ run'[r].minimal = run[r].minimal
    BY <1>12, <1>a, Fails
  <2> QED
    BY <1>12, <1>a, <2>1 DEF publishFails, Stays
<1>13. CASE copySite(r)
  <2>1. IsAt(r, "point")
    BY <1>13, <1>a, MovesTo, PlacesHave DEF copySite
  <2> QED
    BY <1>13, <1>a, <2>1 DEF copySite, IsAt, Stays
<1>14. CASE setCurrent(r)
  <2>1. IsAt(r, "prune")
    BY <1>14, <1>a, MovesTo, PlacesHave DEF setCurrent
  <2> QED
    BY <1>14, <1>a, <2>1 DEF setCurrent, IsAt, Stays
<1>15. CASE pruneVersions(r)
  <2>1. IsAt(r, "record")
    BY <1>15, <1>a, MovesTo, PlacesHave DEF pruneVersions
  <2> QED
    BY <1>15, <1>a, <2>1 DEF pruneVersions, IsAt, Stays
<1>16. CASE writeCiRunRecord(r)
  <2>1. IsAt(r, "ended")
    BY <1>16, <1>a, MovesTo, PlacesHave DEF writeCiRunRecord
  <2> QED
    BY <1>16, <1>a, <2>1 DEF writeCiRunRecord, IsAt, Stays
<1>17. CASE releaseCiClaim(r)
  <2>1. Stays(r) /\ ~run'[r].minimal /\ run'[r].at = "done"
    BY <1>17, <1>a, EntersAt, PlacesHave DEF releaseCiClaim
  <2> QED
    BY <1>17, <1>a, <2>1 DEF releaseCiClaim, Stays
<1> QED
  BY <1>1, <1>2, <1>3, <1>4, <1>5, <1>6, <1>7, <1>8, <1>9, <1>10, <1>11, <1>12,
     <1>13, <1>14, <1>15, <1>16, <1>17 DEF Work

LEMMA BundledNext ==
  ASSUME OutputsAssumption, OutInv, QuietSweep, Bundled, [Next]_vars
  PROVE  Bundled'
<1>a. TypeOK /\ Sides /\ Fresh /\ Exclusive /\ Runs \subseteq Nat \ {0} /\ Bundled
  BY DEF OutInv, OutputsAssumption
<1> USE DEF files, rest, Bundled
<1>1. ASSUME NEW r \in Runs, NEW ref \in {"branch", "tag"}, push(r, ref)
      PROVE Bundled'
  <2>1. IsAt(r, "queued")
    BY <1>1, <1>a, MovesTo, PlacesHave DEF push
  <2> QED
    BY <1>1, <1>a, <2>1 DEF push, IsAt, Stays
<1>2. ASSUME NEW r \in Runs, Work(r) \/ crash(r) PROVE Bundled'
  BY <1>2, BundledHandlers
<1>3. CASE readCurrent \/ readSiteFile
  BY <1>3, <1>a DEF readCurrent, readSiteFile
<1>4. ASSUME NEW evicted \in SUBSET Runs, sweepCiArtifacts(evicted) PROVE Bundled'
  BY <1>4, <1>a DEF sweepCiArtifacts, Stays, At, NoArtifact
<1>5. CASE deleteTag
  BY <1>5, <1>a DEF deleteTag
<1>6. CASE removeRepository \/ removeProjectCi \/ removeProjectPages
  BY <1>6, <1>a DEF removeRepository, removeProjectCi, removeProjectPages
<1>7. CASE UNCHANGED vars
  BY <1>7, <1>a DEF vars
<1> QED
  BY <1>1, <1>2, <1>3, <1>4, <1>5, <1>6, <1>7 DEF Next, Sweep

LEMMA BundledHolds == ASSUME QuietSweep PROVE Spec => []Bundled
<1>1. Init => Bundled
  BY AllNew DEF Init, Bundled, NoArtifact
<1>2. OutInv /\ Bundled /\ [Next]_vars => Bundled'
  BY BundledNext, OutputsAssumption
<1> QED
  BY <1>1, <1>2, TypeInit, TypeNext, OutputsAssumption, PTL DEF Spec

(* Neither the sweep nor the pruning of run directories takes what a       *)
(* commit still needs, as long as no sweep falls between a bundle and its  *)
(* sidecar.                                                                *)
THEOREM InUseStays == ASSUME QuietSweep PROVE Spec => []InUseIsKept
<1>1. OutInv /\ StagedInv /\ Bundled => InUseIsKept
  BY DEF OutInv, TypeOK, StagedInv, Working, Staging, Bundled, InUseIsKept, At
<1> QED
  BY <1>1, TypeInit, TypeNext, StagedHolds, BundledHolds, OutputsAssumption, PTL
    DEF Spec

(* A handler publishes only over older sites, and succeeds only with its   *)
(* own or a newer one live.                                                *)
Climbs ==
  removed = "no" => \A r \in Runs :
    /\ run[r].at \in {"copy", "point"} => current <= r
    /\ run[r].at = "prune" => current = r
    /\ run[r].at = "record" /\ r \in sites /\ run[r].result = "Success" => current >= r
    /\ r \in sites /\ rec[r] = "Success" => current >= r

LEMMA ClimbsHandlers ==
  ASSUME OutputsAssumption, OutInv, Climbs, NEW r \in Runs, Work(r) \/ crash(r),
         StagedInv
  PROVE  Climbs'
<1>a. TypeOK /\ Sides /\ Fresh /\ Exclusive /\ Runs \subseteq Nat \ {0} /\ Climbs
  BY DEF OutInv, OutputsAssumption
<1> USE DEF files, rest, Climbs
<1>1. CASE claim(r)
  <2>1. /\ Stays(r) /\ (run'[r].minimal => run[r].minimal)
        /\ run'[r].at = IF removed = "no" THEN "running" ELSE "done"
    BY <1>1, <1>a, MovesTo, EntersAt, PlacesHave DEF claim, IsAt
  <2> QED
    BY <1>1, <1>a, <2>1 DEF claim, Stays, TypeOK
<1>2. ASSUME NEW result \in {"Success", "Failure"}, NEW minimal \in BOOLEAN,
             NEW outputs \in SUBSET {"artifact", "asset", "site"},
             build(r, result, outputs, minimal)
      PROVE Climbs'
  <2>1. /\ Stays(r) /\ run'[r].result = result /\ run'[r].minimal = minimal
        /\ run'[r].at = IF r \in sites THEN "artifact"
                        ELSE IF minimal THEN "record"
                        ELSE IF result = "Success" THEN "asset" ELSE "unrelease"
    BY <1>2, <1>a, Built
  <2> QED
    BY <1>2, <1>a, <2>1 DEF build, Stays
<1>3. CASE crash(r)
  <2>1. Stays(r) /\ ~run'[r].minimal /\ run'[r].at = "lost"
    BY <1>3, <1>a, EntersAt, PlacesHave DEF crash
  <2> QED
    BY <1>3, <1>a, <2>1 DEF crash, Stays
<1>4. ASSUME NEW last \in BOOLEAN, requeueLocked(r, last) PROVE Climbs'
  <2>1. Stays(r) /\ ~run'[r].minimal /\ run'[r].at \in {"givenUp", "queued"}
    BY <1>4, <1>a, EntersAt, PlacesHave DEF requeueLocked
  <2> QED
    BY <1>4, <1>a, <2>1 DEF requeueLocked, Stays, TypeOK
<1>5. CASE takeArtifact(r)
  <2>1. IsAt(r, "sidecar") /\ run'[r].got = ("artifact" \in staged[r])
    BY <1>5, <1>a, Takes
  <2> QED
    BY <1>5, <1>a, <2>1 DEF takeArtifact, IsAt, Stays
<1>6. CASE writeCiArtifactRecord(r)
  <2>1. IsAt(r, AfterArtifact(r))
    BY <1>6, <1>a, MovesTo, PlacesHave DEF writeCiArtifactRecord, AfterArtifact
  <2> QED
    BY <1>6, <1>a, <2>1 DEF writeCiArtifactRecord, IsAt, AfterArtifact, Stays,
           StagedInv, Staging, Prepared
<1>7. CASE takeAsset(r)
  <2>1. IsAt(r, "assetSidecar") /\ run'[r].got = ("asset" \in staged[r])
    BY <1>7, <1>a, Takes
  <2> QED
    BY <1>7, <1>a, <2>1 DEF takeAsset, IsAt, Stays
<1>8. CASE writeCiReleaseArtifactRecord(r)
  <2>1. IsAt(r, "releaseIni")
    BY <1>8, <1>a, MovesTo, PlacesHave DEF writeCiReleaseArtifactRecord
  <2> QED
    BY <1>8, <1>a, <2>1 DEF writeCiReleaseArtifactRecord, IsAt, Stays
<1>9. CASE writeCiReleaseRecord(r)
  <2>1. IsAt(r, "record")
    BY <1>9, <1>a, MovesTo, PlacesHave DEF writeCiReleaseRecord
  <2> QED
    BY <1>9, <1>a, <2>1 DEF writeCiReleaseRecord, IsAt, Stays, Sides, At, TagPlaces
<1>10. CASE removeCiRelease(r)
  <2>1. IsAt(r, "record") /\ r \notin sites
    BY <1>10, <1>a, MovesTo, PlacesHave DEF removeCiRelease, Sides, At, TagPlaces
  <2>2. UNCHANGED <<rec, current, removed, sites>>
    BY <1>10 DEF removeCiRelease
  <2> QED
    BY <1>a, <2>1, <2>2 DEF IsAt, Stays
<1>11. CASE publishStarts(r)
  <2>1. At(r, "site") /\ UNCHANGED <<rec, art, release, current, rest>>
    BY <1>11 DEF publishStarts
  <2>2. \/ /\ current > r \/ "site" \notin staged[r]
           /\ IsAt(r, "record") /\ UNCHANGED <<staged, version>>
        \/ /\ ~(current > r) /\ IsAt(r, "copy")
           /\ version' = [version EXCEPT ![r] = "partial"]
           /\ staged' = [staged EXCEPT ![r] = @ \ {"site"}]
    BY <1>11, <1>a, MovesTo, PlacesHave DEF publishStarts
  <2> QED
    BY <1>a, <2>1, <2>2 DEF IsAt, Stays, At, TagPlaces, TypeOK, StagedInv, Staging,
           Prepared
<1>12. CASE publishFails(r)
  <2>1. Stays(r) /\ run'[r].at = "record" /\ run'[r].result = "Error"
        /\ run'[r].minimal = run[r].minimal
    BY <1>12, <1>a, Fails
  <2> QED
    BY <1>12, <1>a, <2>1 DEF publishFails, Stays
<1>13. CASE copySite(r)
  <2>1. IsAt(r, "point")
    BY <1>13, <1>a, MovesTo, PlacesHave DEF copySite
  <2> QED
    BY <1>13, <1>a, <2>1 DEF copySite, IsAt, Stays, At
<1>14. CASE setCurrent(r)
  <2>1. IsAt(r, "prune")
    BY <1>14, <1>a, MovesTo, PlacesHave DEF setCurrent
  <2> QED
    BY <1>14, <1>a, <2>1 DEF setCurrent, IsAt, Stays, Sides, At, Busy, SitePlaces,
                             Exclusive, SameRef, TypeOK
<1>15. CASE pruneVersions(r)
  <2>1. IsAt(r, "record")
    BY <1>15, <1>a, MovesTo, PlacesHave DEF pruneVersions
  <2> QED
    BY <1>15, <1>a, <2>1 DEF pruneVersions, IsAt, Stays, At
<1>16. CASE writeCiRunRecord(r)
  <2>1. IsAt(r, "ended")
    BY <1>16, <1>a, MovesTo, PlacesHave DEF writeCiRunRecord
  <2> QED
    BY <1>16, <1>a, <2>1 DEF writeCiRunRecord, IsAt, Stays, At
<1>17. CASE releaseCiClaim(r)
  <2>1. Stays(r) /\ ~run'[r].minimal /\ run'[r].at = "done"
    BY <1>17, <1>a, EntersAt, PlacesHave DEF releaseCiClaim
  <2> QED
    BY <1>17, <1>a, <2>1 DEF releaseCiClaim, Stays
<1> QED
  BY <1>1, <1>2, <1>3, <1>4, <1>5, <1>6, <1>7, <1>8, <1>9, <1>10, <1>11, <1>12,
     <1>13, <1>14, <1>15, <1>16, <1>17 DEF Work

LEMMA ClimbsNext ==
  ASSUME OutputsAssumption, OutInv, StagedInv, Climbs, [Next]_vars
  PROVE  Climbs'
<1>a. TypeOK /\ Sides /\ Fresh /\ Exclusive /\ Runs \subseteq Nat \ {0} /\ Climbs
  BY DEF OutInv, OutputsAssumption
<1> USE DEF files, rest, Climbs
<1>1. ASSUME NEW r \in Runs, NEW ref \in {"branch", "tag"}, push(r, ref)
      PROVE Climbs'
  <2>1. IsAt(r, "queued")
    BY <1>1, <1>a, MovesTo, PlacesHave DEF push
  <2> QED
    BY <1>1, <1>a, <2>1 DEF push, IsAt, Stays, TypeOK
<1>2. ASSUME NEW r \in Runs, Work(r) \/ crash(r) PROVE Climbs'
  BY <1>2, ClimbsHandlers
<1>3. CASE readCurrent \/ readSiteFile
  BY <1>3, <1>a DEF readCurrent, readSiteFile
<1>4. ASSUME NEW evicted \in SUBSET Runs, sweepCiArtifacts(evicted) PROVE Climbs'
  BY <1>4, <1>a DEF sweepCiArtifacts
<1>5. CASE deleteTag
  BY <1>5, <1>a DEF deleteTag
<1>6. CASE removeRepository \/ removeProjectCi \/ removeProjectPages
  BY <1>6, <1>a DEF removeRepository, removeProjectCi, removeProjectPages
<1>7. CASE UNCHANGED vars
  BY <1>7, <1>a DEF vars
<1> QED
  BY <1>1, <1>2, <1>3, <1>4, <1>5, <1>6, <1>7 DEF Next, Sweep

LEMMA ClimbsHolds == Spec => []Climbs
<1>1. Init => Climbs
  BY AllNew DEF Init, Climbs
<1>2. OutInv /\ StagedInv /\ Climbs /\ [Next]_vars => Climbs'
  BY ClimbsNext, OutputsAssumption
<1> QED
  BY <1>1, <1>2, TypeInit, TypeNext, StagedHolds, OutputsAssumption, PTL DEF Spec

(* A run that reports success has its site, or a newer one, live.          *)
THEOREM SuccessIsPublished == Spec => []SuccessIsLive
<1>1. OutInv /\ Climbs => SuccessIsLive
  BY DEF OutInv, TypeOK, Climbs, SuccessIsLive
<1> QED
  BY <1>1, TypeInit, TypeNext, ClimbsHolds, OutputsAssumption, PTL DEF Spec

(* The site that is live is whole, and its handler is beyond it. *)
Whole ==
  /\ removed = "no" => /\ current # 0 => version[current] = "whole"
                       /\ \A r \in Runs : run[r].at = "point" => version[r] = "whole"
  /\ current # 0 => run[current].at \in {"prune", "record", "ended", "done"}

LEMMA WholeHandlers ==
  ASSUME OutputsAssumption, OutInv, Whole, NEW r \in Runs, Work(r) \/ crash(r),
         Climbs, WholeCommits
  PROVE  Whole'
<1>a. TypeOK /\ Sides /\ Fresh /\ Exclusive /\ Runs \subseteq Nat \ {0} /\ Whole
  BY DEF OutInv, OutputsAssumption
<1> USE DEF files, rest, Whole
<1>1. CASE claim(r)
  <2>1. /\ Stays(r) /\ (run'[r].minimal => run[r].minimal)
        /\ run'[r].at = IF removed = "no" THEN "running" ELSE "done"
    BY <1>1, <1>a, MovesTo, EntersAt, PlacesHave DEF claim, IsAt
  <2> QED
    BY <1>1, <1>a, <2>1 DEF claim, Stays, At, TypeOK
<1>2. ASSUME NEW result \in {"Success", "Failure"}, NEW minimal \in BOOLEAN,
             NEW outputs \in SUBSET {"artifact", "asset", "site"},
             build(r, result, outputs, minimal)
      PROVE Whole'
  <2>1. /\ Stays(r) /\ run'[r].result = result /\ run'[r].minimal = minimal
        /\ run'[r].at = IF r \in sites THEN "artifact"
                        ELSE IF minimal THEN "record"
                        ELSE IF result = "Success" THEN "asset" ELSE "unrelease"
    BY <1>2, <1>a, Built
  <2> QED
    BY <1>2, <1>a, <2>1 DEF build, At, TypeOK
<1>3. CASE crash(r)
  <2>1. Stays(r) /\ ~run'[r].minimal /\ run'[r].at = "lost"
    BY <1>3, <1>a, EntersAt, PlacesHave DEF crash
  <2> QED
    BY <1>3, <1>a, <2>1 DEF crash, Stays, TypeOK
<1>4. ASSUME NEW last \in BOOLEAN, requeueLocked(r, last) PROVE Whole'
  <2>1. Stays(r) /\ ~run'[r].minimal /\ run'[r].at \in {"givenUp", "queued"}
    BY <1>4, <1>a, EntersAt, PlacesHave DEF requeueLocked
  <2> QED
    BY <1>4, <1>a, <2>1 DEF requeueLocked, Stays, At, TypeOK
<1>5. CASE takeArtifact(r)
  <2>1. IsAt(r, "sidecar") /\ run'[r].got = ("artifact" \in staged[r])
    BY <1>5, <1>a, Takes
  <2> QED
    BY <1>5, <1>a, <2>1 DEF takeArtifact, At, TypeOK
<1>6. CASE writeCiArtifactRecord(r)
  <2>1. IsAt(r, AfterArtifact(r))
    BY <1>6, <1>a, MovesTo, PlacesHave DEF writeCiArtifactRecord, AfterArtifact
  <2> QED
    BY <1>6, <1>a, <2>1 DEF writeCiArtifactRecord, IsAt, AfterArtifact, Stays, At,
           TypeOK
<1>7. CASE takeAsset(r)
  <2>1. IsAt(r, "assetSidecar") /\ run'[r].got = ("asset" \in staged[r])
    BY <1>7, <1>a, Takes
  <2> QED
    BY <1>7, <1>a, <2>1 DEF takeAsset, At, TypeOK
<1>8. CASE writeCiReleaseArtifactRecord(r)
  <2>1. IsAt(r, "releaseIni")
    BY <1>8, <1>a, MovesTo, PlacesHave DEF writeCiReleaseArtifactRecord
  <2> QED
    BY <1>8, <1>a, <2>1 DEF writeCiReleaseArtifactRecord, IsAt, Stays, At, TypeOK
<1>9. CASE writeCiReleaseRecord(r)
  <2>1. IsAt(r, "record")
    BY <1>9, <1>a, MovesTo, PlacesHave DEF writeCiReleaseRecord
  <2> QED
    BY <1>9, <1>a, <2>1 DEF writeCiReleaseRecord, IsAt, Stays, TypeOK
<1>10. CASE removeCiRelease(r)
  <2>1. IsAt(r, "record")
    BY <1>10, <1>a, MovesTo, PlacesHave DEF removeCiRelease
  <2> QED
    BY <1>10, <1>a, <2>1 DEF removeCiRelease, IsAt, Stays, TypeOK
<1>11. CASE publishStarts(r)
  <2>1. At(r, "site") /\ current # r /\ UNCHANGED <<current, removed>>
    BY <1>11, <1>a DEF publishStarts, At, OutputsAssumption
  <2>2. PICK p \in {"record", "copy"} : IsAt(r, p)
    BY <1>11, <1>a, MovesTo, PlacesHave DEF publishStarts
  <2>3. \A q \in Runs \ {r} : version'[q] = version[q]
    BY <1>11, <1>a DEF publishStarts, TypeOK
  <2>4. current \in Runs \cup {0}
    BY <1>a DEF TypeOK
  <2> QED
    BY <1>a, <2>1, <2>2, <2>3, <2>4 DEF IsAt, Stays
<1>12. CASE publishFails(r)
  <2>1. Stays(r) /\ run'[r].at = "record" /\ run'[r].result = "Error"
        /\ run'[r].minimal = run[r].minimal
    BY <1>12, <1>a, Fails
  <2> QED
    BY <1>12, <1>a, <2>1 DEF publishFails, TypeOK
<1>13. CASE copySite(r)
  <2>1. IsAt(r, "point")
    BY <1>13, <1>a, MovesTo, PlacesHave DEF copySite
  <2> QED
    BY <1>13, <1>a, <2>1 DEF copySite, IsAt, Stays, At, TypeOK
<1>14. CASE setCurrent(r)
  <2>1. IsAt(r, "prune")
    BY <1>14, <1>a, MovesTo, PlacesHave DEF setCurrent
  <2> QED
    BY <1>14, <1>a, <2>1 DEF setCurrent, IsAt, Stays, At
<1>15. CASE pruneVersions(r)
  <2>1. IsAt(r, "record") /\ UNCHANGED <<current, removed>>
    BY <1>15, <1>a, MovesTo, PlacesHave DEF pruneVersions
  <2>2. removed = "no" => current = r
    BY <1>15, <1>a DEF pruneVersions, Climbs, At
  <2>3. \A q \in Runs \ {r} : run[q].at # "point"
    BY <1>15, <1>a DEF pruneVersions, Sides, SitePlaces, Exclusive, SameRef, At, Busy
  <2>4. version'[r] = version[r]
    BY <1>15, <1>a DEF pruneVersions, Old
  <2> QED
    BY <1>a, <2>1, <2>2, <2>3, <2>4 DEF IsAt, Stays, TypeOK
<1>16. CASE writeCiRunRecord(r)
  <2>1. IsAt(r, "ended")
    BY <1>16, <1>a, MovesTo, PlacesHave DEF writeCiRunRecord
  <2> QED
    BY <1>16, <1>a, <2>1 DEF writeCiRunRecord, IsAt, Stays, TypeOK
<1>17. CASE releaseCiClaim(r)
  <2>1. Stays(r) /\ ~run'[r].minimal /\ run'[r].at = "done"
    BY <1>17, <1>a, EntersAt, PlacesHave DEF releaseCiClaim
  <2> QED
    BY <1>17, <1>a, <2>1 DEF releaseCiClaim, Stays, TypeOK
<1> QED
  BY <1>1, <1>2, <1>3, <1>4, <1>5, <1>6, <1>7, <1>8, <1>9, <1>10, <1>11, <1>12,
     <1>13, <1>14, <1>15, <1>16, <1>17 DEF Work

LEMMA WholeNext ==
  ASSUME OutputsAssumption, OutInv, Climbs, WholeCommits, Whole, [Next]_vars
  PROVE  Whole'
<1>a. TypeOK /\ Sides /\ Fresh /\ Exclusive /\ Runs \subseteq Nat \ {0} /\ Whole
  BY DEF OutInv, OutputsAssumption
<1> USE DEF files, rest, Whole
<1>1. ASSUME NEW r \in Runs, NEW ref \in {"branch", "tag"}, push(r, ref)
      PROVE Whole'
  <2>1. IsAt(r, "queued")
    BY <1>1, <1>a, MovesTo, PlacesHave DEF push
  <2> QED
    BY <1>1, <1>a, <2>1 DEF push, IsAt, Fresh, Stays, TypeOK
<1>2. ASSUME NEW r \in Runs, Work(r) \/ crash(r) PROVE Whole'
  BY <1>2, WholeHandlers
<1>3. CASE readCurrent \/ readSiteFile
  BY <1>3, <1>a DEF readCurrent, readSiteFile
<1>4. ASSUME NEW evicted \in SUBSET Runs, sweepCiArtifacts(evicted) PROVE Whole'
  BY <1>4, <1>a DEF sweepCiArtifacts
<1>5. CASE deleteTag
  BY <1>5, <1>a DEF deleteTag
<1>6. CASE removeRepository \/ removeProjectCi \/ removeProjectPages
  BY <1>6, <1>a DEF removeRepository, removeProjectCi, removeProjectPages
<1>7. CASE UNCHANGED vars
  BY <1>7, <1>a DEF vars
<1> QED
  BY <1>1, <1>2, <1>3, <1>4, <1>5, <1>6, <1>7 DEF Next, Sweep

LEMMA WholeHolds == ASSUME WholeCommits PROVE Spec => []Whole
<1>1. Init => Whole
  BY AllNew DEF Init, Whole
<1>2. OutInv /\ Climbs /\ Whole /\ [Next]_vars => Whole'
  BY WholeNext, OutputsAssumption
<1> QED
  BY <1>1, <1>2, TypeInit, TypeNext, ClimbsHolds, OutputsAssumption, PTL DEF Spec

(* The site that is live is whole, whatever publication fails or dies, as  *)
(* long as no handler dies after its site went live.                       *)
THEOREM LiveSiteIsWhole == ASSUME WholeCommits PROVE Spec => []CurrentIsWhole
<1>1. Whole => CurrentIsWhole
  BY DEF Whole, CurrentIsWhole
<1> QED
  BY <1>1, WholeHolds, PTL

(* A release is of one build, or its build is at work on it. *)
OneBuild ==
  release.record # 0 /\ release.asset # 0
    => release.asset = release.record /\ release.tar = release.record
Released ==
  removed = "no" =>
    /\ (\A r \in Runs \ sites : run[r].at \in {"new", "done"}) => OneBuild
    /\ \A r \in Runs \ sites :
         /\ run[r].at = "assetSidecar" /\ run[r].got => release.tar = r
         /\ run[r].at = "releaseIni" /\ release.asset # 0
              => release.asset = r /\ release.tar = r
         /\ run[r].at \in {"record", "ended"} => OneBuild

LEMMA ReleasedHandlers ==
  ASSUME OutputsAssumption, OutInv, Released, NEW r \in Runs, Work(r) \/ crash(r),
         Prepared, QuietTag
  PROVE  Released'
<1>a. TypeOK /\ Sides /\ Fresh /\ Exclusive /\ Runs \subseteq Nat \ {0} /\ Released
  BY DEF OutInv, OutputsAssumption
<1> USE DEF files, rest, Released, OneBuild
<1>1. CASE claim(r)
  <2>1. /\ Stays(r) /\ (run'[r].minimal => run[r].minimal)
        /\ run'[r].at = IF removed = "no" THEN "running" ELSE "done"
    BY <1>1, <1>a, MovesTo, EntersAt, PlacesHave DEF claim, IsAt
  <2> QED
    BY <1>1, <1>a, <2>1 DEF claim, Stays
<1>2. ASSUME NEW result \in {"Success", "Failure"}, NEW minimal \in BOOLEAN,
             NEW outputs \in SUBSET {"artifact", "asset", "site"},
             build(r, result, outputs, minimal)
      PROVE Released'
  <2>1. /\ Stays(r) /\ run'[r].result = result /\ run'[r].minimal = minimal
        /\ run'[r].at = IF r \in sites THEN "artifact"
                        ELSE IF minimal THEN "record"
                        ELSE IF result = "Success" THEN "asset" ELSE "unrelease"
    BY <1>2, <1>a, Built
  <2> QED
    BY <1>2, <1>a, <2>1 DEF build, Stays
<1>3. CASE crash(r)
  <2>1. Stays(r) /\ ~run'[r].minimal /\ run'[r].at = "lost"
    BY <1>3, <1>a, EntersAt, PlacesHave DEF crash
  <2> QED
    BY <1>3, <1>a, <2>1 DEF crash, Stays
<1>4. ASSUME NEW last \in BOOLEAN, requeueLocked(r, last) PROVE Released'
  <2>1. Stays(r) /\ ~run'[r].minimal /\ run'[r].at \in {"givenUp", "queued"}
    BY <1>4, <1>a, EntersAt, PlacesHave DEF requeueLocked
  <2> QED
    BY <1>4, <1>a, <2>1 DEF requeueLocked, Stays
<1>5. CASE takeArtifact(r)
  <2>1. IsAt(r, "sidecar") /\ run'[r].got = ("artifact" \in staged[r])
    BY <1>5, <1>a, Takes
  <2> QED
    BY <1>5, <1>a, <2>1 DEF takeArtifact, IsAt, Stays
<1>6. CASE writeCiArtifactRecord(r)
  <2>1. Stays(r) /\ r \in sites
    BY <1>6, <1>a, MovesTo, PlacesHave DEF writeCiArtifactRecord, AfterArtifact, IsAt,
       Sides, At, SitePlaces
  <2>2. UNCHANGED <<release, removed, sites>>
    BY <1>6 DEF writeCiArtifactRecord
  <2> QED
    BY <1>a, <2>1, <2>2 DEF Stays
<1>7. CASE takeAsset(r)
  <2>1. IsAt(r, "assetSidecar") /\ run'[r].got = ("asset" \in staged[r])
    BY <1>7, <1>a, Takes
  <2>2. r \notin sites /\ \A q \in Runs \ sites : q # r => ~Busy(q)
    BY <1>7, <1>a DEF takeAsset, Sides, TagPlaces, Exclusive, SameRef, At, Busy
  <2>3. (run'[r].got => release'.tar = r) /\ UNCHANGED <<removed, sites>>
    BY <1>7, <1>a, <2>1 DEF takeAsset, TypeOK
  <2> QED
    BY <1>a, <2>1, <2>2, <2>3 DEF IsAt, Stays, Busy
<1>8. CASE writeCiReleaseArtifactRecord(r)
  <2>1. IsAt(r, "releaseIni")
    BY <1>8, <1>a, MovesTo, PlacesHave DEF writeCiReleaseArtifactRecord
  <2> QED
    BY <1>8, <1>a, <2>1 DEF writeCiReleaseArtifactRecord, IsAt, Stays, Sides, At,
           Busy, TagPlaces, Exclusive, SameRef
<1>9. CASE writeCiReleaseRecord(r)
  <2>1. IsAt(r, "record")
    BY <1>9, <1>a, MovesTo, PlacesHave DEF writeCiReleaseRecord
  <2> QED
    BY <1>9, <1>a, <2>1 DEF writeCiReleaseRecord, IsAt, Stays, Sides, At, TagPlaces
<1>10. CASE removeCiRelease(r)
  <2>1. IsAt(r, "record") /\ r \notin sites
    BY <1>10, <1>a, MovesTo, PlacesHave DEF removeCiRelease, Sides, At, TagPlaces
  <2>2. OneBuild' /\ UNCHANGED <<removed, sites>>
    BY <1>10 DEF removeCiRelease, NoRelease
  <2>3. \A q \in Runs \ sites : q # r => ~Busy(q)
    BY <1>10, <1>a, <2>1 DEF removeCiRelease, Exclusive, SameRef, At, Busy
  <2> QED
    BY <1>a, <2>1, <2>2, <2>3 DEF IsAt, Stays, Busy
<1>11. CASE publishStarts(r)
  <2>1. At(r, "site") /\ UNCHANGED <<rec, art, release, current, rest>>
    BY <1>11 DEF publishStarts
  <2>2. \/ /\ current > r \/ "site" \notin staged[r]
           /\ IsAt(r, "record") /\ UNCHANGED <<staged, version>>
        \/ /\ ~(current > r) /\ IsAt(r, "copy")
           /\ version' = [version EXCEPT ![r] = "partial"]
           /\ staged' = [staged EXCEPT ![r] = @ \ {"site"}]
    BY <1>11, <1>a, MovesTo, PlacesHave DEF publishStarts
  <2> QED
    BY <1>a, <2>1, <2>2 DEF IsAt, Stays, Sides, At, SitePlaces
<1>12. CASE publishFails(r)
  <2>1. Stays(r) /\ run'[r].at = "record" /\ run'[r].result = "Error"
        /\ run'[r].minimal = run[r].minimal
    BY <1>12, <1>a, Fails
  <2> QED
    BY <1>12, <1>a, <2>1 DEF publishFails, Stays, Sides, SitePlaces
<1>13. CASE copySite(r)
  <2>1. IsAt(r, "point")
    BY <1>13, <1>a, MovesTo, PlacesHave DEF copySite
  <2> QED
    BY <1>13, <1>a, <2>1 DEF copySite, IsAt, Stays
<1>14. CASE setCurrent(r)
  <2>1. IsAt(r, "prune")
    BY <1>14, <1>a, MovesTo, PlacesHave DEF setCurrent
  <2> QED
    BY <1>14, <1>a, <2>1 DEF setCurrent, IsAt, Stays
<1>15. CASE pruneVersions(r)
  <2>1. IsAt(r, "record")
    BY <1>15, <1>a, MovesTo, PlacesHave DEF pruneVersions
  <2> QED
    BY <1>15, <1>a, <2>1 DEF pruneVersions, IsAt, Stays, Sides, At, SitePlaces
<1>16. CASE writeCiRunRecord(r)
  <2>1. IsAt(r, "ended")
    BY <1>16, <1>a, MovesTo, PlacesHave DEF writeCiRunRecord
  <2> QED
    BY <1>16, <1>a, <2>1 DEF writeCiRunRecord, IsAt, Stays, At
<1>17. CASE releaseCiClaim(r)
  <2>1. Stays(r) /\ ~run'[r].minimal /\ run'[r].at = "done"
    BY <1>17, <1>a, EntersAt, PlacesHave DEF releaseCiClaim
  <2> QED
    BY <1>17, <1>a, <2>1 DEF releaseCiClaim, Stays, At
<1> QED
  BY <1>1, <1>2, <1>3, <1>4, <1>5, <1>6, <1>7, <1>8, <1>9, <1>10, <1>11, <1>12,
     <1>13, <1>14, <1>15, <1>16, <1>17 DEF Work

LEMMA ReleasedNext ==
  ASSUME OutputsAssumption, OutInv, Prepared, QuietTag, Released, [Next]_vars
  PROVE  Released'
<1>a. TypeOK /\ Sides /\ Fresh /\ Exclusive /\ Runs \subseteq Nat \ {0} /\ Released
  BY DEF OutInv, OutputsAssumption
<1> USE DEF files, rest, Released, OneBuild
<1>1. ASSUME NEW r \in Runs, NEW ref \in {"branch", "tag"}, push(r, ref)
      PROVE Released'
  <2>1. IsAt(r, "queued")
    BY <1>1, <1>a, MovesTo, PlacesHave DEF push
  <2> QED
    BY <1>1, <1>a, <2>1 DEF push, IsAt, Stays, At
<1>2. ASSUME NEW r \in Runs, Work(r) \/ crash(r) PROVE Released'
  BY <1>2, ReleasedHandlers
<1>3. CASE readCurrent \/ readSiteFile
  BY <1>3, <1>a DEF readCurrent, readSiteFile
<1>4. ASSUME NEW evicted \in SUBSET Runs, sweepCiArtifacts(evicted) PROVE Released'
  BY <1>4, <1>a DEF sweepCiArtifacts
<1>5. CASE deleteTag
  BY <1>5, <1>a DEF deleteTag, NoRelease, Resting
<1>6. CASE removeRepository \/ removeProjectCi \/ removeProjectPages
  BY <1>6, <1>a DEF removeRepository, removeProjectCi, removeProjectPages
<1>7. CASE UNCHANGED vars
  BY <1>7, <1>a DEF vars
<1> QED
  BY <1>1, <1>2, <1>3, <1>4, <1>5, <1>6, <1>7 DEF Next, Sweep
LEMMA ReleasedHolds == ASSUME QuietTag PROVE Spec => []Released
<1>1. Init => Released
  BY AllNew DEF Init, Released, OneBuild, NoRelease
<1>2. OutInv /\ Prepared /\ Released /\ [Next]_vars => Released'
  BY ReleasedNext, OutputsAssumption
<1>3. StagedInv => Prepared
  BY DEF StagedInv
<1> QED
  BY <1>1, <1>2, TypeInit, TypeNext, StagedHolds, <1>3, OutputsAssumption, PTL
    DEF Spec

(* A release names one build and has its asset, as long as a tag is not    *)
(* deleted while a run of it is queued.                                    *)
THEOREM ReleaseStaysOne == ASSUME QuietTag PROVE Spec => []ReleaseIsOneBuild
<1>1. Released => ReleaseIsOneBuild
  BY DEF Released, OneBuild, ReleaseIsOneBuild
<1> QED
  BY <1>1, ReleasedHolds, PTL

-----------------------------------------------------------------------------
(* What a page request that has read the pointer relies on: the run it     *)
(* reads is beyond its publication, and while a newer one is about to      *)
(* prune, no other newer run has published.                                *)
Reading ==
  removed = "no" /\ request # 0 =>
    /\ run[request].at \in {"prune", "record", "ended", "done"}
    /\ request # current => run[request].at = "done"
    /\ \A p \in Runs : run[p].at = "prune" /\ request # p =>
         \A q \in sites : rec[q] = "Success" => q <= request

(* A step of a handler that leaves the pointer alone: a run that is live   *)
(* only goes on to its end, and only its last write records a success.     *)
Onwards(r) ==
  /\ Stays(r) /\ UNCHANGED <<sites, current, request, removed>>
  /\ \A q \in Runs \ {r} : rec'[q] = rec[q]
  /\ rec'[r] = "Success" => rec[r] = "Success" \/ run[r].at = "record"
  /\ run[r].at # "done" /\ run'[r].at # "prune"
  /\ \/ run[r].at \notin {"prune", "record", "ended"}
     \/ run'[r].at \in {"record", "ended", "done"}
     \/ current # r

LEMMA HandlersOnward ==
  ASSUME OutputsAssumption, OutInv, NEW r \in Runs, Work(r) \/ crash(r),
         ~setCurrent(r), WholeCommits
  PROVE  Onwards(r)
<1>a. TypeOK /\ Runs \subseteq Nat \ {0}
  BY DEF OutInv, OutputsAssumption
<1> USE DEF files, rest, Onwards
<1>1. CASE claim(r)
  <2>1. /\ Stays(r) /\ (run'[r].minimal => run[r].minimal)
        /\ run'[r].at = IF removed = "no" THEN "running" ELSE "done"
    BY <1>1, <1>a, MovesTo, EntersAt, PlacesHave DEF claim, IsAt
  <2> QED
    BY <1>1, <1>a, <2>1 DEF claim, Stays, At, TypeOK
<1>2. ASSUME NEW result \in {"Success", "Failure"}, NEW minimal \in BOOLEAN,
             NEW outputs \in SUBSET {"artifact", "asset", "site"},
             build(r, result, outputs, minimal)
      PROVE Onwards(r)
  <2>1. /\ Stays(r) /\ run'[r].result = result /\ run'[r].minimal = minimal
        /\ run'[r].at = IF r \in sites THEN "artifact"
                        ELSE IF minimal THEN "record"
                        ELSE IF result = "Success" THEN "asset" ELSE "unrelease"
    BY <1>2, <1>a, Built
  <2> QED
    BY <1>2, <1>a, <2>1 DEF build, At, TypeOK
<1>3. CASE crash(r)
  <2>1. Stays(r) /\ ~run'[r].minimal /\ run'[r].at = "lost"
    BY <1>3, <1>a, EntersAt, PlacesHave DEF crash
  <2> QED
    BY <1>3, <1>a, <2>1 DEF crash, Stays, TypeOK, Busy, At
<1>4. ASSUME NEW last \in BOOLEAN, requeueLocked(r, last) PROVE Onwards(r)
  <2>1. Stays(r) /\ ~run'[r].minimal /\ run'[r].at \in {"givenUp", "queued"}
    BY <1>4, <1>a, EntersAt, PlacesHave DEF requeueLocked
  <2> QED
    BY <1>4, <1>a, <2>1 DEF requeueLocked, Stays, At, TypeOK
<1>5. CASE takeArtifact(r)
  <2>1. IsAt(r, "sidecar") /\ run'[r].got = ("artifact" \in staged[r])
    BY <1>5, <1>a, Takes
  <2> QED
    BY <1>5, <1>a, <2>1 DEF takeArtifact, IsAt, At
<1>6. CASE writeCiArtifactRecord(r)
  <2>1. IsAt(r, AfterArtifact(r))
    BY <1>6, <1>a, MovesTo, PlacesHave DEF writeCiArtifactRecord, AfterArtifact
  <2> QED
    BY <1>6, <1>a, <2>1 DEF writeCiArtifactRecord, IsAt, AfterArtifact, Stays, At,
           TypeOK
<1>7. CASE takeAsset(r)
  <2>1. IsAt(r, "assetSidecar") /\ run'[r].got = ("asset" \in staged[r])
    BY <1>7, <1>a, Takes
  <2> QED
    BY <1>7, <1>a, <2>1 DEF takeAsset, IsAt, At
<1>8. CASE writeCiReleaseArtifactRecord(r)
  <2>1. IsAt(r, "releaseIni")
    BY <1>8, <1>a, MovesTo, PlacesHave DEF writeCiReleaseArtifactRecord
  <2> QED
    BY <1>8, <1>a, <2>1 DEF writeCiReleaseArtifactRecord, IsAt, Stays, At, TypeOK
<1>9. CASE writeCiReleaseRecord(r)
  <2>1. IsAt(r, "record")
    BY <1>9, <1>a, MovesTo, PlacesHave DEF writeCiReleaseRecord
  <2> QED
    BY <1>9, <1>a, <2>1 DEF writeCiReleaseRecord, IsAt, Stays, TypeOK, At
<1>10. CASE removeCiRelease(r)
  <2>1. IsAt(r, "record")
    BY <1>10, <1>a, MovesTo, PlacesHave DEF removeCiRelease
  <2> QED
    BY <1>10, <1>a, <2>1 DEF removeCiRelease, IsAt, Stays, TypeOK, At
<1>11. CASE publishStarts(r)
  <2>1. PICK p \in {"record", "copy"} : IsAt(r, p)
    BY <1>11, <1>a, MovesTo, PlacesHave DEF publishStarts
  <2> QED
    BY <1>11, <1>a, <2>1 DEF publishStarts, IsAt, At
<1>12. CASE publishFails(r)
  <2>1. Stays(r) /\ run'[r].at = "record" /\ run'[r].result = "Error"
        /\ run'[r].minimal = run[r].minimal
    BY <1>12, <1>a, Fails
  <2> QED
    BY <1>12, <1>a, <2>1 DEF publishFails, TypeOK, At
<1>13. CASE copySite(r)
  <2>1. IsAt(r, "point")
    BY <1>13, <1>a, MovesTo, PlacesHave DEF copySite
  <2> QED
    BY <1>13, <1>a, <2>1 DEF copySite, IsAt, Stays, At, TypeOK
<1>15. CASE pruneVersions(r)
  <2>1. IsAt(r, "record")
    BY <1>15, <1>a, MovesTo, PlacesHave DEF pruneVersions
  <2> QED
    BY <1>15, <1>a, <2>1 DEF pruneVersions, IsAt, At
<1>16. CASE writeCiRunRecord(r)
  <2>1. IsAt(r, "ended")
    BY <1>16, <1>a, MovesTo, PlacesHave DEF writeCiRunRecord
  <2> QED
    BY <1>16, <1>a, <2>1 DEF writeCiRunRecord, IsAt, Stays, TypeOK, At
<1>17. CASE releaseCiClaim(r)
  <2>1. Stays(r) /\ ~run'[r].minimal /\ run'[r].at = "done"
    BY <1>17, <1>a, EntersAt, PlacesHave DEF releaseCiClaim
  <2> QED
    BY <1>17, <1>a, <2>1 DEF releaseCiClaim, Stays, TypeOK, At
<1> QED
  BY <1>1, <1>2, <1>3, <1>4, <1>5, <1>6, <1>7, <1>8, <1>9, <1>10, <1>11, <1>12,
     <1>13, <1>15, <1>16, <1>17 DEF Work

LEMMA ReadingHandlers ==
  ASSUME OutputsAssumption, OutInv, Climbs, Whole, WholeCommits, BriefRequests,
         Reading, NEW r \in Runs, Work(r) \/ crash(r)
  PROVE  Reading'
<1>1. /\ TypeOK /\ Sides /\ Exclusive /\ Runs \subseteq Nat \ {0}
      /\ sites \subseteq Runs /\ request \in sites \cup {0}
      /\ current \in sites \cup {0}
  BY DEF OutInv, OutputsAssumption, TypeOK
<1>2. SUFFICES ASSUME removed' = "no", request' # 0
               PROVE  /\ run'[request'].at \in {"prune", "record", "ended", "done"}
                      /\ request' # current' => run'[request'].at = "done"
                      /\ \A p \in Runs : run'[p].at = "prune" /\ request' # p =>
                           \A q \in sites' : rec'[q] = "Success" => q <= request'
  BY DEF Reading
<1>3. CASE setCurrent(r)
  <2>1. /\ IsAt(r, "prune") /\ At(r, "point") /\ r \in sites
        /\ current' = r /\ request \in {0, current}
        /\ UNCHANGED <<rec, sites, request, removed>>
    BY <1>1, <1>3, MovesTo, PlacesHave DEF setCurrent, files, rest, Sides, SitePlaces, At
  <2>2. request = current /\ request # 0 /\ request # r /\ removed = "no"
    BY <1>1, <1>2, <2>1 DEF Reading, At
  <2>3. run[request].at = "done"
    BY <1>1, <2>1, <2>2 DEF Reading, Exclusive, SameRef, Busy, At
  <2>4. \A q \in sites : rec[q] = "Success" => q <= request
    BY <1>1, <2>2 DEF Climbs
  <2> QED
    BY <1>1, <2>1, <2>2, <2>3, <2>4 DEF IsAt, Stays
<1>4. CASE ~setCurrent(r)
  <2>1. Onwards(r)
    BY <1>4, HandlersOnward
  <2>2. request # 0 /\ removed = "no"
    BY <1>2, <2>1 DEF Onwards
  <2>3. /\ run[request].at \in {"prune", "record", "ended", "done"}
        /\ request # current => run[request].at = "done"
        /\ \A p \in Runs : run[p].at = "prune" /\ request # p =>
             \A q \in sites : rec[q] = "Success" => q <= request
    BY <2>2 DEF Reading
  <2>4. /\ run'[request].at \in {"prune", "record", "ended", "done"}
        /\ request # current => run'[request].at = "done"
    BY <1>1, <2>1, <2>2, <2>3 DEF Onwards, Stays
  <2>5. ASSUME NEW p \in Runs, run'[p].at = "prune", request # p,
               NEW q \in sites, rec'[q] = "Success"
        PROVE  q <= request
    <3>1. p # r /\ run[p].at = "prune" /\ p \in sites
      BY <1>1, <2>1, <2>5 DEF Onwards, Stays, Sides, SitePlaces
    <3>2. r \in sites => run[r].at # "record"
      BY <1>1, <3>1 DEF Exclusive, SameRef, Busy
    <3>3. rec[q] = "Success"
      BY <1>1, <2>1, <2>5, <3>2 DEF Onwards
    <3> QED
      BY <2>3, <2>5, <3>1, <3>3
  <2> QED
    BY <2>1, <2>4, <2>5 DEF Onwards
<1> QED
  BY <1>3, <1>4

LEMMA ReadingNext ==
  ASSUME OutputsAssumption, OutInv, Climbs, Whole, WholeCommits, BriefRequests,
         Reading, [Next]_vars
  PROVE  Reading'
<1>a. TypeOK /\ Sides /\ Fresh /\ Exclusive /\ Runs \subseteq Nat \ {0} /\ Reading
  BY DEF OutInv, OutputsAssumption
<1> USE DEF files, rest, Reading
<1>1. ASSUME NEW r \in Runs, NEW ref \in {"branch", "tag"}, push(r, ref)
      PROVE Reading'
  <2>1. IsAt(r, "queued")
    BY <1>1, <1>a, MovesTo, PlacesHave DEF push
  <2> QED
    BY <1>1, <1>a, <2>1 DEF push, IsAt, Fresh, Stays, TypeOK
<1>2. ASSUME NEW r \in Runs, Work(r) \/ crash(r) PROVE Reading'
  BY <1>2, ReadingHandlers
<1>3. CASE readCurrent \/ readSiteFile
  <2>1. CASE readSiteFile
    BY <2>1 DEF readSiteFile
  <2>2. CASE readCurrent
    <3>1. /\ request' = current /\ current # 0
          /\ UNCHANGED <<run, rec, sites, current, removed>>
      BY <2>2 DEF readCurrent
    <3>2. run[current].at \in {"prune", "record", "ended", "done"}
      BY <3>1 DEF Whole
    <3>3. removed = "no" => \A p \in Runs : run[p].at = "prune" => current = p
      BY DEF Climbs
    <3> QED
      BY <3>1, <3>2, <3>3
  <2> QED
    BY <1>3, <2>1, <2>2
<1>4. ASSUME NEW evicted \in SUBSET Runs, sweepCiArtifacts(evicted) PROVE Reading'
  <2>1. UNCHANGED <<run, sites, current, request, removed>> /\ sites \subseteq Runs
    BY <1>4, <1>a DEF sweepCiArtifacts, TypeOK
  <2>2. \A q \in sites : rec'[q] = "Success" => rec[q] = "Success"
    BY <1>4, <2>1 DEF sweepCiArtifacts
  <2> QED
    BY <2>1, <2>2
<1>5. CASE deleteTag
  BY <1>5, <1>a DEF deleteTag
<1>6. CASE removeRepository \/ removeProjectCi \/ removeProjectPages
  BY <1>6, <1>a DEF removeRepository, removeProjectCi, removeProjectPages
<1>7. CASE UNCHANGED vars
  BY <1>7, <1>a DEF vars
<1> QED
  BY <1>1, <1>2, <1>3, <1>4, <1>5, <1>6, <1>7 DEF Next, Sweep

LEMMA ReadingHolds == ASSUME WholeCommits, BriefRequests PROVE Spec => []Reading
<1>1. Init => Reading
  BY AllNew DEF Init, Reading
<1>2. OutInv /\ Climbs /\ Whole /\ Reading /\ [Next]_vars => Reading'
  BY ReadingNext, OutputsAssumption
<1> QED
  BY <1>1, <1>2, TypeInit, TypeNext, ClimbsHolds, WholeHolds,
     OutputsAssumption, PTL DEF Spec

(* The versions newer than a request's are two or more when its own is     *)
(* pruned; the one that is not live never published.                       *)
LEMMA TwoAreNewer ==
  ASSUME OutputsAssumption, KeepVersions \notin {0, 1}, TypeOK,
         NEW p \in Runs, NEW r \in Old(p)
  PROVE  \E q \in Versions : q > r /\ q # p
<1> SUFFICES ASSUME \A q \in Versions : q > r => q = p
             PROVE  FALSE
  OBVIOUS
<1> DEFINE newer == {q \in Versions : q > r}
<1>1. newer \subseteq {p}
  OBVIOUS
<1>2. IsFiniteSet({p}) /\ Cardinality({p}) = 1
  BY FS_Singleton, Zenon
<1>3. Cardinality(newer) <= 1 /\ Cardinality(newer) \in Nat
  BY <1>1, <1>2, FS_Subset, FS_CardinalityType
<1>4. Cardinality(newer) >= KeepVersions
  BY DEF Old
<1> HIDE DEF newer
<1>5. KeepVersions \in Nat /\ KeepVersions > 1
  BY DEF OutputsAssumption
<1> QED
  BY <1>3, <1>4, <1>5

(* What a step may do to the version a request reads. *)
RequestServed ==
  removed = "no" /\ request # 0 /\ version[request] = "whole"
    => \/ version'[request] = "whole"
       \/ \E q \in Runs : /\ q > request /\ q # current
                          /\ version[q] # "none" /\ rec[q] # "Success"

LEMMA VersionsKept ==
  ASSUME OutputsAssumption, OutInv, Climbs, Whole, Reading, KeepVersions # 1,
         [Next]_vars
  PROVE  RequestServed
<1>1. /\ TypeOK /\ sites \subseteq Runs /\ request \in sites \cup {0}
      /\ version \in [Runs -> {"none", "partial", "whole"}]
      /\ Runs \subseteq Nat \ {0}
  BY DEF OutInv, TypeOK, OutputsAssumption
<1>2. SUFFICES ASSUME removed = "no", request # 0, version[request] = "whole"
               PROVE  \/ version'[request] = "whole"
                      \/ \E q \in Runs : /\ q > request /\ q # current
                                         /\ version[q] # "none" /\ rec[q] # "Success"
  BY DEF RequestServed
<1>3. /\ request \in Runs
      /\ run[request].at \in {"prune", "record", "ended", "done"}
      /\ \A p \in Runs : run[p].at = "prune" /\ request # p =>
           \A q \in sites : rec[q] = "Success" => q <= request
  BY <1>1, <1>2 DEF Reading
<1>4. ASSUME NEW r \in Runs, publishStarts(r) \/ publishFails(r) \/ copySite(r)
      PROVE  version'[request] = "whole"
  <2>1. run[r].at \in {"site", "copy", "point"} /\ r # request
    BY <1>3, <1>4 DEF publishStarts, publishFails, copySite, At
  <2> QED
    BY <1>1, <1>2, <1>3, <1>4, <2>1 DEF publishStarts, publishFails, copySite
<1>5. ASSUME NEW p \in Runs, pruneVersions(p)
      PROVE  \/ version'[request] = "whole"
             \/ \E q \in Runs : /\ q > request /\ q # current
                                /\ version[q] # "none" /\ rec[q] # "Success"
  <2>1. At(p, "prune") /\ current = p
    BY <1>2, <1>5 DEF pruneVersions, Climbs, At
  <2>2. CASE KeepVersions = 0 \/ request \notin Old(p)
    BY <1>2, <1>3, <1>5, <2>2 DEF pruneVersions
  <2>3. CASE KeepVersions # 0 /\ request \in Old(p)
    <3>1. PICK q \in Versions : q > request /\ q # p
      BY <1>1, <2>3, TwoAreNewer
    <3>2. request # p
      BY <2>3 DEF Old
    <3>3. q \in sites /\ version[q] # "none"
      BY DEF Versions
    <3>4. q \in Nat /\ request \in Nat /\ ~(q <= request) /\ request \in Runs
      BY <1>1, <1>3, <3>1, <3>3
    <3>5. run[p].at = "prune"
      BY <2>1 DEF At
    <3>6. rec[q] = "Success" => q <= request
      BY <1>3, <3>2, <3>3, <3>5
    <3> QED
      BY <1>1, <2>1, <3>1, <3>3, <3>4, <3>6
  <2> QED
    BY <2>2, <2>3
<1>6. CASE UNCHANGED version
  BY <1>2, <1>6
<1>7. CASE removeProjectPages
  BY <1>2, <1>7 DEF removeProjectPages
<1>8. ASSUME NEW r \in Runs,
             push(r, "branch") \/ push(r, "tag") \/ Work(r) \/ crash(r)
      PROVE  \/ publishStarts(r) \/ publishFails(r) \/ copySite(r)
             \/ pruneVersions(r) \/ UNCHANGED version
  BY <1>8, Zenon
     DEF Work, files, rest, push, claim, build, crash, requeueLocked,
         takeArtifact, writeCiArtifactRecord, takeAsset,
         writeCiReleaseArtifactRecord, writeCiReleaseRecord, removeCiRelease,
         setCurrent, writeCiRunRecord, releaseCiClaim
<1>9. CASE \/ readCurrent \/ readSiteFile \/ Sweep \/ deleteTag
           \/ removeRepository \/ removeProjectCi \/ UNCHANGED vars
  BY <1>6, <1>9
     DEF files, rest, vars, readCurrent, readSiteFile, Sweep, sweepCiArtifacts,
         deleteTag, removeRepository, removeProjectCi
<1> QED
  BY <1>4, <1>5, <1>6, <1>7, <1>8, <1>9, Zenon DEF Next

(* The version that readCurrentPage read from the pointer stays whole until *)
(* its page is read: publishPagesSite prunes by run id, and only a version  *)
(* that was never live can count as a newer one.  With one kept version a   *)
(* single publication prunes the former site under its readers.             *)
THEOREM RequestIsServed ==
  ASSUME WholeCommits, BriefRequests, KeepVersions # 1
  PROVE  Spec => RequestKeepsSite
<1>1. OutputsAssumption /\ OutInv /\ Climbs /\ Whole /\ Reading /\ [Next]_vars
        => [removed = "no" /\ request # 0 /\ version[request] = "whole"
              => \/ version'[request] = "whole"
                 \/ \E q \in Runs : /\ q > request /\ q # current
                                    /\ version[q] # "none" /\ rec[q] # "Success"]_version
  BY VersionsKept DEF RequestServed
<1> QED
  BY <1>1, TypeInit, TypeNext, ClimbsHolds, WholeHolds, ReadingHolds,
     OutputsAssumption, PTL DEF Spec, RequestKeepsSite

-----------------------------------------------------------------------------
(* The sweep spares the newest run: no run directory is newer, so it is    *)
(* not expendable, and no artifact is newer, so it is not due.             *)
THEOREM NewestStays == Spec => NewestIsKept
<1>1. ASSUME OutputsAssumption, OutInv, NEW evicted \in SUBSET Runs,
             sweepCiArtifacts(evicted), NEW r \in Directories,
             art[r].ini = "stored", \A q \in Directories : q <= r
      PROVE  art'[r] = art[r]
  <2>1. Directories \subseteq Nat
    BY <1>1 DEF Directories, OutputsAssumption
  <2>2. {q \in Directories : q > r} = {}
    <3>1. ASSUME NEW q \in Directories PROVE ~(q > r)
      <4>1. q \in Nat /\ r \in Nat /\ q <= r
        BY <1>1, <2>1
      <4> QED
        BY <4>1
    <3> QED
      BY <3>1
  <2>3. r \notin Expendable
    BY <1>1, <2>2, FS_EmptySet DEF Expendable, OutputsAssumption
  <2>4. r \notin evicted
    BY <1>1 DEF sweepCiArtifacts, Due, Entries
  <2> QED
    BY <1>1, <2>3, <2>4 DEF sweepCiArtifacts, Directories
<1>2. OutputsAssumption /\ OutInv /\ [Next]_vars
        => [Sweep => \A r \in Directories :
              art[r].ini = "stored" /\ (\A q \in Directories : q <= r)
                => art'[r] = art[r]]_vars
  BY <1>1 DEF Sweep
<1> QED
  BY <1>2, TypeInit, TypeNext, OutputsAssumption, PTL DEF Spec, NewestIsKept
=============================================================================
