-------------------------- MODULE ProjectIndexProofs --------------------------
(* Theorems about ProjectIndex: what the dashboard shows of a project's    *)
(* checkouts never goes back, and what has been served is right.           *)
EXTENDS ProjectIndex, TLAPS, SequenceTheorems, WellFoundedInduction

Shown(rec) == /\ DOMAIN rec = {"known", "git", "reg", "runs", "indexing", "failed"}
              /\ rec.reg \in Nat
Stored(p) == DOMAIN p = {"there", "git", "reg", "runs"} /\ p.reg \in Nat

(* No record is ahead of the disk. *)
Cached ==
  /\ DOMAIN disk = Names /\ DOMAIN records = Names
  /\ revision \in [Names -> Nat]
  /\ \A n \in Names : /\ Stored(disk[n]) /\ Shown(records[n])
                      /\ records[n].reg <= disk[n].reg

(* Only the control thread registers, so what it has read is still so when *)
(* it stores it.                                                           *)
Todos == {<<>>, <<"refresh">>, <<"read", "store", "refresh">>, <<"store", "refresh">>,
          <<"read", "store">>, <<"store">>, <<"refresh", "read", "store">>}
Requested ==
  /\ DOMAIN control = {"name", "todo", "seen"}
  /\ control.todo \in Todos
  /\ control.todo # <<>> => control.name \in Names
  /\ Doing("store") => control.seen.reg = disk[control.name].reg

(* A rebuild starts from nothing.  What it has read of the checkouts is    *)
(* true or was, and no older than the record, unless the revision tells.   *)
(* The queue of urgent names is not typed here: a name that the worker     *)
(* takes from it may be anything.                                          *)
Fields == {"at", "name", "force", "back", "todo", "left", "rev", "seen"}
NotOlder(n) == (Known(n) /\ revision[n] = work.rev /\ ~work.seen.failed)
                 => work.seen.reg >= records[n].reg
HasRead(n) == /\ Shown(work.seen) /\ work.seen.reg <= disk[n].reg
              /\ work.rev \in Nat /\ work.rev <= revision[n]
Rebuilt ==
  /\ DOMAIN work = Fields /\ work.back \in {"idle", "drain"}
  /\ work.at \in {"idle", "merge", "drain", "check", "git"} =>
       Shown(work.seen) /\ work.seen.reg = 0
  /\ work.name \in Names =>
       /\ work.at \in {"git", "metadata", "recheck", "store"} => HasRead(work.name)
       /\ work.at \in {"recheck", "store"} => NotOlder(work.name)

IndexInv == Cached /\ Requested /\ Rebuilt

(* A step that does not take a registration back. *)
Wins(n) == (Known(n) /\ records'[n].known /\ ~records'[n].failed)
             => records'[n].reg >= records[n].reg

-----------------------------------------------------------------------------
LEMMA Empty == /\ Shown(Placeholder) /\ Placeholder.reg = 0 /\ ~Placeholder.failed
               /\ Shown(NoRecord) /\ NoRecord.reg = 0 /\ ~NoRecord.known
  BY DEF Placeholder, NoRecord, Shown

LEMMA Regs == /\ \A rec : Shown(rec) => rec.reg \in Nat
              /\ \A p : Stored(p) => p.reg \in Nat
  BY DEF Shown, Stored

LEMMA Tails ==
  /\ Tail(<<"refresh">>) = <<>> /\ Tail(<<"store">>) = <<>>
  /\ Tail(<<"store", "refresh">>) = <<"refresh">> /\ Tail(<<"read", "store">>) = <<"store">>
  /\ Tail(<<"read", "store", "refresh">>) = <<"store", "refresh">>
  /\ Tail(<<"refresh", "read", "store">>) = <<"read", "store">>
  OBVIOUS

(* What is left of a request after its next step. *)
LEMMA Left ==
  ASSUME NEW s \in Todos, s # <<>>
  PROVE  /\ Tail(s) \in Todos /\ (Len(s) = 1 => Tail(s) = <<>>)
         /\ Head(s) = "read" => (Tail(s) # <<>> /\ Head(Tail(s)) = "store")
         /\ Head(s) # "read" => (Tail(s) = <<>> \/ Head(Tail(s)) # "store")
<1>1. CASE s = <<"refresh">>
  BY <1>1, Tails DEF Todos
<1>2. CASE s = <<"store">>
  BY <1>2, Tails DEF Todos
<1>3. CASE s = <<"store", "refresh">>
  BY <1>3, Tails DEF Todos
<1>4. CASE s = <<"read", "store">>
  BY <1>4, Tails DEF Todos
<1>5. CASE s = <<"read", "store", "refresh">>
  BY <1>5, Tails DEF Todos
<1>6. CASE s = <<"refresh", "read", "store">>
  BY <1>6, Tails DEF Todos
<1> QED
  BY <1>1, <1>2, <1>3, <1>4, <1>5, <1>6 DEF Todos

LEMMA Heads ==
  /\ Head(<<"refresh">>) = "refresh" /\ Head(<<"read", "store">>) = "read"
  /\ Head(<<"read", "store", "refresh">>) = "read"
  /\ Head(<<"refresh", "read", "store">>) = "refresh"
  OBVIOUS

-----------------------------------------------------------------------------
LEMMA IndexInit == IndexAssumption /\ Init => IndexInv
<1> SUFFICES ASSUME IndexAssumption, Init PROVE IndexInv
  OBVIOUS
<1>1. Cached
  <2>1. \A n \in Names : Stored(disk[n]) /\ disk[n].reg = 0
    BY DEF Init, Fresh, Stored
  <2>2. \A n \in Names : Shown(records[n]) /\ records[n].reg = 0
    BY Empty DEF Init
  <2> QED
    BY <2>1, <2>2 DEF Init, Cached
<1>2. Requested
  BY DEF Init, Resting, Requested, Todos, Doing
<1>3. Rebuilt
  BY Empty DEF Init, Idle, Rebuilt, Fields
<1> QED
  BY <1>1, <1>2, <1>3 DEF IndexInv

(* A rebuild under way is not disturbed by a write to disk, nor by a       *)
(* record that is new or gone or comes with a new revision.                *)
LEMMA RebuiltKept ==
  ASSUME IndexInv, UNCHANGED work,
         \A n \in Names :
           /\ disk'[n].reg \in Nat /\ disk'[n].reg >= disk[n].reg
           /\ revision'[n] \in Nat /\ records'[n].reg \in Nat
           /\ \/ revision'[n] = revision[n]
                 /\ (records'[n] = records[n] \/ records'[n].reg = 0)
              \/ revision'[n] > revision[n]
  PROVE  Rebuilt'
<1>1. \A n \in Names : disk[n].reg \in Nat /\ revision[n] \in Nat
  BY Regs DEF IndexInv, Cached
<1>2. ASSUME work.name \in Names, work.at \in {"git", "metadata", "recheck", "store"}
      PROVE  HasRead(work.name)' /\ (NotOlder(work.name) => NotOlder(work.name)')
  <2>1. HasRead(work.name) /\ work.seen.reg \in Nat
    BY <1>2, Regs DEF IndexInv, Rebuilt, HasRead
  <2>2. HasRead(work.name)'
    BY <1>1, <1>2, <2>1 DEF HasRead
  <2>3. NotOlder(work.name) => NotOlder(work.name)'
    BY <1>1, <1>2, <2>1 DEF HasRead, NotOlder, Known
  <2> QED
    BY <2>2, <2>3
<1> QED
  BY <1>2 DEF IndexInv, Rebuilt

LEMMA OutsiderSteps ==
  ASSUME IndexAssumption, IndexInv, Outsiders
  PROVE  IndexInv' /\ UNCHANGED records
<1> USE DEF cache, counts
<1>1. PICK n \in Names : push(n) \/ writeCiRunRecord(n) \/ removeProject(n) \/ ask(n)
  BY DEF Outsiders, IndexAssumption
<1>2. UNCHANGED <<records, revision, work, control>>
  BY <1>1 DEF push, writeCiRunRecord, removeProject, ask, Changed
<1>3. /\ DOMAIN disk' = Names
      /\ \A m \in Names : disk'[m].reg = disk[m].reg /\ Stored(disk'[m])
  <2>1. DOMAIN disk = Names /\ \A m \in Names : Stored(disk[m])
    BY DEF IndexInv, Cached
  <2>2. CASE push(n)
    BY <2>1, <2>2 DEF push, Stored
  <2>3. CASE writeCiRunRecord(n)
    BY <2>1, <2>3 DEF writeCiRunRecord, Stored
  <2>4. CASE removeProject(n)
    BY <2>1, <2>4 DEF removeProject, Stored
  <2>5. CASE ask(n)
    BY <2>1, <2>5 DEF ask
  <2> QED
    BY <1>1, <2>2, <2>3, <2>4, <2>5
<1>4. Cached' /\ Requested'
  BY <1>2, <1>3 DEF IndexInv, Cached, Requested, Doing
<1>5. Rebuilt'
  BY <1>2, <1>3, Regs, RebuiltKept DEF IndexInv, Cached
<1> QED
  BY <1>2, <1>4, <1>5 DEF IndexInv

LEMMA ControlSteps ==
  ASSUME IndexAssumption, IndexInv, Control
  PROVE  IndexInv' /\ \A n \in Names : Wins(n)
<1> USE DEF cache, counts
<1>t. /\ DOMAIN disk = Names /\ \A m \in Names : Stored(disk[m]) /\ disk[m].reg \in Nat
      /\ DOMAIN records = Names
      /\ \A m \in Names : /\ Shown(records[m]) /\ records[m].reg \in Nat
                          /\ records[m].reg <= disk[m].reg
      /\ revision \in [Names -> Nat]
  BY Regs DEF IndexInv, Cached
<1>c. control.todo \in Todos /\ DOMAIN control = {"name", "todo", "seen"}
      /\ (control.todo # <<>> => control.name \in Names)
  BY DEF IndexInv, Requested
<1>1. ASSUME NEW n \in Names,
             answerRefresh(n) \/ answerCreate(n) \/ answerRegister(n) \/ answerForget(n)
      PROVE  IndexInv' /\ \A m \in Names : Wins(m)
  <2>1. UNCHANGED <<records, revision, work>>
    BY <1>1 DEF answerRefresh, answerCreate, answerRegister, answerForget, Writes
  <2>2. /\ DOMAIN disk' = Names
        /\ \A m \in Names : disk'[m].reg >= disk[m].reg /\ Stored(disk'[m])
    <3>1. CASE answerRefresh(n)
      BY <1>t, <3>1 DEF answerRefresh
    <3>2. CASE answerCreate(n)
      BY <1>t, <3>2 DEF answerCreate, Writes, Stored
    <3>3. CASE answerRegister(n) \/ answerForget(n)
      BY <1>t, <3>3 DEF answerRegister, answerForget, Writes, Registered, Stored
    <3> QED
      BY <1>1, <3>1, <3>2, <3>3
  <2>3. PICK steps \in {<<"refresh">>, <<"refresh", "read", "store">>,
                        <<"read", "store", "refresh">>, <<"read", "store">>} :
               control' = [name |-> n, todo |-> steps, seen |-> Placeholder]
    BY <1>1 DEF answerRefresh, answerCreate, answerRegister, answerForget, Answers
  <2>4. steps \in Todos /\ Head(steps) # "store"
    BY Heads DEF Todos
  <2>5. Requested'
    BY <2>3, <2>4 DEF Requested, Doing
  <2>6. Cached'
    BY <1>t, <2>1, <2>2, Regs DEF Cached
  <2>7. Rebuilt'
    BY <1>t, <2>1, <2>2, Regs, RebuiltKept
  <2> QED
    BY <1>t, <2>1, <2>5, <2>6, <2>7 DEF IndexInv, Wins
<1>2. CASE refresh
  <2>1. UNCHANGED <<disk, revision, work>> /\ DOMAIN records' = Names
    BY <1>t, <1>2 DEF refresh, Added
  <2>2. \A n \in Names : \/ records'[n] = records[n]
                         \/ ~Known(n) /\ records'[n] = Placeholder
    BY <1>t, <1>2 DEF refresh, Added
  <2>3. control.todo # <<>> /\ Head(control.todo) = "refresh" /\ control' = Onward
    BY <1>2 DEF refresh, Doing
  <2>4. Requested'
    BY <1>c, <2>3, Left DEF Onward, Resting, Requested, Doing, Todos
  <2>5. \A n \in Names : Shown(records'[n]) /\ records'[n].reg <= disk[n].reg
    BY <1>t, <2>2, Empty
  <2>6. Cached'
    BY <1>t, <2>1, <2>5 DEF Cached
  <2>7. Rebuilt'
    BY <1>t, <2>1, <2>2, <2>5, Empty, Regs, RebuiltKept
  <2> QED
    BY <1>t, <2>2, <2>4, <2>6, <2>7 DEF IndexInv, Wins
<1>3. CASE refreshMetadataReads
  <2>1. UNCHANGED <<disk, records, revision, work>>
    BY <1>3 DEF refreshMetadataReads
  <2>2. /\ control.todo # <<>> /\ Head(control.todo) = "read"
        /\ control' = [control EXCEPT !.todo = Tail(@),
                         !.seen = Metadata(Placeholder, control.name)]
    BY <1>3 DEF refreshMetadataReads, Doing
  <2>3. /\ control'.todo = Tail(control.todo) /\ control'.name = control.name
        /\ control'.seen = Metadata(Placeholder, control.name)
        /\ DOMAIN control' = {"name", "todo", "seen"}
    BY <1>c, <2>2
  <2>4. control'.todo \in Todos /\ control'.name \in Names
    BY <1>c, <2>2, <2>3, Left
  <2>5. control'.seen.reg = disk[control.name].reg
    BY <2>3 DEF Metadata, Placeholder
  <2>6. Requested'
    BY <2>1, <2>3, <2>4, <2>5 DEF Requested
  <2>7. Cached' /\ Rebuilt' /\ \A n \in Names : Wins(n)
    BY <1>t, <2>1 DEF IndexInv, Cached, Rebuilt, HasRead, NotOlder, Known, Wins
  <2> QED
    BY <2>6, <2>7 DEF IndexInv
<1>4. CASE refreshMetadata
  <2> DEFINE n == control.name  rec == Added(n)[n]
             new == [rec EXCEPT !.reg = control.seen.reg, !.runs = control.seen.runs]
  <2>1. /\ UNCHANGED <<disk, work>> /\ control' = Onward
        /\ control.todo # <<>> /\ Head(control.todo) = "store"
    BY <1>4 DEF refreshMetadata, Doing
  <2>2. Requested'
    BY <1>c, <2>1, Left DEF Onward, Resting, Requested, Doing, Todos
  <2>3. n \in Names /\ control.seen.reg = disk[n].reg
    BY <1>c, <2>1 DEF IndexInv, Requested, Doing
  <2>4. Shown(rec)
    BY <1>t, <2>3, Empty DEF Added
  <2>5. Shown(new) /\ new.reg = disk[n].reg
    BY <1>t, <2>3, <2>4 DEF Shown
  <2>6. \/ UNCHANGED <<records, revision>>
        \/ /\ records' = [records EXCEPT ![n] = new]
           /\ revision' = [revision EXCEPT ![n] = revision[n] + 1]
    BY <1>4 DEF refreshMetadata
  <2> HIDE DEF n, rec, new
  <2>7. /\ DOMAIN records' = Names /\ revision' \in [Names -> Nat]
        /\ \A m \in Names :
             \/ records'[m] = records[m] /\ revision'[m] = revision[m]
             \/ /\ Shown(records'[m]) /\ records'[m].reg = disk[m].reg
                /\ revision'[m] = revision[m] + 1
    BY <1>t, <2>3, <2>5, <2>6
  <2>8. Cached'
    BY <1>t, <2>1, <2>7 DEF Cached
  <2>9. Rebuilt'
    BY <1>t, <2>1, <2>7, Regs, RebuiltKept
  <2> QED
    BY <1>t, <2>2, <2>7, <2>8, <2>9 DEF IndexInv, Wins
<1> QED
  BY <1>1, <1>2, <1>3, <1>4 DEF Control, IndexAssumption

LEMMA WorkerSteps ==
  ASSUME IndexAssumption, IndexInv, Worker
  PROVE  IndexInv' /\ \A n \in Names : Wins(n)
<1> USE DEF cache, counts, Outside
<1>t. /\ \A m \in Names : /\ Stored(disk[m]) /\ disk[m].reg \in Nat
                          /\ Shown(records[m]) /\ records[m].reg \in Nat
                          /\ records[m].reg <= disk[m].reg
      /\ DOMAIN records = Names /\ revision \in [Names -> Nat]
  BY Regs DEF IndexInv, Cached
<1>w. DOMAIN work = Fields /\ work.back \in {"idle", "drain"}
  BY DEF IndexInv, Rebuilt
<1>1. CASE runUrgent \/ runPending \/ inventory \/ drainUrgent \/ sweepNext \/ sweepEnds
  <2>1. UNCHANGED <<disk, records, revision, control>>
    BY <1>1 DEF runUrgent, runPending, inventory, drainUrgent, sweepNext, sweepEnds
  <2>2. work.at \in {"idle", "drain"}
    BY <1>1 DEF runUrgent, runPending, inventory, drainUrgent, sweepNext, sweepEnds
  <2>3. Shown(work.seen) /\ work.seen.reg = 0
    BY <2>2 DEF IndexInv, Rebuilt
  <2>4. /\ DOMAIN work' = Fields /\ work'.back \in {"idle", "drain"}
        /\ work'.at \in {"idle", "merge", "check"}
        /\ Shown(work'.seen) /\ work'.seen.reg = 0
    <3>1. CASE runUrgent \/ runPending
      BY <1>w, <2>3, <3>1 DEF runUrgent, runPending, Rebuilds, Fields
    <3>2. CASE inventory
      BY <1>w, <2>3, <3>2 DEF inventory, Fields
    <3>3. CASE drainUrgent \/ sweepNext
      BY <1>w, <2>3, <3>3 DEF drainUrgent, sweepNext, Fields
    <3>4. CASE sweepEnds
      BY <3>4, Empty DEF sweepEnds, Idle, Fields
    <3> QED
      BY <1>1, <3>1, <3>2, <3>3, <3>4
  <2>5. Rebuilt'
    BY <2>4 DEF Rebuilt
  <2>6. Cached' /\ Requested' /\ \A n \in Names : Wins(n)
    BY <1>t, <2>1 DEF IndexInv, Cached, Requested, Doing, Wins
  <2> QED
    BY <2>5, <2>6 DEF IndexInv
<1>2. CASE sweepMerges
  <2>1. UNCHANGED <<disk, control>> /\ work' = [work EXCEPT !.at = "drain", !.left = Burst]
    BY <1>2 DEF sweepMerges
  <2>2. DOMAIN records' = Names /\ revision' \in [Names -> Nat]
    BY <1>t, <1>2 DEF sweepMerges
  <2>3. \A n \in Names : records'[n] = records[n] \/ records'[n] = NoRecord
                         \/ (~Known(n) /\ records'[n] = Placeholder)
    BY <1>2 DEF sweepMerges
  <2>4. /\ DOMAIN work' = Fields /\ work'.back = work.back /\ work'.seen = work.seen
        /\ work'.at = "drain" /\ work.at = "merge"
    BY <1>2, <1>w, <2>1 DEF sweepMerges, Fields
  <2>5. Rebuilt'
    BY <2>4 DEF IndexInv, Rebuilt
  <2>6. \A n \in Names : Shown(records'[n]) /\ records'[n].reg <= disk[n].reg
    BY <1>t, <2>3, Empty
  <2>7. Cached' /\ Requested'
    BY <2>1, <2>2, <2>6 DEF IndexInv, Cached, Requested, Doing
  <2> QED
    BY <1>t, <2>3, <2>5, <2>7, Empty DEF IndexInv, Wins
<1>3. CASE rebuildStarts \/ rebuildChecksAgain
  <2>1. UNCHANGED <<disk, records, revision, control>>
    BY <1>3 DEF rebuildStarts, rebuildChecksAgain
  <2>2. /\ DOMAIN work' = Fields /\ work'.seen = work.seen /\ work'.name = work.name
        /\ work'.back = work.back
    BY <1>3, <1>w DEF rebuildStarts, rebuildChecksAgain, Fields
  <2>3. \/ /\ work.at = "check" /\ work'.at \in {"git", "erase"}
           /\ work'.rev = revision[work.name]
        \/ /\ work.at = "recheck" /\ work'.at \in {"store", "erase"}
           /\ work'.rev = work.rev
    BY <1>3, <1>w DEF rebuildStarts, rebuildChecksAgain, Fields
  <2>4. Rebuilt'
    <3>1. CASE work.at = "check"
      <4>1. Shown(work.seen) /\ work.seen.reg = 0 /\ work'.at \in {"git", "erase"}
            /\ work'.rev = revision[work.name]
        BY <2>3, <3>1 DEF IndexInv, Rebuilt
      <4>2. work.name \in Names => HasRead(work.name)'
        BY <1>t, <2>1, <2>2, <4>1 DEF HasRead
      <4> QED
        BY <1>w, <2>2, <4>1, <4>2 DEF Rebuilt
    <3>2. CASE work.at = "recheck"
      BY <1>w, <2>1, <2>2, <2>3, <3>2 DEF IndexInv, Rebuilt, HasRead, NotOlder, Known
    <3> QED
      BY <2>3, <3>1, <3>2
  <2>5. Cached' /\ Requested' /\ \A n \in Names : Wins(n)
    BY <1>t, <2>1 DEF IndexInv, Cached, Requested, Doing, Wins
  <2> QED
    BY <2>4, <2>5 DEF IndexInv
<1>4. ASSUME erase \/ rebuildStores
      PROVE  Returns /\ UNCHANGED <<disk, control>> /\ Rebuilt' /\ Requested'
  <2>1. Returns /\ UNCHANGED <<disk, control>>
    BY <1>4 DEF erase, rebuildStores
  <2>2. /\ DOMAIN work' = Fields /\ work'.back \in {"idle", "drain"}
        /\ work'.at \in {"idle", "drain"} /\ work'.seen = Placeholder
    BY <1>w, <2>1 DEF Returns, Idle, Fields
  <2>3. Rebuilt'
    BY <2>2, Empty DEF Rebuilt
  <2> QED
    BY <2>1, <2>3 DEF IndexInv, Requested, Doing
<1>5. CASE erase
  <2>1. /\ DOMAIN records' = Names /\ revision' \in [Names -> Nat]
        /\ \A n \in Names : records'[n] = records[n] \/ records'[n] = NoRecord
    BY <1>t, <1>5 DEF erase
  <2>2. Cached'
    BY <1>t, <1>4, <1>5, <2>1, Empty DEF IndexInv, Cached
  <2> QED
    BY <1>t, <1>4, <1>5, <2>1, <2>2, Empty DEF IndexInv, Wins
<1>6. CASE rebuildReadsGit \/ rebuildReadsMetadata \/ rebuildFails
  <2>1. UNCHANGED <<disk, records, revision, control>>
    BY <1>6 DEF rebuildReadsGit, rebuildReadsMetadata, rebuildFails
  <2>2. /\ work.at \in {"git", "metadata"} /\ work'.at \in {"metadata", "recheck"}
        /\ work'.name = work.name /\ work'.rev = work.rev /\ work'.back = work.back
        /\ DOMAIN work' = Fields
    BY <1>6, <1>w DEF rebuildReadsGit, rebuildReadsMetadata, rebuildFails, Fields
  <2>3. ASSUME work.name \in Names
        PROVE  /\ Shown(work'.seen) /\ work'.seen.reg <= disk[work.name].reg
               /\ work'.at = "recheck" =>
                    (work'.seen.failed \/ work'.seen.reg = disk[work.name].reg)
    <3> DEFINE n == work.name
    <3>1. Shown(work.seen) /\ Shown(records[n]) /\ Stored(disk[n])
          /\ work.seen.reg <= disk[n].reg /\ records[n].reg <= disk[n].reg
      BY <1>t, <2>2, <2>3 DEF IndexInv, Rebuilt, HasRead
    <3>2. CASE rebuildReadsGit
      <4> DEFINE anew == [Placeholder EXCEPT !.git = disk[n].git, !.indexing = FALSE]
      <4>1. work'.at = "metadata" /\ (work'.seen = records[n] \/ work'.seen = anew)
        BY <1>w, <3>2 DEF rebuildReadsGit, Fields
      <4>2. Shown(anew) /\ anew.reg = 0
        BY DEF Placeholder, Shown
      <4>3. 0 <= disk[n].reg
        BY <3>1, Regs
      <4> HIDE DEF anew
      <4> QED
        BY <3>1, <4>1, <4>2, <4>3
    <3>3. CASE rebuildReadsMetadata
      <4>1. work'.seen = Metadata(work.seen, n)
        BY <1>w, <3>3 DEF rebuildReadsMetadata, Fields
      <4>2. Shown(work'.seen) /\ work'.seen.reg = disk[n].reg
        BY <3>1, <4>1 DEF Metadata, Shown, Stored
      <4> QED
        BY <3>1, <4>2, Regs
    <3>4. CASE rebuildFails
      <4>1. PICK rec \in {records[n], work.seen} :
                   work'.seen = [rec EXCEPT !.failed = TRUE, !.indexing = FALSE]
        BY <1>w, <3>4 DEF rebuildFails, Fields
      <4>2. Shown(rec) /\ rec.reg <= disk[n].reg
        BY <3>1, <4>1
      <4> QED
        BY <4>1, <4>2 DEF Shown
    <3> QED
      BY <1>6, <3>2, <3>3, <3>4
  <2>4. ASSUME work.name \in Names
        PROVE  HasRead(work.name)' /\ (work'.at = "recheck" => NotOlder(work.name)')
    <3>1. HasRead(work.name)
      BY <2>2, <2>4 DEF IndexInv, Rebuilt
    <3>2. HasRead(work.name)'
      BY <2>1, <2>2, <2>3, <2>4, <3>1 DEF HasRead
    <3>3. work'.at = "recheck" => NotOlder(work.name)'
      BY <1>t, <2>1, <2>2, <2>3, <2>4 DEF NotOlder
    <3> QED
      BY <3>2, <3>3
  <2>5. Rebuilt'
    BY <1>w, <2>2, <2>4 DEF Rebuilt
  <2>6. Cached' /\ Requested' /\ \A n \in Names : Wins(n)
    BY <1>t, <2>1 DEF IndexInv, Cached, Requested, Doing, Wins
  <2> QED
    BY <2>5, <2>6 DEF IndexInv
<1>7. CASE rebuildStores
  <2>1. /\ work.at = "store" /\ UNCHANGED revision
        /\ records' = [records EXCEPT ![work.name] = Merged]
    BY <1>7 DEF rebuildStores
  <2>2. ASSUME work.name \in Names
        PROVE  /\ Shown(Merged) /\ Merged.reg <= disk[work.name].reg
               /\ (Known(work.name) /\ ~Merged.failed) => Merged.reg >= records[work.name].reg
    <3> DEFINE n == work.name
    <3>1. HasRead(n) /\ NotOlder(n)
      BY <2>1, <2>2 DEF IndexInv, Rebuilt
    <3>2. CASE revision[n] # work.rev /\ Known(n)
      <4>1. Merged = [work.seen EXCEPT !.reg = records[n].reg]
        BY <3>2 DEF Merged
      <4> QED
        BY <1>t, <2>2, <3>1, <4>1 DEF HasRead, Shown
    <3>3. CASE ~(revision[n] # work.rev /\ Known(n))
      <4>1. Merged = work.seen
        BY <3>3 DEF Merged
      <4> QED
        BY <3>1, <3>3, <4>1 DEF HasRead, NotOlder
    <3> QED
      BY <3>2, <3>3
  <2>3. /\ DOMAIN records' = Names
        /\ \A n \in Names : \/ records'[n] = records[n]
                            \/ n = work.name /\ records'[n] = Merged
    BY <1>t, <2>1
  <2>4. Cached'
    BY <1>4, <1>7, <1>t, <2>1, <2>2, <2>3 DEF IndexInv, Cached
  <2> QED
    BY <1>4, <1>7, <1>t, <2>2, <2>3, <2>4 DEF IndexInv, Wins
<1> QED
  BY <1>1, <1>2, <1>3, <1>5, <1>6, <1>7 DEF Worker, Rebuild

(* RegistrationWins, for all projects, histories and interleavings of the  *)
(* two threads: a rebuild (rebuild) that read the metadata before a        *)
(* registration was stored (refreshMetadata) never puts it back.           *)
THEOREM RegistrationStays == Spec => RegistrationWins
<1>1. Init => IndexInv
  BY IndexInit, IndexAssumption
<1>2. IndexInv /\ [Next]_vars => IndexInv' /\ [\A n \in Names : Wins(n)]_records
  <2> SUFFICES ASSUME IndexInv, [Next]_vars
               PROVE  IndexInv' /\ [\A n \in Names : Wins(n)]_records
    OBVIOUS
  <2>1. CASE UNCHANGED vars
    BY <2>1 DEF vars, cache, counts, IndexInv, Cached, Requested, Rebuilt, HasRead,
                NotOlder, Known, Doing
  <2> QED
    BY <2>1, IndexAssumption, OutsiderSteps, ControlSteps, WorkerSteps DEF Next
<1>3. [\A n \in Names : Wins(n)]_records
        => [\A n \in Names : (Known(n) /\ records'[n].known /\ ~records'[n].failed)
              => records'[n].reg >= records[n].reg]_records
  BY DEF Wins
<1> QED
  BY <1>1, <1>2, <1>3, PTL DEF Spec, RegistrationWins

-----------------------------------------------------------------------------
(* When nothing is left to do, the cache is right. *)

(* The steps that a request has to come, and the names in the queue. *)
Elements(s) == {s[i] : i \in 1 .. Len(s)}
WillStore(n) == control.name = n /\ "store" \in Elements(control.todo)

(* Somebody will have the project rebuilt from the start, or its rebuild   *)
(* is still to come or under way.                                          *)
Covered(n) == \/ n \in asked
              \/ control.name = n /\ "refresh" \in Elements(control.todo)
              \/ n \in Elements(urgent)
              \/ n \in pending
Rebuilding(n) == /\ work.name = n
                 /\ work.at \in {"check", "git", "metadata", "recheck", "store", "erase"}
Due(n) == Covered(n) \/ n \in work.todo \/ Rebuilding(n)

(* The record says what the disk says, of the checkouts at least once the  *)
(* request that changed them has stored them.                              *)
Says(rec, n) == rec.known /\ ~rec.indexing /\ rec.git = disk[n].git
Served(n) == IF disk[n].there
               THEN Says(records[n], n) /\ (records[n].reg = disk[n].reg \/ WillStore(n))
               ELSE ~Known(n)

(* What a rebuild has read is true, or the project is covered. *)
GitRead(n) ==
  work.at \in {"metadata", "recheck", "store"} => Covered(n) \/ Says(work.seen, n)
RegRead(n) ==
  work.at \in {"recheck", "store"} /\ revision[n] = work.rev
    => Covered(n) \/ ~disk[n].there \/ work.seen.reg = disk[n].reg \/ WillStore(n)
RegStored(n) ==
  work.at \in {"git", "metadata", "recheck", "store"} /\ revision[n] # work.rev
    => Known(n) /\ (records[n].reg = disk[n].reg \/ WillStore(n))
Seen(n) ==
  /\ work.at = "store" => Covered(n) \/ disk[n].there
  /\ work.at = "erase" => ~disk[n].there
InHand(n) == work.name = n => GitRead(n) /\ RegRead(n) /\ RegStored(n) /\ Seen(n)

(* A project that the inventory did not find is covered if it is there.    *)
Listed(n) == work.at = "merge" /\ n \notin work.todo /\ disk[n].there => Covered(n)

Attended(n) == (Due(n) \/ Served(n)) /\ InHand(n) /\ Listed(n)

(* Only a sweep has projects left.                                         *)
Swept == work.at = "idle" \/ (work.at \notin {"merge", "drain"} /\ work.back = "idle")
           => work.todo = {}

ServedInv ==
  /\ urgent \in Seq(Names)
  /\ Swept
  /\ errors = 0 => \A n \in Names \ raced : Attended(n)

-----------------------------------------------------------------------------
(* The queue of urgent names. *)

LEMMA QueueParts ==
  ASSUME NEW S, NEW s \in Seq(S)
  PROVE  /\ Len(s) \in Nat /\ \A i \in 1 .. Len(s) : s[i] \in S
         /\ s # <<>> => /\ Tail(s) \in Seq(S)
                        /\ Elements(s) \subseteq Elements(Tail(s)) \cup {Head(s)}
<1>1. Len(s) \in Nat /\ \A i \in 1 .. Len(s) : s[i] \in S
  BY LenProperties, ElementOfSeq
<1>2. ASSUME s # <<>>
      PROVE  /\ Tail(s) \in Seq(S)
             /\ Elements(s) \subseteq Elements(Tail(s)) \cup {Head(s)}
  <2>1. /\ Tail(s) \in Seq(S) /\ Len(Tail(s)) = Len(s) - 1 /\ Head(s) = s[1]
        /\ \A i \in 1 .. Len(Tail(s)) : Tail(s)[i] = s[i + 1]
    BY <1>2, HeadTailProperties
  <2>2. PICK t : t = Tail(s)
    OBVIOUS
  <2>3. /\ Len(t) = Len(s) - 1 /\ Head(s) = s[1]
        /\ \A i \in 1 .. Len(t) : t[i] = s[i + 1]
    BY <2>1, <2>2
  <2>4. ASSUME NEW i \in 1 .. Len(s)
        PROVE  s[i] = Head(s) \/ \E k \in 1 .. Len(t) : t[k] = s[i]
    <3>1. CASE i = 1
      BY <3>1, <2>3
    <3>2. CASE i # 1
      <4>1. i - 1 \in 1 .. Len(t) /\ (i - 1) + 1 = i
        BY <1>1, <2>3, <3>2
      <4> QED BY <4>1, <2>3
    <3> QED BY <3>1, <3>2
  <2>5. Elements(s) \subseteq Elements(t) \cup {Head(s)}
    BY <2>4 DEF Elements
  <2> QED BY <2>1, <2>2, <2>5
<1> QED BY <1>1, <1>2

LEMMA WithFacts ==
  ASSUME NEW S, NEW s \in Seq(S), NEW n \in S
  PROVE  With(s, n) \in Seq(S) /\ Elements(s) \cup {n} \subseteq Elements(With(s, n))
<1>1. CASE \E i \in 1 .. Len(s) : s[i] = n
  BY <1>1 DEF With, Elements
<1>2. CASE ~ \E i \in 1 .. Len(s) : s[i] = n
  <2>1. PICK t : t = Append(s, n)
    OBVIOUS
  <2>2. /\ t \in Seq(S) /\ Len(t) = Len(s) + 1 /\ t[Len(s) + 1] = n
        /\ \A i \in 1 .. Len(s) : t[i] = s[i]
        /\ Len(s) \in Nat
    BY <2>1, AppendProperties, LenProperties
  <2>3. Len(s) + 1 \in 1 .. Len(t) /\ \A i \in 1 .. Len(s) : i \in 1 .. Len(t)
    BY <2>2
  <2>4. Elements(s) \cup {n} \subseteq Elements(t)
    BY <2>2, <2>3 DEF Elements
  <2>5. With(s, n) = t
    BY <1>2, <2>1 DEF With
  <2> QED BY <2>2, <2>4, <2>5
<1> QED BY <1>1, <1>2

(* Every non-empty set of numbers has a least one. *)
LEMMA Least ==
  ASSUME NEW T \in SUBSET Nat, T # {}
  PROVE  \E n \in T : \A m \in T : n <= m
<1> DEFINE R == OpToRel(<, Nat)
<1>1. IsWellFoundedOn(R, Nat)
  BY NatLessThanWellFounded
<1>2. PICK n \in T : \A m \in T : ~ (<<m, n>> \in R)
  BY <1>1, WFMin
<1>3. ASSUME NEW m \in T
      PROVE  n <= m
  <2>1. m \in Nat /\ n \in Nat
    OBVIOUS
  <2>2. <<m, n>> \in Nat \X Nat /\ <<m, n>>[1] = m /\ <<m, n>>[2] = n
    BY <2>1
  <2>3. ~ (m < n)
    BY <1>2, <2>2 DEF OpToRel
  <2> HIDE DEF R
  <2> QED BY <2>1, <2>3
<1> QED BY <1>3

(* Induction: a set of numbers that holds 0, and with a number the next    *)
(* one, holds all.                                                         *)
LEMMA AllNumbers ==
  ASSUME NEW S, 0 \in S, \A n \in Nat : n \in S => n + 1 \in S
  PROVE  Nat \subseteq S
<1> SUFFICES ASSUME Nat \ S # {} PROVE FALSE
  OBVIOUS
<1>1. PICK n \in Nat \ S : \A m \in Nat \ S : n <= m
  BY Least
<1>2. n # 0 /\ n - 1 \in Nat /\ n - 1 \in S
  BY <1>1
<1> QED BY <1>1, <1>2

(* What is left of s without n after k elements. *)
LeftUpTo(g, s, n, k) ==
  g = [i \in 0 .. k |-> IF i = 0 THEN <<>>
                        ELSE IF s[i] # n THEN Append(g[i - 1], s[i])
                        ELSE g[i - 1]]

LEMMA LeftUpToMore ==
  ASSUME NEW s, NEW n, NEW k \in Nat, NEW g, LeftUpTo(g, s, n, k)
  PROVE  \E h : LeftUpTo(h, s, n, k + 1)
<1> DEFINE h == [i \in 0 .. k + 1 |-> IF i = 0 THEN <<>>
                        ELSE IF s[i] # n THEN Append(g[i - 1], s[i])
                        ELSE g[i - 1]]
<1>1. \A i \in 0 .. k : g[i] = IF i = 0 THEN <<>>
                        ELSE IF s[i] # n THEN Append(g[i - 1], s[i])
                        ELSE g[i - 1]
  BY DEF LeftUpTo
<1>2. \A i \in 0 .. k + 1 : h[i] = IF i = 0 THEN <<>>
                        ELSE IF s[i] # n THEN Append(g[i - 1], s[i])
                        ELSE g[i - 1]
  OBVIOUS
<1>3. \A i \in 0 .. k : i \in 0 .. k + 1
  OBVIOUS
<1>4. \A i \in 0 .. k : h[i] = g[i]
  <2> HIDE DEF h
  <2> QED BY <1>1, <1>2, <1>3
<1>5. \A i \in 0 .. k + 1 : i # 0 => i - 1 \in 0 .. k
  OBVIOUS
<1>6. \A i \in 0 .. k + 1 : (IF i = 0 THEN <<>>
                             ELSE IF s[i] # n THEN Append(h[i - 1], s[i])
                             ELSE h[i - 1])
                          = (IF i = 0 THEN <<>>
                             ELSE IF s[i] # n THEN Append(g[i - 1], s[i])
                             ELSE g[i - 1])
  <2> HIDE DEF h
  <2> QED BY <1>4, <1>5
<1>7. h = [i \in 0 .. k + 1 |-> IF i = 0 THEN <<>>
                        ELSE IF s[i] # n THEN Append(h[i - 1], s[i])
                        ELSE h[i - 1]]
  BY <1>6, Zenon
<1>8. LeftUpTo(h, s, n, k + 1)
  <2> HIDE DEF h
  <2> QED BY <1>7, Zenon DEF LeftUpTo
<1> QED BY <1>8

(* The recursive function of Without exists. *)
LEMMA WithoutIs ==
  ASSUME NEW S, NEW s \in Seq(S), NEW n
  PROVE  \E g : LeftUpTo(g, s, n, Len(s)) /\ Without(s, n) = g[Len(s)]
<1> DEFINE T == {k \in Nat : \E g : LeftUpTo(g, s, n, k)}
<1>1. 0 \in T
  <2>1. LeftUpTo([i \in 0 .. 0 |-> <<>>], s, n, 0)
    BY DEF LeftUpTo
  <2> QED BY <2>1
<1>2. \A k \in Nat : k \in T => k + 1 \in T
  BY LeftUpToMore
<1>3. Len(s) \in T
  <2>1. Len(s) \in Nat
    BY LenProperties
  <2> HIDE DEF T
  <2> QED BY <1>1, <1>2, <2>1, AllNumbers
<1>4. \E g : g = [i \in 0 .. Len(s) |-> IF i = 0 THEN <<>>
                        ELSE IF s[i] # n THEN Append(g[i - 1], s[i])
                        ELSE g[i - 1]]
  BY <1>3, Zenon DEF LeftUpTo
<1> DEFINE fl == CHOOSE g : g = [i \in 0 .. Len(s) |-> IF i = 0 THEN <<>>
                        ELSE IF s[i] # n THEN Append(g[i - 1], s[i])
                        ELSE g[i - 1]]
<1>5. fl = [i \in 0 .. Len(s) |-> IF i = 0 THEN <<>>
                        ELSE IF s[i] # n THEN Append(fl[i - 1], s[i])
                        ELSE fl[i - 1]]
  BY <1>4, Zenon
<1>6. Without(s, n) = fl[Len(s)]
  BY Zenon DEF Without
<1> HIDE DEF fl
<1>7. LeftUpTo(fl, s, n, Len(s))
  BY <1>5, Zenon DEF LeftUpTo
<1> QED BY <1>6, <1>7, Zenon

(* Every other element stays. *)
LEMMA WithoutFacts ==
  ASSUME NEW S, NEW s \in Seq(S), NEW n
  PROVE  Without(s, n) \in Seq(S) /\ Elements(s) \subseteq Elements(Without(s, n)) \cup {n}
<1>1. PICK g : LeftUpTo(g, s, n, Len(s)) /\ Without(s, n) = g[Len(s)]
  BY WithoutIs
<1>2. Len(s) \in Nat /\ \A i \in 1 .. Len(s) : s[i] \in S
  BY LenProperties, ElementOfSeq
<1>3. \A i \in 0 .. Len(s) : g[i] = IF i = 0 THEN <<>>
                        ELSE IF s[i] # n THEN Append(g[i - 1], s[i])
                        ELSE g[i - 1]
  BY <1>1, Zenon DEF LeftUpTo
<1> DEFINE Good(k) == g[k] \in Seq(S) /\ \A i \in 1 .. k : s[i] \in Elements(g[k]) \cup {n}
           T == {k \in Nat : k <= Len(s) => Good(k)}
<1>4. 0 \in T
  <2>1. g[0] = <<>>
    BY <1>2, <1>3
  <2>2. <<>> \in Seq(S)
    BY EmptySeq
  <2>3. \A i \in 1 .. 0 : FALSE
    OBVIOUS
  <2>4. Good(0)
    BY <2>1, <2>2, <2>3
  <2> QED BY <2>4
<1>5. ASSUME NEW k \in Nat, k \in T
      PROVE  k + 1 \in T
  <2>1. SUFFICES ASSUME k + 1 <= Len(s) PROVE Good(k + 1)
    OBVIOUS
  <2>2. PICK m : m = k + 1
    OBVIOUS
  <2>3. m \in 0 .. Len(s) /\ m # 0 /\ m - 1 = k /\ m \in 1 .. Len(s) /\ k <= Len(s)
    BY <2>1, <1>2, <2>2
  <2>4. g[m] = IF s[m] # n THEN Append(g[k], s[m]) ELSE g[k]
    BY <2>3, <1>3, Zenon
  <2>5. Good(k)
    BY <1>5, <2>3
  <2>6. \A i \in 1 .. m : i \in 1 .. k \/ i = m
    BY <2>2
  <2>7. s[m] \in S
    BY <1>2, <2>3
  <2>8. PICK x : x = g[k]
    OBVIOUS
  <2>9. x \in Seq(S) /\ \A i \in 1 .. k : s[i] \in Elements(x) \cup {n}
    BY <2>5, <2>8
  <2>10. PICK y : y = g[m]
    OBVIOUS
  <2>11. y \in Seq(S) /\ Elements(x) \subseteq Elements(y) /\ (s[m] # n => s[m] \in Elements(y))
    <3>1. CASE s[m] = n
      BY <3>1, <2>4, <2>8, <2>9, <2>10
    <3>2. CASE s[m] # n
      <4>1. y = Append(x, s[m])
        BY <3>2, <2>4, <2>8, <2>10
      <4>2. /\ y \in Seq(S) /\ Len(y) = Len(x) + 1 /\ y[Len(x) + 1] = s[m]
            /\ \A i \in 1 .. Len(x) : y[i] = x[i]
            /\ Len(x) \in Nat
        BY <4>1, <2>7, <2>9, AppendProperties, LenProperties
      <4>3. Len(x) + 1 \in 1 .. Len(y) /\ \A i \in 1 .. Len(x) : i \in 1 .. Len(y)
        BY <4>2
      <4> QED BY <4>2, <4>3 DEF Elements
    <3> QED BY <3>1, <3>2
  <2>12. y \in Seq(S) /\ \A i \in 1 .. m : s[i] \in Elements(y) \cup {n}
    BY <2>6, <2>9, <2>11
  <2> QED BY <2>2, <2>10, <2>12
<1>6. Len(s) \in T
  <2> HIDE DEF T
  <2> QED BY <1>2, <1>4, <1>5, AllNumbers
<1>7. Good(Len(s))
  BY <1>2, <1>6
<1> QED BY <1>1, <1>7 DEF Elements

-----------------------------------------------------------------------------
(* Who attends to a project, step by step. *)

(* What is left of a request's steps. *)
LEMMA StepsLeft ==
  ASSUME NEW s \in Todos, s # <<>>
  PROVE  /\ Elements(s) \subseteq Elements(Tail(s)) \cup {Head(s)}
         /\ Len(s) = 1 => Elements(s) = {Head(s)}
         /\ Elements(<<>>) = {}
<1>1. s \in Seq({"refresh", "read", "store"})
  <2>1. /\ <<"refresh">> \in Seq({"refresh", "read", "store"}) /\ <<"store">> \in Seq({"refresh", "read", "store"})
        /\ <<"store", "refresh">> \in Seq({"refresh", "read", "store"}) /\ <<"read", "store">> \in Seq({"refresh", "read", "store"})
    OBVIOUS
  <2>2. <<"read", "store", "refresh">> \in Seq({"refresh", "read", "store"})
    OBVIOUS
  <2>3. <<"refresh", "read", "store">> \in Seq({"refresh", "read", "store"})
    OBVIOUS
  <2> QED BY <2>1, <2>2, <2>3, Zenon DEF Todos
<1>2. Elements(s) \subseteq Elements(Tail(s)) \cup {Head(s)}
  BY <1>1, QueueParts
<1>3. Elements(<<>>) = {}
  BY DEF Elements
<1>4. ASSUME Len(s) = 1 PROVE Elements(s) = {Head(s)}
  <2>1. 1 .. Len(s) = {1} /\ Head(s) = s[1]
    BY <1>1, <1>4, HeadTailProperties
  <2> QED BY <2>1 DEF Elements
<1> QED BY <1>2, <1>3, <1>4

LEMMA Requests ==
  /\ "refresh" \in Elements(<<"refresh">>)
  /\ "refresh" \in Elements(<<"refresh", "read", "store">>)
  /\ "refresh" \in Elements(<<"read", "store", "refresh">>)
  /\ "store" \in Elements(<<"read", "store", "refresh">>)
  /\ "store" \in Elements(<<"read", "store">>)
<1>1. ASSUME NEW s, NEW i \in 1 .. Len(s) PROVE s[i] \in Elements(s)
  BY DEF Elements
<1>2. /\ 1 \in 1 .. Len(<<"refresh">>) /\ <<"refresh">>[1] = "refresh"
      /\ 1 \in 1 .. Len(<<"refresh", "read", "store">>)
      /\ <<"refresh", "read", "store">>[1] = "refresh"
  OBVIOUS
<1>3. /\ 3 \in 1 .. Len(<<"read", "store", "refresh">>)
      /\ <<"read", "store", "refresh">>[3] = "refresh"
      /\ 2 \in 1 .. Len(<<"read", "store", "refresh">>)
      /\ <<"read", "store", "refresh">>[2] = "store"
  OBVIOUS
<1>4. 2 \in 1 .. Len(<<"read", "store">>) /\ <<"read", "store">>[2] = "store"
  OBVIOUS
<1> QED BY <1>1, <1>2, <1>3, <1>4

(* A step that leaves a project's facts, its record and the worker alone,  *)
(* and nothing that covers it undone.                                      *)
LEMMA AttendedStays ==
  ASSUME NEW n, UNCHANGED <<work, disk[n], records[n], revision[n]>>,
         Covered(n) => Covered(n)', WillStore(n) => WillStore(n)', Attended(n)
  PROVE  Attended(n)'
<1>1. Due(n) => Due(n)'
  BY DEF Due, Rebuilding
<1>2. Served(n) => Served(n)'
  BY DEF Served, Says, Known
<1>3. InHand(n)'
  <2>1. ASSUME work.name = n PROVE GitRead(n)' /\ RegRead(n)' /\ RegStored(n)' /\ Seen(n)'
    BY <2>1 DEF Attended, InHand, GitRead, RegRead, RegStored, Seen, Says, Known
  <2> QED BY <2>1 DEF InHand
<1>4. Listed(n)'
  BY DEF Attended, Listed
<1> QED BY <1>1, <1>2, <1>3, <1>4 DEF Attended

LEMMA AttendedOutside ==
  ASSUME IndexAssumption, IndexInv, Outsiders, errors = 0, errors' = 0,
         NEW n \in Names, Attended(n)
  PROVE  Attended(n)'
<1> USE DEF cache, counts
<1>1. PICK m \in Names : push(m) \/ writeCiRunRecord(m) \/ removeProject(m) \/ ask(m)
  BY DEF Outsiders, IndexAssumption
<1>2. UNCHANGED <<records, revision, pending, urgent, work, control>>
  BY <1>1 DEF push, writeCiRunRecord, removeProject, ask, Changed
<1>3. asked' = asked \cup {m}
  <2>1. \A k \in Names : Changed(k) => asked' = asked \cup {k}
    BY DEF IndexAssumption, Changed, counts
  <2> QED BY <1>1, <2>1 DEF push, writeCiRunRecord, removeProject, ask
<1>4. (Covered(n) => Covered(n)') /\ (WillStore(n) => WillStore(n)')
  BY <1>2, <1>3 DEF Covered, WillStore
<1>5. DOMAIN disk = Names /\ Stored(disk[n])
  BY DEF IndexInv, Cached
<1>6. CASE n # m
  <2>1. disk'[n] = disk[n]
    BY <1>1, <1>5, <1>6 DEF push, writeCiRunRecord, removeProject, ask
  <2> QED BY <1>2, <1>4, <2>1, AttendedStays
<1>7. CASE n = m
  <2>1. /\ disk'[n].reg = disk[n].reg
        /\ disk'[n].there => disk[n].there
    <3>1. CASE push(n)
      BY <1>5, <3>1 DEF push, Stored
    <3>2. CASE writeCiRunRecord(n)
      BY <1>5, <3>2 DEF writeCiRunRecord, Stored
    <3>3. CASE removeProject(n)
      BY <1>5, <3>3 DEF removeProject, Stored
    <3>4. CASE ask(n)
      BY <3>4 DEF ask
    <3> QED BY <1>1, <1>7, <3>1, <3>2, <3>3, <3>4
  <2>2. Covered(n)'
    BY <1>3, <1>7 DEF Covered
  <2>3. InHand(n)'
    <3>1. ASSUME work.name = n PROVE RegStored(n)' /\ Seen(n)'
      BY <1>2, <1>4, <2>1, <2>2, <3>1 DEF Attended, InHand, RegStored, Seen, Known
    <3> QED BY <1>2, <2>2, <3>1 DEF InHand, GitRead, RegRead
  <2> QED BY <2>2, <2>3 DEF Attended, Due, Listed
<1> QED BY <1>6, <1>7

LEMMA AttendedAnswer ==
  ASSUME IndexInv, errors = 0, errors' = 0, NEW m \in Names, NEW n \in Names \ raced',
         answerRefresh(m) \/ answerCreate(m) \/ answerRegister(m) \/ answerForget(m),
         Attended(n)
  PROVE  Attended(n)'
<1> USE DEF cache, counts
<1>1. UNCHANGED <<records, revision, pending, urgent, work>> /\ control.todo = <<>>
  BY DEF answerRefresh, answerCreate, answerRegister, answerForget, Writes, Answers
<1>2. ~WillStore(n) /\ (Covered(n) => n \in asked \/ n \in Elements(urgent) \/ n \in pending)
  <2>1. Elements(control.todo) = {}
    BY <1>1 DEF Elements
  <2> QED BY <2>1 DEF WillStore, Covered
<1>3. DOMAIN disk = Names /\ Stored(disk[n]) /\ DOMAIN disk[n] = {"there", "git", "reg", "runs"}
  BY DEF IndexInv, Cached, Stored
<1>4. CASE n # m
  <2>1. disk'[n] = disk[n] /\ (n \in asked => n \in asked')
    <3>1. CASE answerRefresh(m)
      BY <1>4, <3>1 DEF answerRefresh
    <3>2. CASE answerCreate(m) \/ answerRegister(m) \/ answerForget(m)
      BY <1>3, <1>4, <3>2 DEF answerCreate, answerRegister, answerForget, Writes
    <3> QED BY <3>1, <3>2
  <2>2. Covered(n) => Covered(n)'
    BY <1>1, <1>2, <2>1 DEF Covered
  <2> QED BY <1>1, <1>2, <2>1, <2>2, AttendedStays
<1>5. CASE n = m /\ answerRefresh(n)
  <2>1. control' = [name |-> n, todo |-> <<"refresh">>, seen |-> Placeholder]
        /\ UNCHANGED disk
    BY <1>5 DEF answerRefresh, Answers
  <2>2. Covered(n)'
    BY <2>1, Requests DEF Covered
  <2> QED BY <1>1, <1>2, <2>1, <2>2, AttendedStays
<1>6. CASE n = m /\ answerCreate(n)
  <2>1. control' = [name |-> n, todo |-> <<"refresh", "read", "store">>, seen |-> Placeholder]
    BY <1>6 DEF answerCreate, Answers
  <2>2. Covered(n)'
    BY <2>1, Requests DEF Covered
  <2>3. disk' = [disk EXCEPT ![n] = [disk[n] EXCEPT !.there = TRUE, !.git = @ + 1]]
    BY <1>6 DEF answerCreate, Writes
  <2>4. disk'[n].reg = disk[n].reg /\ disk'[n].there
    BY <1>3, <2>3
  <2>5. ~(work.name = n /\ work.at = "erase")
    BY <1>6 DEF answerCreate
  <2>6. InHand(n)'
    <3>1. ASSUME work.name = n PROVE RegStored(n)' /\ Seen(n)'
      BY <1>1, <1>2, <2>2, <2>4, <2>5, <3>1 DEF Attended, InHand, RegStored, Seen, Known
    <3> QED BY <1>1, <2>2, <3>1 DEF InHand, GitRead, RegRead
  <2> QED BY <2>2, <2>6 DEF Attended, Due, Listed
<1>7. CASE n = m /\ (answerRegister(n) \/ answerForget(n))
  <2>1. PICK steps \in {<<"read", "store", "refresh">>, <<"read", "store">>} :
               control' = [name |-> n, todo |-> steps, seen |-> Placeholder]
    BY <1>7 DEF answerRegister, answerForget, Answers
  <2>2. WillStore(n)'
    BY <2>1, Requests DEF WillStore
  <2>3. disk' = [disk EXCEPT ![n] = [disk[n] EXCEPT !.reg = @ + 1]] /\ UNCHANGED asked
    BY <1>7 DEF answerRegister, answerForget, Writes, Registered
  <2>4. disk'[n].there = disk[n].there /\ disk'[n].git = disk[n].git
    BY <1>3, <2>3
  <2>5. Covered(n) => Covered(n)'
    BY <1>1, <1>2, <2>3 DEF Covered
  <2>6. (Due(n) => Due(n)') /\ (Served(n) => Served(n)')
    <3>1. Served(n) => Served(n)'
      BY <1>1, <2>2, <2>4 DEF Served, Says, Known
    <3> QED BY <1>1, <2>5, <3>1 DEF Due, Rebuilding
  <2>7. InHand(n)'
    <3>1. ASSUME work.name = n
          PROVE  GitRead(n)' /\ RegRead(n)' /\ RegStored(n)' /\ Seen(n)'
      <4>1. GitRead(n)'
        BY <1>1, <2>4, <2>5, <3>1 DEF Attended, InHand, GitRead, Says
      <4>2. RegStored(n)' /\ Seen(n)' /\ RegRead(n)'
        BY <1>1, <2>2, <2>4, <2>5, <3>1 DEF Attended, InHand, RegStored, Seen, RegRead, Known
      <4> QED BY <4>1, <4>2
    <3> QED BY <1>1, <3>1 DEF InHand
  <2>8. Listed(n)'
    BY <1>1, <2>4, <2>5 DEF Attended, Listed
  <2> QED BY <2>6, <2>7, <2>8 DEF Attended
<1> QED BY <1>4, <1>5, <1>6, <1>7

LEMMA AttendedControl ==
  ASSUME IndexInv, urgent \in Seq(Names), NEW n \in Names, Attended(n),
         refresh \/ refreshMetadataReads \/ refreshMetadata
  PROVE  Attended(n)'
<1> USE DEF cache, counts
<1>1. /\ control.todo \in Todos /\ control.todo # <<>> /\ control.name \in Names
      /\ DOMAIN control = {"name", "todo", "seen"}
      /\ DOMAIN records = Names /\ revision \in [Names -> Nat]
      /\ disk[n].reg \in Nat /\ Shown(records[n])
  BY Regs DEF refresh, refreshMetadataReads, refreshMetadata, Doing, IndexInv, Requested, Cached
<1>2. UNCHANGED <<work, disk, asked>>
  BY DEF refresh, refreshMetadataReads, refreshMetadata
<1> DEFINE c == control.todo
<1>3. Elements(c) \subseteq Elements(Tail(c)) \cup {Head(c)}
      /\ (Len(c) = 1 => Elements(c) = {Head(c)})
  BY <1>1, StepsLeft
(* A step of the request that is neither its last refresh nor its store    *)
(* leaves it what it has.                                                  *)
<1>4. ASSUME control' = Onward \/ (control'.todo = Tail(c) /\ control'.name = control.name)
      PROVE  \A x : x # Head(c) /\ x \in Elements(c) =>
                      x \in Elements(control'.todo) /\ control'.name = control.name
  <2>1. CASE control'.todo = Tail(c) /\ control'.name = control.name
    BY <1>3, <2>1
  <2>2. CASE control' = Onward /\ Len(c) = 1
    BY <1>3, <2>2
  <2>3. CASE control' = Onward /\ Len(c) # 1
    <3>1. control' = [control EXCEPT !.todo = Tail(@), !.seen = Placeholder]
      BY <2>3 DEF Onward
    <3>2. control'.todo = Tail(c) /\ control'.name = control.name
      BY <1>1, <3>1
    <3> QED BY <1>3, <3>2
  <2> QED BY <1>4, <2>1, <2>2, <2>3
<1> HIDE DEF c
<1>5. CASE refresh
  <2>1. /\ Head(c) = "refresh" /\ control' = Onward /\ UNCHANGED revision
        /\ records' = Added(control.name) /\ pending' = pending \ {control.name}
        /\ urgent' = With(urgent, control.name)
    BY <1>5 DEF refresh, Doing, Urgent, c
  <2>2. Elements(urgent) \cup {control.name} \subseteq Elements(urgent')
    BY <1>1, <2>1, WithFacts
  <2>3. WillStore(n) => WillStore(n)'
    BY <1>4, <2>1 DEF WillStore, c
  <2>4. CASE n # control.name
    <3>1. Covered(n) => Covered(n)'
      BY <1>2, <2>1, <2>2, <2>4 DEF Covered
    <3>2. records'[n] = records[n]
      BY <1>1, <2>1, <2>4 DEF Added
    <3> QED BY <1>2, <2>1, <2>3, <3>1, <3>2, AttendedStays
  <2>5. CASE n = control.name
    <3>1. Covered(n)'
      BY <2>2, <2>5 DEF Covered
    <3>2. Known(n) => records'[n] = records[n]
      BY <2>1, <2>5 DEF Added
    <3>3. InHand(n)'
      <4>1. ASSUME work.name = n PROVE RegStored(n)' /\ Seen(n)'
        BY <1>2, <2>1, <2>3, <3>1, <3>2, <4>1 DEF Attended, InHand, RegStored, Seen, Known
      <4> QED BY <1>2, <3>1, <4>1 DEF InHand, GitRead, RegRead
    <3> QED BY <3>1, <3>3 DEF Attended, Due, Listed
  <2> QED BY <2>4, <2>5
<1>6. CASE refreshMetadataReads
  <2>1. /\ Head(c) = "read" /\ control'.todo = Tail(c) /\ control'.name = control.name
        /\ UNCHANGED <<records, revision, pending, urgent>>
    BY <1>1, <1>6 DEF refreshMetadataReads, Doing, c
  <2>2. (WillStore(n) => WillStore(n)') /\ (Covered(n) => Covered(n)')
    BY <1>2, <1>4, <2>1 DEF WillStore, Covered, c
  <2> QED BY <1>2, <2>1, <2>2, AttendedStays
<1>7. CASE refreshMetadata
  <2> DEFINE m == control.name  rec == Added(m)[m]
             new == [rec EXCEPT !.reg = control.seen.reg, !.runs = control.seen.runs]
  <2>1. /\ Head(c) = "store" /\ control' = Onward /\ UNCHANGED <<pending, urgent>>
        /\ Doing("store")
        /\ IF ~rec.known THEN UNCHANGED <<records, revision>>
           ELSE /\ records' = [records EXCEPT ![m] = new]
                /\ revision' = [revision EXCEPT ![m] = @ + 1]
    BY <1>7 DEF refreshMetadata, Doing, c
  <2>2. Covered(n) => Covered(n)'
    BY <1>2, <1>4, <2>1 DEF Covered, c
  <2>3. CASE n # m
    <3>1. records'[n] = records[n] /\ revision'[n] = revision[n]
      BY <1>1, <2>1, <2>3
    <3>2. ~WillStore(n)
      BY <2>3 DEF WillStore
    <3> QED BY <1>2, <2>2, <3>1, <3>2, AttendedStays
  <2>4. CASE n = m
    <3>1. /\ rec.known <=> (Known(n) \/ disk[n].there)
          /\ Known(n) => rec = records[n]
          /\ Shown(rec)
      BY <1>1, <2>4, Empty DEF Added, Known, Placeholder
    <3>2. control.seen.reg = disk[n].reg
      BY <2>1, <2>4 DEF IndexInv, Requested
    <3>3. /\ new.reg = disk[n].reg /\ new.known = rec.known
          /\ new.indexing = rec.indexing /\ new.git = rec.git
      BY <3>1, <3>2 DEF Shown
    <3> HIDE DEF rec, new
    <3>4. CASE ~rec.known
      <4>1. ~Known(n) /\ ~disk[n].there /\ UNCHANGED <<records, revision>>
        BY <2>1, <3>1, <3>4
      <4>2. Due(n) => Due(n)'
        BY <1>2, <2>2 DEF Due, Rebuilding
      <4>3. Served(n)'
        BY <1>2, <4>1 DEF Served, Known
      <4>4. InHand(n)'
        <5>1. ASSUME work.name = n
              PROVE  GitRead(n)' /\ RegRead(n)' /\ RegStored(n)' /\ Seen(n)'
          <6>1. GitRead(n)' /\ Seen(n)'
            BY <1>2, <2>2, <5>1 DEF Attended, InHand, GitRead, Seen, Says
          <6>2. RegRead(n)' /\ RegStored(n)'
            BY <1>2, <4>1, <5>1 DEF Attended, InHand, RegRead, RegStored, Known
          <6> QED BY <6>1, <6>2
        <5> QED BY <1>2, <5>1 DEF InHand
      <4>5. Listed(n)'
        BY <1>2, <4>1 DEF Listed
      <4> QED BY <4>3, <4>4, <4>5 DEF Attended
    <3>5. CASE rec.known
      <4>1. records'[n] = new /\ revision'[n] = revision[n] + 1
        BY <1>1, <2>1, <2>4, <3>5
      <4>2. Due(n) => Due(n)'
        BY <1>2, <2>2 DEF Due, Rebuilding
      <4>3. Served(n) => Served(n)'
        <5>1. ASSUME Served(n) PROVE disk[n].there /\ Known(n) /\ Says(records[n], n)
          BY <3>1, <3>5, <5>1 DEF Served, Says, Known
        <5>2. ASSUME Served(n) PROVE Says(new, n)
          BY <3>1, <3>3, <5>1, <5>2 DEF Says
        <5> QED BY <1>2, <3>3, <4>1, <5>1, <5>2 DEF Served, Says
      <4>4. InHand(n)'
        <5>1. ASSUME work.name = n
              PROVE  GitRead(n)' /\ RegRead(n)' /\ RegStored(n)' /\ Seen(n)'
          <6>1. GitRead(n)' /\ Seen(n)'
            BY <1>2, <2>2, <5>1 DEF Attended, InHand, GitRead, Seen, Says
          <6>2. RegRead(n)'
            <7>1. ASSUME work.at \in {"recheck", "store"} PROVE revision'[n] # work.rev
              <8>1. work.rev \in Nat /\ work.rev <= revision[n] /\ revision[n] \in Nat
                BY <1>1, <5>1, <7>1 DEF IndexInv, Rebuilt, HasRead
              <8> QED BY <4>1, <8>1
            <7> QED BY <1>2, <7>1 DEF RegRead
          <6>3. RegStored(n)'
            BY <1>2, <3>3, <3>5, <4>1 DEF RegStored, Known
          <6> QED BY <6>1, <6>2, <6>3
        <5> QED BY <1>2, <5>1 DEF InHand
      <4>5. Listed(n)'
        BY <1>2, <2>2 DEF Attended, Listed
      <4> QED BY <4>2, <4>3, <4>4, <4>5 DEF Attended
    <3> QED BY <3>4, <3>5
  <2> QED BY <2>3, <2>4
<1> QED BY <1>5, <1>6, <1>7

(* A worker that begins a rebuild leaves every other project covered.      *)
LEMMA AttendedBegins ==
  ASSUME NEW n \in Names, Attended(n), UNCHANGED <<disk, records, control>>,
         work.at \in {"idle", "drain"}, work'.at = "check",
         n # work'.name =>
           /\ Covered(n) => Covered(n)'
           /\ n \in work.todo => n \in work'.todo
  PROVE  Attended(n)'
<1>1. InHand(n)' /\ Listed(n)'
  BY DEF InHand, GitRead, RegRead, RegStored, Seen, Listed
<1>2. CASE n = work'.name
  BY <1>1, <1>2 DEF Attended, Due, Rebuilding
<1>3. CASE n # work'.name
  <2>1. Served(n) => Served(n)'
    BY DEF Served, Says, Known, WillStore
  <2>2. Due(n) => Due(n)'
    BY <1>3 DEF Due, Rebuilding
  <2> QED BY <1>1, <2>1, <2>2 DEF Attended
<1> QED BY <1>2, <1>3

LEMMA AttendedTakes ==
  ASSUME IndexInv, urgent \in Seq(Names), NEW n \in Names, Attended(n),
         runUrgent \/ runPending \/ drainUrgent \/ sweepNext
  PROVE  Attended(n)'
<1> USE DEF cache, counts, Outside
<1>1. UNCHANGED <<disk, records, control, asked>> /\ work.at \in {"idle", "drain"}
      /\ DOMAIN work = Fields
  BY DEF runUrgent, runPending, drainUrgent, sweepNext, IndexInv, Rebuilt
<1>2. CASE runUrgent \/ drainUrgent
  <2>1. urgent # <<>> /\ urgent' = Tail(urgent) /\ UNCHANGED pending
    BY <1>2 DEF runUrgent, drainUrgent, UrgentTurn
  <2>2. work'.at = "check" /\ work'.name = Head(urgent) /\ work'.todo = work.todo
    BY <1>1, <1>2 DEF runUrgent, drainUrgent, Rebuilds, Fields
  <2>3. Elements(urgent) \subseteq Elements(urgent') \cup {Head(urgent)}
    BY <2>1, QueueParts
  <2>4. n # work'.name => (Covered(n) => Covered(n)')
    BY <1>1, <2>1, <2>2, <2>3 DEF Covered
  <2> QED BY <1>1, <2>2, <2>4, AttendedBegins
<1>3. CASE runPending \/ sweepNext
  <2>1. PICK m \in Names \cup pending \cup work.todo :
              /\ work'.at = "check" /\ work'.name = m /\ pending' = pending \ {m}
              /\ work'.todo \in {work.todo, work.todo \ {m}}
    BY <1>1, <1>3 DEF runPending, sweepNext, Rebuilds, Fields
  <2>2. UNCHANGED urgent
    BY <1>3 DEF runPending, sweepNext
  <2>3. n # work'.name => (Covered(n) => Covered(n)')
    BY <1>1, <2>1, <2>2 DEF Covered
  <2> QED BY <1>1, <2>1, <2>3, AttendedBegins
<1> QED BY <1>2, <1>3

LEMMA AttendedSweeps ==
  ASSUME IndexInv, ServedInv, NEW n \in Names, Attended(n),
         inventory \/ sweepMerges \/ sweepEnds
  PROVE  Attended(n)'
<1> USE DEF cache, counts, Outside
<1>1. UNCHANGED <<disk, control, asked, pending, urgent>> /\ DOMAIN work = Fields
      /\ DOMAIN records = Names
  BY DEF inventory, sweepMerges, sweepEnds, IndexInv, Rebuilt, Cached
<1>2. (Covered(n) <=> Covered(n)') /\ (WillStore(n) <=> WillStore(n)')
  BY <1>1 DEF Covered, WillStore
<1>3. work'.at \in {"idle", "merge", "drain"} /\ work.at \in {"idle", "merge", "drain"}
  <2>1. CASE inventory
    BY <1>1, <2>1 DEF inventory, Fields
  <2>2. CASE sweepMerges
    BY <1>1, <2>2 DEF sweepMerges, Fields
  <2>3. CASE sweepEnds
    BY <2>3 DEF sweepEnds, Idle
  <2> QED BY <2>1, <2>2, <2>3
<1>4. InHand(n)'
  BY <1>3 DEF InHand, GitRead, RegRead, RegStored, Seen
<1>5. ~Rebuilding(n)
  BY <1>3 DEF Rebuilding
<1>6. CASE inventory
  <2>1. UNCHANGED records /\ work.todo = {} /\ work'.todo = {m \in Names : disk[m].there}
    BY <1>1, <1>6 DEF inventory, ServedInv, Swept, Fields
  <2>2. Served(n) => Served(n)'
    BY <1>1, <1>2, <2>1 DEF Served, Says, Known
  <2>3. Due(n) => Due(n)'
    BY <1>2, <1>5, <2>1 DEF Due
  <2>4. Listed(n)'
    BY <1>1, <2>1 DEF Listed
  <2> QED BY <1>4, <2>2, <2>3, <2>4 DEF Attended
<1>7. CASE sweepMerges
  <2>1. /\ work.at = "merge" /\ work'.todo = work.todo /\ work'.at = "drain"
        /\ records'[n] = IF n \notin work.todo THEN NoRecord
                         ELSE IF Known(n) THEN records[n] ELSE Placeholder
    BY <1>1, <1>7 DEF sweepMerges, Fields
  <2>2. Listed(n)'
    BY <2>1 DEF Listed
  <2>3. Due(n)' \/ Served(n)'
    <3>1. CASE n \in work.todo
      BY <2>1, <3>1 DEF Due
    <3>2. CASE n \notin work.todo /\ disk[n].there
      BY <1>2, <2>1, <3>2 DEF Attended, Listed, Due
    <3>3. CASE n \notin work.todo /\ ~disk[n].there
      BY <1>1, <2>1, <3>3, Empty DEF Served, Known
    <3> QED BY <3>1, <3>2, <3>3
  <2> QED BY <1>4, <2>2, <2>3 DEF Attended
<1>8. CASE sweepEnds
  <2>1. work.todo = {} /\ UNCHANGED records /\ work'.at = "idle"
    BY <1>8 DEF sweepEnds, Idle
  <2>2. Served(n) => Served(n)'
    BY <1>1, <1>2, <2>1 DEF Served, Says, Known
  <2>3. Due(n) => Due(n)'
    BY <1>2, <1>5, <2>1 DEF Due
  <2>4. Listed(n)'
    BY <2>1 DEF Listed
  <2> QED BY <1>4, <2>2, <2>3, <2>4 DEF Attended
<1> QED BY <1>6, <1>7, <1>8

(* A rebuild's own reads. *)
LEMMA AttendedReads ==
  ASSUME IndexInv, NEW n \in Names, Attended(n), errors = 0, errors' = 0,
         rebuildStarts \/ rebuildChecksAgain \/ rebuildReadsGit \/ rebuildReadsMetadata
           \/ rebuildFails
  PROVE  Attended(n)'
<1> USE DEF cache, counts, Outside
<1>1. /\ UNCHANGED <<disk, records, control, asked, revision, pending, urgent>>
      /\ DOMAIN work = Fields /\ revision \in [Names -> Nat]
  BY DEF rebuildStarts, rebuildChecksAgain, rebuildReadsGit, rebuildReadsMetadata,
         rebuildFails, IndexInv, Rebuilt, Cached
<1>2. (Covered(n) <=> Covered(n)') /\ (WillStore(n) <=> WillStore(n)')
      /\ (Served(n) => Served(n)')
  BY <1>1 DEF Covered, WillStore, Served, Says, Known
<1>3. /\ work'.name = work.name /\ work'.todo = work.todo
      /\ work.at \in {"check", "git", "metadata", "recheck"}
      /\ work'.at \in {"git", "metadata", "recheck", "store", "erase"}
  BY <1>1 DEF rebuildStarts, rebuildChecksAgain, rebuildReadsGit, rebuildReadsMetadata,
              rebuildFails, Fields
<1>4. (Due(n) => Due(n)') /\ Listed(n)'
  BY <1>2, <1>3 DEF Due, Rebuilding, Listed
<1>5. SUFFICES ASSUME work.name = n
               PROVE  GitRead(n)' /\ RegRead(n)' /\ RegStored(n)' /\ Seen(n)'
  BY <1>2, <1>3, <1>4, <1>5 DEF Attended, InHand
<1>6. GitRead(n) /\ RegRead(n) /\ RegStored(n) /\ Seen(n)
  BY <1>5 DEF Attended, InHand
<1>7. CASE rebuildStarts
  <2>1. /\ work'.at = IF disk[n].there THEN "git" ELSE "erase"
        /\ work'.rev = revision[n]
    BY <1>1, <1>5, <1>7 DEF rebuildStarts, Fields
  <2> QED BY <1>1, <2>1 DEF GitRead, RegRead, RegStored, Seen
<1>8. CASE rebuildChecksAgain
  <2>1. /\ work.at = "recheck" /\ work'.at = IF disk[n].there THEN "store" ELSE "erase"
        /\ work'.rev = work.rev /\ work'.seen = work.seen
    BY <1>1, <1>5, <1>8 DEF rebuildChecksAgain, Fields
  <2>2. GitRead(n)' /\ Seen(n)'
    BY <1>1, <1>2, <1>6, <2>1 DEF GitRead, Seen, Says
  <2>3. RegRead(n)' /\ RegStored(n)'
    BY <1>1, <1>2, <1>6, <2>1 DEF RegRead, RegStored, Known
  <2> QED BY <2>2, <2>3
<1>9. CASE rebuildReadsGit
  <2>1. /\ work.at = "git" /\ work'.at = "metadata" /\ work'.rev = work.rev
        /\ work'.seen = IF Keeps(n) THEN records[n]
                        ELSE [Placeholder EXCEPT !.git = disk[n].git, !.indexing = FALSE]
    BY <1>1, <1>5, <1>9 DEF rebuildReadsGit, Fields
  <2>2. Says(work'.seen, n)
    <3>1. CASE Keeps(n)
      BY <2>1, <3>1 DEF Keeps, Usable, Known, Says
    <3>2. CASE ~Keeps(n)
      BY <2>1, <3>2 DEF Placeholder, Says
    <3> QED BY <3>1, <3>2
  <2>3. GitRead(n)' /\ RegRead(n)' /\ Seen(n)'
    BY <1>1, <2>1, <2>2 DEF GitRead, RegRead, Seen, Says
  <2>4. RegStored(n)'
    BY <1>1, <1>2, <1>6, <2>1 DEF RegStored, Known
  <2> QED BY <2>3, <2>4
<1>10. CASE rebuildReadsMetadata
  <2>1. /\ work.at = "metadata" /\ work'.at = "recheck" /\ work'.rev = work.rev
        /\ work'.seen = [work.seen EXCEPT !.reg = disk[n].reg, !.runs = disk[n].runs]
    BY <1>1, <1>5, <1>10 DEF rebuildReadsMetadata, Metadata, Fields
  <2>2. DOMAIN work.seen = {"known", "git", "reg", "runs", "indexing", "failed"}
    BY <1>5, <2>1 DEF IndexInv, Rebuilt, HasRead, Shown
  <2>3. /\ work'.seen.reg = disk[n].reg /\ work'.seen.known = work.seen.known
        /\ work'.seen.git = work.seen.git /\ work'.seen.indexing = work.seen.indexing
    BY <2>1, <2>2
  <2>4. GitRead(n)' /\ RegRead(n)' /\ Seen(n)'
    BY <1>1, <1>2, <1>6, <2>1, <2>3 DEF GitRead, RegRead, Seen, Says
  <2>5. RegStored(n)'
    BY <1>1, <1>2, <1>6, <2>1 DEF RegStored, Known
  <2> QED BY <2>4, <2>5
<1>11. ~rebuildFails
  BY DEF rebuildFails
<1> QED BY <1>7, <1>8, <1>9, <1>10, <1>11

(* A rebuild's end. *)
LEMMA AttendedEnds ==
  ASSUME IndexInv, ServedInv, NEW n \in Names, Attended(n), erase \/ rebuildStores
  PROVE  Attended(n)'
<1> USE DEF cache, counts, Outside
<1>1. /\ UNCHANGED <<disk, control, asked>> /\ Returns
      /\ DOMAIN work = Fields /\ work.back \in {"idle", "drain"} /\ DOMAIN records = Names
      /\ urgent \in Seq(Names) /\ work.at \in {"erase", "store"}
  BY DEF erase, rebuildStores, IndexInv, Rebuilt, Cached, ServedInv
<1>2. work'.at \in {"idle", "drain"} /\ work'.todo = work.todo
  <2>1. CASE work.back = "idle"
    <3>1. work.todo = {}
      BY <1>1, <2>1 DEF ServedInv, Swept
    <3> QED BY <1>1, <2>1, <3>1 DEF Returns, Idle
  <2>2. CASE work.back # "idle"
    BY <1>1, <2>2 DEF Returns, Fields
  <2> QED BY <2>1, <2>2
<1>3. InHand(n)' /\ Listed(n)' /\ (WillStore(n) <=> WillStore(n)')
  BY <1>1, <1>2 DEF InHand, GitRead, RegRead, RegStored, Seen, Listed, WillStore
<1>4. CASE work.name # n
  <2>1. Covered(n) => Covered(n)'
    <3>1. CASE erase
      <4>1. pending' = pending \ {work.name} /\ urgent' = Without(urgent, work.name)
        BY <3>1 DEF erase
      <4>2. Elements(urgent) \subseteq Elements(urgent') \cup {work.name}
        BY <1>1, <4>1, WithoutFacts
      <4> QED BY <1>1, <1>4, <4>1, <4>2 DEF Covered
    <3>2. CASE rebuildStores
      BY <1>1, <3>2 DEF rebuildStores, Covered
    <3> QED BY <3>1, <3>2
  <2>2. records'[n] = records[n]
    BY <1>1, <1>4 DEF erase, rebuildStores
  <2>3. Served(n) => Served(n)'
    BY <1>1, <1>3, <2>2 DEF Served, Says, Known
  <2>4. Due(n) => Due(n)'
    BY <1>2, <1>4, <2>1 DEF Due, Rebuilding
  <2> QED BY <1>3, <2>3, <2>4 DEF Attended
<1>5. CASE work.name = n /\ erase
  <2>1. ~disk[n].there
    BY <1>5 DEF Attended, InHand, Seen, erase
  <2>2. records'[n] = NoRecord
    BY <1>1, <1>5 DEF erase
  <2>3. Served(n)'
    BY <1>1, <2>1, <2>2, Empty DEF Served, Known
  <2> QED BY <1>3, <2>3 DEF Attended
<1>6. CASE work.name = n /\ rebuildStores
  <2>1. work.at = "store" /\ UNCHANGED <<revision, pending, urgent>> /\ records'[n] = Merged
    BY <1>1, <1>6 DEF rebuildStores
  <2>2. GitRead(n) /\ RegRead(n) /\ RegStored(n) /\ Seen(n)
    BY <1>6 DEF Attended, InHand
  <2>3. Covered(n) <=> Covered(n)'
    BY <1>1, <2>1 DEF Covered
  <2>4. CASE Covered(n)
    BY <1>3, <2>3, <2>4 DEF Attended, Due
  <2>5. CASE ~Covered(n)
    <3>1. disk[n].there /\ Says(work.seen, n)
      BY <2>1, <2>2, <2>5 DEF Seen, GitRead
    <3>2. DOMAIN work.seen = {"known", "git", "reg", "runs", "indexing", "failed"}
      BY <1>6, <2>1 DEF IndexInv, Rebuilt, HasRead, Shown
    <3>3. Says(Merged, n) /\ (Merged.reg = disk[n].reg \/ WillStore(n))
      <4>1. CASE revision[n] # work.rev
        <5>1. Known(n) /\ (records[n].reg = disk[n].reg \/ WillStore(n))
          BY <2>1, <2>2, <4>1 DEF RegStored
        <5>2. Merged = [work.seen EXCEPT !.reg = records[n].reg]
          BY <1>6, <4>1, <5>1 DEF Merged
        <5> QED BY <3>1, <3>2, <5>1, <5>2 DEF Says
      <4>2. CASE revision[n] = work.rev
        <5>1. Merged = work.seen
          BY <1>6, <4>2 DEF Merged
        <5> QED BY <2>1, <2>2, <2>5, <3>1, <4>2, <5>1 DEF RegRead
      <4> QED BY <4>1, <4>2
    <3>4. Served(n)'
      BY <1>1, <1>3, <2>1, <3>1, <3>3 DEF Served, Says
    <3> QED BY <1>3, <3>4 DEF Attended
  <2> QED BY <2>4, <2>5
<1> QED BY <1>4, <1>5, <1>6

(* The queue stays a queue of names, and a worker at rest has nothing to   *)
(* sweep.                                                                  *)
LEMMA QueueNext ==
  ASSUME IndexAssumption, IndexInv, ServedInv, [Next]_vars
  PROVE  urgent' \in Seq(Names)
<1> USE DEF cache, counts
<1>1. urgent \in Seq(Names) /\ (control.todo # <<>> => control.name \in Names)
  BY DEF ServedInv, IndexInv, Requested
<1>2. CASE refresh
  <2>1. control.name \in Names /\ urgent' = With(urgent, control.name)
    BY <1>1, <1>2 DEF refresh, Doing, Urgent
  <2> QED BY <1>1, <2>1, WithFacts
<1>3. CASE runUrgent \/ drainUrgent
  <2>1. urgent # <<>> /\ urgent' = Tail(urgent)
    BY <1>3 DEF runUrgent, drainUrgent, UrgentTurn
  <2> QED BY <1>1, <2>1, QueueParts
<1>4. CASE erase
  <2>1. urgent' = Without(urgent, work.name)
    BY <1>4 DEF erase
  <2> QED BY <1>1, <2>1, WithoutFacts
<1>5. CASE UNCHANGED vars
  BY <1>1, <1>5 DEF vars
<1>6. CASE Outsiders
  BY <1>1, <1>6 DEF Outsiders, push, writeCiRunRecord, removeProject, ask, Changed
<1>7. ASSUME Control, ~refresh PROVE UNCHANGED urgent
  BY <1>7 DEF Control, answerRefresh, answerCreate, answerRegister, answerForget, Writes,
              refreshMetadataReads, refreshMetadata
<1>8. ASSUME Worker, ~runUrgent, ~drainUrgent, ~erase PROVE UNCHANGED urgent
  BY <1>8 DEF Worker, Rebuild, runPending, inventory, sweepMerges, sweepNext, sweepEnds,
              rebuildStarts, rebuildReadsGit, rebuildReadsMetadata, rebuildChecksAgain,
              rebuildFails, rebuildStores
<1> QED BY <1>1, <1>2, <1>3, <1>4, <1>5, <1>6, <1>7, <1>8 DEF Next

LEMMA SweptNext ==
  ASSUME IndexInv, Swept, [Next]_vars
  PROVE  Swept'
<1> USE DEF cache, counts, Outside
<1>1. DOMAIN work = Fields
  BY DEF IndexInv, Rebuilt
<1>2. ASSUME UNCHANGED work PROVE Swept'
  BY <1>2 DEF Swept
<1>3. CASE runUrgent \/ runPending
  BY <1>1, <1>3 DEF runUrgent, runPending, Rebuilds, Fields, Swept
<1>4. CASE inventory
  BY <1>1, <1>4 DEF inventory, Fields, Swept
<1>5. CASE sweepMerges
  BY <1>1, <1>5 DEF sweepMerges, Fields, Swept
<1>6. CASE drainUrgent \/ sweepNext
  BY <1>1, <1>6 DEF drainUrgent, sweepNext, Fields, Swept
<1>7. CASE sweepEnds
  BY <1>7 DEF sweepEnds, Idle, Swept
<1>8. CASE erase \/ rebuildStores
  <2>1. Returns
    BY <1>8 DEF erase, rebuildStores
  <2>2. CASE work.back = "idle"
    BY <2>1, <2>2 DEF Returns, Idle, Swept
  <2>3. CASE work.back # "idle"
    BY <1>1, <2>1, <2>3 DEF Returns, Fields, Swept
  <2> QED BY <2>2, <2>3
<1>9. ASSUME rebuildStarts \/ rebuildChecksAgain \/ rebuildReadsGit
               \/ rebuildReadsMetadata \/ rebuildFails
      PROVE  Swept'
  <2>1. /\ work'.todo = work.todo /\ work'.back = work.back
        /\ work.at \in {"check", "git", "metadata", "recheck"} /\ work'.at # "idle"
    <3>1. CASE rebuildStarts \/ rebuildChecksAgain
      <4>1. CASE rebuildStarts
        BY <1>1, <4>1 DEF rebuildStarts, Fields
      <4>2. CASE rebuildChecksAgain
        BY <1>1, <4>2 DEF rebuildChecksAgain, Fields
      <4> QED BY <3>1, <4>1, <4>2
    <3>2. CASE rebuildReadsGit \/ rebuildReadsMetadata \/ rebuildFails
      BY <1>1, <3>2 DEF rebuildReadsGit, rebuildReadsMetadata, rebuildFails, Fields
    <3> QED BY <1>9, <3>1, <3>2
  <2> QED BY <2>1 DEF Swept
<1>10. CASE Worker
  BY <1>3, <1>4, <1>5, <1>6, <1>7, <1>8, <1>9, <1>10, Zenon DEF Worker, Rebuild
<1>11. CASE Outsiders \/ Control \/ UNCHANGED vars
  BY <1>2, <1>11 DEF Outsiders, push, writeCiRunRecord, removeProject, ask, Changed, Control,
       answerRefresh, answerCreate, answerRegister, answerForget, Writes, refresh,
       refreshMetadataReads, refreshMetadata, vars
<1> QED BY <1>10, <1>11 DEF Next

(* Failures and races are never forgotten. *)
LEMMA CountsGrow ==
  ASSUME IndexAssumption, errors \in Nat, [Next]_vars
  PROVE  errors' \in Nat /\ (errors' = 0 => errors = 0) /\ raced \subseteq raced'
<1>1. errors' \in {errors, errors + 1} /\ raced \subseteq raced'
  <2>1. CASE Outsiders
    BY <2>1 DEF counts, Outsiders, push, writeCiRunRecord, removeProject, ask, Changed
  <2>2. CASE Control
    BY <2>2 DEF counts, Control, answerRefresh, answerCreate, answerRegister, answerForget,
                Writes, refresh, refreshMetadataReads, refreshMetadata
  <2>3. CASE Worker
    BY <2>3 DEF counts, Worker, Rebuild, runUrgent, runPending, inventory, sweepMerges,
                drainUrgent, sweepNext, sweepEnds, rebuildStarts, erase, rebuildReadsGit,
                rebuildReadsMetadata, rebuildChecksAgain, rebuildFails, rebuildStores
  <2>4. CASE UNCHANGED vars
    BY <2>4 DEF vars, counts
  <2> QED BY <2>1, <2>2, <2>3, <2>4 DEF Next
<1> QED BY <1>1

LEMMA ServedInit ==
  ASSUME IndexAssumption, Init
  PROVE  ServedInv /\ errors \in Nat
<1>1. urgent = <<>> /\ work = Idle /\ errors = 0
  BY DEF Init
<1>2. urgent \in Seq(Names)
  BY <1>1
<1>3. work.at = "idle" /\ work.todo = {}
  BY <1>1 DEF Idle
<1>4. ASSUME NEW n \in Names PROVE Attended(n)
  <2>1. InHand(n) /\ Listed(n)
    BY <1>3 DEF InHand, GitRead, RegRead, RegStored, Seen, Listed
  <2>2. CASE n \in Hosted
    BY <2>1, <2>2 DEF Init, Attended, Due, Covered
  <2>3. CASE n \notin Hosted
    <3>1. records[n] = NoRecord /\ ~disk[n].there
      BY <2>3 DEF Init, Fresh
    <3> QED BY <2>1, <3>1, Empty DEF Attended, Served, Known
  <2> QED BY <2>2, <2>3
<1> QED BY <1>1, <1>2, <1>3, <1>4 DEF ServedInv, Swept

LEMMA ServedNext ==
  ASSUME IndexAssumption, IndexInv, ServedInv, errors \in Nat, [Next]_vars
  PROVE  ServedInv' /\ errors' \in Nat
<1>1. ASSUME errors' = 0, NEW n \in Names, n \notin raced'
      PROVE  Attended(n)'
  <2>1. errors = 0 /\ n \notin raced
    BY <1>1, CountsGrow
  <2>2. Attended(n) /\ urgent \in Seq(Names)
    BY <2>1 DEF ServedInv
  <2>3. CASE UNCHANGED vars
    <3>1. UNCHANGED <<disk, records, revision, pending, urgent, work, control, asked>>
      BY <2>3 DEF vars, cache
    <3>2. (Covered(n) => Covered(n)') /\ (WillStore(n) => WillStore(n)')
      BY <3>1 DEF Covered, WillStore
    <3> QED BY <2>2, <3>1, <3>2, AttendedStays
  <2>4. CASE Outsiders
    BY <1>1, <2>1, <2>2, <2>4, AttendedOutside
  <2>5. CASE Control
    <3>1. ASSUME NEW m \in Changing,
                 answerRefresh(m) \/ answerCreate(m) \/ answerRegister(m) \/ answerForget(m)
          PROVE  Attended(n)'
      <4>1. m \in Names /\ n \in Names \ raced'
        BY <1>1 DEF IndexAssumption
      <4> QED BY <1>1, <2>1, <2>2, <3>1, <4>1, AttendedAnswer
    <3>2. ASSUME refresh \/ refreshMetadataReads \/ refreshMetadata
          PROVE  Attended(n)'
      BY <2>2, <3>2, AttendedControl
    <3> QED BY <2>5, <3>1, <3>2 DEF Control
  <2>6. CASE Worker
    <3>1. CASE runUrgent \/ runPending \/ drainUrgent \/ sweepNext
      BY <2>2, <3>1, AttendedTakes
    <3>2. CASE inventory \/ sweepMerges \/ sweepEnds
      BY <2>2, <3>2, AttendedSweeps
    <3>3. CASE rebuildStarts \/ rebuildChecksAgain \/ rebuildReadsGit \/ rebuildReadsMetadata
                 \/ rebuildFails
      BY <1>1, <2>1, <2>2, <3>3, AttendedReads
    <3>4. CASE erase \/ rebuildStores
      BY <2>2, <3>4, AttendedEnds
    <3> QED BY <2>6, <3>1, <3>2, <3>3, <3>4 DEF Worker, Rebuild
  <2> QED BY <2>3, <2>4, <2>5, <2>6 DEF Next
<1>2. urgent' \in Seq(Names)
  BY QueueNext
<1>3. Swept'
  BY SweptNext DEF ServedInv, Swept
<1> QED BY <1>1, <1>2, <1>3, CountsGrow DEF ServedInv, Swept

(* When every request that was sent has been served, the cache is right    *)
(* about refs and registrations without a sweep: a refresh asked for       *)
(* during a rebuild is not swallowed by the older result.                  *)
THEOREM ServedStaysFresh == Spec => []ServedIsFresh
<1> DEFINE I == IndexInv /\ ServedInv /\ errors \in Nat
<1>1. Init => I
  BY IndexInit, IndexAssumption, ServedInit
<1>2. I /\ [Next]_vars => I'
  <2> SUFFICES ASSUME I, [Next]_vars PROVE I'
    OBVIOUS
  <2>1. IndexInv'
    <3>1. CASE UNCHANGED vars
      BY <3>1 DEF vars, cache, counts, IndexInv, Cached, Requested, Rebuilt, HasRead,
                  NotOlder, Known, Doing
    <3> QED BY <3>1, IndexAssumption, OutsiderSteps, ControlSteps, WorkerSteps DEF Next
  <2>2. ServedInv' /\ errors' \in Nat
    BY ServedNext, IndexAssumption
  <2> QED BY <2>1, <2>2
<1>3. ASSUME I PROVE ServedIsFresh
  <2>1. ASSUME work.at = "idle", control.todo = <<>>, asked = {},
               urgent = <<>>, pending = {}, errors = 0, NEW n \in Names \ raced
        PROVE  IF disk[n].there
                 THEN /\ Known(n) /\ ~records[n].indexing
                      /\ records[n].git = disk[n].git /\ records[n].reg = disk[n].reg
                 ELSE ~Known(n)
    <3>1. Attended(n) /\ work.todo = {}
      BY <1>3, <2>1 DEF ServedInv, Swept
    <3>2. ~Covered(n) /\ ~WillStore(n)
      BY <2>1 DEF Covered, WillStore, Elements
    <3>3. ~Due(n)
      BY <2>1, <3>1, <3>2 DEF Due, Rebuilding
    <3>4. Served(n)
      BY <3>1, <3>3 DEF Attended
    <3> QED BY <3>2, <3>4 DEF Served, Says, Known
  <2> QED BY <2>1 DEF ServedIsFresh
<1> QED BY <1>1, <1>2, <1>3, PTL DEF Spec

=============================================================================
