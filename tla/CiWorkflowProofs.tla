--------------------------- MODULE CiWorkflowProofs ---------------------------
(* Theorems about workflow groups, for every value of the constants. *)
EXTENDS CiWorkflow, WellFoundedInduction, TLAPS

USE DEF Active, Terminal

Record == [status : Status, attempt : Nat]

(* Rec builds well-formed records. *)
LEMMA RecType ==
  ASSUME NEW st \in Status, NEW n \in Nat
  PROVE  Rec(st, n) \in Record /\ Rec(st, n).status = st /\ Rec(st, n).attempt = n
  BY DEF Rec, Record

(* The fields of the queue's files. *)
LEMMA Fields ==
  ASSUME NEW s \in QueueFiles
  PROVE  /\ s.spool \in [Children -> Nat]
         /\ s.working \in [Children -> Nat]
         /\ s.rec \in [Children -> Record]
         /\ s.parent \in [Groups -> Status]
         /\ s.cancel \in SUBSET (Groups \cup Children)
         /\ s.journal \in SUBSET Groups
         /\ s.planned \in SUBSET Groups
         /\ s.auto \in SUBSET AutoCancel
  BY DEF QueueFiles, Record

LEMMA ConstantsType ==
  /\ LastId \in Nat /\ Groups \cup Children \subseteq 1 .. LastId
  /\ GroupOf \in [Children -> Groups]
  /\ \A g \in Groups : \E c \in Children : GroupOf[c] = g
  /\ \A c \in Children : Needs[c] \subseteq Children
  /\ \A c \in Children : \A d \in Needs[c] : GroupOf[d] = GroupOf[c]
  /\ \A g \in Groups : g \in Nat
  /\ \A c \in Children : c \in Nat /\ GroupOf[c] \in Groups
  BY WorkflowAssumption

-----------------------------------------------------------------------------
(* What one step of reconcileWorkflowGroups does. *)

(* A child's files after it is restored. *)
LEMMA RestoredType ==
  ASSUME NEW s \in QueueFiles, NEW c \in Children
  PROVE  /\ Restored(s, c).rec \in Record /\ Restored(s, c).spool \in Nat
         /\ Begun(s, c) \in Record
         /\ Held(s, c) => /\ Restored(s, c).rec = Begun(s, c)
                          /\ Restored(s, c).spool = s.spool[c]
         /\ ~Held(s, c) /\ Begun(s, c).status \in Terminal =>
              Restored(s, c).rec = s.rec[c] /\ Restored(s, c).spool = 0
         /\ ~Held(s, c) /\ Begun(s, c).status \notin Terminal
              /\ CancelRequested(s, c) =>
              Restored(s, c).rec = Rec("Cancelled", 1) /\ Restored(s, c).spool = 0
         /\ ~Held(s, c) /\ Begun(s, c).status \notin Terminal
              /\ ~CancelRequested(s, c) =>
              /\ Restored(s, c).rec = Begun(s, c)
              /\ Restored(s, c).spool = IF Queued(s, c) THEN s.spool[c]
                                        ELSE Begun(s, c).attempt
<1> PICK r \in Record : r = Begun(s, c)
  BY Fields, RecType DEF Begun, Status
<1>1. s.rec[c] \in Record /\ s.spool[c] \in Nat
  BY Fields
<1>2. FilesOf(s, c).rec = s.rec[c] /\ FilesOf(s, c).spool = s.spool[c]
  BY DEF FilesOf
<1>3. Rec("Cancelled", 1) \in Record
  BY RecType DEF Status
<1>4. r.attempt \in Nat
  BY DEF Record
<1>5. CASE Held(s, c)
  BY <1>1, <1>2, <1>5 DEF Restored, FilesOf
<1>6. CASE ~Held(s, c) /\ r.status \in Terminal
  BY <1>1, <1>2, <1>6 DEF Restored, FilesOf
<1>7. CASE ~Held(s, c) /\ r.status \notin Terminal /\ CancelRequested(s, c)
  BY <1>1, <1>3, <1>7 DEF Restored
<1>8. CASE ~Held(s, c) /\ r.status \notin Terminal /\ ~CancelRequested(s, c)
  BY <1>1, <1>4, <1>8 DEF Restored
<1> QED BY <1>5, <1>6, <1>7, <1>8

(* The children of g are restored, the others are left alone. *)
RestoresKids(s, t, g) ==
  /\ t \in QueueFiles
  /\ t.working = s.working /\ t.auto = s.auto /\ t.cancel = s.cancel
  /\ t.journal = s.journal /\ t.parent = s.parent
  /\ t.planned = s.planned \cup {g}
  /\ \A c \in Children : GroupOf[c] # g =>
       t.rec[c] = s.rec[c] /\ t.spool[c] = s.spool[c]
  /\ \A c \in Children : GroupOf[c] = g =>
       t.rec[c] = Restored(s, c).rec /\ t.spool[c] = Restored(s, c).spool

LEMMA RestoreKidsIs ==
  ASSUME NEW s \in QueueFiles, NEW g \in Groups, NEW t, t = RestoreKids(s, g)
  PROVE  RestoresKids(s, t, g)
<1> DEFINE rc == [c \in Children |-> IF c \in Kids(g) THEN Restored(s, c).rec
                                    ELSE s.rec[c]]
           sp == [c \in Children |-> IF c \in Kids(g) THEN Restored(s, c).spool
                                    ELSE s.spool[c]]
<1>1. rc \in [Children -> Record] /\ sp \in [Children -> Nat]
  BY RestoredType, Fields
<1>2. /\ \A c \in Children : GroupOf[c] # g => rc[c] = s.rec[c] /\ sp[c] = s.spool[c]
      /\ \A c \in Children : GroupOf[c] = g =>
           rc[c] = Restored(s, c).rec /\ sp[c] = Restored(s, c).spool
  BY DEF Kids
<1> HIDE DEF rc, sp
<1>3. t = [s EXCEPT !.planned = @ \cup {g}, !.rec = rc, !.spool = sp]
  BY DEF RestoreKids, rc, sp
<1>4. t \in QueueFiles
  <2>1. PICK pl \in SUBSET Groups : pl = s.planned \cup {g}
    BY Fields
  <2>2. t = [s EXCEPT !.planned = pl, !.rec = rc, !.spool = sp]
    BY <1>3, <2>1
  <2> QED BY <1>1, <2>2 DEF QueueFiles, Record
<1>5. /\ t.rec = rc /\ t.spool = sp /\ t.planned = s.planned \cup {g}
      /\ t.working = s.working /\ t.auto = s.auto /\ t.cancel = s.cancel
      /\ t.journal = s.journal /\ t.parent = s.parent
  BY <1>3 DEF QueueFiles
<1> QED BY <1>2, <1>4, <1>5 DEF RestoresKids

(* What supersedeCiJobs does for the children of g: own are g's children   *)
(* if a newer group supersedes g, old the queued children of older groups  *)
(* if g supersedes them, whose parents are marked.                         *)
Supersedes(s, t, g) ==
  /\ t \in QueueFiles
  /\ t.working = s.working /\ t.auto = s.auto /\ t.journal = s.journal
  /\ t.parent = s.parent /\ t.planned = s.planned
  /\ s.cancel \subseteq t.cancel
  /\ \A c \in Children :
       GroupOf[c] = g /\ Superseded(s, g) =>
         t.rec[c] = Rec("Cancelled", 1) /\ t.spool[c] = 0
  /\ \A c \in Children :
       g \in s.auto /\ GroupOf[c] < g /\ Queued(s, c) =>
         /\ t.rec[c] = Rec("Cancelled", s.spool[c])
         /\ t.spool[c] = 0
  /\ \A c \in Children :
       g \in s.auto /\ GroupOf[c] < g /\ ~Queued(s, c) /\ Held(s, c) =>
         Ended(s, c) \/ c \in t.cancel
  /\ \A c \in Children :
       g \in s.auto /\ GroupOf[c] < g /\ Entry(s, c) =>
         GroupOf[c] \in t.cancel \cup committed
  /\ \A p \in listCiUnpublishedWorkflows(s) :
       g \in s.auto /\ p < g => p \in t.cancel
  /\ \A c \in Children :
       /\ ~(GroupOf[c] = g /\ Superseded(s, g))
       /\ ~(g \in s.auto /\ GroupOf[c] < g /\ Queued(s, c))
       => t.rec[c] = s.rec[c] /\ t.spool[c] = s.spool[c]

LEMMA SupersedeIs ==
  ASSUME NEW s \in QueueFiles, NEW g \in Groups, NEW t, t = supersedeCiJobs(s, g)
  PROVE  Supersedes(s, t, g)
<1> DEFINE own == IF Superseded(s, g) THEN Kids(g) ELSE {}
           old == {k \in Outdated(s, g) : Queued(s, k)}
           marked == {k \in Outdated(s, g) \ old : ~Ended(s, k)}
           rc == [c \in Children |->
                   IF c \in own THEN Rec("Cancelled", 1)
                   ELSE IF c \in old THEN Rec("Cancelled", s.spool[c])
                   ELSE s.rec[c]]
           sp == [c \in Children |-> IF c \in own \cup old THEN 0
                                     ELSE s.spool[c]]
           ca == s.cancel \cup marked \cup (OutdatedParents(s, g) \ committed)
<1>1. \A c \in Children : /\ c \in own <=> GroupOf[c] = g /\ Superseded(s, g)
                          /\ c \in old <=> g \in s.auto /\ GroupOf[c] < g /\ Queued(s, c)
                          /\ c \in marked <=> /\ g \in s.auto /\ GroupOf[c] < g
                                              /\ ~Queued(s, c) /\ Held(s, c)
                                              /\ ~Ended(s, c)
  BY DEF Kids, Outdated, Entry
<1>2. \A c \in Children : ~(c \in own /\ c \in old)
  BY <1>1, ConstantsType
<1>3. own \subseteq Children /\ old \subseteq Children /\ marked \subseteq Children
  BY DEF Kids, Outdated
<1>4. OutdatedParents(s, g) \subseteq Groups
  BY ConstantsType, Fields DEF OutdatedParents, Outdated, listCiUnpublishedWorkflows
<1>5. /\ \A c \in Children : g \in s.auto /\ GroupOf[c] < g /\ Entry(s, c) =>
           GroupOf[c] \in OutdatedParents(s, g)
      /\ \A p \in listCiUnpublishedWorkflows(s) : g \in s.auto /\ p < g =>
           p \in OutdatedParents(s, g) \ committed
  BY DEF OutdatedParents, Outdated, listCiUnpublishedWorkflows
<1>6. \A c \in Children : Rec("Cancelled", 1) \in Record
                          /\ Rec("Cancelled", s.spool[c]) \in Record
                          /\ s.rec[c] \in Record /\ s.spool[c] \in Nat
  BY Fields, RecType DEF Status
<1>7. rc \in [Children -> Record] /\ sp \in [Children -> Nat]
  <2> HIDE DEF own, old
  <2> QED BY <1>6
<1>8. ca \in SUBSET (Groups \cup Children)
  <2> HIDE DEF marked
  <2> QED BY <1>3, <1>4, Fields
<1>9. t = [s EXCEPT !.rec = rc, !.spool = sp, !.cancel = ca]
  BY DEF supersedeCiJobs
<1>10. \A c \in Children :
         /\ rc[c] = IF c \in own THEN Rec("Cancelled", 1)
                    ELSE IF c \in old THEN Rec("Cancelled", s.spool[c])
                    ELSE s.rec[c]
         /\ sp[c] = IF c \in own \cup old THEN 0 ELSE s.spool[c]
  OBVIOUS
<1>11. s.cancel \subseteq ca /\ marked \subseteq ca
         /\ OutdatedParents(s, g) \ committed \subseteq ca
  OBVIOUS
<1> HIDE DEF rc, sp, ca, own, old, marked
<1>12. t \in QueueFiles
  BY <1>7, <1>8, <1>9 DEF QueueFiles, Record
<1>13. /\ t.rec = rc /\ t.spool = sp /\ t.cancel = ca /\ t.planned = s.planned
       /\ t.working = s.working /\ t.auto = s.auto
       /\ t.journal = s.journal /\ t.parent = s.parent
  BY <1>9 DEF QueueFiles
<1>14. \A c \in Children :
         GroupOf[c] = g /\ Superseded(s, g) =>
           t.rec[c] = Rec("Cancelled", 1) /\ t.spool[c] = 0
  BY <1>1, <1>10, <1>13
<1>15. \A c \in Children :
         g \in s.auto /\ GroupOf[c] < g /\ Queued(s, c) =>
           t.rec[c] = Rec("Cancelled", s.spool[c]) /\ t.spool[c] = 0
  BY <1>1, <1>2, <1>10, <1>13
<1>16. \A c \in Children :
         g \in s.auto /\ GroupOf[c] < g /\ ~Queued(s, c) /\ Held(s, c) =>
           Ended(s, c) \/ c \in t.cancel
  BY <1>1, <1>11, <1>13
<1>17. \A c \in Children :
         g \in s.auto /\ GroupOf[c] < g /\ Entry(s, c) =>
           GroupOf[c] \in t.cancel \cup committed
  BY <1>5, <1>11, <1>13
<1>18. \A p \in listCiUnpublishedWorkflows(s) : g \in s.auto /\ p < g => p \in t.cancel
  BY <1>5, <1>11, <1>13
<1>19. \A c \in Children :
         /\ ~(GroupOf[c] = g /\ Superseded(s, g))
         /\ ~(g \in s.auto /\ GroupOf[c] < g /\ Queued(s, c))
         => t.rec[c] = s.rec[c] /\ t.spool[c] = s.spool[c]
  BY <1>1, <1>10, <1>13
<1> QED BY <1>11, <1>12, <1>13, <1>14, <1>15, <1>16, <1>17, <1>18, <1>19
        DEF Supersedes

(* The summary is an end exactly when every child has ended, and a success *)
(* only when every child succeeded.                                        *)
LEMMA WorstIs ==
  ASSUME NEW s \in QueueFiles, NEW g \in Groups,
         \A c \in Kids(g) : Ended(s, c)
  PROVE  /\ WorstOf(s, g) \in Terminal
         /\ WorstOf(s, g) = "Success" =>
              \A c \in Kids(g) : Status_(s, c) = "Success"
<1> DEFINE ends == {Status_(s, c) : c \in Kids(g)}
           First(n) == Severity[n] \in ends /\ \A i \in 1 .. n - 1 : Severity[i] \notin ends
<1>1. ends \subseteq Terminal /\ ends # {}
  <2>1. PICK c \in Children : GroupOf[c] = g
    BY ConstantsType
  <2> QED BY <2>1 DEF Kids, Ended
<1>2. /\ Severity[1] = "Error" /\ Severity[2] = "Failure"
      /\ Severity[3] = "Cancelled" /\ Severity[4] = "Skipped"
      /\ Severity[5] = "Success"
  BY DEF Severity
<1> HIDE DEF ends
<1>3. \E n \in 1 .. 5 : First(n)
  <2>1. CASE "Error" \in ends
    <3>1. First(1)
      BY <1>2, <2>1
    <3> QED BY <3>1
  <2>2. CASE "Error" \notin ends /\ "Failure" \in ends
    <3>1. First(2)
      BY <1>2, <2>2
    <3> QED BY <3>1
  <2>3. CASE "Error" \notin ends /\ "Failure" \notin ends /\ "Cancelled" \in ends
    <3>1. First(3)
      BY <1>2, <2>3
    <3> QED BY <3>1
  <2>4. CASE /\ "Error" \notin ends /\ "Failure" \notin ends
             /\ "Cancelled" \notin ends /\ "Skipped" \in ends
    <3>1. First(4)
      BY <1>2, <2>4
    <3> QED BY <3>1
  <2>5. CASE /\ "Error" \notin ends /\ "Failure" \notin ends
             /\ "Cancelled" \notin ends /\ "Skipped" \notin ends
    <3>1. "Success" \in ends
      BY <1>1, <2>5
    <3>2. First(5)
      BY <1>2, <2>5, <3>1
    <3> QED BY <3>2
  <2> QED BY <2>1, <2>2, <2>3, <2>4, <2>5
<1>4. PICK n \in 1 .. 5 : First(n) /\ WorstOf(s, g) = Severity[n]
  <2>1. WorstOf(s, g) = Severity[CHOOSE n \in 1 .. 5 : First(n)]
    BY DEF WorstOf, ends
  <2> HIDE DEF First
  <2> QED BY <1>3, <2>1
<1>5. WorstOf(s, g) \in Terminal
  BY <1>1, <1>4
<1>6. ASSUME WorstOf(s, g) = "Success", NEW c \in Kids(g)
      PROVE  Status_(s, c) = "Success"
  <2>1. n = 5
    <3>1. n = 1 \/ n = 2 \/ n = 3 \/ n = 4 \/ n = 5
      OBVIOUS
    <3> QED BY <1>2, <1>4, <1>6, <3>1
  <2>2. /\ "Error" \notin ends /\ "Failure" \notin ends
        /\ "Cancelled" \notin ends /\ "Skipped" \notin ends
    BY <1>2, <1>4, <2>1
  <2>3. Status_(s, c) \in ends
    BY DEF ends
  <2> QED BY <1>1, <2>2, <2>3
<1> QED BY <1>5, <1>6

LEMMA SummaryIs ==
  ASSUME NEW s \in QueueFiles, NEW g \in Groups
  PROVE  /\ Summary(s, g) \in Active \cup Terminal
         /\ Summary(s, g) \in Terminal <=> \A c \in Kids(g) : Ended(s, c)
         /\ Summary(s, g) = "Success" =>
              \A c \in Kids(g) : Status_(s, c) = "Success"
<1>1. CASE \A c \in Kids(g) : Ended(s, c)
  BY <1>1, WorstIs DEF Summary
<1>2. CASE ~\A c \in Kids(g) : Ended(s, c)
  BY <1>2 DEF Summary
<1> QED BY <1>1, <1>2

(* One journal: the children are restored, what is superseded ends, and    *)
(* the parent is summarised.                                               *)
LEMMA ReconcileGroupIs ==
  ASSUME NEW s \in QueueFiles, NEW g \in Groups, g \in s.journal
  PROVE  \E all, y, end :
           /\ RestoresKids(s, all, g) /\ Supersedes(all, y, g)
           /\ end = Summary(all, g) /\ end \in Active \cup Terminal
           /\ ReconcileGroup(s, g) \in QueueFiles
           /\ ReconcileGroup(s, g) =
                [y EXCEPT !.parent[g] = end,
                          !.journal = IF end \in Terminal THEN @ \ {g} ELSE @]
<1>1. PICK all : all = RestoreKids(s, g)
  OBVIOUS
<1>2. RestoresKids(s, all, g)
  BY <1>1, RestoreKidsIs
<1>3. PICK y : y = supersedeCiJobs(all, g)
  OBVIOUS
<1>4. Supersedes(all, y, g)
  BY <1>2, <1>3, SupersedeIs DEF RestoresKids
<1>5. PICK end : end = Summary(all, g)
  OBVIOUS
<1>6. end \in Active \cup Terminal
  BY <1>2, <1>5, SummaryIs DEF RestoresKids
<1>7. ReconcileGroup(s, g) =
        [y EXCEPT !.parent[g] = end,
                  !.journal = IF end \in Terminal THEN @ \ {g} ELSE @]
  BY <1>1, <1>3, <1>5 DEF ReconcileGroup
<1>8. ReconcileGroup(s, g) \in QueueFiles
  <2>1. y \in QueueFiles
    BY <1>4 DEF Supersedes
  <2>2. PICK jo \in SUBSET Groups : jo = IF end \in Terminal THEN y.journal \ {g} ELSE y.journal
    BY <2>1, Fields
  <2>3. PICK pa \in [Groups -> Status] : pa = [y.parent EXCEPT ![g] = end]
    BY <1>6, <2>1, Fields DEF Status
  <2>4. ReconcileGroup(s, g) = [y EXCEPT !.parent = pa, !.journal = jo]
    BY <1>7, <2>1, <2>2, <2>3 DEF QueueFiles
  <2> QED BY <2>1, <2>4 DEF QueueFiles
<1> QED BY <1>2, <1>4, <1>5, <1>6, <1>7, <1>8

(* The same, field by field. *)
Reconciles(s, t, g) ==
  \E all, y :
    /\ RestoresKids(s, all, g) /\ Supersedes(all, y, g)
    /\ t \in QueueFiles
    /\ t.rec = y.rec /\ t.spool = y.spool /\ t.cancel = y.cancel
    /\ t.working = y.working /\ t.auto = y.auto /\ t.planned = y.planned
    /\ \A p \in Groups : p # g => /\ t.parent[p] = y.parent[p]
                                  /\ p \in t.journal <=> p \in y.journal
    /\ t.parent[g] = Summary(all, g)
    /\ g \in t.journal <=> Summary(all, g) \notin Terminal

LEMMA ReconcileGroupFields ==
  ASSUME NEW s \in QueueFiles, NEW g \in Groups, g \in s.journal,
         NEW t, t = ReconcileGroup(s, g)
  PROVE  Reconciles(s, t, g)
<1>1. PICK all, y, end :
           /\ RestoresKids(s, all, g) /\ Supersedes(all, y, g)
           /\ end = Summary(all, g) /\ end \in Active \cup Terminal
           /\ t \in QueueFiles
           /\ t = [y EXCEPT !.parent[g] = end,
                            !.journal = IF end \in Terminal THEN @ \ {g} ELSE @]
  BY ReconcileGroupIs
<1>2. y \in QueueFiles /\ y.journal = s.journal
  BY <1>1 DEF Supersedes, RestoresKids
<1>3. /\ t.rec = y.rec /\ t.spool = y.spool /\ t.cancel = y.cancel
      /\ t.working = y.working /\ t.auto = y.auto /\ t.planned = y.planned
  BY <1>1, <1>2 DEF QueueFiles
<1>4. t.parent = [y.parent EXCEPT ![g] = end]
  BY <1>1, <1>2 DEF QueueFiles
<1>5. t.journal = IF end \in Terminal THEN y.journal \ {g} ELSE y.journal
  BY <1>1, <1>2 DEF QueueFiles
<1>6. \A p \in Groups : p # g => t.parent[p] = y.parent[p]
  BY <1>2, <1>4, Fields
<1>7. t.parent[g] = end
  BY <1>2, <1>4, Fields
<1> QED BY <1>1, <1>2, <1>3, <1>5, <1>6, <1>7 DEF Reconciles

-----------------------------------------------------------------------------
(* The invariant of the queue's files. *)

(* An entry is in one place and has a record; a queued child is active and *)
(* its group's journal is there; a record has an attempt and its group a   *)
(* workflow.ini.                                                           *)
ChildFiles(s, c) ==
  /\ ~(Queued(s, c) /\ Held(s, c))
  /\ Entry(s, c) => Status_(s, c) # "None"
  /\ Queued(s, c) => Status_(s, c) \in Active /\ GroupOf[c] \in s.journal
  /\ Status_(s, c) # "None" =>
       s.rec[c].attempt > 0 /\ GroupOf[c] \in s.planned

(* A parent has ended exactly when its journal is retired, and is a        *)
(* success, unless a cancel waits for it, only with all of its children.   *)
ParentFiles(s, g) ==
  /\ s.parent[g] \in Terminal <=> g \in s.planned \ s.journal
  /\ s.parent[g] = "Success" /\ g \notin s.cancel =>
       \A c \in Kids(g) : Status_(s, c) = "Success"

FilesInv(s) ==
  /\ s \in QueueFiles
  /\ \A c \in Children : ChildFiles(s, c)
  /\ \A g \in Groups : ParentFiles(s, g)
  /\ committed \cap s.journal = {}

(* A group with a newer one in the queue that supersedes it is marked with *)
(* its claimed children, or all of its children are cancelled.             *)
MarkedGroup(s, g) ==
  /\ g \in s.cancel
  /\ \A c \in Kids(g) : Held(s, c) => Ended(s, c) \/ c \in s.cancel
Withdrawn(s, g) ==
  \A c \in Kids(g) : Status_(s, c) = "Cancelled" /\ ~Entry(s, c)
OvertakenInv(s) ==
  \A g \in s.planned \cap s.journal :
    Superseded(s, g) => MarkedGroup(s, g) \/ Withdrawn(s, g)

(* W are the children whose runner still writes their record.  It works on *)
(* an ended child, or without a journal, only when the child is marked.    *)
WritingInv(s, W) ==
  \A c \in Children :
    /\ c \in W => Held(s, c) /\ Status_(s, c) # "Success"
    /\ c \in W /\ Ended(s, c) => c \in s.cancel
    /\ Held(s, c) /\ (c \in W \/ ~Ended(s, c)) =>
         GroupOf[c] \in s.journal \/ c \in s.cancel

(* A restored child that has not ended is queued or claimed. *)
LEMMA RestoreFacts ==
  ASSUME NEW s, NEW g \in Groups, FilesInv(s), g \in s.journal,
         NEW all, RestoresKids(s, all, g), NEW c \in Children
  PROVE  /\ Held(all, c) <=> Held(s, c)
         /\ GroupOf[c] # g => all.rec[c] = s.rec[c] /\ all.spool[c] = s.spool[c]
         /\ GroupOf[c] = g => /\ Status_(all, c) # "None"
                              /\ Ended(all, c) \/ Entry(all, c)
         /\ Ended(s, c) \/ Held(s, c) => all.rec[c] = s.rec[c]
         /\ \/ all.rec[c] = s.rec[c]
            \/ Status_(all, c) = "Cancelled"
            \/ Status_(s, c) = "None" /\ Status_(all, c) = "Pending"
         /\ ChildFiles(all, c)
<1>1. s \in QueueFiles /\ ChildFiles(s, c)
  BY DEF FilesInv
<1>2. s.rec[c] \in Record /\ s.spool[c] \in Nat /\ s.working[c] \in Nat
  BY <1>1, Fields
<1>3. /\ all.working = s.working /\ all.journal = s.journal
      /\ all.planned = s.planned \cup {g}
  BY DEF RestoresKids
<1>4. CASE GroupOf[c] # g
  <2>1. all.rec[c] = s.rec[c] /\ all.spool[c] = s.spool[c]
    BY <1>4 DEF RestoresKids
  <2> QED BY <1>1, <1>3, <1>4, <2>1 DEF ChildFiles, Held, Queued, Entry, Status_, Ended
<1>5. CASE GroupOf[c] = g
  <2>1. /\ all.rec[c] = Restored(s, c).rec
        /\ all.spool[c] = Restored(s, c).spool
    BY <1>5 DEF RestoresKids
  <2>2. PICK r : r = Begun(s, c)
    OBVIOUS
  <2>3. /\ r \in Record /\ r.attempt > 0 /\ r.status # "None"
        /\ Status_(s, c) # "None" => r = s.rec[c]
        /\ Status_(s, c) = "None" => r.status = "Pending"
    BY <1>1, <1>2, <2>2, RecType DEF Begun, Status_, ChildFiles, Status
  <2>4. Held(all, c) <=> Held(s, c)
    BY <1>3 DEF Held
  <2>5. CASE Held(s, c)
    <3>1. all.rec[c] = r /\ all.spool[c] = s.spool[c]
      BY <1>1, <2>1, <2>2, <2>5, RestoredType
    <3>2. Status_(s, c) # "None" /\ r = s.rec[c]
      BY <1>1, <2>3, <2>5 DEF ChildFiles, Entry
    <3> QED BY <1>1, <1>3, <1>5, <2>3, <2>4, <2>5, <3>1, <3>2
            DEF ChildFiles, Held, Queued, Entry, Status_, Ended
  <2>6. CASE ~Held(s, c) /\ r.status \in Terminal
    <3>1. all.rec[c] = s.rec[c] /\ all.spool[c] = 0 /\ r = s.rec[c]
      BY <1>1, <2>1, <2>2, <2>3, <2>6, RestoredType
    <3> QED BY <1>1, <1>3, <1>5, <2>3, <2>4, <2>6, <3>1
            DEF ChildFiles, Held, Queued, Entry, Status_, Ended
  <2>7. CASE ~Held(s, c) /\ r.status \notin Terminal /\ CancelRequested(s, c)
    <3>1. all.rec[c] = Rec("Cancelled", 1) /\ all.spool[c] = 0
      BY <1>1, <2>1, <2>2, <2>7, RestoredType
    <3>2. all.rec[c].status = "Cancelled" /\ all.rec[c].attempt = 1
      BY <3>1, RecType DEF Status
    <3>3. ~Ended(s, c)
      BY <2>3, <2>7 DEF Ended, Status_
    <3> QED BY <1>1, <1>3, <1>5, <2>4, <2>7, <3>1, <3>2, <3>3
            DEF ChildFiles, Held, Queued, Entry, Status_, Ended
  <2>8. CASE ~Held(s, c) /\ r.status \notin Terminal /\ ~CancelRequested(s, c)
    <3>1. /\ all.rec[c] = r
          /\ all.spool[c] = IF Queued(s, c) THEN s.spool[c] ELSE r.attempt
      BY <1>1, <2>1, <2>2, <2>8, RestoredType
    <3>2. Queued(all, c) /\ ~Ended(s, c) /\ ~Held(all, c)
      BY <2>3, <2>4, <2>8, <3>1 DEF Queued, Ended, Status_
    <3>3. Status_(all, c) \in Active
      BY <2>3, <2>8, <3>1 DEF Status_, Record, Status
    <3> QED BY <1>1, <1>3, <1>5, <2>3, <2>8, <3>1, <3>2, <3>3
            DEF ChildFiles, Held, Entry, Status_, Ended
  <2> QED BY <2>5, <2>6, <2>7, <2>8
<1> QED BY <1>4, <1>5

(* Superseding ends entries and adds none. *)
LEMMA SupersedeFacts ==
  ASSUME NEW s \in QueueFiles, NEW g \in Groups, g \in s.planned,
         NEW c \in Children, ChildFiles(s, c), NEW y, Supersedes(s, y, g)
  PROVE  /\ Held(y, c) <=> Held(s, c)
         /\ Queued(y, c) => Queued(s, c) /\ y.rec[c] = s.rec[c]
         /\ y.rec[c] = s.rec[c] \/ Status_(y, c) = "Cancelled"
         /\ Queued(s, c) \/ GroupOf[c] = g \/ y.rec[c] = s.rec[c]
         /\ GroupOf[c] = g => y.rec[c] = s.rec[c] \/ Superseded(s, g)
         /\ Queued(s, c) /\ ~Queued(y, c) /\ GroupOf[c] # g =>
              g \in s.auto /\ GroupOf[c] < g /\ GroupOf[c] \in y.cancel \cup committed
         /\ GroupOf[c] < g /\ g \in s.auto => ~Queued(y, c)
         /\ ChildFiles(y, c)
<1>1. s.rec[c] \in Record /\ s.spool[c] \in Nat /\ s.working[c] \in Nat
  BY Fields
<1>2. /\ y.working = s.working /\ y.journal = s.journal
      /\ y.planned = s.planned
  BY DEF Supersedes
<1>3. CASE GroupOf[c] = g /\ Superseded(s, g)
  <2>1. y.rec[c] = Rec("Cancelled", 1) /\ y.spool[c] = 0
    BY <1>3 DEF Supersedes
  <2>2. y.rec[c].status = "Cancelled" /\ y.rec[c].attempt = 1
    BY <2>1, RecType DEF Status
  <2> QED BY <1>2, <1>3, <2>1, <2>2
          DEF ChildFiles, Held, Queued, Entry, Status_
<1>4. CASE g \in s.auto /\ GroupOf[c] < g /\ Queued(s, c)
  <2>1. y.rec[c] = Rec("Cancelled", s.spool[c]) /\ y.spool[c] = 0
    BY <1>4 DEF Supersedes
  <2>2. y.rec[c].status = "Cancelled" /\ y.rec[c].attempt = s.spool[c]
    BY <1>1, <2>1, RecType DEF Status
  <2>3. GroupOf[c] \in y.cancel \cup committed
    BY <1>4 DEF Supersedes, Entry
  <2>4. s.spool[c] > 0 /\ GroupOf[c] \in s.planned /\ GroupOf[c] # g
    BY <1>4, ConstantsType DEF ChildFiles, Queued, Entry
  <2>5. ~Queued(y, c)
    BY <2>1 DEF Queued
  <2>6. ChildFiles(y, c)
    BY <1>2, <2>1, <2>2, <2>4, <2>5 DEF ChildFiles, Entry, Status_
  <2> QED BY <1>2, <1>4, <2>2, <2>3, <2>4, <2>5, <2>6 DEF Held, Status_
<1>5. CASE /\ ~(GroupOf[c] = g /\ Superseded(s, g))
           /\ ~(g \in s.auto /\ GroupOf[c] < g /\ Queued(s, c))
  <2>1. y.rec[c] = s.rec[c] /\ y.spool[c] = s.spool[c]
    BY <1>5 DEF Supersedes
  <2>2. Held(y, c) <=> Held(s, c)
    BY <1>2 DEF Held
  <2>3. Queued(y, c) <=> Queued(s, c)
    BY <2>1 DEF Queued
  <2> QED BY <1>2, <1>5, <2>1, <2>2, <2>3 DEF ChildFiles, Entry, Status_
<1> QED BY <1>3, <1>4, <1>5

(* What a child keeps over one step of reconcileWorkflowGroups. *)
ChildKept(s, t, g, c) ==
  /\ Held(t, c) <=> Held(s, c)
  /\ \/ t.rec[c] = s.rec[c]
     \/ Status_(t, c) = "Cancelled"
     \/ Status_(s, c) = "None" /\ Status_(t, c) = "Pending"
  /\ GroupOf[c] # g => /\ Queued(t, c) => Queued(s, c)
                       /\ t.rec[c] = s.rec[c] \/ Queued(s, c)
                       /\ Queued(s, c) /\ ~Queued(t, c) =>
                            /\ GroupOf[c] \in t.cancel
                            /\ g \in s.auto /\ GroupOf[c] < g
  /\ GroupOf[c] < g /\ g \in s.auto => ~Queued(t, c)
  /\ ChildFiles(t, c)

LEMMA ReconcileChild ==
  ASSUME NEW s, NEW g \in Groups, FilesInv(s), g \in s.journal,
         NEW t, Reconciles(s, t, g), NEW c \in Children
  PROVE  ChildKept(s, t, g, c)
<1>1. PICK all, y : /\ RestoresKids(s, all, g) /\ Supersedes(all, y, g)
                    /\ t.rec = y.rec /\ t.spool = y.spool /\ t.cancel = y.cancel
                    /\ t.working = y.working /\ t.planned = y.planned
                    /\ \A p \in Groups : p # g =>
                         (p \in t.journal <=> p \in y.journal)
                    /\ g \in t.journal <=> Summary(all, g) \notin Terminal
  BY DEF Reconciles
<1>2. /\ all \in QueueFiles /\ g \in all.planned /\ all.journal = s.journal
      /\ all.auto = s.auto
  BY <1>1 DEF RestoresKids
<1>3. /\ Held(all, c) <=> Held(s, c)
      /\ GroupOf[c] # g => all.rec[c] = s.rec[c] /\ all.spool[c] = s.spool[c]
      /\ \/ all.rec[c] = s.rec[c]
         \/ Status_(all, c) = "Cancelled"
         \/ Status_(s, c) = "None" /\ Status_(all, c) = "Pending"
      /\ ChildFiles(all, c)
  BY <1>1, RestoreFacts
<1>4. /\ Held(y, c) <=> Held(all, c)
      /\ Queued(y, c) => Queued(all, c) /\ y.rec[c] = all.rec[c]
      /\ y.rec[c] = all.rec[c] \/ Status_(y, c) = "Cancelled"
      /\ Queued(all, c) \/ GroupOf[c] = g \/ y.rec[c] = all.rec[c]
      /\ Queued(all, c) /\ ~Queued(y, c) /\ GroupOf[c] # g =>
           /\ GroupOf[c] \in y.cancel \cup committed
           /\ g \in all.auto /\ GroupOf[c] < g
      /\ GroupOf[c] < g /\ g \in all.auto => ~Queued(y, c)
      /\ ChildFiles(y, c)
  BY <1>1, <1>2, <1>3, SupersedeFacts
<1>5. /\ Held(t, c) <=> Held(y, c)
      /\ Queued(t, c) <=> Queued(y, c)
      /\ t.rec[c] = y.rec[c] /\ Status_(t, c) = Status_(y, c)
  BY <1>1 DEF Held, Queued, Status_
<1>6. GroupOf[c] # g => (Queued(all, c) <=> Queued(s, c))
  BY <1>3 DEF Queued
<1>7. Queued(all, c) => GroupOf[c] \notin committed
  BY <1>2, <1>3 DEF ChildFiles, FilesInv
<1>8. Queued(t, c) => GroupOf[c] \in t.journal
  <2>1. SUFFICES ASSUME Queued(t, c) PROVE GroupOf[c] \in t.journal
    OBVIOUS
  <2>2. CASE GroupOf[c] # g
    <3>1. GroupOf[c] \in y.journal
      BY <1>4, <1>5, <2>1 DEF ChildFiles
    <3> QED BY <1>1, <2>2, <3>1, ConstantsType
  <2>3. CASE GroupOf[c] = g
    <3>1. ~Ended(all, c)
      BY <1>3, <1>4, <1>5, <2>1 DEF ChildFiles, Ended
    <3>2. Summary(all, g) \notin Terminal
      BY <1>2, <2>3, <3>1, SummaryIs DEF Kids
    <3> QED BY <1>1, <2>3, <3>2
  <2> QED BY <2>2, <2>3
<1>9. ChildFiles(t, c)
  BY <1>1, <1>4, <1>5, <1>8 DEF ChildFiles, Entry
<1>10. GroupOf[c] # g => /\ Queued(t, c) => Queued(s, c)
                         /\ t.rec[c] = s.rec[c] \/ Queued(s, c)
                         /\ Queued(s, c) /\ ~Queued(t, c) =>
                              /\ GroupOf[c] \in t.cancel
                              /\ g \in s.auto /\ GroupOf[c] < g
  BY <1>1, <1>2, <1>3, <1>4, <1>5, <1>6, <1>7
<1>11. \/ t.rec[c] = s.rec[c]
       \/ Status_(t, c) = "Cancelled"
       \/ Status_(s, c) = "None" /\ Status_(t, c) = "Pending"
  BY <1>3, <1>4, <1>5 DEF Status_
<1>12. GroupOf[c] < g /\ g \in s.auto => ~Queued(t, c)
  BY <1>2, <1>4, <1>5
<1> QED BY <1>3, <1>4, <1>5, <1>9, <1>10, <1>11, <1>12 DEF ChildKept

(* What the fields of the groups keep. *)
LEMMA ReconcileFields ==
  ASSUME NEW s, NEW g \in Groups, FilesInv(s), g \in s.journal,
         NEW t, Reconciles(s, t, g)
  PROVE  /\ t \in QueueFiles
         /\ t.working = s.working /\ t.auto = s.auto
         /\ t.planned = s.planned \cup {g}
         /\ s.cancel \subseteq t.cancel /\ t.journal \subseteq s.journal
         /\ \A p \in Groups : p # g => /\ t.parent[p] = s.parent[p]
                                       /\ p \in t.journal <=> p \in s.journal
         /\ t.parent[g] \in Terminal <=> g \notin t.journal
<1>1. PICK all, y : /\ RestoresKids(s, all, g) /\ Supersedes(all, y, g)
                    /\ t \in QueueFiles
                    /\ t.cancel = y.cancel /\ t.auto = y.auto
                    /\ t.working = y.working /\ t.planned = y.planned
                    /\ \A p \in Groups : p # g =>
                         /\ t.parent[p] = y.parent[p]
                         /\ p \in t.journal <=> p \in y.journal
                    /\ t.parent[g] = Summary(all, g)
                    /\ g \in t.journal <=> Summary(all, g) \notin Terminal
  BY DEF Reconciles
<1>2. /\ y.working = s.working /\ y.auto = s.auto /\ y.journal = s.journal
      /\ y.parent = s.parent /\ y.planned = s.planned \cup {g}
      /\ s.cancel \subseteq y.cancel
  BY <1>1 DEF RestoresKids, Supersedes
<1>3. t.journal \subseteq Groups
  BY <1>1, Fields
<1> QED BY <1>1, <1>2, <1>3

(* A group that is superseded when it is summarised is marked already, or  *)
(* none of its children ran.                                               *)
LEMMA OwnCase ==
  ASSUME NEW s, NEW g \in Groups, FilesInv(s), OvertakenInv(s), g \in s.journal,
         NEW all, RestoresKids(s, all, g), Superseded(all, g)
  PROVE  \/ MarkedGroup(s, g)
         \/ \A c \in Kids(g) : ~Held(s, c) /\ Status_(all, c) # "Success"
<1>1. PICK k \in Children : Entry(all, k) /\ GroupOf[k] > g /\ GroupOf[k] \in all.auto
  BY DEF Superseded
<1>2. Entry(s, k)
  BY <1>1, RestoreFacts, ConstantsType DEF Entry, Queued
<1>3. Superseded(s, g)
  BY <1>1, <1>2 DEF Superseded, RestoresKids
<1>4. CASE g \in s.planned
  <2>1. MarkedGroup(s, g) \/ Withdrawn(s, g)
    BY <1>3, <1>4 DEF OvertakenInv
  <2>2. ASSUME Withdrawn(s, g), NEW c \in Kids(g)
        PROVE  ~Held(s, c) /\ Status_(all, c) # "Success"
    <3>1. Status_(s, c) = "Cancelled" /\ ~Entry(s, c)
      BY <2>2 DEF Withdrawn
    <3>2. c \in Children
      BY DEF Kids
    <3>3. all.rec[c] = s.rec[c]
      BY <3>1, <3>2, RestoreFacts DEF Ended
    <3> QED BY <3>1, <3>3 DEF Entry, Status_
  <2> QED BY <2>1, <2>2
<1>5. CASE g \notin s.planned
  <2>1. ASSUME NEW c \in Kids(g)
        PROVE  ~Held(s, c) /\ Status_(all, c) # "Success"
    <3>1. c \in Children /\ GroupOf[c] = g
      BY DEF Kids
    <3>2. ChildFiles(s, c)
      BY <3>1 DEF FilesInv
    <3>3. Status_(s, c) = "None" /\ ~Held(s, c)
      BY <1>5, <3>1, <3>2 DEF ChildFiles, Entry
    <3>4. \/ all.rec[c] = s.rec[c]
          \/ Status_(all, c) = "Cancelled"
          \/ Status_(all, c) = "Pending"
      BY <3>1, RestoreFacts
    <3> QED BY <3>3, <3>4 DEF Status_
  <2> QED BY <2>1
<1> QED BY <1>4, <1>5

LEMMA ReconcileParent ==
  ASSUME NEW s, NEW g \in Groups, FilesInv(s), OvertakenInv(s), g \in s.journal,
         NEW t, Reconciles(s, t, g), NEW p \in Groups
  PROVE  ParentFiles(t, p)
<1>1. /\ t.planned = s.planned \cup {g} /\ s.cancel \subseteq t.cancel
      /\ p # g => t.parent[p] = s.parent[p] /\ (p \in t.journal <=> p \in s.journal)
      /\ t.parent[g] \in Terminal <=> g \notin t.journal
  BY ReconcileFields
<1>2. CASE p # g
  <2>1. ParentFiles(s, p)
    BY DEF FilesInv
  <2>2. ASSUME t.parent[p] = "Success", p \notin t.cancel, NEW c \in Kids(p)
        PROVE  Status_(t, c) = "Success"
    <3>1. Status_(s, c) = "Success"
      BY <1>1, <1>2, <2>1, <2>2 DEF ParentFiles
    <3>2. c \in Children /\ GroupOf[c] # g /\ ChildFiles(s, c)
      BY <1>2 DEF Kids, FilesInv
    <3>3. ~Queued(s, c)
      BY <3>1, <3>2 DEF ChildFiles
    <3>4. t.rec[c] = s.rec[c]
      BY <3>2, <3>3, ReconcileChild DEF ChildKept
    <3> QED BY <3>1, <3>4 DEF Status_
  <2> QED BY <1>1, <1>2, <2>1, <2>2 DEF ParentFiles
<1>3. CASE p = g
  <2>1. PICK all, y : /\ RestoresKids(s, all, g) /\ Supersedes(all, y, g)
                      /\ t.rec = y.rec /\ t.parent[g] = Summary(all, g)
    BY DEF Reconciles
  <2>2. ASSUME t.parent[g] = "Success", g \notin t.cancel, NEW c \in Kids(g)
        PROVE  Status_(t, c) = "Success"
    <3>1. all \in QueueFiles /\ g \in all.planned
      BY <2>1 DEF RestoresKids
    <3>2. Status_(all, c) = "Success"
      BY <2>1, <2>2, <3>1, SummaryIs
    <3>3. ~Superseded(all, g)
      BY <1>1, <2>1, <2>2, <3>2, OwnCase DEF MarkedGroup
    <3>4. c \in Children /\ GroupOf[c] = g
      BY DEF Kids
    <3>5. ChildFiles(all, c)
      BY <2>1, <3>4, RestoreFacts
    <3>6. y.rec[c] = all.rec[c]
      BY <2>1, <3>1, <3>3, <3>4, <3>5, SupersedeFacts
    <3> QED BY <2>1, <3>2, <3>6 DEF Status_
  <2>3. g \in t.planned
    BY <1>1
  <2> QED BY <1>1, <1>3, <2>2, <2>3 DEF ParentFiles
<1> QED BY <1>2, <1>3

(* A step of reconcileWorkflowGroups keeps the files' invariant. *)
LEMMA ReconcileFiles ==
  ASSUME NEW s, NEW g \in Groups, FilesInv(s), OvertakenInv(s), g \in s.journal,
         NEW t, Reconciles(s, t, g)
  PROVE  FilesInv(t)
<1>1. t \in QueueFiles /\ t.journal \subseteq s.journal
  BY ReconcileFields
<1>2. \A c \in Children : ChildFiles(t, c)
  BY ReconcileChild DEF ChildKept
<1>3. \A p \in Groups : ParentFiles(t, p)
  BY ReconcileParent
<1> QED BY <1>1, <1>2, <1>3 DEF FilesInv

-----------------------------------------------------------------------------
(* What holds of the groups that a reconciliation has passed. *)

(* A group whose journal is left has an entry, or is marked, or is         *)
(* withdrawn for a newer one that has an entry or ended among J, the       *)
(* journals that this reconciliation found.                                *)
HasEntry(s, g) == \E c \in Kids(g) : Entry(s, c)
Awaits(s, g, J) ==
  \E k \in s.auto : k > g /\ \/ HasEntry(s, k)
                             \/ k \in J /\ k \in listCiUnpublishedWorkflows(s)
Placed(s, g, J) ==
  g \in s.journal =>
    /\ g \in s.planned
    /\ g \in s.cancel \/ HasEntry(s, g) \/ (Withdrawn(s, g) /\ Awaits(s, g, J))

(* The groups that are drawn to supersede are groups. *)
LEMMA AutoGroups ==
  ASSUME NEW s \in QueueFiles
  PROVE  s.auto \subseteq Groups
  BY Fields, WorkflowAssumption

(* A group that supersedes hands its place on: after its step it has an    *)
(* entry, or has ended, or gave way to a newer one.                        *)
LEMMA Succession ==
  ASSUME NEW s, NEW g \in Groups, FilesInv(s), g \in s.journal,
         NEW t, Reconciles(s, t, g), NEW J, g \in J
  PROVE  \/ HasEntry(t, g)
         \/ g \in J /\ g \in listCiUnpublishedWorkflows(t)
         \/ /\ \E k \in s.auto : k > g /\ HasEntry(t, k)
            /\ Withdrawn(t, g)
<1>1. PICK all, y : /\ RestoresKids(s, all, g) /\ Supersedes(all, y, g)
                    /\ t.rec = y.rec /\ t.spool = y.spool /\ t.working = y.working
                    /\ t.planned = y.planned
                    /\ t.parent[g] = Summary(all, g)
  BY DEF Reconciles
<1>2. /\ all \in QueueFiles /\ g \in all.planned /\ all.auto = s.auto
      /\ y.planned = all.planned /\ g \notin committed
  BY <1>1 DEF RestoresKids, Supersedes, FilesInv
<1>3. \A c \in Children : /\ ChildFiles(all, c)
                          /\ Held(all, c) <=> Held(t, c)
                          /\ Queued(t, c) <=> Queued(y, c)
                          /\ GroupOf[c] = g => Ended(all, c) \/ Entry(all, c)
  BY <1>1, RestoreFacts DEF Held, Queued, Supersedes
<1>4. CASE Summary(all, g) \in Terminal
  BY <1>1, <1>2, <1>4 DEF listCiUnpublishedWorkflows
<1>5. CASE Summary(all, g) \notin Terminal /\ ~Superseded(all, g)
  <2>1. PICK c \in Kids(g) : ~Ended(all, c)
    BY <1>2, <1>5, SummaryIs
  <2>2. c \in Children /\ GroupOf[c] = g
    BY DEF Kids
  <2>3. Entry(all, c)
    BY <1>3, <2>1, <2>2
  <2>4. ~(GroupOf[c] < g)
    BY <2>2, ConstantsType
  <2>5. y.spool[c] = all.spool[c]
    BY <1>1, <1>5, <2>2, <2>4 DEF Supersedes
  <2>6. Entry(t, c)
    BY <1>3, <2>2, <2>3, <2>5 DEF Entry, Queued
  <2> QED BY <2>6 DEF HasEntry
<1>6. CASE Superseded(all, g)
  <2>1. PICK k \in Children : Entry(all, k) /\ GroupOf[k] > g /\ GroupOf[k] \in all.auto
    BY <1>6 DEF Superseded
  <2>2. GroupOf[k] # g /\ ~(GroupOf[k] < g)
    BY <2>1, ConstantsType
  <2>3. y.spool[k] = all.spool[k]
    BY <1>1, <2>2 DEF Supersedes
  <2>4. Entry(t, k) /\ k \in Kids(GroupOf[k])
    BY <1>3, <2>1, <2>3 DEF Entry, Queued, Kids
  <2>5. \E n \in s.auto : n > g /\ HasEntry(t, n)
    BY <1>2, <2>1, <2>4 DEF HasEntry
  <2>6. ASSUME ~HasEntry(t, g), NEW c \in Kids(g)
        PROVE  Status_(t, c) = "Cancelled" /\ ~Entry(t, c)
    <3>1. c \in Children /\ GroupOf[c] = g
      BY DEF Kids
    <3>2. y.rec[c] = Rec("Cancelled", 1)
      BY <1>1, <1>6, <3>1 DEF Supersedes
    <3>3. t.rec[c].status = "Cancelled"
      BY <1>1, <3>2, RecType DEF Status
    <3> QED BY <2>6, <3>3 DEF HasEntry, Status_
  <2> QED BY <2>5, <2>6 DEF Withdrawn
<1> QED BY <1>4, <1>5, <1>6

(* The group of a step is placed after it, and the groups before it stay   *)
(* placed.                                                                 *)
LEMMA ReconcilePlaced ==
  ASSUME NEW s, NEW g \in Groups, FilesInv(s), OvertakenInv(s), g \in s.journal,
         NEW t, Reconciles(s, t, g), NEW J, s.journal \subseteq J
  PROVE  /\ Placed(t, g, J)
         /\ \A p \in Groups : p < g /\ Placed(s, p, J) => Placed(t, p, J)
<1>1. /\ t.planned = s.planned \cup {g} /\ s.cancel \subseteq t.cancel
      /\ t.working = s.working /\ t.auto = s.auto /\ t \in QueueFiles
      /\ \A p \in Groups : p # g => /\ t.parent[p] = s.parent[p]
                                    /\ p \in t.journal <=> p \in s.journal
      /\ t.parent[g] \in Terminal <=> g \notin t.journal
  BY ReconcileFields
<1>2. \/ HasEntry(t, g)
      \/ g \in J /\ g \in listCiUnpublishedWorkflows(t)
      \/ /\ \E k \in s.auto : k > g /\ HasEntry(t, k)
         /\ Withdrawn(t, g)
  BY Succession
<1>3. g \in listCiUnpublishedWorkflows(t) => g \notin t.journal
  BY <1>1 DEF listCiUnpublishedWorkflows
<1>4. Placed(t, g, J)
  BY <1>1, <1>2, <1>3 DEF Placed, Awaits
<1>5. ASSUME NEW p \in Groups, p < g, Placed(s, p, J)
      PROVE  Placed(t, p, J)
  <2>1. p # g /\ p \in Nat /\ g \in Nat
    BY <1>5, ConstantsType
  <2>2. SUFFICES ASSUME p \in s.journal, p \notin t.cancel
                 PROVE HasEntry(t, p) \/ (Withdrawn(t, p) /\ Awaits(t, p, J))
    BY <1>1, <1>5, <2>1 DEF Placed
  <2>3. \A c \in Children : ChildKept(s, t, g, c)
    BY ReconcileChild
  <2>4. CASE HasEntry(s, p)
    <3>1. PICK c \in Children : GroupOf[c] = p /\ Entry(s, c)
      BY <2>4 DEF HasEntry, Kids
    <3>2. Entry(t, c)
      BY <2>1, <2>2, <2>3, <3>1 DEF ChildKept, Entry
    <3> QED BY <3>1, <3>2 DEF HasEntry, Kids
  <2>5. CASE Withdrawn(s, p) /\ Awaits(s, p, J)
    <3>1. ASSUME NEW c \in Kids(p)
          PROVE  Status_(t, c) = "Cancelled" /\ ~Entry(t, c)
      <4>1. c \in Children /\ GroupOf[c] # g
        BY <2>1 DEF Kids
      <4>2. Status_(s, c) = "Cancelled" /\ ~Entry(s, c)
        BY <2>5 DEF Withdrawn
      <4> QED BY <2>3, <4>1, <4>2 DEF ChildKept, Entry, Status_
    <3>2. PICK k \in s.auto : k > p /\ \/ HasEntry(s, k)
                                       \/ k \in J /\ k \in listCiUnpublishedWorkflows(s)
      BY <2>5 DEF Awaits
    <3>3. k \in Groups /\ k \in Nat
      BY <3>2, AutoGroups, ConstantsType DEF FilesInv
    <3>4. g \in s.auto => Awaits(t, p, J)
      <4>1. SUFFICES ASSUME g \in s.auto PROVE Awaits(t, p, J)
        OBVIOUS
      <4>2. CASE \E n \in s.auto : n > g /\ HasEntry(t, n)
        <5>1. PICK n \in s.auto : n > g /\ HasEntry(t, n)
          BY <4>2
        <5>2. n \in Nat
          BY <5>1, AutoGroups, ConstantsType DEF FilesInv
        <5>3. n > p
          BY <1>5, <2>1, <5>1, <5>2
        <5> QED BY <1>1, <5>1, <5>3 DEF Awaits
      <4> QED BY <1>1, <1>2, <1>5, <2>1, <4>1, <4>2 DEF Awaits
    <3>5. ASSUME k = g PROVE Awaits(t, p, J)
      BY <3>2, <3>4, <3>5
    <3>6. ASSUME k # g, HasEntry(s, k) PROVE Awaits(t, p, J)
      <4>1. PICK c \in Children : GroupOf[c] = k /\ Entry(s, c)
        BY <3>6 DEF HasEntry, Kids
      <4>2. CASE Entry(t, c)
        BY <1>1, <3>2, <4>1, <4>2 DEF HasEntry, Kids, Awaits
      <4>3. CASE ~Entry(t, c)
        <5>1. g \in s.auto
          BY <2>3, <3>6, <4>1, <4>3 DEF ChildKept, Entry
        <5> QED BY <3>4, <5>1
      <4> QED BY <4>2, <4>3
    <3>7. ASSUME k # g, k \in J, k \in listCiUnpublishedWorkflows(s)
          PROVE  Awaits(t, p, J)
      <4>1. k \in listCiUnpublishedWorkflows(t)
        BY <1>1, <3>3, <3>7 DEF listCiUnpublishedWorkflows
      <4> QED BY <1>1, <3>2, <3>7, <4>1 DEF Awaits
    <3>8. Awaits(t, p, J)
      BY <3>2, <3>5, <3>6, <3>7
    <3> QED BY <3>1, <3>8 DEF Withdrawn
  <2>6. p \notin s.cancel
    BY <1>1, <2>2
  <2> QED BY <1>5, <2>2, <2>4, <2>5, <2>6 DEF Placed
<1> QED BY <1>4, <1>5

(* A step keeps OvertakenInv, when the groups before it are placed.        *)
LEMMA ReconcileOvertaken ==
  ASSUME NEW s, NEW g \in Groups, FilesInv(s), OvertakenInv(s), g \in s.journal,
         NEW t, Reconciles(s, t, g), NEW J,
         \A p \in Groups : p < g => Placed(s, p, J)
  PROVE  OvertakenInv(t)
<1>1. /\ t.planned = s.planned \cup {g} /\ s.cancel \subseteq t.cancel
      /\ t.working = s.working /\ t.auto = s.auto
      /\ t.journal \subseteq s.journal /\ t.planned \subseteq Groups
  BY ReconcileFields, Fields
<1>2. \A c \in Children : ChildKept(s, t, g, c)
  BY ReconcileChild
<1>3. PICK all, y : /\ RestoresKids(s, all, g) /\ Supersedes(all, y, g)
                    /\ t.rec = y.rec /\ t.spool = y.spool /\ t.cancel = y.cancel
  BY DEF Reconciles
<1>4. SUFFICES ASSUME NEW p \in Groups, p \in t.planned, p \in t.journal,
                      NEW k \in Children, Entry(t, k), GroupOf[k] > p,
                      GroupOf[k] \in t.auto
               PROVE  MarkedGroup(t, p) \/ Withdrawn(t, p)
  BY <1>1 DEF OvertakenInv, Superseded
<1>5. p \in Nat /\ g \in Nat /\ GroupOf[k] \in Nat /\ p # GroupOf[k]
  BY <1>4, ConstantsType
<1>6. CASE p = g
  <2>1. Entry(s, k) /\ k \in Children
    BY <1>2, <1>4, <1>5, <1>6 DEF ChildKept, Entry
  <2>2. Entry(all, k)
    BY <1>3, <1>5, <1>6, <2>1, RestoreFacts DEF Entry, Queued
  <2>3. Superseded(all, g)
    BY <1>1, <1>3, <1>4, <1>6, <2>2 DEF Superseded, RestoresKids
  <2>4. \/ MarkedGroup(s, g)
        \/ \A c \in Kids(g) : ~Held(s, c) /\ Status_(all, c) # "Success"
    BY <1>3, <2>3, OwnCase
  <2>5. ASSUME NEW c \in Kids(g)
        PROVE  /\ c \in Children /\ Status_(t, c) = "Cancelled"
               /\ ~Queued(t, c) /\ (Held(t, c) <=> Held(s, c))
    <3>1. c \in Children /\ GroupOf[c] = g
      BY DEF Kids
    <3>2. y.rec[c] = Rec("Cancelled", 1) /\ y.spool[c] = 0
      BY <1>3, <2>3, <3>1 DEF Supersedes
    <3>3. t.rec[c].status = "Cancelled" /\ t.spool[c] = 0
      BY <1>3, <3>2, RecType DEF Status
    <3> QED BY <1>2, <3>1, <3>3 DEF ChildKept, Status_, Queued
  <2>6. MarkedGroup(s, g) => MarkedGroup(t, g)
    BY <1>1, <2>5 DEF MarkedGroup, Ended
  <2>7. (\A c \in Kids(g) : ~Held(s, c)) => Withdrawn(t, g)
    BY <2>5 DEF Withdrawn, Entry
  <2> QED BY <1>6, <2>4, <2>6, <2>7
<1>7. CASE p # g
  <2>1. p \in s.planned /\ p \in s.journal
    BY <1>1, <1>4, <1>7
  <2>2. ASSUME NEW c \in Kids(p)
        PROVE  /\ c \in Children /\ GroupOf[c] = p /\ ChildKept(s, t, g, c)
               /\ Ended(s, c) => Ended(t, c)
    <3>1. c \in Children /\ GroupOf[c] = p
      BY DEF Kids
    <3>2. ChildKept(s, t, g, c)
      BY <1>2, <3>1
    <3> QED BY <3>1, <3>2 DEF ChildKept, Ended, Status_
  <2>3. Withdrawn(s, p) => Withdrawn(t, p)
    <3>1. SUFFICES ASSUME Withdrawn(s, p), NEW c \in Kids(p)
                   PROVE  Status_(t, c) = "Cancelled" /\ ~Entry(t, c)
      BY DEF Withdrawn
    <3>2. Status_(s, c) = "Cancelled" /\ ~Entry(s, c)
      BY <3>1 DEF Withdrawn
    <3> QED BY <1>7, <2>2, <3>2 DEF ChildKept, Entry, Status_
  <2>4. MarkedGroup(s, p) => MarkedGroup(t, p)
    <3>1. SUFFICES ASSUME MarkedGroup(s, p), NEW c \in Kids(p), Held(t, c)
                   PROVE  Ended(t, c) \/ c \in t.cancel
      BY <1>1 DEF MarkedGroup
    <3>2. Held(s, c)
      BY <2>2, <3>1 DEF ChildKept
    <3> QED BY <1>1, <2>2, <3>1, <3>2 DEF MarkedGroup
  <2>5. CASE Superseded(s, p)
    BY <2>1, <2>3, <2>4, <2>5 DEF OvertakenInv
  <2>6. CASE ~Superseded(s, p)
    <3>1. ~Entry(s, k)
      BY <1>1, <1>4, <2>6 DEF Superseded
    <3>2. GroupOf[k] = g
      BY <1>2, <1>4, <3>1 DEF ChildKept, Entry
    <3>3. p < g /\ g \in s.auto
      BY <1>1, <1>4, <1>5, <3>2
    <3>4. Placed(s, p, J)
      BY <3>3
    <3>5. ASSUME NEW c \in Kids(p), Entry(s, c)
          PROVE  p \in t.cancel /\ (Held(s, c) => Ended(s, c) \/ c \in t.cancel)
      <4>1. c \in Children /\ GroupOf[c] = p
        BY DEF Kids
      <4>2. /\ all.auto = s.auto /\ all.working = s.working
            /\ all.rec[c] = s.rec[c] /\ all.spool[c] = s.spool[c]
        BY <1>3, <1>7, <4>1 DEF RestoresKids
      <4>3. Entry(all, c) /\ (Held(s, c) => Held(all, c))
        BY <3>5, <4>2 DEF Entry, Queued, Held
      <4>4. ~(Queued(s, c) /\ Held(s, c))
        BY <4>1 DEF FilesInv, ChildFiles
      <4>5. p \in y.cancel \cup committed
        BY <1>3, <3>3, <4>1, <4>2, <4>3 DEF Supersedes
      <4>6. p \notin committed
        BY <2>1 DEF FilesInv
      <4>7. Held(s, c) => Ended(all, c) \/ c \in y.cancel
        BY <1>3, <3>3, <4>1, <4>2, <4>3, <4>4 DEF Supersedes, Queued
      <4> QED BY <1>3, <4>2, <4>5, <4>6, <4>7 DEF Ended, Status_
    <3>6. CASE HasEntry(s, p)
      <4>1. p \in t.cancel
        BY <3>5, <3>6 DEF HasEntry
      <4>2. ASSUME NEW c \in Kids(p), Held(t, c)
            PROVE  Ended(t, c) \/ c \in t.cancel
        <5>1. Held(s, c) /\ Entry(s, c)
          BY <2>2, <4>2 DEF ChildKept, Entry
        <5> QED BY <2>2, <3>5, <5>1
      <4> QED BY <4>1, <4>2 DEF MarkedGroup
    <3>7. CASE ~HasEntry(s, p) /\ p \in s.cancel
      <4>1. ASSUME NEW c \in Kids(p)
            PROVE  ~Held(t, c)
        BY <2>2, <3>7 DEF HasEntry, Entry, ChildKept
      <4> QED BY <1>1, <3>7, <4>1 DEF MarkedGroup
    <3>8. CASE Withdrawn(s, p)
      BY <2>3, <3>8
    <3> QED BY <2>1, <3>4, <3>6, <3>7, <3>8 DEF Placed
  <2> QED BY <2>5, <2>6
<1> QED BY <1>6, <1>7

(* A step keeps WritingInv: what it ends under a runner is marked. *)
LEMMA ReconcileWriting ==
  ASSUME NEW s, NEW g \in Groups, FilesInv(s), OvertakenInv(s), g \in s.journal,
         NEW t, Reconciles(s, t, g), NEW W, WritingInv(s, W)
  PROVE  WritingInv(t, W)
<1>1. /\ t.planned = s.planned \cup {g} /\ s.cancel \subseteq t.cancel
      /\ \A p \in Groups : p # g => (p \in t.journal <=> p \in s.journal)
  BY ReconcileFields
<1>2. PICK all, y : /\ RestoresKids(s, all, g) /\ Supersedes(all, y, g)
                    /\ t.rec = y.rec
                    /\ g \in t.journal <=> Summary(all, g) \notin Terminal
  BY DEF Reconciles
<1>3. SUFFICES ASSUME NEW c \in Children
               PROVE  /\ c \in W => Held(t, c) /\ Status_(t, c) # "Success"
                      /\ c \in W /\ Ended(t, c) => c \in t.cancel
                      /\ Held(t, c) /\ (c \in W \/ ~Ended(t, c)) =>
                           GroupOf[c] \in t.journal \/ c \in t.cancel
  BY DEF WritingInv
<1>4. /\ c \in W => Held(s, c) /\ Status_(s, c) # "Success"
      /\ c \in W /\ Ended(s, c) => c \in s.cancel
      /\ Held(s, c) /\ (c \in W \/ ~Ended(s, c)) =>
           GroupOf[c] \in s.journal \/ c \in s.cancel
  BY DEF WritingInv
<1>5. ChildKept(s, t, g, c) /\ ChildFiles(s, c)
  BY ReconcileChild DEF FilesInv
<1>6. c \in W => Held(t, c) /\ Status_(t, c) # "Success"
  BY <1>4, <1>5 DEF ChildKept, Status_
<1>7. ASSUME Held(s, c), c \in W, t.rec[c] # s.rec[c]
      PROVE  c \in s.cancel
  <2>1. all.rec[c] = s.rec[c]
    BY <1>2, <1>7, RestoreFacts
  <2>2. GroupOf[c] = g
    BY <1>5, <1>7 DEF ChildKept, ChildFiles
  <2>3. Superseded(all, g)
    BY <1>2, <1>5, <1>7, <2>1, <2>2, RestoreFacts, SupersedeFacts DEF RestoresKids
  <2>4. MarkedGroup(s, g)
    BY <1>2, <1>7, <2>2, <2>3, OwnCase DEF Kids
  <2> QED BY <1>4, <1>7, <2>2, <2>4 DEF MarkedGroup, Kids
<1>8. c \in W /\ Ended(t, c) => c \in t.cancel
  <2>1. t.rec[c] = s.rec[c] => (Ended(t, c) <=> Ended(s, c))
    BY DEF Ended, Status_
  <2> QED BY <1>1, <1>4, <1>7, <2>1
<1>9. ASSUME Held(t, c), c \in W \/ ~Ended(t, c)
      PROVE  GroupOf[c] \in t.journal \/ c \in t.cancel
  <2>1. Held(s, c) /\ Status_(s, c) # "None"
    BY <1>5, <1>9 DEF ChildKept, ChildFiles, Entry
  <2>2. c \in W \/ ~Ended(s, c)
    BY <1>5, <1>9, <2>1 DEF ChildKept, Ended, Status_
  <2>3. CASE c \in s.cancel
    BY <1>1, <2>3
  <2>4. CASE GroupOf[c] \in s.journal /\ GroupOf[c] # g
    BY <1>1, <2>4, ConstantsType
  <2>5. CASE GroupOf[c] = g /\ c \notin s.cancel
    <3>1. ~Ended(s, c)
      BY <1>4, <2>2, <2>5
    <3>2. all.rec[c] = s.rec[c]
      BY <1>2, <2>1, RestoreFacts
    <3>3. ~Ended(all, c)
      BY <3>1, <3>2 DEF Ended, Status_
    <3>4. Summary(all, g) \notin Terminal
      BY <1>2, <2>5, <3>3, SummaryIs DEF Kids, RestoresKids
    <3> QED BY <1>2, <2>5, <3>4
  <2> QED BY <1>4, <2>1, <2>2, <2>3, <2>4, <2>5
<1> QED BY <1>6, <1>8, <1>9

-----------------------------------------------------------------------------
(* Where no workflow supersedes another.                                   *)

(* A queued child is pending, an active one is queued or claimed, and what *)
(* a child needs has succeeded before it is claimed.                       *)
SteadyChild(s, c) ==
  /\ Queued(s, c) => Status_(s, c) = "Pending"
  /\ Status_(s, c) \in Active => Entry(s, c)
  /\ Held(s, c) \/ Status_(s, c) \in {"Running", "Success"} =>
       \A d \in Needs[c] : Status_(s, d) = "Success"
EndsLast(s, g) ==
  s.parent[g] \in Terminal => \A c \in Kids(g) : Ended(s, c)
Steady(s) ==
  /\ \A c \in Children : SteadyChild(s, c)
  /\ \A g \in Groups : EndsLast(s, g)

(* Ended and claimed children keep their records. *)
KeepsRecords(s, t) ==
  \A c \in Children : Ended(s, c) \/ Held(s, c) => t.rec[c] = s.rec[c]

LEMMA ReconcileSteady ==
  ASSUME NEW s, NEW g \in Groups, FilesInv(s), g \in s.journal,
         NEW t, Reconciles(s, t, g), s.auto = {}, Steady(s)
  PROVE  Steady(t) /\ KeepsRecords(s, t)
<1>1. PICK all, y :
        /\ RestoresKids(s, all, g) /\ Supersedes(all, y, g)
        /\ t.rec = y.rec /\ t.spool = y.spool /\ t.working = y.working
        /\ t.parent[g] = Summary(all, g)
  BY DEF Reconciles
<1>2. /\ all \in QueueFiles /\ all.auto = {} /\ all.working = s.working
      /\ y.working = all.working
  BY <1>1 DEF RestoresKids, Supersedes
<1>3. ~Superseded(all, g)
  BY <1>2 DEF Superseded
<1>4. ASSUME NEW c \in Children
      PROVE  t.rec[c] = all.rec[c] /\ t.spool[c] = all.spool[c]
  BY <1>1, <1>2, <1>3 DEF Supersedes
<1>5. ASSUME NEW c \in Children
      PROVE  /\ Held(t, c) <=> Held(s, c)
             /\ Status_(t, c) = Status_(all, c) /\ (Ended(t, c) <=> Ended(all, c))
             /\ Queued(t, c) <=> Queued(all, c)
             /\ GroupOf[c] # g => t.rec[c] = s.rec[c] /\ t.spool[c] = s.spool[c]
             /\ GroupOf[c] = g => Ended(t, c) \/ Entry(t, c)
             /\ Ended(s, c) \/ Held(s, c) => t.rec[c] = s.rec[c]
             /\ \/ t.rec[c] = s.rec[c]
                \/ Status_(t, c) = "Cancelled"
                \/ Status_(s, c) = "None" /\ Status_(t, c) = "Pending"
             /\ Queued(t, c) => Status_(t, c) \in Active /\ ~Held(t, c)
  <2>1. /\ Held(t, c) <=> Held(all, c)
        /\ Status_(t, c) = Status_(all, c) /\ (Ended(t, c) <=> Ended(all, c))
        /\ Queued(t, c) <=> Queued(all, c)
    BY <1>1, <1>2, <1>4 DEF Held, Queued, Ended, Status_
  <2>2. /\ Held(all, c) <=> Held(s, c)
        /\ GroupOf[c] # g => all.rec[c] = s.rec[c] /\ all.spool[c] = s.spool[c]
        /\ GroupOf[c] = g => Ended(all, c) \/ Entry(all, c)
        /\ Ended(s, c) \/ Held(s, c) => all.rec[c] = s.rec[c]
        /\ \/ all.rec[c] = s.rec[c]
           \/ Status_(all, c) = "Cancelled"
           \/ Status_(s, c) = "None" /\ Status_(all, c) = "Pending"
        /\ ChildFiles(all, c)
    BY <1>1, RestoreFacts
  <2> QED BY <1>4, <2>1, <2>2 DEF ChildFiles, Entry
<1>6. KeepsRecords(s, t)
  BY <1>5 DEF KeepsRecords
<1>7. ASSUME NEW c \in Children
      PROVE  SteadyChild(t, c)
  <2>1. SteadyChild(s, c)
    BY DEF Steady
  <2>2. Queued(t, c) => Status_(t, c) = "Pending"
    <3>1. SUFFICES ASSUME Queued(t, c), t.rec[c] = s.rec[c]
                   PROVE  Status_(t, c) = "Pending"
      BY <1>5
    <3>2. Entry(s, c) /\ ~Held(s, c)
      BY <1>5, <2>1, <3>1 DEF SteadyChild, Status_
    <3> QED BY <2>1, <3>1, <3>2 DEF SteadyChild, Status_, Entry
  <2>3. Status_(t, c) \in Active => Entry(t, c)
    <3>1. CASE GroupOf[c] = g
      BY <1>5, <3>1 DEF Ended
    <3>2. CASE GroupOf[c] # g
      BY <1>5, <2>1, <3>2 DEF SteadyChild, Status_, Entry, Queued
    <3> QED BY <3>1, <3>2
  <2>4. ASSUME Held(t, c) \/ Status_(t, c) \in {"Running", "Success"},
               NEW d \in Needs[c]
        PROVE  Status_(t, d) = "Success"
    <3>1. Held(s, c) \/ Status_(s, c) \in {"Running", "Success"}
      BY <1>5, <2>4 DEF Status_
    <3>2. Status_(s, d) = "Success" /\ d \in Children
      BY <2>1, <3>1, ConstantsType DEF SteadyChild
    <3> QED BY <1>5, <3>2 DEF Status_, Ended
  <2> QED BY <2>2, <2>3, <2>4 DEF SteadyChild
<1>8. ASSUME NEW p \in Groups
      PROVE  EndsLast(t, p)
  <2>1. CASE p = g
    <3>1. SUFFICES ASSUME Summary(all, g) \in Terminal, NEW c \in Kids(g)
                   PROVE  Ended(t, c)
      BY <1>1, <2>1 DEF EndsLast
    <3>2. Ended(all, c) /\ c \in Children
      BY <1>2, <3>1, SummaryIs DEF Kids
    <3> QED BY <1>5, <3>2
  <2>2. CASE p # g
    <3>1. t.parent[p] = s.parent[p] /\ EndsLast(s, p)
      BY <2>2, ReconcileFields DEF Steady
    <3>2. \A c \in Kids(p) : c \in Children /\ (Ended(s, c) => Ended(t, c))
      BY <1>5 DEF Kids, Ended, Status_
    <3> QED BY <3>1, <3>2 DEF EndsLast
  <2> QED BY <2>1, <2>2
<1> QED BY <1>6, <1>7, <1>8 DEF Steady

-----------------------------------------------------------------------------
(* reconcileWorkflowGroups, from its steps. *)

(* What a reconciliation, or a part of it, leaves alone. *)
Onward(s, t) ==
  /\ t.working = s.working /\ t.auto = s.auto
  /\ s.cancel \subseteq t.cancel /\ t.journal \subseteq s.journal
  /\ s.planned \subseteq t.planned /\ t.planned \subseteq s.planned \cup s.journal
  /\ s.journal \subseteq t.journal \cup t.planned
  /\ \A g \in Groups : g \notin s.journal => t.parent[g] = s.parent[g]
  /\ \A c \in Children :
       /\ GroupOf[c] \notin s.journal => t.rec[c] = s.rec[c]
       /\ \/ t.rec[c] = s.rec[c]
          \/ Status_(t, c) = "Cancelled"
          \/ Status_(s, c) = "None" /\ Status_(t, c) = "Pending"

(* What holds when the journals up to n are reconciled: J are the journals *)
(* at the beginning.                                                       *)
Passed(s, x, n, W) ==
  /\ FilesInv(x) /\ OvertakenInv(x) /\ WritingInv(x, W) /\ Onward(s, x)
  /\ \A g \in Groups : g <= n => Placed(x, g, s.journal)
  /\ \A g \in Groups : g > n /\ g \in s.journal => g \in x.journal
  /\ \A g \in s.journal \cap s.auto : g <= n =>
       \A c \in Children : Queued(x, c) => GroupOf[c] >= g
  /\ s.auto = {} /\ Steady(s) => Steady(x) /\ KeepsRecords(s, x)

LEMMA OnwardSelf ==
  ASSUME NEW s
  PROVE  Onward(s, s)
  BY DEF Onward

LEMMA OnwardStep ==
  ASSUME NEW s, NEW x, NEW t, NEW g \in Groups,
         FilesInv(x), g \in x.journal, Onward(s, x), Reconciles(x, t, g)
  PROVE  Onward(s, t)
<1>1. /\ t.working = x.working /\ t.auto = x.auto
      /\ t.planned = x.planned \cup {g}
      /\ x.cancel \subseteq t.cancel /\ t.journal \subseteq x.journal
      /\ \A p \in Groups : p # g => /\ t.parent[p] = x.parent[p]
                                    /\ p \in t.journal <=> p \in x.journal
      /\ x.journal \subseteq Groups
  BY ReconcileFields, Fields DEF FilesInv
<1>2. /\ x.working = s.working /\ x.auto = s.auto
      /\ s.cancel \subseteq x.cancel /\ x.journal \subseteq s.journal
      /\ s.planned \subseteq x.planned /\ x.planned \subseteq s.planned \cup s.journal
      /\ s.journal \subseteq x.journal \cup x.planned
      /\ \A p \in Groups : p \notin s.journal => x.parent[p] = s.parent[p]
  BY DEF Onward
<1>3. ASSUME NEW c \in Children
      PROVE  /\ GroupOf[c] \notin s.journal => t.rec[c] = s.rec[c]
             /\ \/ t.rec[c] = s.rec[c]
                \/ Status_(t, c) = "Cancelled"
                \/ Status_(s, c) = "None" /\ Status_(t, c) = "Pending"
  <2>1. ChildKept(x, t, g, c) /\ ChildFiles(x, c)
    BY ReconcileChild DEF FilesInv
  <2>2. /\ GroupOf[c] \notin s.journal => x.rec[c] = s.rec[c]
        /\ \/ x.rec[c] = s.rec[c]
           \/ Status_(x, c) = "Cancelled"
           \/ Status_(s, c) = "None" /\ Status_(x, c) = "Pending"
    BY DEF Onward
  <2>3. GroupOf[c] \notin s.journal => t.rec[c] = x.rec[c]
    BY <1>2, <2>1 DEF ChildKept, ChildFiles
  <2> QED BY <2>1, <2>2, <2>3 DEF ChildKept, Status_
<1> QED BY <1>1, <1>2, <1>3 DEF Onward

LEMMA PassedStart ==
  ASSUME NEW s, NEW W, FilesInv(s), OvertakenInv(s), WritingInv(s, W)
  PROVE  Passed(s, s, 0, W)
<1>1. \A g \in Groups : g \in Nat /\ ~(g <= 0)
  BY WorkflowAssumption
<1>2. s.journal \subseteq Groups
  BY Fields DEF FilesInv
<1> QED BY <1>1, <1>2, OnwardSelf DEF Passed, KeepsRecords

(* A number that is no group's, or whose group has no journal, changes     *)
(* nothing.                                                                *)
LEMMA PassedIdle ==
  ASSUME NEW s, NEW x, NEW W, NEW n \in Nat, Passed(s, x, n, W),
         n + 1 \notin Groups \/ n + 1 \notin x.journal
  PROVE  Passed(s, x, n + 1, W)
<1>1. \A g \in Groups : g \in Nat /\ (g <= n + 1 => g <= n \/ g = n + 1)
                                  /\ (g > n + 1 => g > n)
  BY ConstantsType
<1>2. \A g \in Groups : g > n /\ g \in s.journal => g \in x.journal
  BY DEF Passed
<1>3. \A g \in Groups : g = n + 1 => g \notin x.journal /\ g \notin s.journal
  BY <1>1, <1>2
<1>4. \A g \in Groups : g <= n + 1 => Placed(x, g, s.journal)
  BY <1>1, <1>3 DEF Passed, Placed
<1>5. x.journal \subseteq s.journal
  BY DEF Passed, Onward
<1>6. s.journal \cap s.auto \subseteq Groups
  BY <1>3, Fields, WorkflowAssumption DEF Passed, Onward, FilesInv
<1>7. \A g \in s.journal \cap s.auto : g <= n + 1 =>
        \A c \in Children : Queued(x, c) => GroupOf[c] >= g
  BY <1>1, <1>3, <1>6 DEF Passed
<1> QED BY <1>1, <1>4, <1>7 DEF Passed

LEMMA PassedStep ==
  ASSUME NEW s, NEW x, NEW W, NEW n \in Nat, Passed(s, x, n, W),
         n + 1 \in Groups, n + 1 \in x.journal,
         NEW t, Reconciles(x, t, n + 1)
  PROVE  Passed(s, t, n + 1, W)
<1> PICK g \in Groups : g = n + 1
  OBVIOUS
<1>1. /\ FilesInv(x) /\ OvertakenInv(x) /\ WritingInv(x, W) /\ Onward(s, x)
      /\ \A p \in Groups : p <= n => Placed(x, p, s.journal)
      /\ \A p \in Groups : p > n /\ p \in s.journal => p \in x.journal
      /\ Reconciles(x, t, g) /\ g \in x.journal
      /\ x.journal \subseteq s.journal /\ x.auto = s.auto
  BY DEF Passed, Onward
<1>2. \A p \in Groups : p \in Nat /\ (p < g <=> p <= n)
  BY ConstantsType
<1>3. \A p \in Groups : p < g => Placed(x, p, s.journal)
  BY <1>1, <1>2
<1>4. FilesInv(t)
  BY <1>1, ReconcileFiles
<1>5. OvertakenInv(t)
  BY <1>1, <1>3, ReconcileOvertaken
<1>6. WritingInv(t, W)
  BY <1>1, ReconcileWriting
<1>7. Onward(s, t)
  BY <1>1, OnwardStep
<1>8. \A p \in Groups : p <= n + 1 => Placed(t, p, s.journal)
  <2>1. Placed(t, g, s.journal)
    BY <1>1, ReconcilePlaced
  <2>2. \A p \in Groups : p < g => Placed(t, p, s.journal)
    BY <1>1, <1>3, ReconcilePlaced
  <2>3. \A p \in Groups : p <= n + 1 => p < g \/ p = g
    BY <1>2
  <2> QED BY <2>1, <2>2, <2>3
<1>9. \A p \in Groups : p > n + 1 /\ p \in s.journal => p \in t.journal
  <2>1. \A p \in Groups : p # g => (p \in t.journal <=> p \in x.journal)
    BY <1>1, ReconcileFields
  <2>2. \A p \in Groups : p > n + 1 => p > n /\ p # g
    BY <1>2
  <2> QED BY <1>1, <2>1, <2>2
<1>10. ASSUME NEW p \in s.journal \cap s.auto, p <= n + 1,
              NEW c \in Children, Queued(t, c)
       PROVE  GroupOf[c] >= p
  <2>1. ChildKept(x, t, g, c)
    BY <1>1, ReconcileChild
  <2>2. GroupOf[c] \in Nat /\ g \in Nat
    BY ConstantsType
  <2>3. p \in Groups /\ p \in Nat
    BY <1>1, AutoGroups, ConstantsType DEF FilesInv
  <2>4. CASE p = g
    BY <1>1, <1>10, <2>1, <2>2, <2>4 DEF ChildKept
  <2>5. CASE p # g /\ GroupOf[c] = g
    BY <1>10, <2>2, <2>3, <2>5
  <2>6. CASE p # g /\ GroupOf[c] # g
    <3>1. Queued(x, c)
      BY <1>10, <2>1, <2>6 DEF ChildKept
    <3>2. p <= n
      BY <1>10, <2>3, <2>6
    <3> QED BY <1>10, <3>1, <3>2 DEF Passed
  <2> QED BY <2>4, <2>5, <2>6
<1>11. ASSUME s.auto = {}, Steady(s)
       PROVE  Steady(t) /\ KeepsRecords(s, t)
  <2>1. x.auto = {} /\ Steady(x) /\ KeepsRecords(s, x) /\ x.working = s.working
    BY <1>1, <1>11 DEF Passed, Onward
  <2>2. Steady(t) /\ KeepsRecords(x, t)
    BY <1>1, <2>1, ReconcileSteady
  <2> QED BY <2>1, <2>2 DEF KeepsRecords, Ended, Held, Status_
<1> QED BY <1>4, <1>5, <1>6, <1>7, <1>8, <1>9, <1>10, <1>11 DEF Passed

(* Every non-empty set of numbers has a least one. *)
LEMMA Least ==
  ASSUME NEW T \in SUBSET Nat, T # {}
  PROVE  \E n \in T : \A m \in T : n <= m
<1> DEFINE R == OpToRel(<, Nat)
<1>1. IsWellFoundedOn(R, Nat)
  BY NatLessThanWellFounded
<1>2. PICK n \in T : \A m \in T : ~ (<<m, n>> \in R)
  BY <1>1, WFMin
<1>3. ASSUME NEW m \in T
      PROVE  n <= m
  <2>1. m \in Nat /\ n \in Nat
    OBVIOUS
  <2>2. <<m, n>> \in Nat \X Nat /\ <<m, n>>[1] = m /\ <<m, n>>[2] = n
    BY <2>1
  <2>3. ~ (m < n)
    BY <1>2, <2>2 DEF OpToRel
  <2> HIDE DEF R
  <2> QED BY <2>1, <2>3
<1> QED BY <1>3

(* Induction: a set of numbers that holds 0, and with a number the next    *)
(* one, holds all.                                                         *)
LEMMA AllNumbers ==
  ASSUME NEW S, 0 \in S, \A n \in Nat : n \in S => n + 1 \in S
  PROVE  Nat \subseteq S
<1> SUFFICES ASSUME Nat \ S # {} PROVE FALSE
  OBVIOUS
<1>1. PICK n \in Nat \ S : \A m \in Nat \ S : n <= m
  BY Least
<1>2. n # 0 /\ n - 1 \in Nat /\ n - 1 \in S
  BY <1>1
<1> QED BY <1>1, <1>2

(* The queue's files after the journals up to each number. *)
Step(x, n) == IF n \in Groups THEN ReconcileGroup(x, n) ELSE x
Sequel(f, s, k) ==
  f = [n \in 0 .. k |-> IF n = 0 THEN s ELSE Step(f[n - 1], n)]

LEMMA SequelMore ==
  ASSUME NEW s, NEW k \in Nat, NEW f, Sequel(f, s, k)
  PROVE  \E h : Sequel(h, s, k + 1)
<1> DEFINE h == [n \in 0 .. k + 1 |-> IF n = 0 THEN s ELSE Step(f[n - 1], n)]
<1>1. \A n \in 0 .. k : f[n] = IF n = 0 THEN s ELSE Step(f[n - 1], n)
  BY DEF Sequel
<1>2. \A n \in 0 .. k + 1 : h[n] = IF n = 0 THEN s ELSE Step(f[n - 1], n)
  OBVIOUS
<1>3. \A n \in 0 .. k : n \in 0 .. k + 1
  OBVIOUS
<1>4. \A n \in 0 .. k : h[n] = f[n]
  <2> HIDE DEF h
  <2> QED BY <1>1, <1>2, <1>3
<1>5. \A n \in 0 .. k + 1 : n # 0 => n - 1 \in 0 .. k
  OBVIOUS
<1>6. \A n \in 0 .. k + 1 : (IF n = 0 THEN s ELSE Step(h[n - 1], n))
                          = (IF n = 0 THEN s ELSE Step(f[n - 1], n))
  <2> HIDE DEF h
  <2> QED BY <1>4, <1>5
<1>7. h = [n \in 0 .. k + 1 |-> IF n = 0 THEN s ELSE Step(h[n - 1], n)]
  BY <1>6, Zenon
<1>8. Sequel(h, s, k + 1)
  <2> HIDE DEF h
  <2> QED BY <1>7, Zenon DEF Sequel
<1> QED BY <1>8

LEMMA ReconcileIs ==
  ASSUME NEW s
  PROVE  \E f : Sequel(f, s, LastId) /\ reconcileWorkflowGroups(s) = f[LastId]
<1> DEFINE S == {k \in Nat : \E f : Sequel(f, s, k)}
<1>1. 0 \in S
  <2>1. Sequel([n \in 0 .. 0 |-> s], s, 0)
    BY DEF Sequel
  <2> QED BY <2>1
<1>2. \A k \in Nat : k \in S => k + 1 \in S
  BY SequelMore
<1>3. LastId \in S
  <2> HIDE DEF S
  <2> QED BY <1>1, <1>2, ConstantsType, AllNumbers
<1>4. \E f : f = [n \in 0 .. LastId |->
                   IF n = 0 THEN s
                   ELSE IF n \in Groups THEN ReconcileGroup(f[n - 1], n)
                   ELSE f[n - 1]]
  BY <1>3, Zenon DEF Sequel, Step
<1> DEFINE fl == CHOOSE f : f = [n \in 0 .. LastId |->
                   IF n = 0 THEN s
                   ELSE IF n \in Groups THEN ReconcileGroup(f[n - 1], n)
                   ELSE f[n - 1]]
<1>5. fl = [n \in 0 .. LastId |->
                   IF n = 0 THEN s
                   ELSE IF n \in Groups THEN ReconcileGroup(fl[n - 1], n)
                   ELSE fl[n - 1]]
  BY <1>4, Zenon
<1>6. reconcileWorkflowGroups(s) = fl[LastId]
  BY Zenon DEF reconcileWorkflowGroups
<1> HIDE DEF fl
<1>7. Sequel(fl, s, LastId)
  BY <1>5, Zenon DEF Sequel, Step
<1> QED BY <1>6, <1>7, Zenon

(* A step is that of a group with a journal, or none. *)
LEMMA StepCases ==
  ASSUME NEW x \in QueueFiles, NEW n
  PROVE  \/ n \in Groups /\ n \in x.journal /\ Reconciles(x, Step(x, n), n)
         \/ (n \notin Groups \/ n \notin x.journal) /\ Step(x, n) = x
<1>1. CASE n \in Groups /\ n \in x.journal
  BY <1>1, ReconcileGroupFields DEF Step
<1>2. CASE n \in Groups /\ n \notin x.journal
  BY <1>2 DEF Step, ReconcileGroup
<1>3. CASE n \notin Groups
  BY <1>3 DEF Step
<1> QED BY <1>1, <1>2, <1>3

(* A whole reconciliation: every journal that is left is placed. *)
LEMMA ReconcileFacts ==
  ASSUME NEW s, NEW W, FilesInv(s), OvertakenInv(s), WritingInv(s, W)
  PROVE  Passed(s, reconcileWorkflowGroups(s), LastId, W)
<1>1. PICK f : Sequel(f, s, LastId) /\ reconcileWorkflowGroups(s) = f[LastId]
  BY ReconcileIs
<1>2. \A n \in 0 .. LastId : f[n] = IF n = 0 THEN s ELSE Step(f[n - 1], n)
  BY <1>1, Zenon DEF Sequel
<1>3. LastId \in Nat
  BY ConstantsType
<1> DEFINE S == {n \in Nat : n <= LastId => Passed(s, f[n], n, W)}
<1>4. 0 \in S
  <2>1. f[0] = s
    BY <1>2, <1>3
  <2> QED BY <2>1, PassedStart
<1>5. ASSUME NEW n \in Nat, n \in S
      PROVE  n + 1 \in S
  <2>1. SUFFICES ASSUME n + 1 <= LastId PROVE Passed(s, f[n + 1], n + 1, W)
    OBVIOUS
  <2>2. Passed(s, f[n], n, W)
    BY <1>3, <1>5, <2>1
  <2>3. PICK m : m = n + 1
    OBVIOUS
  <2>4. m \in 0 .. LastId /\ m # 0 /\ m - 1 = n
    BY <1>3, <2>1, <2>3
  <2>5. f[m] = Step(f[n], m)
    BY <1>2, <2>4, Zenon
  <2>6. f[n] \in QueueFiles
    BY <2>2 DEF Passed, FilesInv
  <2> HIDE DEF S
  <2>7. \/ m \in Groups /\ m \in f[n].journal /\ Reconciles(f[n], f[m], m)
        \/ (m \notin Groups \/ m \notin f[n].journal) /\ f[m] = f[n]
    BY <2>5, <2>6, StepCases
  <2> QED BY <2>2, <2>3, <2>7, PassedStep, PassedIdle
<1>6. LastId \in S
  <2> HIDE DEF S
  <2> QED BY <1>3, <1>4, <1>5, AllNumbers
<1> QED BY <1>1, <1>3, <1>6

-----------------------------------------------------------------------------
(* What the operations on the queue's files keep. *)

QueueInv(s, W) == FilesInv(s) /\ OvertakenInv(s) /\ WritingInv(s, W)

(* What was summarised before stays as it is. *)
Stable(s, t) ==
  \A g \in Groups : g \in s.planned \ s.journal =>
    /\ g \in t.planned \ t.journal
    /\ t.parent[g] = s.parent[g]
    /\ \A c \in Kids(g) : t.rec[c] = s.rec[c]

LEMMA ReconcileKeeps ==
  ASSUME NEW s, NEW W, QueueInv(s, W), NEW t, t = reconcileWorkflowGroups(s)
  PROVE  /\ QueueInv(t, W) /\ Onward(s, t) /\ Stable(s, t)
         /\ \A g \in Groups : Placed(t, g, s.journal)
         /\ \A g \in s.journal \cap s.auto : \A c \in Children :
              Queued(t, c) => GroupOf[c] >= g
         /\ s.auto = {} /\ Steady(s) => Steady(t) /\ KeepsRecords(s, t)
<1>1. Passed(s, t, LastId, W)
  BY ReconcileFacts DEF QueueInv
<1>2. \A g \in Groups : g <= LastId
  BY ConstantsType
<1>3. s.journal \subseteq Groups
  BY Fields DEF QueueInv, FilesInv
<1>4. Stable(s, t)
  BY <1>1 DEF Passed, Onward, Stable, Kids
<1> QED BY <1>1, <1>2, <1>3, <1>4 DEF Passed, QueueInv

(* The last call of an enqueue, for a group none of whose children ran. *)
SupersedeKept(s, y, g, W) ==
  /\ QueueInv(y, W)
  /\ y.planned = s.planned /\ y.journal = s.journal
  /\ y.parent = s.parent /\ y.auto = s.auto /\ y.working = s.working
  /\ \A c \in Children : GroupOf[c] # g /\ GroupOf[c] \notin s.journal =>
       y.rec[c] = s.rec[c]
  /\ s.auto = {} /\ Steady(s) => Steady(y) /\ KeepsRecords(s, y)

LEMMA SupersedeKeeps ==
  ASSUME NEW s, NEW W, QueueInv(s, W), NEW g \in Groups, g \in s.planned,
         \A c \in Kids(g) : ~Held(s, c) /\ Status_(s, c) # "Success",
         NEW y, y = supersedeCiJobs(s, g)
  PROVE  SupersedeKept(s, y, g, W)
<1>1. s \in QueueFiles /\ \A c \in Children : ChildFiles(s, c)
  BY DEF QueueInv, FilesInv
<1>2. Supersedes(s, y, g)
  BY <1>1, SupersedeIs
<1>3. /\ y \in QueueFiles
      /\ y.planned = s.planned /\ y.journal = s.journal /\ s.cancel \subseteq y.cancel
      /\ y.parent = s.parent /\ y.auto = s.auto /\ y.working = s.working
  BY <1>2 DEF Supersedes
<1>4. ASSUME NEW c \in Children
      PROVE  /\ Held(y, c) <=> Held(s, c)
             /\ Queued(y, c) => Queued(s, c)
             /\ y.rec[c] = s.rec[c] \/ Status_(y, c) = "Cancelled"
             /\ Queued(s, c) \/ GroupOf[c] = g \/ y.rec[c] = s.rec[c]
             /\ ChildFiles(y, c) /\ ChildFiles(s, c)
  BY <1>1, <1>2, SupersedeFacts
<1>5. ASSUME NEW p \in Groups
      PROVE  ParentFiles(y, p)
  <2>1. ParentFiles(s, p)
    BY DEF QueueInv, FilesInv
  <2>2. ASSUME s.parent[p] = "Success", p \notin y.cancel, NEW c \in Kids(p)
        PROVE  Status_(y, c) = "Success"
    <3>1. \A k \in Kids(p) : Status_(s, k) = "Success"
      BY <1>3, <2>1, <2>2 DEF ParentFiles
    <3>2. p # g
      BY <2>2, <3>1
    <3>3. c \in Children /\ GroupOf[c] = p
      BY DEF Kids
    <3> QED BY <1>4, <2>2, <3>1, <3>2, <3>3 DEF ChildFiles, Status_
  <2> QED BY <1>3, <2>1, <2>2 DEF ParentFiles
<1>6. FilesInv(y)
  BY <1>3, <1>4, <1>5 DEF FilesInv, QueueInv
<1>7. OvertakenInv(y)
  <2>1. SUFFICES ASSUME NEW p \in Groups, p \in s.planned, p \in s.journal,
                        NEW k \in Children, Entry(y, k), GroupOf[k] > p,
                        GroupOf[k] \in s.auto
                 PROVE  MarkedGroup(y, p) \/ Withdrawn(y, p)
    BY <1>1, <1>3, Fields DEF OvertakenInv, Superseded
  <2>2. Superseded(s, p)
    BY <1>4, <2>1 DEF Superseded, Entry
  <2>3. CASE p = g
    <3>1. ASSUME NEW c \in Kids(g)
          PROVE  Status_(y, c) = "Cancelled" /\ ~Entry(y, c)
      <4>1. c \in Children /\ GroupOf[c] = g
        BY DEF Kids
      <4>2. y.rec[c] = Rec("Cancelled", 1) /\ y.spool[c] = 0
        BY <1>2, <2>2, <2>3, <4>1 DEF Supersedes
      <4>3. y.rec[c].status = "Cancelled"
        BY <4>2, RecType DEF Status
      <4> QED BY <1>4, <4>1, <4>2, <4>3 DEF Entry, Queued, Status_
    <3> QED BY <2>3, <3>1 DEF Withdrawn
  <2>4. CASE p # g
    <3>1. ASSUME NEW c \in Kids(p)
          PROVE  /\ Held(y, c) <=> Held(s, c)
                 /\ Entry(y, c) => Entry(s, c)
                 /\ y.rec[c] = s.rec[c] \/ Status_(y, c) = "Cancelled"
      BY <1>4 DEF Kids, Entry
    <3>2. MarkedGroup(s, p) => MarkedGroup(y, p)
      BY <1>3, <3>1 DEF MarkedGroup, Ended, Status_
    <3>3. Withdrawn(s, p) => Withdrawn(y, p)
      BY <3>1 DEF Withdrawn, Status_
    <3> QED BY <2>1, <2>2, <3>2, <3>3 DEF OvertakenInv, QueueInv
  <2> QED BY <2>3, <2>4
<1>8. WritingInv(y, W)
  <2>1. ASSUME NEW c \in Children, Held(s, c)
        PROVE  y.rec[c] = s.rec[c]
    BY <1>4, <2>1 DEF Kids, ChildFiles
  <2> QED BY <1>3, <1>4, <2>1 DEF WritingInv, QueueInv, Ended, Status_
<1>9. \A c \in Children : GroupOf[c] # g /\ GroupOf[c] \notin s.journal =>
        y.rec[c] = s.rec[c]
  BY <1>4 DEF ChildFiles
<1>10. ASSUME s.auto = {}, Steady(s)
       PROVE  Steady(y) /\ KeepsRecords(s, y)
  <2>1. ~Superseded(s, g)
    BY <1>10 DEF Superseded
  <2>2. \A c \in Children : y.rec[c] = s.rec[c] /\ y.spool[c] = s.spool[c]
    BY <1>2, <1>10, <2>1 DEF Supersedes
  <2>3. ASSUME NEW c \in Children
        PROVE  SteadyChild(y, c)
    <3>1. SteadyChild(s, c) /\ Needs[c] \subseteq Children
      BY <1>10, ConstantsType DEF Steady
    <3> QED BY <1>4, <2>2, <3>1 DEF SteadyChild, Queued, Entry, Status_
  <2>4. \A p \in Groups : EndsLast(y, p)
    BY <1>3, <1>10, <2>2 DEF Steady, EndsLast, Ended, Status_, Kids
  <2> QED BY <2>2, <2>3, <2>4 DEF Steady, KeepsRecords
<1> QED BY <1>3, <1>6, <1>7, <1>8, <1>9, <1>10 DEF QueueInv, SupersedeKept

-----------------------------------------------------------------------------
(* One operation after another. *)

(* An ended group is settled: it stays ended, and its successful children  *)
(* stay successful.                                                        *)
Settles(s, t) ==
  \A g \in Groups : g \in s.planned \ s.journal =>
    /\ g \in t.planned \ t.journal
    /\ t.parent[g] = s.parent[g]
    /\ \A c \in Kids(g) : Status_(s, c) = "Success" => Status_(t, c) = "Success"

(* Where no workflow supersedes another: ends stay, and so do the records  *)
(* of the claimed children but C.                                          *)
KeepsEnds(s, t, C) ==
  \A c \in Children :
    /\ Ended(s, c) => Status_(t, c) = Status_(s, c)
    /\ Held(s, c) /\ c \notin C => Status_(t, c) = Status_(s, c)

(* An operation on the queue's files that claims or releases only C and    *)
(* leaves the runners of V writing.                                        *)
Moves(s, t, V, C) ==
  /\ QueueInv(t, V) /\ Settles(s, t) /\ t.auto = s.auto
  /\ \A c \in Children : c \notin C => t.working[c] = s.working[c]
  /\ s.auto = {} /\ Steady(s) => Steady(t) /\ KeepsEnds(s, t, C)

LEMMA MovesTwice ==
  ASSUME NEW s, NEW x, NEW t, NEW W, NEW V, NEW B, NEW C,
         Moves(s, x, W, B), Moves(x, t, V, C)
  PROVE  Moves(s, t, V, B \cup C)
<1>1. Settles(s, x) /\ Settles(x, t) /\ x.auto = s.auto /\ t.auto = x.auto
  BY DEF Moves
<1>2. Settles(s, t)
  BY <1>1 DEF Settles
<1>3. \A c \in Children : c \notin B \cup C => t.working[c] = s.working[c]
  BY DEF Moves
<1>4. ASSUME s.auto = {}, Steady(s)
      PROVE  Steady(t) /\ KeepsEnds(s, t, B \cup C)
  <2>1. Steady(x) /\ KeepsEnds(s, x, B) /\ Steady(t) /\ KeepsEnds(x, t, C)
    BY <1>1, <1>4 DEF Moves
  <2>2. \A c \in Children : c \notin B => (Held(s, c) => Held(x, c))
    BY DEF Moves, Held
  <2> QED BY <2>1, <2>2 DEF KeepsEnds, Ended
<1> QED BY <1>1, <1>2, <1>3, <1>4 DEF Moves

LEMMA MovesNot ==
  ASSUME NEW s, NEW W, QueueInv(s, W)
  PROVE  Moves(s, s, W, {})
  BY DEF Moves, Settles, KeepsEnds

LEMMA ReconcileMoves ==
  ASSUME NEW s, NEW W, QueueInv(s, W)
  PROVE  Moves(s, reconcileWorkflowGroups(s), W, {})
<1> PICK t : t = reconcileWorkflowGroups(s)
  OBVIOUS
<1>1. /\ QueueInv(t, W) /\ Onward(s, t) /\ Stable(s, t)
      /\ s.auto = {} /\ Steady(s) => Steady(t) /\ KeepsRecords(s, t)
  BY ReconcileKeeps
<1>2. Settles(s, t)
  BY <1>1 DEF Stable, Settles, Status_
<1>3. t.working = s.working /\ t.auto = s.auto
  BY <1>1 DEF Onward
<1>4. KeepsRecords(s, t) => KeepsEnds(s, t, {})
  BY DEF KeepsRecords, KeepsEnds, Status_
<1> QED BY <1>1, <1>2, <1>3, <1>4 DEF Moves

(* A change of one entry c, and of its own marker. *)
Touches(s, t, c) ==
  /\ t \in QueueFiles
  /\ t.journal = s.journal /\ t.planned = s.planned /\ t.parent = s.parent
  /\ t.auto = s.auto
  /\ \A k \in Children : k # c => /\ t.rec[k] = s.rec[k]
                                  /\ t.spool[k] = s.spool[k]
                                  /\ t.working[k] = s.working[k]
  /\ \A x : x # c => (x \in t.cancel <=> x \in s.cancel)

(* What the change has to respect. *)
Respects(s, t, c, V) ==
  /\ ChildFiles(t, c)
  /\ Status_(s, c) = "Success" => Status_(t, c) = "Success"
  /\ MarkedGroup(s, GroupOf[c]) /\ Held(t, c) => Ended(t, c) \/ c \in t.cancel
  /\ c \in V => Held(t, c) /\ Status_(t, c) # "Success"
  /\ c \in V /\ Ended(t, c) => c \in t.cancel
  /\ Held(t, c) /\ (c \in V \/ ~Ended(t, c)) =>
       GroupOf[c] \in t.journal \/ c \in t.cancel
RespectsSteady(s, t, c) ==
  /\ Ended(s, c) => Status_(t, c) = Status_(s, c)
  /\ Queued(t, c) => Status_(t, c) = "Pending"
  /\ Status_(t, c) \in Active => Entry(t, c)
  /\ Held(t, c) \/ Status_(t, c) \in {"Running", "Success"} =>
       \A d \in Needs[c] : Status_(s, d) = "Success"

LEMMA TouchMoves ==
  ASSUME NEW s, NEW W, QueueInv(s, W), NEW c \in Children, Entry(s, c),
         NEW t, Touches(s, t, c), NEW V, V \ {c} \subseteq W,
         Respects(s, t, c, V),
         s.auto = {} /\ Steady(s) => RespectsSteady(s, t, c)
  PROVE  Moves(s, t, V, {c})
<1>1. /\ t \in QueueFiles /\ FilesInv(s) /\ OvertakenInv(s) /\ WritingInv(s, W)
      /\ t.journal = s.journal /\ t.planned = s.planned /\ t.parent = s.parent
      /\ t.auto = s.auto
      /\ \A k \in Children : k # c => /\ t.rec[k] = s.rec[k]
                                      /\ t.spool[k] = s.spool[k]
                                      /\ t.working[k] = s.working[k]
      /\ \A x : x # c => (x \in t.cancel <=> x \in s.cancel)
  BY DEF QueueInv, Touches
<1>2. ASSUME NEW k \in Children, k # c
      PROVE  /\ Held(t, k) <=> Held(s, k)
             /\ Queued(t, k) <=> Queued(s, k)
             /\ Entry(t, k) <=> Entry(s, k)
             /\ Status_(t, k) = Status_(s, k)
             /\ Ended(t, k) <=> Ended(s, k)
  BY <1>1, <1>2 DEF Held, Queued, Entry, Status_, Ended
<1>3. /\ ChildFiles(t, c)
      /\ Status_(s, c) = "Success" => Status_(t, c) = "Success"
      /\ MarkedGroup(s, GroupOf[c]) /\ Held(t, c) => Ended(t, c) \/ c \in t.cancel
      /\ c \in V => Held(t, c) /\ Status_(t, c) # "Success"
      /\ c \in V /\ Ended(t, c) => c \in t.cancel
      /\ Held(t, c) /\ (c \in V \/ ~Ended(t, c)) =>
           GroupOf[c] \in t.journal \/ c \in t.cancel
  BY DEF Respects
<1>4. FilesInv(t)
  <2>1. ASSUME NEW k \in Children PROVE ChildFiles(t, k)
    <3>1. CASE k = c
      BY <1>3, <3>1
    <3>2. CASE k # c
      BY <1>1, <1>2, <3>2 DEF FilesInv, ChildFiles
    <3> QED BY <3>1, <3>2
  <2>2. ASSUME NEW g \in Groups PROVE ParentFiles(t, g)
    <3>1. ParentFiles(s, g)
      BY <1>1 DEF FilesInv
    <3>2. g # c
      BY WorkflowAssumption
    <3>3. \A k \in Kids(g) : Status_(s, k) = "Success" => Status_(t, k) = "Success"
      BY <1>2, <1>3 DEF Kids
    <3> QED BY <1>1, <3>1, <3>2, <3>3 DEF ParentFiles
  <2> QED BY <1>1, <2>1, <2>2 DEF FilesInv
<1>5. OvertakenInv(t)
  <2>1. SUFFICES ASSUME NEW g \in Groups, g \in s.planned, g \in s.journal,
                        Superseded(t, g)
                 PROVE  MarkedGroup(t, g) \/ Withdrawn(t, g)
    BY <1>1, Fields DEF OvertakenInv
  <2>2. Superseded(s, g)
    BY <1>1, <1>2, <2>1 DEF Superseded
  <2>3. MarkedGroup(s, g) \/ Withdrawn(s, g)
    BY <1>1, <2>1, <2>2 DEF OvertakenInv
  <2>4. g # c
    BY WorkflowAssumption
  <2>5. CASE GroupOf[c] # g
    <3>1. \A k \in Kids(g) : k \in Children /\ k # c
      BY <2>5 DEF Kids
    <3>2. MarkedGroup(s, g) => MarkedGroup(t, g)
      BY <1>1, <1>2, <2>4, <3>1 DEF MarkedGroup
    <3>3. Withdrawn(s, g) => Withdrawn(t, g)
      BY <1>2, <3>1 DEF Withdrawn
    <3> QED BY <2>3, <3>2, <3>3
  <2>6. CASE GroupOf[c] = g
    <3>1. MarkedGroup(s, g)
      BY <2>3, <2>6 DEF Withdrawn, Kids
    <3>2. ASSUME NEW k \in Kids(g), Held(t, k)
          PROVE  Ended(t, k) \/ k \in t.cancel
      <4>1. k \in Children
        BY DEF Kids
      <4>2. CASE k = c
        BY <1>3, <2>6, <3>1, <3>2, <4>2
      <4>3. CASE k # c
        BY <1>1, <1>2, <3>1, <3>2, <4>1, <4>3 DEF MarkedGroup
      <4> QED BY <4>2, <4>3
    <3> QED BY <1>1, <2>4, <3>1, <3>2 DEF MarkedGroup
  <2> QED BY <2>5, <2>6
<1>6. WritingInv(t, V)
  <2>1. ASSUME NEW k \in Children, k # c
        PROVE  /\ k \in V => Held(t, k) /\ Status_(t, k) # "Success"
               /\ k \in V /\ Ended(t, k) => k \in t.cancel
               /\ Held(t, k) /\ (k \in V \/ ~Ended(t, k)) =>
                    GroupOf[k] \in t.journal \/ k \in t.cancel
    <3>1. k \in V => k \in W
      BY <2>1
    <3> QED BY <1>1, <1>2, <2>1, <3>1 DEF WritingInv
  <2> QED BY <1>3, <2>1 DEF WritingInv
<1>7. Settles(s, t)
  BY <1>1, <1>2, <1>3 DEF Settles, Kids
<1>8. ASSUME s.auto = {}, Steady(s)
      PROVE  Steady(t) /\ KeepsEnds(s, t, {c})
  <2>1. RespectsSteady(s, t, c)
    BY <1>8
  <2>2. KeepsEnds(s, t, {c})
    BY <1>2, <2>1 DEF KeepsEnds, RespectsSteady
  <2>3. \A k \in Children : Status_(s, k) = "Success" => Status_(t, k) = "Success"
    BY <1>2, <1>3
  <2>4. ASSUME NEW k \in Children PROVE SteadyChild(t, k)
    <3>1. SteadyChild(s, k) /\ Needs[k] \subseteq Children
      BY <1>8, ConstantsType DEF Steady
    <3>2. CASE k = c
      BY <2>1, <2>3, <3>1, <3>2 DEF SteadyChild, RespectsSteady
    <3>3. CASE k # c
      <4>1. Held(t, k) \/ Status_(t, k) \in {"Running", "Success"} =>
              \A d \in Needs[k] : Status_(s, d) = "Success"
        BY <1>2, <3>1, <3>3 DEF SteadyChild
      <4>2. /\ Queued(t, k) => Status_(t, k) = "Pending"
            /\ Status_(t, k) \in Active => Entry(t, k)
        BY <1>2, <3>1, <3>3 DEF SteadyChild
      <4> QED BY <2>3, <3>1, <4>1, <4>2 DEF SteadyChild
    <3> QED BY <3>2, <3>3
  <2>5. ASSUME NEW g \in Groups PROVE EndsLast(t, g)
    <3>1. EndsLast(s, g)
      BY <1>8 DEF Steady
    <3>2. \A k \in Kids(g) : Ended(s, k) => Ended(t, k)
      BY <2>2 DEF KeepsEnds, Kids, Ended
    <3> QED BY <1>1, <3>1, <3>2 DEF EndsLast
  <2> QED BY <2>2, <2>4, <2>5 DEF Steady
<1>9. QueueInv(t, V)
  BY <1>4, <1>5, <1>6 DEF QueueInv
<1> QED BY <1>1, <1>7, <1>8, <1>9 DEF Moves

-----------------------------------------------------------------------------
(* The operations on one entry. *)

LEMMA Except ==
  ASSUME NEW S, NEW T, NEW f \in [S -> T], NEW c \in S, NEW v \in T,
         NEW h, h = [f EXCEPT ![c] = v]
  PROVE  h \in [S -> T] /\ h[c] = v /\ \A k \in S : k # c => h[k] = f[k]
  OBVIOUS

(* A record of c is written, and its marker stays or goes. *)
Writes(s, t, c, st, n) ==
  /\ Touches(s, t, c) /\ t.working = s.working
  /\ t.rec[c].status = st /\ t.rec[c].attempt = n /\ Status_(t, c) = st
  /\ Held(t, c) <=> Held(s, c)
  /\ Queued(t, c) <=> Queued(s, c)

LEMMA Write ==
  ASSUME NEW s \in QueueFiles, NEW c \in Children, NEW st \in Status,
         NEW n \in Nat, NEW t, t = [s EXCEPT !.rec[c] = Rec(st, n)]
  PROVE  Writes(s, t, c, st, n) /\ t.cancel = s.cancel
<1> PICK rc : rc = [s.rec EXCEPT ![c] = Rec(st, n)]
  OBVIOUS
<1>1. /\ rc \in [Children -> Record] /\ rc[c] = Rec(st, n)
      /\ \A k \in Children : k # c => rc[k] = s.rec[k]
  <2>1. s.rec \in [Children -> Record] /\ Rec(st, n) \in Record
    BY RecType, Fields
  <2> QED BY <2>1, Except
<1>2. t = [s EXCEPT !.rec = rc]
  OBVIOUS
<1>3. /\ t.rec = rc /\ t.cancel = s.cancel
      /\ t.working = s.working /\ t.spool = s.spool /\ t.auto = s.auto
      /\ t.journal = s.journal /\ t.planned = s.planned /\ t.parent = s.parent
  BY <1>2 DEF QueueFiles
<1>4. t \in QueueFiles
  BY <1>1, <1>2 DEF QueueFiles, Record
<1>5. Rec(st, n).status = st /\ Rec(st, n).attempt = n
  BY RecType
<1> QED BY <1>1, <1>3, <1>4, <1>5 DEF Writes, Touches, Status_, Held, Queued

LEMMA WriteUnmarked ==
  ASSUME NEW s \in QueueFiles, NEW c \in Children, NEW st \in Status,
         NEW n \in Nat, NEW t,
         t = [s EXCEPT !.rec[c] = Rec(st, n), !.cancel = @ \ {c}]
  PROVE  Writes(s, t, c, st, n)
<1> PICK rc : rc = [s.rec EXCEPT ![c] = Rec(st, n)]
  OBVIOUS
<1>1. /\ rc \in [Children -> Record] /\ rc[c] = Rec(st, n)
      /\ \A k \in Children : k # c => rc[k] = s.rec[k]
  <2>1. s.rec \in [Children -> Record] /\ Rec(st, n) \in Record
    BY RecType, Fields
  <2> QED BY <2>1, Except
<1>2. t = [s EXCEPT !.rec = rc, !.cancel = s.cancel \ {c}]
  OBVIOUS
<1>3. /\ t.rec = rc /\ t.cancel = s.cancel \ {c}
      /\ t.working = s.working /\ t.spool = s.spool /\ t.auto = s.auto
      /\ t.journal = s.journal /\ t.planned = s.planned /\ t.parent = s.parent
  BY <1>2 DEF QueueFiles
<1>4. s.cancel \ {c} \in SUBSET (Groups \cup Children)
  BY Fields
<1>5. t \in QueueFiles
  BY <1>1, <1>2, <1>4 DEF QueueFiles, Record
<1>6. Rec(st, n).status = st /\ Rec(st, n).attempt = n
  BY RecType
<1> QED BY <1>1, <1>3, <1>5, <1>6 DEF Writes, Touches, Status_, Held, Queued

(* The end of a queued entry. *)
EndedEntry(s, t, c, W) ==
  /\ Moves(s, t, W, {}) /\ Touches(s, t, c)
  /\ ~Queued(t, c) /\ t.cancel = s.cancel

LEMMA EndQueued ==
  ASSUME NEW s, NEW W, QueueInv(s, W), NEW c \in Children, Queued(s, c),
         NEW st \in {"Cancelled", "Skipped"},
         NEW t, t = cancelQueuedJob(s, c, st, s.spool[c])
  PROVE  EndedEntry(s, t, c, W)
<1>1. s \in QueueFiles /\ ChildFiles(s, c) /\ WritingInv(s, W)
  BY DEF QueueInv, FilesInv
<1>2. s.spool[c] \in Nat /\ s.spool[c] > 0 /\ st \in Status
  BY <1>1, Fields DEF Queued, Status
<1> PICK rc : rc = [s.rec EXCEPT ![c] = Rec(st, s.spool[c])]
  OBVIOUS
<1> PICK sp : sp = [s.spool EXCEPT ![c] = 0]
  OBVIOUS
<1>3. /\ rc \in [Children -> Record] /\ rc[c] = Rec(st, s.spool[c])
      /\ \A k \in Children : k # c => rc[k] = s.rec[k]
  <2>1. s.rec \in [Children -> Record] /\ Rec(st, s.spool[c]) \in Record
    BY <1>1, <1>2, RecType, Fields
  <2> QED BY <2>1, Except
<1>4. /\ sp \in [Children -> Nat] /\ sp[c] = 0
      /\ \A k \in Children : k # c => sp[k] = s.spool[k]
  <2>1. s.spool \in [Children -> Nat] /\ 0 \in Nat
    BY <1>1, Fields
  <2> QED BY <2>1, Except
<1>5. t = [s EXCEPT !.rec = rc, !.spool = sp]
  BY <1>1, <1>3, <1>4 DEF cancelQueuedJob, QueueFiles
<1>6. t \in QueueFiles
  BY <1>1, <1>3, <1>4, <1>5 DEF QueueFiles, Record
<1>7. /\ t.rec = rc /\ t.spool = sp /\ t.cancel = s.cancel
      /\ t.working = s.working /\ t.auto = s.auto
      /\ t.journal = s.journal /\ t.planned = s.planned /\ t.parent = s.parent
  BY <1>1, <1>5 DEF QueueFiles
<1>8. t.rec[c].status = st /\ t.rec[c].attempt = s.spool[c]
  BY <1>2, <1>3, <1>7, RecType
<1>9. Touches(s, t, c)
  BY <1>3, <1>4, <1>6, <1>7 DEF Touches
<1>10. ~Queued(t, c) /\ ~Held(t, c) /\ Ended(t, c) /\ Status_(t, c) = st /\ c \notin W
  BY <1>1, <1>4, <1>7, <1>8 DEF Queued, Held, Ended, Status_, ChildFiles, WritingInv
<1>11. ~Ended(s, c) /\ Entry(s, c)
  BY <1>1 DEF ChildFiles, Ended, Entry
<1>12. Respects(s, t, c, W)
  <2>1. ChildFiles(t, c)
    BY <1>1, <1>2, <1>7, <1>8, <1>10, <1>11 DEF ChildFiles, Entry
  <2> QED BY <1>10, <1>11, <2>1 DEF Respects, Ended
<1>13. RespectsSteady(s, t, c)
  BY <1>10, <1>11 DEF RespectsSteady
<1>14. Moves(s, t, W, {c})
  BY <1>9, <1>11, <1>12, <1>13, TouchMoves
<1>15. Moves(s, t, W, {})
  <2>1. ~Held(s, c)
    BY <1>1 DEF ChildFiles
  <2> QED BY <1>7, <1>14, <2>1 DEF Moves, KeepsEnds
<1> QED BY <1>7, <1>9, <1>10, <1>15 DEF EndedEntry

(* A queued entry is claimed. *)
Taken(s, c) == [s EXCEPT !.working[c] = s.spool[c], !.spool[c] = 0]
Claimed(s, t, c, W) ==
  /\ Moves(s, t, W \cup {c}, {c})
  /\ t.rec = s.rec /\ t.journal = s.journal /\ t.planned = s.planned
  /\ t.cancel = s.cancel /\ t.parent = s.parent
  /\ Held(t, c) /\ ~Held(s, c) /\ t.working[c] = s.spool[c]
  /\ \A k \in Children : k # c => t.spool[k] = s.spool[k]

LEMMA Claim ==
  ASSUME NEW s, NEW W, QueueInv(s, W), NEW c \in Children, Queued(s, c),
         ~CancelRequested(s, c), ~Failed(s, c), ~Waiting(s, c),
         NEW t, t = Taken(s, c)
  PROVE  Claimed(s, t, c, W)
<1>1. s \in QueueFiles /\ ChildFiles(s, c) /\ WritingInv(s, W)
  BY DEF QueueInv, FilesInv
<1>2. s.spool[c] \in Nat /\ s.spool[c] > 0
  BY <1>1, Fields DEF Queued
<1> PICK wo : wo = [s.working EXCEPT ![c] = s.spool[c]]
  OBVIOUS
<1> PICK sp : sp = [s.spool EXCEPT ![c] = 0]
  OBVIOUS
<1>3. /\ wo \in [Children -> Nat] /\ wo[c] = s.spool[c]
      /\ \A k \in Children : k # c => wo[k] = s.working[k]
  <2>1. s.working \in [Children -> Nat]
    BY <1>1, Fields
  <2> QED BY <1>2, <2>1, Except
<1>4. /\ sp \in [Children -> Nat] /\ sp[c] = 0
      /\ \A k \in Children : k # c => sp[k] = s.spool[k]
  <2>1. s.spool \in [Children -> Nat] /\ 0 \in Nat
    BY <1>1, Fields
  <2> QED BY <2>1, Except
<1>5. t = [s EXCEPT !.working = wo, !.spool = sp]
  BY <1>1, <1>3, <1>4 DEF QueueFiles, Taken
<1>6. t \in QueueFiles
  BY <1>1, <1>3, <1>4, <1>5 DEF QueueFiles
<1>7. /\ t.working = wo /\ t.spool = sp /\ t.cancel = s.cancel
      /\ t.rec = s.rec /\ t.auto = s.auto
      /\ t.journal = s.journal /\ t.planned = s.planned /\ t.parent = s.parent
  BY <1>1, <1>5 DEF QueueFiles
<1>8. Touches(s, t, c)
  BY <1>3, <1>4, <1>6, <1>7 DEF Touches
<1>9. /\ ~Queued(t, c) /\ Held(t, c) /\ ~Held(s, c)
      /\ Status_(t, c) = Status_(s, c) /\ Status_(s, c) \in Active
      /\ GroupOf[c] \in s.journal /\ Entry(s, c) /\ ~Ended(t, c) /\ ~Ended(s, c)
  BY <1>1, <1>2, <1>3, <1>4, <1>7
     DEF Queued, Held, Ended, Entry, Status_, ChildFiles
<1>10. Respects(s, t, c, W \cup {c})
  <2>1. ChildFiles(t, c)
    BY <1>1, <1>7, <1>9 DEF ChildFiles, Entry
  <2>2. ~MarkedGroup(s, GroupOf[c])
    BY DEF MarkedGroup, CancelRequested
  <2> QED BY <1>7, <1>9, <2>1, <2>2 DEF Respects
<1>11. RespectsSteady(s, t, c)
  <2>1. \A d \in Needs[c] : Status_(s, d) = "Success"
    BY DEF Failed, Waiting
  <2> QED BY <1>9, <2>1 DEF RespectsSteady, Entry
<1>12. Moves(s, t, W \cup {c}, {c})
  <2>1. (W \cup {c}) \ {c} \subseteq W
    OBVIOUS
  <2> QED BY <1>8, <1>9, <1>10, <1>11, <2>1, TouchMoves
<1> QED BY <1>3, <1>4, <1>7, <1>9, <1>12 DEF Claimed

(* A runner writes that its child ended; its marker goes. *)
EndWritten(s, c, st, n) ==
  [s EXCEPT !.rec[c] = Rec(st, n), !.cancel = @ \ {c}]
StatusWritten(s, t, c, st, V) ==
  Moves(s, t, V, {c}) /\ Status_(t, c) = st /\ t.working = s.working
RunningWritten(s, c, n) == [s EXCEPT !.rec[c] = Rec("Running", n)]

LEMMA WriteEnd ==
  ASSUME NEW s, NEW W, QueueInv(s, W), NEW c \in W, c \in Children,
         NEW st \in Terminal, NEW n \in Nat, n > 0,
         s.auto = {} /\ Steady(s) => ~Ended(s, c),
         NEW t, t = EndWritten(s, c, st, n), NEW V, V = W \ {c}
  PROVE  StatusWritten(s, t, c, st, V)
<1>1. s \in QueueFiles /\ ChildFiles(s, c) /\ WritingInv(s, W) /\ st \in Status
  BY DEF QueueInv, FilesInv, Status
<1>2. /\ Touches(s, t, c)
      /\ t.rec[c].status = st /\ t.rec[c].attempt = n /\ Status_(t, c) = st
      /\ Held(t, c) <=> Held(s, c)
      /\ Queued(t, c) <=> Queued(s, c)
  <2>1. Writes(s, t, c, st, n)
    BY <1>1, WriteUnmarked, Zenon DEF EndWritten
  <2> QED BY <2>1 DEF Writes
<1>3. /\ Held(s, c) /\ Status_(s, c) # "Success" /\ Entry(s, c) /\ ~Queued(s, c)
      /\ GroupOf[c] \in s.planned
  BY <1>1 DEF WritingInv, Entry, ChildFiles
<1>4. Ended(t, c)
  BY <1>2 DEF Ended
<1>5. Respects(s, t, c, W \ {c})
  <2>1. ChildFiles(t, c)
    BY <1>1, <1>2, <1>3 DEF ChildFiles, Entry, Touches, Status_, Status
  <2> QED BY <1>2, <1>3, <1>4, <2>1 DEF Respects
<1>6. ASSUME s.auto = {}, Steady(s)
      PROVE  RespectsSteady(s, t, c)
  <2>1. SteadyChild(s, c)
    BY <1>6 DEF Steady
  <2> QED BY <1>2, <1>3, <1>4, <1>6, <2>1 DEF RespectsSteady, SteadyChild, Ended
<1>7. t.working = s.working
  BY <1>1 DEF QueueFiles, EndWritten
<1>8. (W \ {c}) \ {c} \subseteq W
  OBVIOUS
<1>9. Moves(s, t, V, {c})
  BY <1>2, <1>3, <1>5, <1>6, <1>8, TouchMoves
<1> QED BY <1>2, <1>7, <1>9 DEF StatusWritten

(* A runner writes that its child is running. *)
LEMMA WriteRunning ==
  ASSUME NEW s, NEW W, QueueInv(s, W), NEW c \in W, c \in Children,
         NEW n \in Nat, n > 0,
         s.auto = {} /\ Steady(s) => ~Ended(s, c),
         NEW t, t = RunningWritten(s, c, n)
  PROVE  StatusWritten(s, t, c, "Running", W)
<1>1. s \in QueueFiles /\ ChildFiles(s, c) /\ WritingInv(s, W)
  BY DEF QueueInv, FilesInv
<1>2. /\ Touches(s, t, c)
      /\ t.rec[c].status = "Running" /\ t.rec[c].attempt = n
      /\ Status_(t, c) = "Running"
      /\ Held(t, c) <=> Held(s, c)
      /\ Queued(t, c) <=> Queued(s, c)
      /\ t.cancel = s.cancel
  <2>1. "Running" \in Status /\ t = [s EXCEPT !.rec[c] = Rec("Running", n)]
    BY DEF Status, RunningWritten
  <2>2. Writes(s, t, c, "Running", n) /\ t.cancel = s.cancel
    BY <1>1, <2>1, Write
  <2> QED BY <2>2 DEF Writes
<1>3. /\ Held(s, c) /\ Status_(s, c) # "Success" /\ Entry(s, c) /\ ~Queued(s, c)
      /\ GroupOf[c] \in s.planned
      /\ GroupOf[c] \in s.journal \/ c \in s.cancel
      /\ Ended(s, c) => c \in s.cancel
  BY <1>1 DEF WritingInv, Entry, ChildFiles
<1>4. ~Ended(t, c) /\ Held(t, c)
  BY <1>2, <1>3 DEF Ended
<1>5. Respects(s, t, c, W)
  <2>1. ChildFiles(t, c)
    BY <1>1, <1>2, <1>3 DEF ChildFiles, Entry, Touches, Status_
  <2>2. MarkedGroup(s, GroupOf[c]) => c \in s.cancel
    BY <1>3 DEF MarkedGroup, Kids
  <2>3. t.journal = s.journal
    BY <1>2 DEF Touches
  <2> QED BY <1>2, <1>3, <1>4, <2>1, <2>2, <2>3 DEF Respects
<1>6. ASSUME s.auto = {}, Steady(s)
      PROVE  RespectsSteady(s, t, c)
  <2>1. SteadyChild(s, c)
    BY <1>6 DEF Steady
  <2> QED BY <1>2, <1>3, <1>4, <1>6, <2>1 DEF RespectsSteady, SteadyChild, Entry
<1>7. t.working = s.working
  BY <1>1 DEF QueueFiles, RunningWritten
<1>8. W \ {c} \subseteq W
  OBVIOUS
<1>9. Moves(s, t, W, {c})
  BY <1>2, <1>3, <1>5, <1>6, <1>8, TouchMoves
<1> QED BY <1>2, <1>7, <1>9 DEF StatusWritten

(* A claim that nobody writes for any more is released. *)
Released(s, c) == [s EXCEPT !.working[c] = 0]

LEMMA Release ==
  ASSUME NEW s, NEW W, QueueInv(s, W), NEW c \in Children, Held(s, c),
         c \notin W, s.auto = {} /\ Steady(s) => Ended(s, c),
         NEW t, t = Released(s, c)
  PROVE  Moves(s, t, W, {c})
<1>1. s \in QueueFiles /\ ChildFiles(s, c) /\ WritingInv(s, W)
  BY DEF QueueInv, FilesInv
<1> PICK wo : wo = [s.working EXCEPT ![c] = 0]
  OBVIOUS
<1>2. /\ wo \in [Children -> Nat] /\ wo[c] = 0
      /\ \A k \in Children : k # c => wo[k] = s.working[k]
  <2>1. s.working \in [Children -> Nat] /\ 0 \in Nat
    BY <1>1, Fields
  <2> QED BY <2>1, Except
<1>3. t = [s EXCEPT !.working = wo]
  BY DEF Released
<1>4. t \in QueueFiles
  BY <1>1, <1>2, <1>3 DEF QueueFiles
<1>5. /\ t.working = wo /\ t.spool = s.spool /\ t.cancel = s.cancel
      /\ t.rec = s.rec /\ t.auto = s.auto
      /\ t.journal = s.journal /\ t.planned = s.planned /\ t.parent = s.parent
  BY <1>1, <1>3 DEF QueueFiles
<1>6. Touches(s, t, c)
  BY <1>2, <1>4, <1>5 DEF Touches
<1>7. /\ ~Held(t, c) /\ Status_(t, c) = Status_(s, c) /\ Entry(s, c)
      /\ ~Queued(t, c) /\ (Ended(t, c) <=> Ended(s, c))
  BY <1>1, <1>2, <1>5 DEF Held, Queued, Ended, Status_, ChildFiles, Entry
<1>8. Respects(s, t, c, W)
  <2>1. ChildFiles(t, c)
    BY <1>1, <1>5, <1>7 DEF ChildFiles, Entry
  <2> QED BY <1>7, <2>1 DEF Respects
<1>9. ASSUME s.auto = {}, Steady(s)
      PROVE  RespectsSteady(s, t, c)
  <2>1. SteadyChild(s, c)
    BY <1>9 DEF Steady
  <2> QED BY <1>7, <1>9, <2>1 DEF RespectsSteady, SteadyChild, Ended
<1>10. W \ {c} \subseteq W
  OBVIOUS
<1> QED BY <1>6, <1>7, <1>8, <1>9, <1>10, TouchMoves

(* The markers are changed. *)
OnlyMarks(s, t, ca) ==
  /\ t \in QueueFiles /\ t.cancel = ca
  /\ t.working = s.working /\ t.spool = s.spool
  /\ t.rec = s.rec /\ t.auto = s.auto
  /\ t.journal = s.journal /\ t.planned = s.planned /\ t.parent = s.parent

LEMMA Marks ==
  ASSUME NEW s \in QueueFiles, NEW ca \in SUBSET (Groups \cup Children),
         NEW t, t = [s EXCEPT !.cancel = ca]
  PROVE  OnlyMarks(s, t, ca)
<1>1. t \in QueueFiles
  BY DEF QueueFiles
<1> QED BY <1>1 DEF OnlyMarks, QueueFiles

(* requeueLocked, for a claim whose runner is gone.  Its four ends have     *)
(* this in common:                                                         *)
Requeued(s, t, c) ==
  /\ Touches(s, t, c) /\ ~Held(t, c)
  /\ t.rec[c].attempt > 0
  /\ Status_(t, c) \in Terminal \cup {"Pending"}
  /\ Ended(s, c) => Status_(t, c) = Status_(s, c)
  /\ Status_(t, c) = "Success" => Ended(s, c)
  /\ Queued(t, c) <=> Status_(t, c) = "Pending"
  /\ Queued(t, c) => GroupOf[c] \in s.journal

LEMMA RequeueEnds ==
  ASSUME NEW s, NEW W, QueueInv(s, W), NEW c \in Children, Held(s, c),
         NEW V, V \subseteq W, c \notin V, NEW t, Requeued(s, t, c)
  PROVE  Moves(s, t, V, {c})
<1>1. ChildFiles(s, c)
  BY DEF QueueInv, FilesInv
<1>2. /\ ~Queued(s, c) /\ Entry(s, c) /\ GroupOf[c] \in s.planned
  BY <1>1 DEF ChildFiles, Entry
<1>3. /\ Touches(s, t, c) /\ ~Held(t, c)
      /\ t.journal = s.journal /\ t.planned = s.planned
  BY DEF Requeued, Touches
<1>4. Respects(s, t, c, V)
  <2>1. ChildFiles(t, c)
    BY <1>2, <1>3 DEF Requeued, ChildFiles, Entry
  <2>2. Status_(s, c) = "Success" => Status_(t, c) = "Success"
    BY DEF Requeued, Ended
  <2> QED BY <1>3, <2>1, <2>2 DEF Respects
<1>5. ASSUME s.auto = {}, Steady(s)
      PROVE  RespectsSteady(s, t, c)
  <2>1. SteadyChild(s, c)
    BY <1>5 DEF Steady
  <2>2. /\ Ended(s, c) => Status_(t, c) = Status_(s, c)
        /\ Queued(t, c) => Status_(t, c) = "Pending"
        /\ Status_(t, c) \in Active => Entry(t, c)
    BY DEF Requeued, Entry
  <2> QED BY <1>3, <2>1, <2>2 DEF RespectsSteady, SteadyChild
<1>6. V \ {c} \subseteq W
  OBVIOUS
<1> QED BY <1>2, <1>3, <1>4, <1>5, <1>6, TouchMoves

LEMMA Requeue ==
  ASSUME NEW s, NEW W, QueueInv(s, W), NEW c \in Children, Held(s, c),
         NEW V, V \subseteq W, c \notin V,
         NEW enforce \in BOOLEAN, NEW t, t = requeueLocked(s, c, enforce)
  PROVE  Moves(s, t, V, {c})
<1>1. s \in QueueFiles /\ ChildFiles(s, c) /\ WritingInv(s, W)
  BY DEF QueueInv, FilesInv
<1> PICK n : n = s.working[c]
  OBVIOUS
<1>2. n \in Nat /\ n > 0
  BY <1>1, Fields DEF Held
<1> PICK wo : wo = [s.working EXCEPT ![c] = 0]
  OBVIOUS
<1>3. /\ wo \in [Children -> Nat] /\ wo[c] = 0
      /\ \A k \in Children : k # c => wo[k] = s.working[k]
  <2>1. s.working \in [Children -> Nat] /\ 0 \in Nat
    BY <1>1, Fields
  <2> QED BY <2>1, Except
<1> PICK out : out = [s EXCEPT !.working[c] = 0]
  OBVIOUS
<1>4. out = [s EXCEPT !.working = wo]
  OBVIOUS
<1>5. /\ out \in QueueFiles
      /\ out.working = wo /\ out.spool = s.spool /\ out.cancel = s.cancel
      /\ out.rec = s.rec /\ out.auto = s.auto
      /\ out.journal = s.journal /\ out.planned = s.planned /\ out.parent = s.parent
  BY <1>1, <1>3, <1>4 DEF QueueFiles
<1>6. /\ out.rec \in [Children -> Record] /\ out.spool \in [Children -> Nat]
      /\ s.rec[c] \in Record /\ s.rec[c].attempt \in Nat
  BY <1>1, <1>5, Fields DEF Record
<1>7. /\ ~Queued(s, c) /\ s.rec[c].attempt > 0
  BY <1>1 DEF ChildFiles, Entry
<1>8. CASE Ended(s, c)
  <2> PICK sp : sp = [out.spool EXCEPT ![c] = 0]
    OBVIOUS
  <2>1. t = [out EXCEPT !.spool[c] = 0]
    BY <1>8 DEF requeueLocked
  <2>2. t = [out EXCEPT !.spool = sp]
    BY <2>1
  <2>3. /\ sp \in [Children -> Nat] /\ sp[c] = 0
        /\ \A k \in Children : k # c => sp[k] = out.spool[k]
    <3>1. 0 \in Nat
      OBVIOUS
    <3> QED BY <1>6, <3>1, Except
  <2>4. /\ t \in QueueFiles
        /\ t.working = out.working /\ t.spool = sp /\ t.cancel = out.cancel
        /\ t.rec = out.rec /\ t.auto = out.auto
        /\ t.journal = out.journal /\ t.planned = out.planned /\ t.parent = out.parent
    BY <1>5, <2>2, <2>3 DEF QueueFiles
  <2>5. Touches(s, t, c)
    BY <1>3, <1>5, <2>3, <2>4 DEF Touches
  <2>6. ~Held(t, c) /\ ~Queued(t, c) /\ Status_(t, c) = Status_(s, c) /\ t.rec[c] = s.rec[c]
    BY <1>3, <1>5, <2>3, <2>4 DEF Held, Queued, Status_
  <2>7. Requeued(s, t, c)
    BY <1>7, <1>8, <2>5, <2>6 DEF Requeued, Ended
  <2> QED BY <2>7, RequeueEnds
<1>9. CASE ~Ended(s, c) /\ CancelRequested(s, c)
  <2> PICK sp : sp = [out.spool EXCEPT ![c] = 0]
    OBVIOUS
  <2> PICK rc : rc = [out.rec EXCEPT ![c] = Rec("Cancelled", n)]
    OBVIOUS
  <2>1. t = [cancelQueuedJob(out, c, "Cancelled", n) EXCEPT !.cancel = @ \ {c}]
    BY <1>9 DEF requeueLocked
  <2>2. t = [[out EXCEPT !.rec = rc, !.spool = sp] EXCEPT !.cancel = @ \ {c}]
    BY <2>1 DEF cancelQueuedJob
  <2> PICK x : x = [out EXCEPT !.rec = rc, !.spool = sp]
    OBVIOUS
  <2>3. /\ sp \in [Children -> Nat] /\ sp[c] = 0
        /\ \A k \in Children : k # c => sp[k] = out.spool[k]
    <3>1. 0 \in Nat
      OBVIOUS
    <3> QED BY <1>6, <3>1, Except
  <2>4. /\ rc \in [Children -> Record] /\ rc[c] = Rec("Cancelled", n)
        /\ \A k \in Children : k # c => rc[k] = out.rec[k]
    <3>1. Rec("Cancelled", n) \in Record
      BY <1>2, RecType DEF Status
    <3> QED BY <1>6, <3>1, Except
  <2>5. /\ x \in QueueFiles
        /\ x.working = out.working /\ x.spool = sp /\ x.cancel = out.cancel
        /\ x.rec = rc /\ x.auto = out.auto
        /\ x.journal = out.journal /\ x.planned = out.planned /\ x.parent = out.parent
    BY <1>5, <2>3, <2>4 DEF QueueFiles, Record
  <2>6. x.cancel \ {c} \in SUBSET (Groups \cup Children)
    BY <2>5, Fields
  <2>7. t = [x EXCEPT !.cancel = x.cancel \ {c}]
    BY <2>2
  <2>8. /\ t \in QueueFiles
        /\ t.working = x.working /\ t.spool = x.spool /\ t.cancel = x.cancel \ {c}
        /\ t.rec = x.rec /\ t.auto = x.auto
        /\ t.journal = x.journal /\ t.planned = x.planned /\ t.parent = x.parent
    <3>1. x \in QueueFiles
      BY <2>5
    <3>2. PICK ca : ca = x.cancel \ {c}
      OBVIOUS
    <3>3. ca \in SUBSET (Groups \cup Children)
      BY <2>6, <3>2
    <3>4. t = [x EXCEPT !.cancel = ca]
      BY <2>7, <3>2
    <3>5. OnlyMarks(x, t, ca)
      BY <3>1, <3>3, <3>4, Marks
    <3> QED BY <3>2, <3>5 DEF OnlyMarks
  <2>9. Touches(s, t, c)
    BY <1>3, <1>5, <2>3, <2>4, <2>5, <2>8 DEF Touches
  <2>10. Rec("Cancelled", n).status = "Cancelled" /\ Rec("Cancelled", n).attempt = n
    BY <1>2, RecType DEF Status
  <2>11. ~Held(t, c) /\ ~Queued(t, c) /\ Status_(t, c) = "Cancelled" /\ t.rec[c].attempt = n
    BY <1>3, <1>5, <2>3, <2>4, <2>5, <2>8, <2>10 DEF Held, Queued, Status_
  <2>12. Requeued(s, t, c)
    BY <1>2, <1>9, <2>9, <2>11 DEF Requeued
  <2> QED BY <2>12, RequeueEnds
<1>10. CASE /\ ~Ended(s, c) /\ ~CancelRequested(s, c)
            /\ enforce /\ n >= MaxAttempts
  <2> PICK r : r = [out.rec[c] EXCEPT !.status = "Error"]
    OBVIOUS
  <2> PICK rc : rc = [out.rec EXCEPT ![c] = r]
    OBVIOUS
  <2>1. t = [out EXCEPT !.rec[c].status = "Error"]
    BY <1>10 DEF requeueLocked
  <2>2. t = [out EXCEPT !.rec = rc]
    BY <2>1
  <2>3. r \in Record /\ r.status = "Error" /\ r.attempt = s.rec[c].attempt
    BY <1>5, <1>6 DEF Record, Status
  <2>4. /\ rc \in [Children -> Record] /\ rc[c] = r
        /\ \A k \in Children : k # c => rc[k] = out.rec[k]
    BY <1>6, <2>3, Except
  <2>5. /\ t \in QueueFiles
        /\ t.working = out.working /\ t.spool = out.spool /\ t.cancel = out.cancel
        /\ t.rec = rc /\ t.auto = out.auto
        /\ t.journal = out.journal /\ t.planned = out.planned /\ t.parent = out.parent
    <3>1. out \in QueueFiles
      BY <1>5
    <3>2. rc \in [Children -> [status : Status, attempt : Nat]]
      BY <2>4 DEF Record
    <3>3. t \in QueueFiles
      BY <2>2, <3>1, <3>2 DEF QueueFiles
    <3> QED BY <2>2, <3>1, <3>3 DEF QueueFiles
  <2>6. Touches(s, t, c)
    BY <1>3, <1>5, <2>4, <2>5 DEF Touches
  <2>7. /\ ~Held(t, c) /\ Status_(t, c) = "Error" /\ t.rec[c].attempt > 0
        /\ ~Queued(t, c)
    BY <1>3, <1>5, <1>7, <2>3, <2>4, <2>5 DEF Held, Queued, Status_
  <2>8. Requeued(s, t, c)
    BY <1>10, <2>6, <2>7 DEF Requeued
  <2> QED BY <2>8, RequeueEnds
<1>11. CASE /\ ~Ended(s, c) /\ ~CancelRequested(s, c)
            /\ ~(enforce /\ n >= MaxAttempts)
  <2> PICK m : m = n + 1
    OBVIOUS
  <2> PICK sp : sp = [out.spool EXCEPT ![c] = m]
    OBVIOUS
  <2> PICK rc : rc = [out.rec EXCEPT ![c] = Rec("Pending", m)]
    OBVIOUS
  <2>1. t = [out EXCEPT !.rec[c] = Rec("Pending", m), !.spool[c] = m]
    BY <1>11 DEF requeueLocked
  <2>2. t = [out EXCEPT !.rec = rc, !.spool = sp]
    BY <2>1
  <2>3. m \in Nat /\ m > 0
    BY <1>2
  <2>4. /\ sp \in [Children -> Nat] /\ sp[c] = m
        /\ \A k \in Children : k # c => sp[k] = out.spool[k]
    BY <1>6, <2>3, Except
  <2>5. /\ rc \in [Children -> Record] /\ rc[c] = Rec("Pending", m)
        /\ \A k \in Children : k # c => rc[k] = out.rec[k]
    <3>1. Rec("Pending", m) \in Record
      BY <2>3, RecType DEF Status
    <3> QED BY <1>6, <3>1, Except
  <2>6. /\ t \in QueueFiles
        /\ t.working = out.working /\ t.spool = sp /\ t.cancel = out.cancel
        /\ t.rec = rc /\ t.auto = out.auto
        /\ t.journal = out.journal /\ t.planned = out.planned /\ t.parent = out.parent
    <3>1. out \in QueueFiles
      BY <1>5
    <3>2. /\ rc \in [Children -> [status : Status, attempt : Nat]]
          /\ sp \in [Children -> Nat]
      BY <2>4, <2>5 DEF Record
    <3>3. t \in QueueFiles
      BY <2>2, <3>1, <3>2 DEF QueueFiles
    <3> QED BY <2>2, <3>1, <3>3 DEF QueueFiles
  <2>7. Touches(s, t, c)
    BY <1>3, <1>5, <2>4, <2>5, <2>6 DEF Touches
  <2>8. Rec("Pending", m).status = "Pending" /\ Rec("Pending", m).attempt = m
    BY <2>3, RecType DEF Status
  <2>9. /\ ~Held(t, c) /\ Status_(t, c) = "Pending" /\ t.rec[c].attempt > 0
        /\ Queued(t, c)
    BY <1>3, <1>5, <2>3, <2>4, <2>5, <2>6, <2>8 DEF Held, Queued, Status_
  <2>10. GroupOf[c] \in s.journal
    BY <1>1, <1>11 DEF WritingInv, CancelRequested
  <2>11. Requeued(s, t, c)
    BY <1>11, <2>7, <2>9, <2>10 DEF Requeued
  <2> QED BY <2>11, RequeueEnds
<1> QED BY <1>8, <1>9, <1>10, <1>11

-----------------------------------------------------------------------------
(* A cancel request, and a new journal. *)

LEMMA MarkMoves ==
  ASSUME NEW s, NEW W, QueueInv(s, W), NEW x \in Groups \cup Children,
         NEW t, t = [s EXCEPT !.cancel = @ \cup {x}]
  PROVE  Moves(s, t, W, {})
<1>1. s \in QueueFiles /\ FilesInv(s) /\ OvertakenInv(s) /\ WritingInv(s, W)
  BY DEF QueueInv, FilesInv
<1> PICK ca : ca = s.cancel \cup {x}
  OBVIOUS
<1>2. OnlyMarks(s, t, ca) /\ s.cancel \subseteq ca
  <2>1. ca \in SUBSET (Groups \cup Children)
    BY <1>1, Fields
  <2>2. t = [s EXCEPT !.cancel = ca]
    OBVIOUS
  <2> QED BY <1>1, <2>1, <2>2, Marks
<1>3. /\ t \in QueueFiles /\ s.cancel \subseteq t.cancel
      /\ t.working = s.working /\ t.spool = s.spool
      /\ t.rec = s.rec /\ t.auto = s.auto
      /\ t.journal = s.journal /\ t.planned = s.planned /\ t.parent = s.parent
  BY <1>2 DEF OnlyMarks
<1>4. \A c \in Children : /\ Held(t, c) <=> Held(s, c)
                          /\ Queued(t, c) <=> Queued(s, c)
                          /\ Entry(t, c) <=> Entry(s, c)
                          /\ Status_(t, c) = Status_(s, c)
                          /\ Ended(t, c) <=> Ended(s, c)
  BY <1>3 DEF Held, Queued, Entry, Status_, Ended
<1>5. FilesInv(t)
  <2>1. \A c \in Children : ChildFiles(t, c)
    BY <1>1, <1>3, <1>4 DEF FilesInv, ChildFiles
  <2>2. \A g \in Groups : ParentFiles(t, g)
    BY <1>1, <1>3, <1>4 DEF FilesInv, ParentFiles, Kids
  <2> QED BY <1>1, <1>3, <2>1, <2>2 DEF FilesInv
<1>6. OvertakenInv(t)
  <2>1. \A g \in Groups : Superseded(t, g) => Superseded(s, g)
    BY <1>3, <1>4 DEF Superseded
  <2>2. \A g \in Groups : MarkedGroup(s, g) => MarkedGroup(t, g)
    BY <1>3, <1>4 DEF MarkedGroup, Kids
  <2>3. \A g \in Groups : Withdrawn(s, g) => Withdrawn(t, g)
    BY <1>4 DEF Withdrawn, Kids
  <2>4. s.journal \subseteq Groups
    BY <1>1, Fields
  <2> QED BY <1>1, <1>3, <2>1, <2>2, <2>3, <2>4 DEF OvertakenInv
<1>7. WritingInv(t, W)
  BY <1>1, <1>3, <1>4 DEF WritingInv
<1>8. Settles(s, t) /\ KeepsEnds(s, t, {})
  BY <1>3, <1>4 DEF Settles, KeepsEnds, Kids
<1>9. Steady(s) => Steady(t)
  <2>1. \A c \in Children : SteadyChild(s, c) => SteadyChild(t, c)
    BY <1>4, ConstantsType DEF SteadyChild
  <2>2. \A g \in Groups : EndsLast(s, g) => EndsLast(t, g)
    BY <1>3, <1>4 DEF EndsLast, Kids
  <2> QED BY <2>1, <2>2 DEF Steady
<1> QED BY <1>3, <1>5, <1>6, <1>7, <1>8, <1>9 DEF Moves, QueueInv

LEMMA JournalMoves ==
  ASSUME NEW s, NEW W, QueueInv(s, W),
         NEW g \in Groups, g \notin s.journal \cup s.planned, g \notin committed,
         NEW t, t = [s EXCEPT !.journal = @ \cup {g}]
  PROVE  /\ Moves(s, t, W, {})
         /\ t.journal = s.journal \cup {g} /\ t.planned = s.planned /\ t.rec = s.rec
<1>1. s \in QueueFiles /\ FilesInv(s) /\ OvertakenInv(s) /\ WritingInv(s, W)
  BY DEF QueueInv, FilesInv
<1> PICK jo : jo = s.journal \cup {g}
  OBVIOUS
<1>2. jo \in SUBSET Groups
  BY <1>1, Fields
<1>3. t = [s EXCEPT !.journal = jo]
  OBVIOUS
<1>4. t \in QueueFiles
  BY <1>1, <1>2, <1>3 DEF QueueFiles
<1>5. /\ t.cancel = s.cancel /\ t.journal = jo
      /\ t.working = s.working /\ t.spool = s.spool
      /\ t.rec = s.rec /\ t.auto = s.auto
      /\ t.planned = s.planned /\ t.parent = s.parent
  BY <1>1, <1>3 DEF QueueFiles
<1>6. \A c \in Children : /\ Held(t, c) <=> Held(s, c)
                          /\ Queued(t, c) <=> Queued(s, c)
                          /\ Entry(t, c) <=> Entry(s, c)
                          /\ Status_(t, c) = Status_(s, c)
                          /\ Ended(t, c) <=> Ended(s, c)
  BY <1>5 DEF Held, Queued, Entry, Status_, Ended
<1>7. FilesInv(t)
  <2>1. \A c \in Children : ChildFiles(t, c)
    BY <1>1, <1>5, <1>6 DEF FilesInv, ChildFiles
  <2>2. ASSUME NEW p \in Groups PROVE ParentFiles(t, p)
    <3>1. ParentFiles(s, p)
      BY <1>1 DEF FilesInv
    <3>2. t.parent[p] \in Terminal <=> p \in t.planned \ t.journal
      BY <1>5, <3>1 DEF ParentFiles
    <3> QED BY <1>5, <1>6, <3>1, <3>2 DEF ParentFiles, Kids
  <2> QED BY <1>1, <1>4, <1>5, <2>1, <2>2 DEF FilesInv
<1>8. OvertakenInv(t)
  <2>1. \A p \in Groups : Superseded(t, p) => Superseded(s, p)
    BY <1>5, <1>6 DEF Superseded
  <2>2. \A p \in Groups : MarkedGroup(s, p) => MarkedGroup(t, p)
    BY <1>5, <1>6 DEF MarkedGroup, Kids
  <2>3. \A p \in Groups : Withdrawn(s, p) => Withdrawn(t, p)
    BY <1>6 DEF Withdrawn, Kids
  <2>4. t.planned \cap t.journal \subseteq s.planned \cap s.journal
    BY <1>5
  <2>5. s.journal \subseteq Groups
    BY <1>1, Fields
  <2> QED BY <1>1, <2>1, <2>2, <2>3, <2>4, <2>5 DEF OvertakenInv
<1>9. WritingInv(t, W)
  BY <1>1, <1>5, <1>6 DEF WritingInv
<1>10. Settles(s, t) /\ KeepsEnds(s, t, {})
  BY <1>5, <1>6 DEF Settles, KeepsEnds, Kids
<1>11. Steady(s) => Steady(t)
  <2>1. \A c \in Children : SteadyChild(s, c) => SteadyChild(t, c)
    BY <1>6, ConstantsType DEF SteadyChild
  <2>2. \A p \in Groups : EndsLast(s, p) => EndsLast(t, p)
    BY <1>5, <1>6 DEF EndsLast, Kids
  <2> QED BY <2>1, <2>2 DEF Steady
<1> QED BY <1>5, <1>7, <1>8, <1>9, <1>10, <1>11 DEF Moves, QueueInv

(* enqueueCiWorkflowJobs: the journal, a reconciliation, a superseding. *)
LEMMA EnqueueMoves ==
  ASSUME NEW s, NEW W, QueueInv(s, W),
         NEW g \in Groups, g \notin s.journal \cup s.planned, g \notin committed
  PROVE  Moves(s, supersedeCiJobs(
                    reconcileWorkflowGroups([s EXCEPT !.journal = @ \cup {g}]), g),
               W, {})
<1> PICK x : x = [s EXCEPT !.journal = @ \cup {g}]
  OBVIOUS
<1> PICK t : t = reconcileWorkflowGroups(x)
  OBVIOUS
<1> PICK y : y = supersedeCiJobs(t, g)
  OBVIOUS
<1>1. /\ Moves(s, x, W, {}) /\ QueueInv(x, W)
      /\ x.journal = s.journal \cup {g} /\ x.planned = s.planned /\ x.rec = s.rec
  BY JournalMoves DEF Moves
<1>2. Moves(x, t, W, {}) /\ QueueInv(t, W) /\ Onward(x, t) /\ Placed(t, g, x.journal)
  BY <1>1, ReconcileMoves, ReconcileKeeps
<1>3. g \in t.planned
  BY <1>1, <1>2 DEF Placed, Onward
<1>4. ASSUME NEW c \in Kids(g)
      PROVE  ~Held(t, c) /\ Status_(t, c) # "Success"
  <2>1. c \in Children /\ GroupOf[c] = g
    BY DEF Kids
  <2>2. ChildFiles(s, c) /\ ChildFiles(x, c)
    BY <1>1, <2>1 DEF QueueInv, FilesInv
  <2>3. Status_(x, c) = "None" /\ ~Held(x, c)
    BY <1>1, <2>1, <2>2 DEF ChildFiles, Entry
  <2> QED BY <1>2, <2>1, <2>3 DEF Onward, Status_, Held
<1>5. /\ QueueInv(y, W) /\ y.planned = t.planned /\ y.journal = t.journal
      /\ y.parent = t.parent /\ y.auto = t.auto /\ y.working = t.working
      /\ \A c \in Children : GroupOf[c] # g /\ GroupOf[c] \notin t.journal =>
           y.rec[c] = t.rec[c]
      /\ t.auto = {} /\ Steady(t) => Steady(y) /\ KeepsRecords(t, y)
  <2>1. QueueInv(t, W)
    BY <1>2
  <2>2. y = supersedeCiJobs(t, g)
    OBVIOUS
  <2>3. \A c \in Kids(g) : ~Held(t, c) /\ Status_(t, c) # "Success"
    BY <1>4
  <2>4. SupersedeKept(t, y, g, W)
    BY <1>3, <2>1, <2>2, <2>3, SupersedeKeeps
  <2> QED BY <2>4 DEF SupersedeKept
<1>6. Settles(t, y)
  BY <1>4, <1>5 DEF Settles, Kids, Status_
<1>7. KeepsRecords(t, y) => KeepsEnds(t, y, {})
  BY DEF KeepsRecords, KeepsEnds, Status_
<1>8. Moves(t, y, W, {})
  BY <1>5, <1>6, <1>7 DEF Moves
<1>9. Moves(s, t, W, {} \cup {})
  BY <1>1, <1>2, MovesTwice
<1>10. Moves(s, y, W, ({} \cup {}) \cup {})
  BY <1>8, <1>9, MovesTwice
<1>11. ({} \cup {}) \cup {} = {}
  OBVIOUS
<1> QED BY <1>10, <1>11

-----------------------------------------------------------------------------
(* The scan of a claim. *)

(* A child that may be taken. *)
MayTake(s, start, c) ==
  /\ c \in Children /\ Queued(s, c) /\ ~CancelRequested(s, c)
  /\ ~Failed(s, c) /\ ~Waiting(s, c) /\ FreeFor(start, GroupOf[c])

(* What a scan has done so far: entries have ended, or one is to be taken. *)
ScanInv(x, start, W) ==
  /\ x = [s |-> x.s, start |-> start, got |-> x.got]
  /\ Moves(start, x.s, W, {})
  /\ x.s.cancel = start.cancel /\ x.s.journal = start.journal
  /\ x.s.planned = start.planned /\ x.s.parent = start.parent
  /\ \A c \in Children : /\ Queued(x.s, c) => Queued(start, c)
                         /\ ~Queued(start, c) => x.s.rec[c] = start.rec[c]
  /\ x.got # 0 => MayTake(x.s, start, x.got)

LEMMA VisitKeeps ==
  ASSUME NEW x, NEW start, NEW W, ScanInv(x, start, W), NEW c \in Children,
         NEW r, NEW late
  PROVE  ScanInv(Visit(x, c, r, late), start, W)
<1> PICK y : y = Visit(x, c, r, late)
  OBVIOUS
<1>1. /\ x = [s |-> x.s, start |-> start, got |-> x.got]
      /\ Moves(start, x.s, W, {})
      /\ x.s.cancel = start.cancel /\ x.s.journal = start.journal
      /\ x.s.planned = start.planned /\ x.s.parent = start.parent
      /\ \A k \in Children : /\ Queued(x.s, k) => Queued(start, k)
                             /\ ~Queued(start, k) => x.s.rec[k] = start.rec[k]
  BY DEF ScanInv
<1>2. x.start = start /\ QueueInv(x.s, W)
  BY <1>1 DEF Moves
<1>3. CASE y = x
  BY <1>3
<1>4. ASSUME x.got = 0, Queued(x.s, c), NEW st \in {"Cancelled", "Skipped"},
             y = [x EXCEPT !.s = cancelQueuedJob(@, c, st, x.s.spool[c])]
      PROVE  ScanInv(y, start, W)
  <2> PICK t : t = cancelQueuedJob(x.s, c, st, x.s.spool[c])
    OBVIOUS
  <2>1. EndedEntry(x.s, t, c, W)
    BY <1>2, <1>4, EndQueued
  <2>2. y = [x EXCEPT !.s = t]
    BY <1>4
  <2>3. y = [s |-> t, start |-> start, got |-> 0]
    BY <1>1, <1>4, <2>2
  <2>4. y.s = t /\ y.got = 0
    BY <2>3
  <2>5. y = [s |-> y.s, start |-> start, got |-> y.got]
    BY <2>3, <2>4
  <2>6. Moves(start, t, W, {} \cup {})
    BY <1>1, <2>1, MovesTwice DEF EndedEntry
  <2>7. {} \cup {} = {}
    OBVIOUS
  <2>8. Moves(start, t, W, {})
    BY <2>6, <2>7
  <2>10. Queued(start, c)
    BY <1>1, <1>4
  <2>9. /\ t.cancel = start.cancel /\ t.journal = start.journal
        /\ t.planned = start.planned /\ t.parent = start.parent
        /\ \A k \in Children : /\ Queued(t, k) => Queued(start, k)
                               /\ ~Queued(start, k) => t.rec[k] = start.rec[k]
    BY <1>1, <2>1, <2>10 DEF EndedEntry, Touches, Queued
  <2> QED BY <2>4, <2>5, <2>8, <2>9 DEF ScanInv
<1>5. ASSUME x.got = 0, MayTake(x.s, start, c), y = [x EXCEPT !.got = c]
      PROVE  ScanInv(y, start, W)
  <2>1. y = [s |-> x.s, start |-> start, got |-> c]
    BY <1>1, <1>5
  <2>2. y.s = x.s /\ y.got = c
    BY <2>1
  <2>3. y = [s |-> y.s, start |-> start, got |-> y.got]
    BY <2>1, <2>2
  <2> QED BY <1>1, <1>5, <2>2, <2>3 DEF ScanInv
<1>6. \/ y = x
      \/ /\ x.got = 0 /\ Queued(x.s, c)
         /\ \/ y = [x EXCEPT !.s = cancelQueuedJob(@, c, "Cancelled", x.s.spool[c])]
            \/ y = [x EXCEPT !.s = cancelQueuedJob(@, c, "Skipped", x.s.spool[c])]
      \/ x.got = 0 /\ MayTake(x.s, start, c) /\ y = [x EXCEPT !.got = c]
  BY <1>2 DEF Visit, MayTake
<1> QED BY <1>3, <1>4, <1>5, <1>6

(* The scan after each number. *)
Visited(x, n, r, late) == IF n \in Children THEN Visit(x, n, r, late) ELSE x
Visits(f, x, r, late, k) ==
  f = [n \in 0 .. k |-> IF n = 0 THEN x ELSE Visited(f[n - 1], n, r, late)]

LEMMA VisitsMore ==
  ASSUME NEW x, NEW r, NEW late, NEW k \in Nat, NEW f, Visits(f, x, r, late, k)
  PROVE  \E h : Visits(h, x, r, late, k + 1)
<1> DEFINE V(y, n) == Visited(y, n, r, late)
<1> DEFINE h == [n \in 0 .. k + 1 |-> IF n = 0 THEN x ELSE V(f[n - 1], n)]
<1>1. \A n \in 0 .. k : f[n] = IF n = 0 THEN x ELSE V(f[n - 1], n)
  BY DEF Visits
<1> HIDE DEF V
<1>2. \A n \in 0 .. k + 1 : h[n] = IF n = 0 THEN x ELSE V(f[n - 1], n)
  OBVIOUS
<1>3. \A n \in 0 .. k : n \in 0 .. k + 1
  OBVIOUS
<1>4. \A n \in 0 .. k : h[n] = f[n]
  <2> HIDE DEF h
  <2> QED BY <1>1, <1>2, <1>3
<1>5. \A n \in 0 .. k + 1 : n # 0 => n - 1 \in 0 .. k
  OBVIOUS
<1>6. \A n \in 0 .. k + 1 : (IF n = 0 THEN x ELSE V(h[n - 1], n))
                          = (IF n = 0 THEN x ELSE V(f[n - 1], n))
  <2> HIDE DEF h
  <2> QED BY <1>4, <1>5
<1>7. h = [n \in 0 .. k + 1 |-> IF n = 0 THEN x ELSE V(h[n - 1], n)]
  BY <1>6, Zenon
<1>8. Visits(h, x, r, late, k + 1)
  <2> HIDE DEF h
  <2> QED BY <1>7, Zenon DEF Visits, V
<1> QED BY <1>8

LEMMA ScanIs ==
  ASSUME NEW r, NEW late
  PROVE  \E f : /\ Visits(f, [s |-> reconcileWorkflowGroups(q),
                              start |-> reconcileWorkflowGroups(q), got |-> 0],
                          r, late, LastId)
                /\ Scan(r, late) = f[LastId]
<1> PICK start : start = reconcileWorkflowGroups(q)
  OBVIOUS
<1> PICK x : x = [s |-> start, start |-> start, got |-> 0]
  OBVIOUS
<1> DEFINE S == {k \in Nat : \E f : Visits(f, x, r, late, k)}
<1>1. 0 \in S
  <2>1. Visits([n \in 0 .. 0 |-> x], x, r, late, 0)
    BY DEF Visits
  <2> QED BY <2>1
<1>2. \A k \in Nat : k \in S => k + 1 \in S
  BY VisitsMore
<1>3. LastId \in S
  <2> HIDE DEF S
  <2> QED BY <1>1, <1>2, ConstantsType, AllNumbers
<1>4. \E f : f = [n \in 0 .. LastId |->
                   IF n = 0 THEN [s |-> start, start |-> start, got |-> 0]
                   ELSE IF n \in Children THEN Visit(f[n - 1], n, r, late)
                   ELSE f[n - 1]]
  BY <1>3, Zenon DEF Visits, Visited
<1> DEFINE fl == CHOOSE f : f = [n \in 0 .. LastId |->
                   IF n = 0 THEN [s |-> start, start |-> start, got |-> 0]
                   ELSE IF n \in Children THEN Visit(f[n - 1], n, r, late)
                   ELSE f[n - 1]]
<1>5. fl = [n \in 0 .. LastId |->
                   IF n = 0 THEN [s |-> start, start |-> start, got |-> 0]
                   ELSE IF n \in Children THEN Visit(fl[n - 1], n, r, late)
                   ELSE fl[n - 1]]
  BY <1>4, Zenon
<1>6. Scan(r, late) = fl[LastId]
  BY Zenon DEF Scan
<1> HIDE DEF fl
<1>7. Visits(fl, x, r, late, LastId)
  BY <1>5, Zenon DEF Visits, Visited
<1> QED BY <1>6, <1>7, Zenon

LEMMA ScanFacts ==
  ASSUME NEW W, QueueInv(q, W), NEW r, NEW late
  PROVE  ScanInv(Scan(r, late), reconcileWorkflowGroups(q), W)
<1> PICK start : start = reconcileWorkflowGroups(q)
  OBVIOUS
<1> PICK x : x = [s |-> start, start |-> start, got |-> 0]
  OBVIOUS
<1>1. PICK f : Visits(f, x, r, late, LastId) /\ Scan(r, late) = f[LastId]
  BY ScanIs
<1>2. \A n \in 0 .. LastId : f[n] = IF n = 0 THEN x ELSE Visited(f[n - 1], n, r, late)
  BY <1>1, Zenon DEF Visits
<1>3. LastId \in Nat
  BY ConstantsType
<1> DEFINE S == {n \in Nat : n <= LastId => ScanInv(f[n], start, W)}
<1>4. 0 \in S
  <2>1. f[0] = x
    BY <1>2, <1>3
  <2>2. QueueInv(start, W)
    BY ReconcileMoves DEF Moves
  <2>3. x.s = start /\ x.got = 0
    OBVIOUS
  <2>4. ScanInv(x, start, W)
    BY <2>2, <2>3, MovesNot DEF ScanInv
  <2> QED BY <2>1, <2>4
<1>5. ASSUME NEW n \in Nat, n \in S
      PROVE  n + 1 \in S
  <2>1. SUFFICES ASSUME n + 1 <= LastId PROVE ScanInv(f[n + 1], start, W)
    OBVIOUS
  <2>2. ScanInv(f[n], start, W)
    BY <1>3, <1>5, <2>1
  <2>3. PICK m : m = n + 1
    OBVIOUS
  <2>4. m \in 0 .. LastId /\ m # 0 /\ m - 1 = n
    BY <1>3, <2>1, <2>3
  <2>5. f[m] = Visited(f[n], m, r, late)
    BY <1>2, <2>4, Zenon
  <2> HIDE DEF S
  <2>6. ScanInv(f[m], start, W)
    BY <2>2, <2>5, VisitKeeps DEF Visited
  <2> QED BY <2>3, <2>6
<1>6. LastId \in S
  <2> HIDE DEF S
  <2> QED BY <1>3, <1>4, <1>5, AllNumbers
<1> QED BY <1>1, <1>3, <1>6

-----------------------------------------------------------------------------
(* A publication. *)

LEMMA EndOfIs ==
  ASSUME NEW s \in QueueFiles, NEW g \in Groups, s.parent[g] \in Terminal,
         NEW collected
  PROVE  /\ EndOf(s, g, collected) \in Terminal
         /\ EndOf(s, g, collected) = "Success" =>
              g \notin s.cancel /\ s.parent[g] = "Success"
  BY DEF EndOf

(* The parent's record is written and its marker goes. *)
PublishedParent(s, t, g) ==
  /\ t.rec = s.rec /\ t.spool = s.spool /\ t.working = s.working
  /\ t.auto = s.auto /\ t.journal = s.journal /\ t.planned = s.planned
  /\ \A p \in Groups : p # g => t.parent[p] = s.parent[p]
  /\ \A x : x # g => (x \in t.cancel <=> x \in s.cancel)

ParentWritten(s, t, g, end) ==
  t \in QueueFiles /\ PublishedParent(s, t, g) /\ t.parent[g] = end

LEMMA ParentRecord ==
  ASSUME NEW s \in QueueFiles, NEW g \in Groups, NEW end \in Status,
         NEW t, t = [s EXCEPT !.parent[g] = end, !.cancel = @ \ {g}]
  PROVE  ParentWritten(s, t, g, end)
<1> PICK pa : pa = [s.parent EXCEPT ![g] = end]
  OBVIOUS
<1> PICK ca : ca = s.cancel \ {g}
  OBVIOUS
<1>1. /\ pa \in [Groups -> Status] /\ pa[g] = end
      /\ \A p \in Groups : p # g => pa[p] = s.parent[p]
  <2>1. s.parent \in [Groups -> Status] /\ end \in Status
    BY Fields DEF Status
  <2> QED BY <2>1, Except
<1>2. ca \in SUBSET (Groups \cup Children)
  BY Fields
<1>3. t = [s EXCEPT !.parent = pa, !.cancel = ca]
  OBVIOUS
<1>4. t \in QueueFiles
  BY <1>1, <1>2, <1>3 DEF QueueFiles
<1>5. /\ t.cancel = ca /\ t.parent = pa
      /\ t.rec = s.rec /\ t.spool = s.spool /\ t.working = s.working
      /\ t.auto = s.auto /\ t.journal = s.journal /\ t.planned = s.planned
  BY <1>3 DEF QueueFiles
<1> QED BY <1>1, <1>4, <1>5 DEF PublishedParent, ParentWritten

LEMMA PublishKeeps ==
  ASSUME NEW s, NEW W, QueueInv(s, W), NEW g \in Groups, Ready(s, g),
         NEW end \in Terminal,
         end = "Success" => g \notin s.cancel /\ s.parent[g] = "Success",
         NEW t, t = s \/ ParentWritten(s, t, g, end)
  PROVE  /\ QueueInv(t, W) /\ PublishedParent(s, t, g)
         /\ g \in t.planned \ t.journal
         /\ end = "Success" => \A c \in Kids(g) : Status_(t, c) = "Success"
         /\ Steady(s) => Steady(t)
<1>1. /\ s \in QueueFiles /\ FilesInv(s) /\ OvertakenInv(s) /\ WritingInv(s, W)
      /\ ParentFiles(s, g)
  BY DEF QueueInv, FilesInv
<1>2. /\ g \in s.planned \ s.journal
      /\ end = "Success" => \A c \in Kids(g) : Status_(s, c) = "Success"
  BY <1>1 DEF Ready, listCiUnpublishedWorkflows, ParentFiles
<1>3. CASE t = s
  BY <1>2, <1>3 DEF PublishedParent
<1>4. CASE ParentWritten(s, t, g, end)
  <2>1. t \in QueueFiles /\ PublishedParent(s, t, g) /\ t.parent[g] = end
    BY <1>4 DEF ParentWritten
  <2>2. /\ t.rec = s.rec /\ t.spool = s.spool /\ t.working = s.working
        /\ t.auto = s.auto /\ t.journal = s.journal /\ t.planned = s.planned
        /\ \A p \in Groups : p # g => t.parent[p] = s.parent[p]
        /\ \A x : x # g => (x \in t.cancel <=> x \in s.cancel)
    BY <2>1 DEF PublishedParent
  <2>3. \A c \in Children : /\ Held(t, c) <=> Held(s, c)
                            /\ Queued(t, c) <=> Queued(s, c)
                            /\ Entry(t, c) <=> Entry(s, c)
                            /\ Status_(t, c) = Status_(s, c)
                            /\ Ended(t, c) <=> Ended(s, c)
    BY <2>2 DEF Held, Queued, Entry, Status_, Ended
  <2>4. \A c \in Children : c # g
    BY WorkflowAssumption
  <2>5. FilesInv(t)
    <3>1. \A c \in Children : ChildFiles(t, c)
      BY <1>1, <2>2, <2>3 DEF FilesInv, ChildFiles
    <3>2. ASSUME NEW p \in Groups PROVE ParentFiles(t, p)
      <4>1. CASE p = g
        BY <1>2, <2>1, <2>2, <2>3, <4>1 DEF ParentFiles, Kids
      <4>2. CASE p # g
        <5>1. ParentFiles(s, p)
          BY <1>1 DEF FilesInv
        <5> QED BY <2>2, <2>3, <4>2, <5>1 DEF ParentFiles, Kids
      <4> QED BY <4>1, <4>2
    <3> QED BY <1>1, <2>1, <2>2, <3>1, <3>2 DEF FilesInv
  <2>6. OvertakenInv(t)
    <3>1. ASSUME NEW p \in s.planned \cap s.journal, Superseded(t, p)
          PROVE  MarkedGroup(t, p) \/ Withdrawn(t, p)
      <4>1. p # g
        BY <1>2
      <4>2. Superseded(s, p)
        BY <2>2, <2>3, <3>1 DEF Superseded
      <4>3. MarkedGroup(s, p) => MarkedGroup(t, p)
        BY <2>2, <2>3, <2>4, <4>1 DEF MarkedGroup, Kids
      <4>4. Withdrawn(s, p) => Withdrawn(t, p)
        BY <2>3 DEF Withdrawn, Kids
      <4> QED BY <1>1, <4>2, <4>3, <4>4 DEF OvertakenInv
    <3> QED BY <2>2, <3>1 DEF OvertakenInv
  <2>7. WritingInv(t, W)
    BY <1>1, <2>2, <2>3, <2>4 DEF WritingInv
  <2>8. Steady(s) => Steady(t)
    <3>1. SUFFICES ASSUME Steady(s) PROVE Steady(t)
      OBVIOUS
    <3>2. \A c \in Children : SteadyChild(s, c) => SteadyChild(t, c)
      BY <2>3, ConstantsType DEF SteadyChild
    <3>3. ASSUME NEW p \in Groups PROVE EndsLast(t, p)
      <4>1. EndsLast(s, p)
        BY <3>1 DEF Steady
      <4>2. \A c \in Kids(p) : Ended(s, c) => Ended(t, c)
        BY <2>3 DEF Kids
      <4>3. p = g => \A c \in Kids(p) : Ended(s, c)
        BY DEF Ready
      <4> QED BY <2>2, <4>1, <4>2, <4>3 DEF EndsLast
    <3> QED BY <3>1, <3>2, <3>3 DEF Steady
  <2>9. end = "Success" => \A c \in Kids(g) : Status_(t, c) = "Success"
    BY <1>2, <2>3 DEF Kids
  <2> QED BY <1>2, <2>1, <2>2, <2>5, <2>6, <2>7, <2>8, <2>9 DEF QueueInv
<1> QED BY <1>3, <1>4

-----------------------------------------------------------------------------
(* The invariant of the specification. *)

Busy(x) == x.pc # "idle"

(* The children whose runner still writes their record. *)
Writing == {c \in Children : \E r \in Runners :
              run[r].pc \in {"claimed", "running", "commit"} /\ run[r].job = c}

(* A busy runner holds a child that is not lost, and knows its result when *)
(* it commits.                                                             *)
Works(s, x, l) ==
  Busy(x) => /\ x.job \in Children \ l /\ Held(s, x.job) /\ x.attempt > 0
             /\ x.pc = "commit" => x.result \in Terminal

(* Where no workflow supersedes another, a runner's place tells the status *)
(* of its child.                                                           *)
Stage(s, x) ==
  /\ x.pc = "claimed" => Status_(s, x.job) = "Pending"
  /\ x.pc \in {"running", "commit"} => Status_(s, x.job) = "Running"
  /\ x.pc \in {"finalize", "release", "releaseJob"} => Ended(s, x.job)

(* What the variables beside the queue's files hold. *)
Typed ==
  /\ committed \subseteq Groups
  /\ site \in Groups \cup {0}
  /\ shown \subseteq Groups
  /\ run \in [Runners -> RunState]
  /\ lost \subseteq Children
  /\ crashes \in 0 .. MaxCrashes
  /\ interrupts \in 0 .. MaxInterrupts

RunsInv ==
  /\ \A c \in lost : Held(q, c)
  /\ \A r \in Runners : Works(q, run[r], lost)
  /\ \A r, p \in Runners :
       Busy(run[r]) /\ Busy(run[p]) /\ run[r].job = run[p].job => r = p

(* Published outputs belong to an ended group of successful children; only *)
(* a publication that died leaves them uncommitted.                        *)
ShownInv ==
  \A g \in shown :
    /\ g \in q.planned \ q.journal
    /\ \A c \in Kids(g) : Status_(q, c) = "Success"
    /\ interrupts = 0 => g \in committed /\ q.parent[g] # "Cancelled"

SteadyInv ==
  q.auto = {} => Steady(q) /\ \A r \in Runners : Stage(q, run[r])

WorkflowInv ==
  /\ Typed /\ QueueInv(q, Writing) /\ committed \subseteq q.planned
  /\ RunsInv /\ ShownInv /\ SteadyInv

(* The invariant holds what TypeOK says. *)
LEMMA InvTypeOK == WorkflowInv => TypeOK
  BY DEF WorkflowInv, Typed, QueueInv, FilesInv, RunsInv, Works, Busy, Held, TypeOK

LEMMA IdleIs ==
  Idle \in RunState /\ Idle.pc = "idle" /\ ~Busy(Idle)
  BY DEF Idle, RunState, Places, Busy

LEMMA InitInv == Init => WorkflowInv
<1> SUFFICES ASSUME Init PROVE WorkflowInv
  OBVIOUS
<1>1. PICK auto \in SUBSET AutoCancel :
        q = [spool |-> [c \in Children |-> 0], working |-> [c \in Children |-> 0],
             rec |-> [c \in Children |-> Rec("None", 0)],
             parent |-> [g \in Groups |-> "None"],
             cancel |-> {}, journal |-> {}, planned |-> {}, auto |-> auto]
  BY DEF Init
<1>2. q \in QueueFiles
  <2>1. Rec("None", 0) \in [status : Status, attempt : Nat]
    BY RecType DEF Record, Status
  <2>2. "None" \in Status /\ 0 \in Nat
    BY DEF Status
  <2> HIDE DEF Init
  <2> QED BY <1>1, <2>1, <2>2 DEF QueueFiles
<1>3. /\ \A c \in Children : q.spool[c] = 0 /\ q.working[c] = 0 /\ q.rec[c] = Rec("None", 0)
      /\ \A g \in Groups : q.parent[g] = "None"
      /\ q.cancel = {} /\ q.journal = {} /\ q.planned = {}
  BY <1>1
<1>4. \A c \in Children : /\ ~Queued(q, c) /\ ~Held(q, c) /\ ~Entry(q, c)
                          /\ Status_(q, c) = "None"
  BY <1>3, RecType DEF Queued, Held, Entry, Status_, Status
<1>5. \A r \in Runners : ~Busy(run[r]) /\ run[r].pc = "idle"
  BY IdleIs DEF Init, Busy
<1>6. Typed
  BY IdleIs, WorkflowAssumption DEF Init, Typed
<1>7. QueueInv(q, Writing)
  <2>1. FilesInv(q)
    BY <1>2, <1>3, <1>4 DEF FilesInv, ChildFiles, ParentFiles
  <2>2. OvertakenInv(q)
    BY <1>3 DEF OvertakenInv
  <2>3. WritingInv(q, Writing)
    BY <1>4, <1>5 DEF WritingInv, Writing
  <2> QED BY <2>1, <2>2, <2>3 DEF QueueInv
<1>8. RunsInv /\ ShownInv /\ committed \subseteq q.planned
  BY <1>5 DEF Init, RunsInv, ShownInv, Works
<1>9. SteadyInv
  <2>1. \A c \in Children : SteadyChild(q, c)
    BY <1>4 DEF SteadyChild
  <2>2. \A g \in Groups : EndsLast(q, g)
    BY <1>3 DEF EndsLast
  <2> QED BY <1>5, <2>1, <2>2 DEF SteadyInv, Steady, Stage
<1> QED BY <1>6, <1>7, <1>8, <1>9 DEF WorkflowInv

(* What a step leaves of the runners other than r. *)
LEMMA RunnersKept ==
  ASSUME WorkflowInv,
         NEW C, q'.auto = q.auto,
         \A c \in Children : c \notin C => q'.working[c] = q.working[c],
         q.auto = {} /\ Steady(q) => Steady(q') /\ KeepsEnds(q, q', C),
         NEW r,
         \A p \in Runners : p # r => run'[p] = run[p],
         \A p \in Runners : p # r /\ Busy(run[p]) =>
           run[p].job \notin C \cup (lost' \ lost),
         \A p \in Runners : p # r /\ Busy(run[p]) /\ r \in Runners /\ Busy(run'[r]) =>
           run[p].job # run'[r].job,
         r \in Runners => /\ Works(q', run'[r], lost')
                          /\ q'.auto = {} /\ Steady(q') => Stage(q', run'[r]),
         \A c \in lost' : Held(q', c)
  PROVE  RunsInv' /\ SteadyInv'
<1>1. ASSUME NEW p \in Runners, p # r
      PROVE  /\ Works(q', run'[p], lost')
             /\ q'.auto = {} /\ Steady(q') => Stage(q', run'[p])
  <2>1. run'[p] = run[p] /\ Works(q, run[p], lost)
    BY <1>1 DEF WorkflowInv, RunsInv
  <2>2. CASE ~Busy(run[p])
    BY <2>1, <2>2 DEF Works, Busy, Stage
  <2>3. CASE Busy(run[p])
    <3>1. PICK c : c = run[p].job
      OBVIOUS
    <3>2. c \in Children /\ c \notin lost' /\ c \notin C /\ Held(q, c) /\ Held(q', c)
      BY <1>1, <2>1, <2>3, <3>1 DEF Works, Held
    <3>3. Works(q', run'[p], lost')
      BY <2>1, <3>1, <3>2 DEF Works
    <3>4. ASSUME q'.auto = {}
          PROVE  Stage(q', run'[p])
      <4>1. Steady(q) /\ Stage(q, run[p])
        BY <3>4 DEF WorkflowInv, SteadyInv
      <4>2. Status_(q', c) = Status_(q, c)
        BY <3>2, <3>4, <4>1 DEF KeepsEnds
      <4> QED BY <2>1, <3>1, <4>1, <4>2 DEF Stage, Ended
    <3> QED BY <3>3, <3>4
  <2> QED BY <2>2, <2>3
<1>2. \A p \in Runners : Works(q', run'[p], lost')
  BY <1>1
<1>3. ASSUME NEW p \in Runners, NEW n \in Runners, Busy(run'[p]), Busy(run'[n]),
             run'[p].job = run'[n].job
      PROVE  p = n
  BY <1>3 DEF WorkflowInv, RunsInv
<1>4. RunsInv'
  BY <1>2, <1>3 DEF RunsInv, Works, Busy, Held
<1>5. ASSUME q'.auto = {}
      PROVE  Steady(q') /\ \A p \in Runners : Stage(q', run'[p])
  <2>1. Steady(q')
    BY <1>5 DEF WorkflowInv, SteadyInv
  <2> QED BY <1>1, <1>5, <2>1
<1>6. SteadyInv'
  BY <1>5 DEF SteadyInv
<1> QED BY <1>4, <1>6

(* A step that publishes nothing. *)
LEMMA MoveKeeps ==
  ASSUME WorkflowInv, NEW C, Moves(q, q', Writing', C),
         UNCHANGED <<committed, site, shown>>, interrupts' = 0 => interrupts = 0,
         Typed', RunsInv', SteadyInv'
  PROVE  WorkflowInv'
<1>1. QueueInv(q', Writing') /\ Settles(q, q')
  BY DEF Moves
<1>2. QueueInv(q, Writing)'
  BY <1>1 DEF QueueInv, FilesInv, OvertakenInv, WritingInv
<1>3. committed \subseteq q.planned \ q.journal /\ committed \subseteq Groups
  BY DEF WorkflowInv, Typed, QueueInv, FilesInv
<1>4. (committed \subseteq q.planned)'
  BY <1>1, <1>3 DEF Settles
<1>5. ASSUME NEW g \in shown
      PROVE  /\ g \in q'.planned \ q'.journal
             /\ \A c \in Kids(g) : Status_(q', c) = "Success"
             /\ interrupts' = 0 => g \in committed /\ q'.parent[g] # "Cancelled"
  <2>1. g \in Groups
    BY DEF WorkflowInv, Typed
  <2> QED BY <1>1, <2>1 DEF WorkflowInv, ShownInv, Settles
<1>6. ShownInv'
  BY <1>5 DEF ShownInv
<1> QED BY <1>2, <1>4, <1>6 DEF WorkflowInv

(* A step of no runner that publishes nothing, on claims that no runner    *)
(* works on.                                                               *)
LEMMA FilesStep ==
  ASSUME WorkflowInv, NEW C, Moves(q, q', Writing, C),
         \A r \in Runners : Busy(run[r]) => run[r].job \notin C,
         lost' \subseteq lost \ C,
         UNCHANGED <<committed, site, shown, run, crashes>>,
         interrupts' \in {interrupts, interrupts + 1} \cap (0 .. MaxInterrupts)
  PROVE  WorkflowInv'
<1>1. Writing' = Writing
  BY DEF Writing
<1>2. Typed'
  BY DEF WorkflowInv, Typed
<1>3. interrupts' = 0 => interrupts = 0
  BY DEF WorkflowInv, Typed
<1>4. \A c \in Children : c \notin C => (Held(q', c) <=> Held(q, c))
  BY DEF Moves, Held
<1>5. RunsInv'
  <2>1. \A c \in lost' : Held(q', c)
    BY <1>4 DEF WorkflowInv, Typed, RunsInv
  <2>2. ASSUME NEW r \in Runners PROVE Works(q', run'[r], lost')
    BY <1>4 DEF WorkflowInv, RunsInv, Works
  <2>3. \A r, p \in Runners :
          Busy(run'[r]) /\ Busy(run'[p]) /\ run'[r].job = run'[p].job => r = p
    BY DEF WorkflowInv, RunsInv
  <2> QED BY <2>1, <2>2, <2>3 DEF RunsInv, Works, Busy, Held
<1>6. SteadyInv'
  <2>1. SUFFICES ASSUME q'.auto = {}
                 PROVE  Steady(q') /\ \A r \in Runners : Stage(q', run[r])
    BY DEF SteadyInv
  <2>2. /\ Steady(q) /\ Steady(q') /\ KeepsEnds(q, q', C)
        /\ \A r \in Runners : Stage(q, run[r]) /\ Works(q, run[r], lost)
    BY <2>1 DEF WorkflowInv, SteadyInv, RunsInv, Moves
  <2>3. ASSUME NEW r \in Runners PROVE Stage(q', run[r])
    <3>1. CASE Busy(run[r])
      <4>1. run[r].job \in Children \ C /\ Held(q, run[r].job)
        BY <2>2, <3>1 DEF Works
      <4>2. Status_(q', run[r].job) = Status_(q, run[r].job)
        BY <2>2, <4>1 DEF KeepsEnds
      <4> QED BY <2>2, <4>2 DEF Stage, Ended
    <3>2. CASE ~Busy(run[r])
      BY <3>2 DEF Busy, Stage
    <3> QED BY <3>1, <3>2
  <2> QED BY <2>2, <2>3
<1> QED BY <1>1, <1>2, <1>3, <1>5, <1>6, MoveKeeps

LEMMA QueueStep ==
  ASSUME WorkflowInv, Moves(q, q', Writing, {}),
         UNCHANGED <<committed, site, shown, run, lost, crashes>>,
         interrupts' \in {interrupts, interrupts + 1} \cap (0 .. MaxInterrupts)
  PROVE  WorkflowInv'
<1>1. lost' \subseteq lost \ {}
  OBVIOUS
<1> QED BY <1>1, FilesStep

(* A runner's step to x that claims or releases only C, beside the queue's *)
(* files.                                                                  *)
Turns(r, x, C) ==
  /\ UNCHANGED <<committed, site, shown, interrupts>>
  /\ crashes' \in 0 .. MaxCrashes
  /\ x \in RunState /\ run' = [run EXCEPT ![r] = x]
  /\ lost' \subseteq Children /\ \A c \in lost' : Held(q', c)
  /\ \A p \in Runners : p # r /\ Busy(run[p]) =>
       /\ run[p].job \notin C \cup (lost' \ lost)
       /\ Busy(x) => run[p].job # x.job
  /\ Works(q', x, lost')
  /\ q'.auto = {} /\ Steady(q') => Stage(q', x)

LEMMA RunnerStep ==
  ASSUME WorkflowInv, NEW r \in Runners, NEW C, NEW x,
         Moves(q, q', Writing', C), Turns(r, x, C)
  PROVE  WorkflowInv'
<1>1. /\ UNCHANGED <<committed, site, shown, interrupts>>
      /\ crashes' \in 0 .. MaxCrashes
      /\ x \in RunState /\ run' = [run EXCEPT ![r] = x]
      /\ lost' \subseteq Children
  BY DEF Turns
<1>2. /\ \A c \in lost' : Held(q', c)
      /\ \A p \in Runners : p # r /\ Busy(run[p]) =>
           /\ run[p].job \notin C \cup (lost' \ lost)
           /\ Busy(x) => run[p].job # x.job
      /\ Works(q', x, lost')
      /\ q'.auto = {} /\ Steady(q') => Stage(q', x)
  BY DEF Turns
<1>3. run' \in [Runners -> RunState] /\ run'[r] = x
      /\ \A p \in Runners : p # r => run'[p] = run[p]
  BY <1>1 DEF WorkflowInv, Typed
<1>4. Typed'
  BY <1>1, <1>3 DEF WorkflowInv, Typed
<1>5. /\ q'.auto = q.auto
      /\ \A c \in Children : c \notin C => q'.working[c] = q.working[c]
      /\ q.auto = {} /\ Steady(q) => Steady(q') /\ KeepsEnds(q, q', C)
  BY DEF Moves
<1>6. RunsInv' /\ SteadyInv'
  BY <1>2, <1>3, <1>5, RunnersKept
<1> QED BY <1>1, <1>4, <1>6, MoveKeeps

(* What a busy runner holds. *)
LEMMA BusyFacts ==
  ASSUME WorkflowInv, NEW r \in Runners, Busy(run[r]), NEW c, c = run[r].job
  PROVE  /\ c \in Children \ lost /\ Held(q, c) /\ run[r] \in RunState
         /\ run[r].attempt \in Nat /\ run[r].attempt > 0
         /\ run[r].pc = "commit" => run[r].result \in Terminal
         /\ \A p \in Runners : p # r /\ Busy(run[p]) => run[p].job # c
         /\ run[r].pc \in {"claimed", "running", "commit"} => c \in Writing
         /\ q.auto = {} => Stage(q, run[r])
         /\ QueueInv(q, Writing)
<1>1. run[r] \in RunState /\ Works(q, run[r], lost)
  BY DEF WorkflowInv, Typed, RunsInv
<1>2. run[r].attempt \in Nat
  BY <1>1 DEF RunState
<1>3. \A p \in Runners : p # r /\ Busy(run[p]) => run[p].job # c
  BY DEF WorkflowInv, RunsInv
<1>4. q.auto = {} => Stage(q, run[r])
  BY DEF WorkflowInv, SteadyInv
<1> QED BY <1>1, <1>2, <1>3, <1>4 DEF Works, Writing, WorkflowInv

(* The writing runners, when r turns to x. *)
Writer(x) == x.pc \in {"claimed", "running", "commit"}

WrittenBy(R, f) == {c \in Children : \E p \in R : Writer(f[p]) /\ f[p].job = c}

LEMMA WritingIs ==
  /\ Writing = WrittenBy(Runners, run)
  /\ Writing' = WrittenBy(Runners, run')
  BY DEF Writing, WrittenBy, Writer

LEMMA OthersIs ==
  ASSUME WorkflowInv, NEW r \in Runners, NEW x, run' = [run EXCEPT ![r] = x]
  PROVE  /\ run'[r] = x /\ \A p \in Runners : p # r => run'[p] = run[p]
         /\ \A p \in Runners : p # r /\ Writer(run[p]) /\ Busy(run[r]) =>
              run[p].job # run[r].job
  BY DEF WorkflowInv, Typed, RunsInv, Busy, Writer

LEMMA WritingBegins ==
  ASSUME WorkflowInv, NEW r \in Runners, NEW x, run' = [run EXCEPT ![r] = x],
         ~Busy(run[r]), Writer(x), NEW c \in Children, x.job = c
  PROVE  Writing' = Writing \cup {c}
<1>1. ~Writer(run[r])
  BY DEF Writer, Busy
<1>2. run'[r] = x /\ \A p \in Runners : p # r => run'[p] = run[p]
  BY OthersIs
<1>3. WrittenBy(Runners, run') = WrittenBy(Runners, run) \cup {c}
  BY <1>1, <1>2 DEF WrittenBy
<1> QED BY <1>3, WritingIs

LEMMA WritingStays ==
  ASSUME WorkflowInv, NEW r \in Runners, NEW x, run' = [run EXCEPT ![r] = x],
         Writer(run[r]), Writer(x), x.job = run[r].job
  PROVE  Writing' = Writing
<1>1. run'[r] = x /\ \A p \in Runners : p # r => run'[p] = run[p]
  BY OthersIs
<1>2. WrittenBy(Runners, run') = WrittenBy(Runners, run)
  BY <1>1 DEF WrittenBy
<1> QED BY <1>2, WritingIs

LEMMA WritingEnds ==
  ASSUME WorkflowInv, NEW r \in Runners, NEW x, run' = [run EXCEPT ![r] = x],
         Busy(run[r]), ~Writer(x), NEW c, c = run[r].job
  PROVE  Writing' = Writing \ {c}
<1>1. run'[r] = x /\ \A p \in Runners : p # r => run'[p] = run[p]
  BY OthersIs
<1>2. \A p \in Runners : p # r /\ Writer(run[p]) => run[p].job # c
  BY OthersIs
<1>3. WrittenBy(Runners, run') = WrittenBy(Runners, run) \ {c}
  BY <1>1, <1>2 DEF WrittenBy
<1> QED BY <1>3, WritingIs

-----------------------------------------------------------------------------
(* The operations of the specification. *)

LEMMA EnqueueStep ==
  ASSUME WorkflowInv, NEW g \in Groups,
         enqueueCiWorkflowJobs(g) \/ enqueueInterrupted(g)
  PROVE  Moves(q, q', Writing, {}) /\ WorkflowInv'
<1>1. QueueInv(q, Writing) /\ g \notin q.journal \cup q.planned /\ g \notin committed
  BY DEF WorkflowInv, enqueueCiWorkflowJobs, enqueueInterrupted
<1>2. Moves(q, q', Writing, {})
  <2>1. CASE enqueueCiWorkflowJobs(g)
    BY <1>1, <2>1, EnqueueMoves DEF enqueueCiWorkflowJobs
  <2>2. CASE enqueueInterrupted(g)
    BY <1>1, <2>2, JournalMoves DEF enqueueInterrupted
  <2> QED BY <2>1, <2>2
<1>3. UNCHANGED <<committed, site, shown, run, lost, crashes>>
  BY DEF enqueueCiWorkflowJobs, enqueueInterrupted
<1>4. interrupts' \in {interrupts, interrupts + 1} \cap (0 .. MaxInterrupts)
  BY WorkflowAssumption
     DEF WorkflowInv, Typed, enqueueCiWorkflowJobs, enqueueInterrupted
<1> QED BY <1>2, <1>3, <1>4, QueueStep

LEMMA CancelStep ==
  ASSUME WorkflowInv, NEW x \in Cancellable, requestCiCancel(x)
  PROVE  Moves(q, q', Writing, {}) /\ WorkflowInv'
<1>1. QueueInv(q, Writing) /\ x \in Groups \cup Children
  BY WorkflowAssumption DEF WorkflowInv
<1>2. Moves(q, q', Writing, {})
  BY <1>1, MarkMoves DEF requestCiCancel
<1>3. UNCHANGED <<committed, site, shown, run, lost, crashes, interrupts>>
  BY DEF requestCiCancel
<1>4. interrupts' \in {interrupts, interrupts + 1} \cap (0 .. MaxInterrupts)
  BY <1>3 DEF WorkflowInv, Typed
<1> QED BY <1>2, <1>3, <1>4, QueueStep

(* A publication, or the reconciliation that found nothing to publish. *)
Finalizes(g, s, t) ==
  \/ t = s /\ UNCHANGED <<committed, site, shown>>
  \/ \E end \in Terminal :
       /\ Ready(s, g)
       /\ end = "Success" => g \notin s.cancel /\ s.parent[g] = "Success"
       /\ t = s \/ ParentWritten(s, t, g, end)
       /\ site' \in {site, g}
       /\ shown' = IF end = "Success" THEN shown \cup {g} ELSE shown
       /\ \/ committed' = committed \cup {g} /\ ParentWritten(s, t, g, end)
          \/ committed' = committed /\ interrupts' # 0

LEMMA PublishIs ==
  ASSUME NEW s \in QueueFiles, NEW g \in Groups, Ready(s, g),
         NEW collected, NEW done, Publish(s, g, collected, done),
         done = "all" \/ interrupts' # 0
  PROVE  Finalizes(g, s, q')
<1> PICK end : end = EndOf(s, g, collected)
  OBVIOUS
<1>1. end \in Terminal /\ (end = "Success" => g \notin s.cancel /\ s.parent[g] = "Success")
  BY EndOfIs DEF Ready, listCiUnpublishedWorkflows
<1>2. /\ site' = IF end = "Success" /\ site <= g THEN g ELSE site
      /\ shown' = IF end = "Success" THEN shown \cup {g} ELSE shown
      /\ q' = IF done = "site" THEN s
              ELSE [s EXCEPT !.parent[g] = end, !.cancel = @ \ {g}]
      /\ committed' = IF done = "all" THEN committed \cup {g} ELSE committed
  BY DEF Publish
<1>3. ASSUME done # "site" PROVE ParentWritten(s, q', g, end)
  <2>1. end \in Status
    BY <1>1 DEF Status
  <2>2. q' = [s EXCEPT !.parent[g] = end, !.cancel = @ \ {g}]
    BY <1>2, <1>3
  <2> QED BY <2>1, <2>2, ParentRecord, Zenon
<1>4. done = "site" => q' = s
  BY <1>2
<1>5. /\ q' = s \/ ParentWritten(s, q', g, end)
      /\ \/ committed' = committed \cup {g} /\ ParentWritten(s, q', g, end)
         \/ committed' = committed /\ interrupts' # 0
  BY <1>2, <1>3, <1>4
<1>6. site' \in {site, g}
  BY <1>2
<1>7. shown' = IF end = "Success" THEN shown \cup {g} ELSE shown
  BY <1>2
<1> QED BY <1>1, <1>5, <1>6, <1>7 DEF Finalizes

(* What follows from a publication. *)
Finalized ==
  /\ QueueInv(q', Writing) /\ committed' \cap q'.journal = {}
  /\ committed' \subseteq q'.planned /\ ShownInv'
  /\ q'.auto = q.auto /\ q'.working = q.working
  /\ q.auto = {} /\ Steady(q) => Steady(q') /\ KeepsEnds(q, q', {})
  /\ site' \in Groups \cup {0} /\ committed' \subseteq Groups
  /\ shown' \subseteq Groups

LEMMA FinalizeKeeps ==
  ASSUME WorkflowInv, NEW g \in Groups,
         Finalizes(g, reconcileWorkflowGroups(q), q'), interrupts' = 0 => interrupts = 0
  PROVE  Finalized
<1> PICK s : s = reconcileWorkflowGroups(q)
  OBVIOUS
<1>1. /\ Moves(q, s, Writing, {}) /\ QueueInv(s, Writing) /\ Settles(q, s)
      /\ s.auto = q.auto /\ s.working = q.working
      /\ q.auto = {} /\ Steady(q) => Steady(s) /\ KeepsEnds(q, s, {})
  <2>1. QueueInv(q, Writing)
    BY DEF WorkflowInv
  <2>2. Moves(q, s, Writing, {})
    BY <2>1, ReconcileMoves
  <2>3. s.working = q.working
    BY <2>1, ReconcileKeeps DEF Onward
  <2> QED BY <2>2, <2>3 DEF Moves
<1>2. /\ committed \subseteq Groups /\ shown \subseteq Groups
      /\ committed \subseteq q.planned \ q.journal /\ site \in Groups \cup {0}
  BY DEF WorkflowInv, Typed, QueueInv, FilesInv
<1>3. committed \subseteq s.planned \ s.journal
  BY <1>1, <1>2 DEF Settles
<1>4. \A p \in shown :
        /\ p \in Groups /\ p \in s.planned \ s.journal
        /\ \A c \in Kids(p) : Status_(s, c) = "Success"
        /\ interrupts' = 0 => p \in committed /\ s.parent[p] # "Cancelled"
  BY <1>1, <1>2 DEF WorkflowInv, ShownInv, Settles
<1>5. CASE q' = s /\ UNCHANGED <<committed, site, shown>>
  <2>1. ShownInv'
    BY <1>4, <1>5 DEF ShownInv
  <2> QED BY <1>1, <1>2, <1>3, <1>5, <2>1 DEF Finalized
<1>6. CASE ~(q' = s /\ UNCHANGED <<committed, site, shown>>)
  <2>1. PICK end \in Terminal :
          /\ Ready(s, g)
          /\ end = "Success" => g \notin s.cancel /\ s.parent[g] = "Success"
          /\ q' = s \/ ParentWritten(s, q', g, end)
          /\ site' \in {site, g}
          /\ shown' = IF end = "Success" THEN shown \cup {g} ELSE shown
          /\ \/ committed' = committed \cup {g} /\ ParentWritten(s, q', g, end)
             \/ committed' = committed /\ interrupts' # 0
    BY <1>6, Zenon DEF Finalizes
  <2>2. /\ QueueInv(q', Writing) /\ PublishedParent(s, q', g)
        /\ g \in q'.planned \ q'.journal
        /\ end = "Success" => \A c \in Kids(g) : Status_(q', c) = "Success"
        /\ Steady(s) => Steady(q')
    <3>1. /\ QueueInv(s, Writing) /\ Ready(s, g)
          /\ end = "Success" => g \notin s.cancel /\ s.parent[g] = "Success"
          /\ q' = s \/ ParentWritten(s, q', g, end)
      BY <1>1, <2>1
    <3> QED BY <3>1, PublishKeeps
  <2>3. /\ q'.rec = s.rec /\ q'.working = s.working
        /\ q'.auto = s.auto /\ q'.journal = s.journal /\ q'.planned = s.planned
        /\ \A p \in Groups : p # g => q'.parent[p] = s.parent[p]
    BY <2>2 DEF PublishedParent
  <2>4. g \notin committed
    BY <2>1 DEF Ready, listCiUnpublishedWorkflows
  <2>5. ASSUME NEW p \in shown'
        PROVE  /\ p \in q'.planned \ q'.journal
               /\ \A c \in Kids(p) : Status_(q', c) = "Success"
               /\ interrupts' = 0 => p \in committed' /\ q'.parent[p] # "Cancelled"
    <3>1. CASE p \in shown
      <4>1. interrupts' = 0 => p \in committed /\ p # g
        BY <1>4, <2>4, <3>1
      <4> QED BY <1>4, <2>1, <2>3, <3>1, <4>1 DEF Status_
    <3>2. CASE p \notin shown
      <4>1. p = g /\ end = "Success"
        BY <2>1, <3>2
      <4>2. interrupts' = 0 => p \in committed' /\ q'.parent[p] = "Success"
        BY <2>1, <4>1 DEF ParentWritten
      <4> QED BY <2>2, <4>1, <4>2
    <3> QED BY <3>1, <3>2
  <2>6. ShownInv'
    BY <2>5 DEF ShownInv
  <2>7. committed' \subseteq committed \cup {g} /\ shown' \subseteq shown \cup {g}
    BY <2>1
  <2>8. KeepsEnds(q, s, {}) => KeepsEnds(q, q', {})
    BY <2>3 DEF KeepsEnds, Status_
  <2>9. /\ committed' \cap q'.journal = {} /\ committed' \subseteq q'.planned
        /\ committed' \subseteq Groups /\ shown' \subseteq Groups
        /\ site' \in Groups \cup {0}
    BY <1>2, <1>3, <2>1, <2>2, <2>3, <2>7
  <2> QED BY <1>1, <2>2, <2>3, <2>6, <2>8, <2>9 DEF Finalized
<1> QED BY <1>5, <1>6

(* The runners' part, when r goes on or nobody does. *)
LEMMA FinalizedInv ==
  ASSUME WorkflowInv, Finalized, Writing' = Writing,
         run' \in [Runners -> RunState], lost' = lost,
         crashes' = crashes, interrupts' \in 0 .. MaxInterrupts,
         NEW r, \A p \in Runners : p # r => run'[p] = run[p],
         r \in Runners /\ run'[r] # run[r] =>
           /\ Busy(run[r]) /\ run[r].pc = "finalize"
           /\ run'[r].pc \in {"release", "releaseJob"} /\ run'[r].job = run[r].job
           /\ run'[r].attempt = run[r].attempt
  PROVE  WorkflowInv'
<1>1. Typed'
  BY DEF WorkflowInv, Typed, Finalized
<1>2. QueueInv(q, Writing)'
  BY DEF Finalized, QueueInv, FilesInv, OvertakenInv, WritingInv
<1>3. \A c \in Children : Held(q', c) <=> Held(q, c)
  BY DEF Finalized, Held
<1>4. ASSUME NEW p \in Runners
      PROVE  /\ Busy(run'[p]) <=> Busy(run[p])
             /\ run'[p].job = run[p].job
             /\ Works(q', run'[p], lost')
             /\ \/ run'[p].pc = run[p].pc
                \/ run[p].pc = "finalize" /\ run'[p].pc \in {"release", "releaseJob"}
  <2>1. Works(q, run[p], lost)
    BY DEF WorkflowInv, RunsInv
  <2>2. CASE run'[p] = run[p]
    BY <1>3, <2>1, <2>2 DEF Works
  <2>3. CASE run'[p] # run[p]
    <3>1. p = r
      BY <2>3
    <3>2. /\ Busy(run[p]) /\ run[p].pc = "finalize"
          /\ run'[p].pc \in {"release", "releaseJob"} /\ run'[p].job = run[p].job
          /\ run'[p].attempt = run[p].attempt
      BY <2>3, <3>1
    <3>3. Busy(run'[p]) /\ run'[p].pc # "commit"
      BY <3>2 DEF Busy
    <3> QED BY <1>3, <2>1, <3>2, <3>3 DEF Works
  <2> QED BY <2>2, <2>3
<1>5. RunsInv'
  <2>1. \A c \in lost' : Held(q', c)
    BY <1>3 DEF WorkflowInv, RunsInv, Typed
  <2>2. \A p, n \in Runners :
          Busy(run'[p]) /\ Busy(run'[n]) /\ run'[p].job = run'[n].job => p = n
    BY <1>4 DEF WorkflowInv, RunsInv
  <2> QED BY <1>4, <2>1, <2>2 DEF RunsInv, Works, Busy, Held
<1>6. SteadyInv'
  <2>1. SUFFICES ASSUME q'.auto = {}
                 PROVE  Steady(q') /\ \A p \in Runners : Stage(q', run'[p])
    BY DEF SteadyInv
  <2>2. /\ Steady(q) /\ Steady(q') /\ KeepsEnds(q, q', {})
        /\ \A p \in Runners : Stage(q, run[p]) /\ Works(q, run[p], lost)
    BY <2>1 DEF WorkflowInv, SteadyInv, RunsInv, Finalized
  <2>3. ASSUME NEW p \in Runners PROVE Stage(q', run'[p])
    <3>1. CASE Busy(run[p])
      <4>1. run[p].job \in Children /\ Held(q, run[p].job)
        BY <2>2, <3>1 DEF Works
      <4>2. Status_(q', run[p].job) = Status_(q, run[p].job)
        BY <2>2, <4>1 DEF KeepsEnds
      <4>3. Stage(q', run[p])
        BY <2>2, <4>2 DEF Stage, Ended
      <4> QED BY <1>4, <4>3 DEF Stage
    <3>2. CASE ~Busy(run[p])
      BY <1>4, <3>2 DEF Busy, Stage
    <3> QED BY <3>1, <3>2
  <2> QED BY <2>2, <2>3
<1> QED BY <1>1, <1>2, <1>5, <1>6 DEF WorkflowInv, Finalized

(* finalizeCiWorkflowResults publishes or leaves the groups refreshed. *)
LEMMA FinalizeIs ==
  ASSUME WorkflowInv, NEW g \in Groups, NEW collected,
         finalizeCiWorkflowResults(g, collected)
  PROVE  Finalizes(g, reconcileWorkflowGroups(q), q')
<1> PICK s : s = reconcileWorkflowGroups(q)
  OBVIOUS
<1>1. s \in QueueFiles
  BY ReconcileMoves DEF WorkflowInv, Moves, QueueInv, FilesInv
<1>2. CASE Ready(s, g)
  <2>1. Publish(s, g, collected, "all")
    BY <1>2 DEF finalizeCiWorkflowResults
  <2> QED BY <1>1, <1>2, <2>1, PublishIs
<1>3. CASE ~Ready(s, g)
  BY <1>3 DEF finalizeCiWorkflowResults, Finalizes
<1> QED BY <1>2, <1>3

LEMMA RecoverStep ==
  ASSUME WorkflowInv, NEW g \in Groups, NEW collected,
         recoverCiWorkflowResults(g, collected)
  PROVE  Finalized /\ WorkflowInv'
<1>1. finalizeCiWorkflowResults(g, collected)
      /\ UNCHANGED <<run, lost, crashes, interrupts>>
  BY DEF recoverCiWorkflowResults
<1>2. Finalized
  BY <1>1, FinalizeIs, FinalizeKeeps
<1>3. Writing' = Writing
  BY <1>1 DEF Writing
<1>4. run' \in [Runners -> RunState] /\ interrupts' \in 0 .. MaxInterrupts
  BY <1>1 DEF WorkflowInv, Typed
<1> QED BY <1>1, <1>2, <1>3, <1>4, FinalizedInv

LEMMA InterruptedStep ==
  ASSUME WorkflowInv, NEW g \in Groups, NEW done \in {"site", "record"},
         finalizeInterrupted(g, done)
  PROVE  Finalized /\ WorkflowInv'
<1> PICK s : s = reconcileWorkflowGroups(q)
  OBVIOUS
<1>1. /\ Ready(s, g) /\ Publish(s, g, TRUE, done)
      /\ UNCHANGED <<run, lost, crashes>>
      /\ interrupts < MaxInterrupts /\ interrupts' = interrupts + 1
  BY DEF finalizeInterrupted
<1>2. interrupts' \in 0 .. MaxInterrupts /\ interrupts' # 0
  BY <1>1, WorkflowAssumption DEF WorkflowInv, Typed
<1>3. s \in QueueFiles
  BY ReconcileMoves DEF WorkflowInv, Moves, QueueInv, FilesInv
<1>4. Finalizes(g, s, q')
  BY <1>1, <1>2, <1>3, PublishIs
<1>5. Finalized
  BY <1>2, <1>4, FinalizeKeeps
<1>6. Writing' = Writing
  BY <1>1 DEF Writing
<1>7. run' \in [Runners -> RunState]
  BY <1>1 DEF WorkflowInv, Typed
<1> QED BY <1>1, <1>2, <1>5, <1>6, <1>7, FinalizedInv

LEMMA FinalizeStep ==
  ASSUME WorkflowInv, NEW r \in Runners, NEW collected,
         finalizeCiParentForChild(r, collected)
  PROVE  Finalized /\ WorkflowInv'
<1> PICK place \in {"release", "releaseJob"} :
      place = IF run[r].ran THEN "release" ELSE "releaseJob"
  OBVIOUS
<1> PICK x : x = [run[r] EXCEPT !.pc = place]
  OBVIOUS
<1>1. /\ run[r].pc = "finalize"
      /\ finalizeCiWorkflowResults(GroupOf[run[r].job], collected)
      /\ run' = [run EXCEPT ![r].pc = place]
      /\ UNCHANGED <<lost, crashes, interrupts>>
  BY DEF finalizeCiParentForChild
<1>2. Busy(run[r]) /\ run[r] \in RunState /\ run[r].job \in Children
  BY <1>1, BusyFacts DEF Busy
<1>3. run' = [run EXCEPT ![r] = x]
  BY <1>1
<1>4. /\ x \in RunState /\ x.pc = place /\ x.job = run[r].job
      /\ x.attempt = run[r].attempt
  BY <1>2 DEF RunState, Places
<1>5. /\ run' \in [Runners -> RunState] /\ run'[r] = x
      /\ \A p \in Runners : p # r => run'[p] = run[p]
  BY <1>3, <1>4 DEF WorkflowInv, Typed
<1>6. Finalized
  <2>1. GroupOf[run[r].job] \in Groups
    BY <1>2, ConstantsType
  <2> QED BY <1>1, <2>1, FinalizeIs, FinalizeKeeps
<1>7. Writing' = Writing
  BY <1>1, <1>4, <1>5 DEF Writing
<1>8. interrupts' \in 0 .. MaxInterrupts
  BY <1>1 DEF WorkflowInv, Typed
<1> QED BY <1>1, <1>2, <1>4, <1>5, <1>6, <1>7, <1>8, FinalizedInv

(* A claim. *)
Claimer(c, n) == [Idle EXCEPT !.pc = "claimed", !.job = c, !.attempt = n]

LEMMA ClaimerIs ==
  ASSUME NEW c \in Children, NEW n \in Nat, NEW x, x = Claimer(c, n)
  PROVE  /\ x \in RunState /\ x.pc = "claimed" /\ x.job = c /\ x.attempt = n
         /\ Writer(x) /\ Busy(x)
<1>1. Idle = [pc |-> "idle", job |-> 0, attempt |-> 0, result |-> "None",
              ran |-> FALSE]
  BY DEF Idle
<1>2. x = [pc |-> "claimed", job |-> c, attempt |-> n, result |-> "None",
           ran |-> FALSE]
  BY <1>1 DEF Claimer
<1>3. x \in RunState
  <2>1. /\ "claimed" \in Places /\ c \in Children \cup {0} /\ n \in Nat
        /\ "None" \in {"None"} \cup Terminal /\ FALSE \in BOOLEAN
    BY DEF Places
  <2> QED BY <1>2, <2>1 DEF RunState
<1> QED BY <1>2, <1>3 DEF Writer, Busy

LEMMA ClaimStep ==
  ASSUME WorkflowInv, NEW r \in Runners, NEW late, claimCiJob(r, late)
  PROVE  \E C : Moves(q, q', Writing', C) /\ WorkflowInv'
<1> PICK start : start = reconcileWorkflowGroups(q)
  OBVIOUS
<1> PICK x : x = Scan(r, late)
  OBVIOUS
<1> PICK s : s = x.s
  OBVIOUS
<1>1. QueueInv(q, Writing) /\ Moves(q, start, Writing, {})
  BY ReconcileMoves DEF WorkflowInv
<1>2. ScanInv(x, start, Writing)
  BY <1>1, ScanFacts
<1>3. Moves(q, s, Writing, {})
  <2>1. Moves(start, s, Writing, {})
    BY <1>2 DEF ScanInv
  <2>2. Moves(q, s, Writing, {} \cup {})
    BY <1>1, <2>1, MovesTwice
  <2>3. {} \cup {} = {}
    OBVIOUS
  <2> QED BY <2>2, <2>3
<1>4. /\ run[r].pc = "idle"
      /\ UNCHANGED <<committed, site, shown, lost, crashes, interrupts>>
  BY DEF claimCiJob
<1>5. CASE x.got = 0
  <2>1. q' = s /\ UNCHANGED run
    BY <1>5 DEF claimCiJob
  <2>2. Writing' = Writing
    BY <2>1 DEF Writing
  <2>3. interrupts' \in {interrupts, interrupts + 1} \cap (0 .. MaxInterrupts)
    BY <1>4 DEF WorkflowInv, Typed
  <2>4. WorkflowInv'
    BY <1>3, <1>4, <2>1, <2>3, QueueStep
  <2> QED BY <1>3, <2>1, <2>2, <2>4
<1>6. CASE x.got # 0
  <2> PICK c : c = x.got
    OBVIOUS
  <2> PICK t : t = Taken(s, c)
    OBVIOUS
  <2> PICK n : n = s.spool[c]
    OBVIOUS
  <2> PICK y : y = Claimer(c, n)
    OBVIOUS
  <2>1. q' = reconcileWorkflowGroups(t) /\ run' = [run EXCEPT ![r] = y]
    BY <1>6 DEF claimCiJob, Taken, Claimer
  <2>2. MayTake(s, start, c) /\ QueueInv(s, Writing)
    BY <1>2, <1>3, <1>6 DEF ScanInv, Moves
  <2>3. /\ Moves(s, t, Writing \cup {c}, {c}) /\ t.rec = s.rec
        /\ Held(t, c) /\ ~Held(s, c) /\ t.working[c] = s.spool[c]
    <3>1. /\ c \in Children /\ Queued(s, c) /\ ~CancelRequested(s, c)
          /\ ~Failed(s, c) /\ ~Waiting(s, c)
      BY <2>2 DEF MayTake
    <3>2. Claimed(s, t, c, Writing)
      BY <2>2, <3>1, Claim
    <3> QED BY <3>2 DEF Claimed
  <2>4. /\ Moves(t, q', Writing \cup {c}, {}) /\ q'.working = t.working
        /\ q'.auto = {} /\ Steady(t) => KeepsRecords(t, q')
    <3>1. QueueInv(t, Writing \cup {c})
      BY <2>3 DEF Moves
    <3>2. Moves(t, q', Writing \cup {c}, {})
      BY <2>1, <3>1, ReconcileMoves
    <3>3. /\ Onward(t, q')
          /\ t.auto = {} /\ Steady(t) => Steady(q') /\ KeepsRecords(t, q')
      BY <2>1, <3>1, ReconcileKeeps
    <3>4. q'.working = t.working /\ q'.auto = t.auto
      BY <3>3 DEF Onward
    <3> QED BY <3>2, <3>3, <3>4
  <2>5. Moves(q, q', Writing \cup {c}, {c})
    <3>1. Moves(q, t, Writing \cup {c}, {} \cup {c})
      BY <1>3, <2>3, MovesTwice
    <3>2. Moves(q, q', Writing \cup {c}, ({} \cup {c}) \cup {})
      BY <2>4, <3>1, MovesTwice
    <3>3. ({} \cup {c}) \cup {} = {c}
      OBVIOUS
    <3> QED BY <3>2, <3>3
  <2>6. c \in Children /\ n \in Nat /\ n > 0 /\ Queued(s, c)
    BY <2>2, Fields DEF MayTake, Queued, QueueInv, FilesInv
  <2>8. /\ y \in RunState /\ y.pc = "claimed" /\ y.job = c /\ y.attempt = n
        /\ Writer(y) /\ Busy(y)
    BY <2>6, ClaimerIs
  <2>9. Writing' = Writing \cup {c}
    <3>1. ~Busy(run[r])
      BY <1>4 DEF Busy
    <3>2. run' = [run EXCEPT ![r] = y] /\ Writer(y) /\ c \in Children /\ y.job = c
      BY <2>1, <2>6, <2>8
    <3> QED BY <3>1, <3>2, WritingBegins
  <2>10. ~Held(q, c)
    <3>1. s.working[c] = q.working[c]
      BY <1>3, <2>6 DEF Moves
    <3> QED BY <2>3, <3>1 DEF Held
  <2>11. \A p \in Runners : Busy(run[p]) => run[p].job # c
    BY <2>10 DEF WorkflowInv, RunsInv, Works
  <2>12. c \notin lost /\ lost \subseteq Children
    BY <2>10 DEF WorkflowInv, RunsInv, Typed
  <2>13. Held(q', c)
    BY <2>3, <2>4 DEF Held
  <2>14. \A k \in lost' : Held(q', k)
    <3>1. \A k \in lost : Held(q, k) /\ k \in Children /\ k # c
      BY <2>12 DEF WorkflowInv, RunsInv
    <3> QED BY <1>4, <2>5, <3>1 DEF Moves, Held
  <2>15. Works(q', y, lost')
    BY <1>4, <2>6, <2>8, <2>12, <2>13 DEF Works
  <2>16. ASSUME q'.auto = {}, Steady(q')
         PROVE  Stage(q', y)
    <3>1. q.auto = {} /\ Steady(q)
      BY <2>5, <2>16 DEF Moves, WorkflowInv, SteadyInv
    <3>2. s.auto = {} /\ Steady(s) /\ Steady(t)
      BY <1>3, <2>3, <3>1 DEF Moves
    <3>3. Status_(s, c) = "Pending"
      BY <2>6, <3>2 DEF Steady, SteadyChild
    <3>4. q'.rec[c] = t.rec[c]
      BY <2>3, <2>4, <2>6, <2>16, <3>2 DEF KeepsRecords
    <3> QED BY <2>3, <2>8, <3>3, <3>4 DEF Stage, Status_
  <2>17. crashes' \in 0 .. MaxCrashes
    BY <1>4 DEF WorkflowInv, Typed
  <2>18. \A p \in Runners : p # r /\ Busy(run[p]) =>
           /\ run[p].job \notin {c} \cup (lost' \ lost)
           /\ Busy(y) => run[p].job # y.job
    BY <1>4, <2>8, <2>11
  <2>19. WorkflowInv'
    <3>1. lost' \subseteq Children /\ run' = [run EXCEPT ![r] = y]
      BY <1>4, <2>1, <2>12
    <3>2. Turns(r, y, {c})
      BY <1>4, <2>8, <2>14, <2>15, <2>16, <2>17, <2>18, <3>1 DEF Turns
    <3>3. Moves(q, q', Writing', {c})
      BY <2>5, <2>9
    <3> QED BY <3>2, <3>3, RunnerStep
  <2> QED BY <2>5, <2>9, <2>19
<1> QED BY <1>5, <1>6

-----------------------------------------------------------------------------
(* The steps of a busy runner. *)

(* Fewer runners write. *)
LEMMA LessWriting ==
  ASSUME NEW s, NEW W, QueueInv(s, W), NEW V, V \subseteq W, NEW C
  PROVE  Moves(s, s, V, C)
<1>1. WritingInv(s, V)
  BY DEF QueueInv, WritingInv
<1> QED BY <1>1 DEF Moves, QueueInv, Settles, KeepsEnds

(* Runner r goes on with its child c, or is idle again; c may be lost. *)
Goes(r, x, c) ==
  /\ x \in RunState /\ run' = [run EXCEPT ![r] = x]
  /\ Busy(x) => /\ x.job = c /\ x.attempt = run[r].attempt
                /\ x.pc = "commit" => x.result \in Terminal
  /\ UNCHANGED <<committed, site, shown, interrupts>>
  /\ crashes' \in 0 .. MaxCrashes
  /\ \/ lost' = lost
     \/ lost' = lost \cup {c} /\ ~Busy(x) /\ Held(q', c)
  /\ Busy(x) => Held(q', c)

LEMMA GoesOn ==
  ASSUME WorkflowInv, NEW r \in Runners, Busy(run[r]),
         NEW c, c = run[r].job, NEW x, Goes(r, x, c),
         Moves(q, q', Writing', {c}),
         q'.auto = {} /\ Steady(q') => Stage(q', x)
  PROVE  WorkflowInv'
<1>1. /\ c \in Children \ lost /\ run[r].attempt > 0
      /\ \A p \in Runners : p # r /\ Busy(run[p]) => run[p].job # c
  BY BusyFacts
<1>2. /\ x \in RunState /\ run' = [run EXCEPT ![r] = x]
      /\ UNCHANGED <<committed, site, shown, interrupts>>
      /\ crashes' \in 0 .. MaxCrashes
      /\ lost' \subseteq lost \cup {c}
  BY DEF Goes
<1>3. Busy(x) => /\ x.job = c /\ x.attempt = run[r].attempt
                 /\ x.pc = "commit" => x.result \in Terminal
                 /\ Held(q', c) /\ lost' = lost
  BY DEF Goes
<1>4. Works(q', x, lost')
  BY <1>1, <1>3 DEF Works
<1>5. lost \subseteq Children /\ \A k \in lost : Held(q, k) /\ k # c
  BY <1>1 DEF WorkflowInv, Typed, RunsInv
<1>6. \A k \in lost : Held(q', k)
  BY <1>5 DEF Moves, Held
<1>7. c \in lost' => Held(q', c)
  BY <1>5 DEF Goes
<1>8. lost' \subseteq Children /\ \A k \in lost' : Held(q', k)
  BY <1>1, <1>2, <1>5, <1>6, <1>7
<1>9. \A p \in Runners : p # r /\ Busy(run[p]) =>
        /\ run[p].job \notin {c} \cup (lost' \ lost)
        /\ Busy(x) => run[p].job # x.job
  BY <1>1, <1>2, <1>3
<1>10. Turns(r, x, {c})
  BY <1>2, <1>4, <1>8, <1>9 DEF Turns
<1> QED BY <1>10, RunnerStep

(* A runner's next place. *)
At(x, pc) == [x EXCEPT !.pc = pc]

LEMMA AtIs ==
  ASSUME NEW x \in RunState, NEW pc \in Places
  PROVE  /\ At(x, pc) \in RunState /\ At(x, pc).pc = pc
         /\ At(x, pc).job = x.job /\ At(x, pc).attempt = x.attempt
         /\ At(x, pc).result = x.result
  BY DEF At, RunState

LEMMA OutcomeStep ==
  ASSUME WorkflowInv, NEW r \in Runners, NEW st \in {"Cancelled", "Error"},
         recordCiOutcome(r, st)
  PROVE  Moves(q, q', Writing', {run[r].job}) /\ WorkflowInv'
<1> PICK c : c = run[r].job
  OBVIOUS
<1> PICK n : n = run[r].attempt
  OBVIOUS
<1> PICK pc \in {"release", "finalize"} :
      pc = IF r = Primary THEN "release" ELSE "finalize"
  OBVIOUS
<1> PICK x : x = At(run[r], pc)
  OBVIOUS
<1>1. run[r].pc = "claimed" /\ Busy(run[r])
  BY DEF recordCiOutcome, Busy
<1>2. /\ q' = EndWritten(q, c, st, n) /\ run' = [run EXCEPT ![r] = x]
      /\ UNCHANGED <<committed, site, shown, lost, crashes, interrupts>>
  BY DEF recordCiOutcome, EndWritten, At
<1>3. /\ c \in Children \ lost /\ Held(q, c) /\ run[r] \in RunState
      /\ n \in Nat /\ n > 0 /\ c \in Writing /\ QueueInv(q, Writing)
      /\ q.auto = {} => Stage(q, run[r])
  BY <1>1, BusyFacts
<1>4. x \in RunState /\ x.pc = pc /\ x.job = c /\ x.attempt = n
  <2>1. pc \in Places
    BY DEF Places
  <2> QED BY <1>3, <2>1, AtIs
<1>5. q.auto = {} => ~Ended(q, c)
  BY <1>1, <1>3 DEF Stage, Ended
<1>6. Moves(q, q', Writing \ {c}, {c}) /\ Status_(q', c) = st /\ q'.working = q.working
  <2> PICK V : V = Writing \ {c}
    OBVIOUS
  <2>1. st \in Terminal
    OBVIOUS
  <2>2. StatusWritten(q, q', c, st, V)
    BY <1>2, <1>3, <1>5, <2>1, WriteEnd
  <2> QED BY <2>2 DEF StatusWritten
<1>7. Writing' = Writing \ {c}
  <2>1. ~Writer(x)
    BY <1>4 DEF Writer
  <2> QED BY <1>1, <1>2, <2>1, WritingEnds
<1>8. Goes(r, x, c)
  BY <1>2, <1>3, <1>4, <1>6 DEF Goes, Held, WorkflowInv, Typed
<1>9. Stage(q', x)
  BY <1>4, <1>6 DEF Stage, Ended
<1>10. Moves(q, q', Writing', {c})
  BY <1>6, <1>7
<1> QED BY <1>1, <1>8, <1>9, <1>10, GoesOn

(* A step of the run is recorded. *)
LEMMA RunningStep ==
  ASSUME WorkflowInv, NEW r \in Runners, runStarted(r) \/ progress(r)
  PROVE  Moves(q, q', Writing', {run[r].job}) /\ WorkflowInv'
<1> PICK c : c = run[r].job
  OBVIOUS
<1> PICK n : n = run[r].attempt
  OBVIOUS
<1> PICK x : x = IF runStarted(r) THEN [run[r] EXCEPT !.pc = "running", !.ran = TRUE]
                 ELSE run[r]
  OBVIOUS
<1>1. run[r].pc \in {"claimed", "running"} /\ Busy(run[r]) /\ Writer(run[r])
  BY DEF runStarted, progress, Busy, Writer
<1>2. /\ c \in Children \ lost /\ Held(q, c) /\ run[r] \in RunState
      /\ n \in Nat /\ n > 0 /\ c \in Writing /\ QueueInv(q, Writing)
      /\ q.auto = {} => Stage(q, run[r])
  BY <1>1, BusyFacts
<1>3. /\ q' = RunningWritten(q, c, n)
      /\ UNCHANGED <<committed, site, shown, lost, crashes, interrupts>>
  BY DEF runStarted, progress, RunningWritten
<1>4. run' = [run EXCEPT ![r] = x]
  BY DEF runStarted, progress, WorkflowInv, Typed
<1>5. x \in RunState /\ x.pc = "running" /\ x.job = c /\ x.attempt = n
  BY <1>2 DEF progress, runStarted, RunState, Places
<1>6. q.auto = {} => ~Ended(q, c)
  BY <1>1, <1>2 DEF Stage, Ended
<1>7. Moves(q, q', Writing, {c}) /\ Status_(q', c) = "Running" /\ q'.working = q.working
  <2>1. StatusWritten(q, q', c, "Running", Writing)
    BY <1>2, <1>3, <1>6, WriteRunning
  <2> QED BY <2>1 DEF StatusWritten
<1>8. Writing' = Writing
  <2>1. Writer(x)
    BY <1>5 DEF Writer
  <2> QED BY <1>1, <1>4, <1>5, <2>1, WritingStays
<1>9. Goes(r, x, c)
  BY <1>2, <1>3, <1>4, <1>5, <1>7 DEF Goes, Held, WorkflowInv, Typed
<1>10. Stage(q', x)
  BY <1>5, <1>7 DEF Stage
<1>11. Moves(q, q', Writing', {c})
  BY <1>7, <1>8
<1> QED BY <1>1, <1>9, <1>10, <1>11, GoesOn

(* A published parent, where no workflow supersedes another, has ended     *)
(* children only.                                                          *)
LEMMA CommittedEnds ==
  ASSUME WorkflowInv, NEW c \in Children, GroupOf[c] \in committed, q.auto = {}
  PROVE  Ended(q, c)
<1>1. GroupOf[c] \in q.planned \ q.journal /\ GroupOf[c] \in Groups
  BY DEF WorkflowInv, QueueInv, FilesInv, Typed
<1>2. q.parent[GroupOf[c]] \in Terminal
  BY <1>1 DEF WorkflowInv, QueueInv, FilesInv, ParentFiles
<1> QED BY <1>1, <1>2 DEF WorkflowInv, SteadyInv, Steady, EndsLast, Kids

LEMMA FinishStep ==
  ASSUME WorkflowInv, NEW r \in Runners, NEW st \in {"Success", "Failure"},
         finish(r, st)
  PROVE  q' = q /\ WorkflowInv'
<1> PICK c : c = run[r].job
  OBVIOUS
<1>1. run[r].pc = "running" /\ Busy(run[r]) /\ Writer(run[r])
  BY DEF finish, Busy, Writer
<1>2. /\ c \in Children \ lost /\ Held(q, c) /\ run[r] \in RunState
      /\ c \in Writing /\ QueueInv(q, Writing)
      /\ q.auto = {} => Stage(q, run[r])
  BY <1>1, BusyFacts
<1>3. UNCHANGED <<q, committed, site, shown, crashes, interrupts>>
  BY DEF finish
<1>4. crashes' \in 0 .. MaxCrashes
  BY <1>3 DEF WorkflowInv, Typed
<1>5. ASSUME NEW x \in RunState, run' = [run EXCEPT ![r] = x], ~Writer(x)
      PROVE  Moves(q, q', Writing', {c})
  <2>1. Writing' = Writing \ {c}
    BY <1>1, <1>5, WritingEnds
  <2> QED BY <1>2, <1>3, <2>1, LessWriting
<1>6. CASE run' = [run EXCEPT ![r] = Idle] /\ lost' = lost \cup {c}
  <2>1. Goes(r, Idle, c)
    BY <1>2, <1>3, <1>4, <1>6, IdleIs DEF Goes
  <2>2. Stage(q', Idle)
    BY IdleIs DEF Stage
  <2>3. ~Writer(Idle)
    BY IdleIs DEF Writer
  <2> QED BY <1>1, <1>3, <1>5, <1>6, <2>1, <2>2, <2>3, IdleIs, GoesOn
<1>7. ASSUME NEW pc \in {"release", "finalize"},
             run' = [run EXCEPT ![r] = At(run[r], pc)], lost' = lost,
             GroupOf[c] \in committed \/ Ended(q, c)
      PROVE  WorkflowInv'
  <2> PICK x : x = At(run[r], pc)
    OBVIOUS
  <2>1. /\ x \in RunState /\ x.pc = pc /\ x.job = c /\ x.attempt = run[r].attempt
        /\ ~Writer(x)
    <3>1. pc \in Places
      BY DEF Places
    <3> QED BY <1>2, <3>1, AtIs DEF Writer
  <2>2. Goes(r, x, c)
    BY <1>2, <1>3, <1>4, <1>7, <2>1 DEF Goes
  <2>3. q'.auto = {} => Stage(q', x)
    BY <1>2, <1>3, <1>7, <2>1, CommittedEnds DEF Stage
  <2> QED BY <1>1, <1>5, <1>7, <2>1, <2>2, <2>3, GoesOn
<1>8. ASSUME NEW res \in Terminal, lost' = lost,
             run' = [run EXCEPT ![r] = [run[r] EXCEPT !.pc = "commit", !.result = res]]
      PROVE  WorkflowInv'
  <2> PICK x : x = [run[r] EXCEPT !.pc = "commit", !.result = res]
    OBVIOUS
  <2>1. /\ x \in RunState /\ x.pc = "commit" /\ x.job = c
        /\ x.attempt = run[r].attempt /\ x.result = res
    BY <1>2, <1>8 DEF RunState, Places
  <2>2. Writing' = Writing
    <3>1. Writer(x)
      BY <2>1 DEF Writer
    <3> QED BY <1>1, <1>8, <2>1, <3>1, WritingStays
  <2>3. Moves(q, q', Writing', {c})
    BY <1>2, <1>3, <2>2, LessWriting
  <2>4. Goes(r, x, c)
    BY <1>2, <1>3, <1>4, <1>8, <2>1 DEF Goes
  <2>5. q'.auto = {} => Stage(q', x)
    BY <1>1, <1>2, <1>3, <2>1 DEF Stage
  <2> QED BY <1>1, <2>3, <2>4, <2>5, GoesOn
<1> DEFINE settled == r # Primary /\ Ended(q, c)
           refused == ~settled /\ GroupOf[c] \in committed
           gone == refused /\ r # Primary
<1>9. /\ run' = [run EXCEPT ![r] =
           IF gone THEN Idle
           ELSE IF refused THEN [@ EXCEPT !.pc = "release"]
           ELSE IF settled THEN [@ EXCEPT !.pc = "finalize"]
           ELSE [@ EXCEPT !.pc = "commit",
                          !.result = IF CancelRequested(q, c) THEN "Cancelled"
                                     ELSE st]]
      /\ lost' = IF gone THEN lost \cup {c} ELSE lost
  BY DEF finish
<1>10. CASE gone
  <2>1. run' = [run EXCEPT ![r] = Idle] /\ lost' = lost \cup {c}
    BY <1>9, <1>10
  <2> QED BY <1>3, <1>6, <2>1
<1>11. CASE ~gone /\ refused
  <2>1. run' = [run EXCEPT ![r] = At(run[r], "release")] /\ lost' = lost
    BY <1>9, <1>11 DEF At
  <2> QED BY <1>3, <1>7, <1>11, <2>1
<1>12. CASE ~gone /\ ~refused /\ settled
  <2>1. run' = [run EXCEPT ![r] = At(run[r], "finalize")] /\ lost' = lost
    BY <1>9, <1>12 DEF At
  <2> QED BY <1>3, <1>7, <1>12, <2>1
<1>13. CASE ~gone /\ ~refused /\ ~settled
  <2> PICK res \in Terminal : res = IF CancelRequested(q, c) THEN "Cancelled" ELSE st
    OBVIOUS
  <2>1. /\ run' = [run EXCEPT ![r] = [run[r] EXCEPT !.pc = "commit", !.result = res]]
        /\ lost' = lost
    BY <1>9, <1>13
  <2> QED BY <1>3, <1>8, <2>1
<1> QED BY <1>10, <1>11, <1>12, <1>13

LEMMA CommitStep ==
  ASSUME WorkflowInv, NEW r \in Runners, commitCiRun(r)
  PROVE  Moves(q, q', Writing', {run[r].job}) /\ WorkflowInv'
<1> PICK c : c = run[r].job
  OBVIOUS
<1> PICK n : n = run[r].attempt
  OBVIOUS
<1> PICK st : st = run[r].result
  OBVIOUS
<1> PICK x : x = At(run[r], "finalize")
  OBVIOUS
<1> PICK V : V = Writing \ {c}
  OBVIOUS
<1>1. run[r].pc = "commit" /\ Busy(run[r])
  BY DEF commitCiRun, Busy
<1>2. /\ q' = EndWritten(q, c, st, n) /\ run' = [run EXCEPT ![r] = x]
      /\ UNCHANGED <<committed, site, shown, lost, crashes, interrupts>>
  BY DEF commitCiRun, EndWritten, At
<1>3. /\ c \in Children \ lost /\ Held(q, c) /\ run[r] \in RunState
      /\ n \in Nat /\ n > 0 /\ c \in Writing /\ QueueInv(q, Writing)
      /\ q.auto = {} => Stage(q, run[r])
      /\ st \in Terminal
  BY <1>1, BusyFacts
<1>4. x \in RunState /\ x.pc = "finalize" /\ x.job = c /\ x.attempt = n
  <2>1. "finalize" \in Places
    BY DEF Places
  <2> QED BY <1>3, <2>1, AtIs
<1>5. q.auto = {} => ~Ended(q, c)
  BY <1>1, <1>3 DEF Stage, Ended
<1>6. Moves(q, q', V, {c}) /\ Status_(q', c) = st /\ q'.working = q.working
  <2>1. StatusWritten(q, q', c, st, V)
    BY <1>2, <1>3, <1>5, WriteEnd
  <2> QED BY <2>1 DEF StatusWritten
<1>7. Writing' = V
  <2>1. ~Writer(x)
    BY <1>4 DEF Writer
  <2> QED BY <1>1, <1>2, <2>1, WritingEnds
<1>8. Goes(r, x, c)
  BY <1>2, <1>3, <1>4, <1>6 DEF Goes, Held, WorkflowInv, Typed
<1>9. Stage(q', x)
  BY <1>3, <1>4, <1>6 DEF Stage, Ended
<1>10. Moves(q, q', Writing', {c})
  BY <1>6, <1>7
<1> QED BY <1>1, <1>8, <1>9, <1>10, GoesOn

LEMMA RefusedStep ==
  ASSUME WorkflowInv, NEW r \in Runners, finalizeRefused(r)
  PROVE  q' = q /\ WorkflowInv'
<1> PICK c : c = run[r].job
  OBVIOUS
<1>1. run[r].pc = "finalize" /\ Busy(run[r])
  BY DEF finalizeRefused, Busy
<1>2. /\ c \in Children \ lost /\ Held(q, c) /\ run[r] \in RunState
      /\ QueueInv(q, Writing)
      /\ q.auto = {} => Stage(q, run[r])
  BY <1>1, BusyFacts
<1>3. UNCHANGED <<q, committed, site, shown, crashes, interrupts>>
  BY DEF finalizeRefused
<1>4. crashes' \in 0 .. MaxCrashes
  BY <1>3 DEF WorkflowInv, Typed
<1>5. PICK x : /\ run' = [run EXCEPT ![r] = x]
               /\ x = IF r # Primary THEN Idle ELSE At(run[r], "release")
               /\ lost' = IF r # Primary THEN lost \cup {c} ELSE lost
  BY DEF finalizeRefused, At
<1>6. /\ x \in RunState /\ ~Writer(x)
      /\ \/ ~Busy(x)
         \/ x.pc = "release" /\ x.job = c /\ x.attempt = run[r].attempt /\ lost' = lost
  <2>1. "release" \in Places
    BY DEF Places
  <2>2. CASE r # Primary
    BY <1>5, <2>2, IdleIs DEF Writer
  <2>3. CASE r = Primary
    BY <1>2, <1>5, <2>1, <2>3, AtIs DEF Writer
  <2> QED BY <2>2, <2>3
<1>7. Moves(q, q', Writing', {c})
  <2>1. Writing' = Writing \ {c}
    BY <1>1, <1>5, <1>6, WritingEnds
  <2> QED BY <1>2, <1>3, <2>1, LessWriting
<1>8. Goes(r, x, c)
  <2>1. \/ lost' = lost
        \/ lost' = lost \cup {c} /\ ~Busy(x) /\ Held(q', c)
    BY <1>2, <1>3, <1>5, IdleIs
  <2> QED BY <1>2, <1>3, <1>4, <1>5, <1>6, <2>1 DEF Goes
<1>9. q'.auto = {} => Stage(q', x)
  BY <1>1, <1>2, <1>3, <1>6 DEF Stage, Busy
<1> QED BY <1>1, <1>3, <1>7, <1>8, <1>9, GoesOn

(* A runner that is done, or gone, is idle. *)
LEMMA IdleStep ==
  ASSUME WorkflowInv, NEW r \in Runners, Busy(run[r]), NEW c, c = run[r].job,
         run' = [run EXCEPT ![r] = Idle],
         Moves(q, q', Writing \ {c}, {c}),
         UNCHANGED <<committed, site, shown, interrupts>>,
         crashes' \in 0 .. MaxCrashes,
         \/ lost' = lost
         \/ lost' = lost \cup {c} /\ Held(q', c)
  PROVE  Moves(q, q', Writing', {c}) /\ WorkflowInv'
<1>1. Idle \in RunState /\ ~Busy(Idle) /\ ~Writer(Idle) /\ Stage(q', Idle)
  BY IdleIs DEF Writer, Stage
<1>2. Writing' = Writing \ {c}
  BY <1>1, WritingEnds
<1>3. Goes(r, Idle, c)
  BY <1>1 DEF Goes
<1> QED BY <1>1, <1>2, <1>3, GoesOn

LEMMA ReleaseStep ==
  ASSUME WorkflowInv, NEW r \in Runners, releaseCiClaim(r) \/ releaseCiJob(r)
  PROVE  Moves(q, q', Writing', {run[r].job}) /\ WorkflowInv'
<1> PICK c : c = run[r].job
  OBVIOUS
<1> PICK V : V = Writing \ {c}
  OBVIOUS
<1> PICK t : t = Released(q, c)
  OBVIOUS
<1>1. run[r].pc \in {"release", "releaseJob"} /\ Busy(run[r])
  BY DEF releaseCiClaim, releaseCiJob, Busy
<1>2. /\ c \in Children \ lost /\ Held(q, c)
      /\ QueueInv(q, Writing)
      /\ q.auto = {} => Stage(q, run[r])
  BY <1>1, BusyFacts
<1>3. /\ run' = [run EXCEPT ![r] = Idle]
      /\ UNCHANGED <<committed, site, shown, lost, crashes, interrupts>>
      /\ q' = t \/ q' = reconcileWorkflowGroups(t)
  BY DEF releaseCiClaim, releaseCiJob, Released
<1>4. QueueInv(q, V) /\ c \notin V
  BY <1>2, LessWriting DEF Moves
<1>5. q.auto = {} => Ended(q, c)
  BY <1>1, <1>2 DEF Stage
<1>6. Moves(q, t, V, {c})
  BY <1>2, <1>4, <1>5, Release
<1>7. Moves(q, q', V, {c})
  <2>1. CASE q' = t
    BY <1>6, <2>1
  <2>2. CASE q' = reconcileWorkflowGroups(t)
    <3>1. QueueInv(t, V)
      BY <1>6 DEF Moves
    <3>2. Moves(t, q', V, {})
      BY <2>2, <3>1, ReconcileMoves
    <3>3. Moves(q, q', V, {c} \cup {})
      BY <1>6, <3>2, MovesTwice
    <3>4. {c} \cup {} = {c}
      OBVIOUS
    <3> QED BY <3>3, <3>4
  <2> QED BY <1>3, <2>1, <2>2
<1>8. crashes' \in 0 .. MaxCrashes
  BY <1>3 DEF WorkflowInv, Typed
<1> QED BY <1>1, <1>3, <1>7, <1>8, IdleStep

LEMMA CrashStep ==
  ASSUME WorkflowInv, NEW r \in Runners, crash(r)
  PROVE  q' = q /\ WorkflowInv'
<1> PICK c : c = run[r].job
  OBVIOUS
<1>1. Busy(run[r]) /\ UNCHANGED <<q, committed, site, shown, interrupts>>
  BY DEF crash, Busy
<1>2. Held(q, c) /\ QueueInv(q, Writing)
  BY <1>1, BusyFacts
<1>3. run' = [run EXCEPT ![r] = Idle] /\ lost' = lost \cup {c}
  BY DEF crash
<1>4. Moves(q, q', Writing \ {c}, {c})
  BY <1>1, <1>2, LessWriting
<1>5. crashes' \in 0 .. MaxCrashes
  BY WorkflowAssumption DEF crash, WorkflowInv, Typed
<1> QED BY <1>1, <1>2, <1>3, <1>4, <1>5, IdleStep

LEMMA AbandonStep ==
  ASSUME WorkflowInv, NEW r \in Runners, abandonCiJob(r)
  PROVE  Moves(q, q', Writing', {run[r].job}) /\ WorkflowInv'
<1> PICK c : c = run[r].job
  OBVIOUS
<1> PICK V : V = Writing \ {c}
  OBVIOUS
<1>1. Busy(run[r]) /\ UNCHANGED <<committed, site, shown, lost, interrupts>>
  BY DEF abandonCiJob, Busy
<1>2. c \in Children /\ Held(q, c) /\ QueueInv(q, Writing)
  BY <1>1, BusyFacts
<1>3. run' = [run EXCEPT ![r] = Idle] /\ q' = requeueLocked(q, c, FALSE)
  BY DEF abandonCiJob
<1>4. Moves(q, q', V, {c})
  <2>1. V \subseteq Writing /\ c \notin V /\ FALSE \in BOOLEAN
    OBVIOUS
  <2> QED BY <1>2, <1>3, <2>1, Requeue
<1>5. crashes' \in 0 .. MaxCrashes
  BY WorkflowAssumption DEF abandonCiJob, WorkflowInv, Typed
<1> QED BY <1>1, <1>3, <1>4, <1>5, IdleStep

LEMMA ReapStep ==
  ASSUME WorkflowInv, NEW c \in Children, reapCiLeases(c)
  PROVE  Moves(q, q', Writing', {c}) /\ WorkflowInv'
<1>1. /\ c \in lost /\ lost' = lost \ {c} /\ q' = requeueLocked(q, c, TRUE)
      /\ UNCHANGED <<committed, site, shown, run, crashes, interrupts>>
  BY DEF reapCiLeases
<1>2. Held(q, c) /\ \A r \in Runners : Busy(run[r]) => run[r].job # c
  BY <1>1 DEF WorkflowInv, RunsInv, Works
<1>3. c \notin Writing /\ QueueInv(q, Writing)
  BY <1>2 DEF WorkflowInv, Writing, Busy
<1>4. Moves(q, q', Writing, {c})
  <2>1. Writing \subseteq Writing /\ TRUE \in BOOLEAN
    OBVIOUS
  <2> QED BY <1>1, <1>2, <1>3, <2>1, Requeue
<1>5. Writing' = Writing
  BY <1>1 DEF Writing
<1>6. \A r \in Runners : Busy(run[r]) => run[r].job \notin {c}
  BY <1>2
<1>7. interrupts' \in {interrupts, interrupts + 1} \cap (0 .. MaxInterrupts)
  BY <1>1 DEF WorkflowInv, Typed
<1>8. WorkflowInv'
  BY <1>1, <1>4, <1>6, <1>7, FilesStep
<1> QED BY <1>4, <1>5, <1>8

-----------------------------------------------------------------------------
(* Every step. *)

EndsStay ==
  q.auto = {} => \A c \in Children :
    Ended(q, c) => q'.rec[c].status = Status_(q, c)

LEMMA MovesEnds ==
  ASSUME WorkflowInv, NEW V, NEW C, Moves(q, q', V, C)
  PROVE  EndsStay
<1>1. q.auto = {} => Steady(q)
  BY DEF WorkflowInv, SteadyInv
<1> QED BY <1>1 DEF Moves, KeepsEnds, EndsStay, Status_

LEMMA StutterSteps ==
  ASSUME WorkflowInv, UNCHANGED vars
  PROVE  WorkflowInv' /\ EndsStay
<1>1. QueueInv(q, Writing) /\ Writing' = Writing
  BY DEF WorkflowInv, vars, Writing
<1>2. Moves(q, q', Writing, {})
  BY <1>1, MovesNot DEF vars
<1>3. interrupts' \in {interrupts, interrupts + 1} \cap (0 .. MaxInterrupts)
  BY DEF WorkflowInv, Typed, vars
<1> QED BY <1>2, <1>3, QueueStep, MovesEnds DEF vars

LEMMA WorkSteps ==
  ASSUME WorkflowInv, NEW r \in Runners, Work(r)
  PROVE  WorkflowInv' /\ EndsStay
<1>1. ASSUME NEW late, claimCiJob(r, late)
      PROVE  WorkflowInv' /\ EndsStay
  BY <1>1, ClaimStep, MovesEnds
<1>2. ASSUME NEW st \in {"Cancelled", "Error"}, recordCiOutcome(r, st)
      PROVE  WorkflowInv' /\ EndsStay
  BY <1>2, OutcomeStep, MovesEnds
<1>3. CASE runStarted(r) \/ progress(r)
  BY <1>3, RunningStep, MovesEnds
<1>4. ASSUME NEW st \in {"Success", "Failure"}, finish(r, st)
      PROVE  WorkflowInv' /\ EndsStay
  BY <1>4, FinishStep DEF EndsStay, Status_
<1>5. CASE commitCiRun(r)
  BY <1>5, CommitStep, MovesEnds
<1>6. ASSUME NEW collected \in BOOLEAN, finalizeCiParentForChild(r, collected)
      PROVE  WorkflowInv' /\ EndsStay
  <2>1. Finalized /\ WorkflowInv'
    BY <1>6, FinalizeStep
  <2>2. EndsStay
    BY <2>1 DEF Finalized, WorkflowInv, SteadyInv, KeepsEnds, EndsStay, Status_
  <2> QED BY <2>1, <2>2
<1>7. CASE finalizeRefused(r)
  BY <1>7, RefusedStep DEF EndsStay, Status_
<1>8. CASE releaseCiClaim(r) \/ releaseCiJob(r)
  BY <1>8, ReleaseStep, MovesEnds
<1>9. CASE abandonCiJob(r)
  BY <1>9, AbandonStep, MovesEnds
<1>10. CASE crash(r)
  BY <1>10, CrashStep DEF EndsStay, Status_
<1> QED BY <1>1, <1>2, <1>3, <1>4, <1>5, <1>6, <1>7, <1>8, <1>9, <1>10 DEF Work

LEMMA NextInv ==
  ASSUME WorkflowInv, [Next]_vars
  PROVE  WorkflowInv' /\ EndsStay
<1>1. ASSUME NEW g \in Groups,
             enqueueCiWorkflowJobs(g) \/ enqueueInterrupted(g)
      PROVE  WorkflowInv' /\ EndsStay
  BY <1>1, EnqueueStep, MovesEnds
<1>2. ASSUME NEW g \in Groups, NEW collected \in BOOLEAN,
             recoverCiWorkflowResults(g, collected)
      PROVE  WorkflowInv' /\ EndsStay
  <2>1. Finalized /\ WorkflowInv'
    BY <1>2, RecoverStep
  <2>2. EndsStay
    BY <2>1 DEF Finalized, WorkflowInv, SteadyInv, KeepsEnds, EndsStay, Status_
  <2> QED BY <2>1, <2>2
<1>3. ASSUME NEW g \in Groups, NEW done \in {"site", "record"},
             finalizeInterrupted(g, done)
      PROVE  WorkflowInv' /\ EndsStay
  <2>1. Finalized /\ WorkflowInv'
    BY <1>3, InterruptedStep
  <2>2. EndsStay
    BY <2>1 DEF Finalized, WorkflowInv, SteadyInv, KeepsEnds, EndsStay, Status_
  <2> QED BY <2>1, <2>2
<1>4. ASSUME NEW x \in Cancellable, requestCiCancel(x)
      PROVE  WorkflowInv' /\ EndsStay
  BY <1>4, CancelStep, MovesEnds
<1>5. ASSUME NEW r \in Runners, Work(r)
      PROVE  WorkflowInv' /\ EndsStay
  BY <1>5, WorkSteps
<1>6. ASSUME NEW c \in Children, reapCiLeases(c)
      PROVE  WorkflowInv' /\ EndsStay
  BY <1>6, ReapStep, MovesEnds
<1>7. CASE UNCHANGED vars
  BY <1>7, StutterSteps
<1> QED BY <1>1, <1>2, <1>3, <1>4, <1>5, <1>6, <1>7 DEF Next

-----------------------------------------------------------------------------
(* The theorems. *)

LEMMA Invariant == Spec => []WorkflowInv
<1>1. Init => WorkflowInv
  BY InitInv
<1>2. WorkflowInv /\ [Next]_vars => WorkflowInv'
  BY NextInv
<1> QED BY <1>1, <1>2, PTL DEF Spec

(* The queue's files, the runners and the published outputs have their     *)
(* types, and a busy runner's child is in working/ and not lost: no        *)
(* operation of ci_store.cpp or ci_results.cpp, and no crash, leaves       *)
(* anything else.                                                          *)
THEOREM TypeCorrect == Spec => []TypeOK
<1>1. WorkflowInv => TypeOK
  BY InvTypeOK
<1> QED BY <1>1, Invariant, PTL

(* Where no workflow supersedes another, a child that shows as pending or  *)
(* running is queued or claimed: an enqueue that died after its journal, a *)
(* lost runner, a reaper or a release loses none (enqueueCiWorkflowJobs,   *)
(* reconcileWorkflowGroups, requeueLocked).                                *)
THEOREM NoChildIsLost == Spec => []NoChildLost
<1>1. WorkflowInv => NoChildLost
  BY DEF WorkflowInv, SteadyInv, Steady, SteadyChild, NoChildLost
<1> QED BY <1>1, Invariant, PTL

(* There, a child runs or has succeeded only when every job it needs has   *)
(* succeeded (claimCiJob skips the others), whatever is requeued, ended or *)
(* cancelled in between.                                                   *)
THEOREM NeedsComeFirst == Spec => []NeedsSucceeded
<1>1. WorkflowInv => NeedsSucceeded
  BY DEF WorkflowInv, SteadyInv, Steady, SteadyChild, NeedsSucceeded
<1> QED BY <1>1, Invariant, PTL

(* There, a parent has ended only when all of its children have: the       *)
(* summary of reconcileWorkflowGroups is never revised by a later claim,   *)
(* requeue or late record.                                                 *)
THEOREM ParentsEndLast == Spec => []ParentEndsLast
<1>1. WorkflowInv => ParentEndsLast
  BY DEF WorkflowInv, SteadyInv, Steady, EndsLast, ParentEndsLast
<1> QED BY <1>1, Invariant, PTL

(* Outputs that finalizeCiWorkflowResults ever published belong to a group *)
(* all of whose children succeeded and still do, superseding or not, and,  *)
(* without a crash inside a publication, that no cancel ended later.       *)
THEOREM OnlySuccessIsShown == Spec => []ShownIsSuccess
<1>1. WorkflowInv => ShownIsSuccess
  BY DEF WorkflowInv, ShownInv, ShownIsSuccess
<1> QED BY <1>1, Invariant, PTL

(* Where no workflow supersedes another, the recorded end of a child is    *)
(* its last: neither a late record of a runner thought lost, nor a requeue *)
(* or an abandoned claim, nor a reconciliation writes another status.      *)
THEOREM EndsAreFinal == Spec => ChildEndIsFinal
<1>1. WorkflowInv /\ [Next]_vars =>
        [q.auto = {} => \A c \in Children :
           Ended(q, c) => q'.rec[c].status = Status_(q, c)]_q
  BY NextInv DEF EndsStay
<1> QED BY <1>1, Invariant, PTL DEF Spec, ChildEndIsFinal

-----------------------------------------------------------------------------
(* The order of the branch. *)

(* A group whose children have ended leaves its journal at its step; a     *)
(* later group that supersedes marks it then, as long as its outputs are   *)
(* not committed.                                                          *)
LEMMA StepRetires ==
  ASSUME NEW x, NEW g \in Groups, FilesInv(x), g \in x.journal,
         \A c \in Kids(g) : Ended(x, c),
         NEW t, Reconciles(x, t, g)
  PROVE  g \notin t.journal
<1>1. PICK all : /\ RestoresKids(x, all, g)
                 /\ g \in t.journal <=> Summary(all, g) \notin Terminal
  BY DEF Reconciles
<1>2. all \in QueueFiles
  BY <1>1 DEF RestoresKids
<1>3. ASSUME NEW c \in Kids(g)
      PROVE  Ended(all, c)
  <2>1. c \in Children /\ Ended(x, c)
    BY DEF Kids
  <2>2. all.rec[c] = x.rec[c]
    BY <1>1, <2>1, RestoreFacts
  <2> QED BY <2>1, <2>2 DEF Ended, Status_
<1> QED BY <1>1, <1>2, <1>3, SummaryIs

LEMMA StepMarks ==
  ASSUME NEW x, NEW g \in Groups, NEW G \in Groups, g < G, FilesInv(x),
         G \in x.journal, G \in x.auto, g \in x.planned \ x.journal,
         g \notin committed, NEW t, Reconciles(x, t, G)
  PROVE  g \in t.cancel
<1>1. PICK all, y : /\ RestoresKids(x, all, G) /\ Supersedes(all, y, G)
                    /\ t.cancel = y.cancel
  BY DEF Reconciles
<1>2. /\ all.auto = x.auto /\ all.parent = x.parent
      /\ all.planned = x.planned \cup {G}
  BY <1>1 DEF RestoresKids
<1>3. x.parent[g] \in Terminal
  BY DEF FilesInv, ParentFiles
<1>4. g \in listCiUnpublishedWorkflows(all)
  BY <1>2, <1>3 DEF listCiUnpublishedWorkflows
<1> QED BY <1>1, <1>2, <1>4 DEF Supersedes

(* What holds of two such groups when the journals up to n are reconciled. *)
Retiring(s, x, n, W, g, G) ==
  /\ Passed(s, x, n, W)
  /\ g <= n => g \notin x.journal
  /\ G <= n => g \in x.cancel

LEMMA RetiringStep ==
  ASSUME NEW s, NEW x, NEW t, NEW W, NEW n \in Nat,
         NEW g \in Groups, NEW G \in Groups, g < G, g \notin committed,
         g \in s.journal, G \in s.journal, G \in s.auto,
         \A c \in Kids(g) : Ended(s, c),
         Retiring(s, x, n, W, g, G),
         NEW m, m = n + 1,
         \/ m \in Groups /\ m \in x.journal /\ Reconciles(x, t, m)
         \/ (m \notin Groups \/ m \notin x.journal) /\ t = x
  PROVE  Retiring(s, t, m, W, g, G)
<1>1. /\ Passed(s, x, n, W) /\ FilesInv(x) /\ Onward(s, x)
      /\ \A p \in {g, G} : p > n => p \in x.journal
      /\ x.auto = s.auto
  BY DEF Retiring, Passed, Onward
<1>2. g \in Nat /\ G \in Nat /\ m \in Nat
  BY ConstantsType
<1>3. Passed(s, t, m, W)
  BY <1>1, PassedStep, PassedIdle
<1>4. ASSUME g <= m
      PROVE  g \notin t.journal
  <2>1. CASE g = m
    <3>1. g \in x.journal /\ Reconciles(x, t, g)
      BY <1>1, <1>2, <2>1
    <3>2. ASSUME NEW c \in Kids(g) PROVE Ended(x, c)
      <4>1. c \in Children /\ Ended(s, c)
        BY DEF Kids
      <4>2. \/ x.rec[c] = s.rec[c]
            \/ Status_(x, c) = "Cancelled"
            \/ Status_(s, c) = "None"
        BY <1>1, <4>1 DEF Onward
      <4> QED BY <4>1, <4>2 DEF Ended, Status_, Terminal
    <3> QED BY <1>1, <3>1, <3>2, StepRetires
  <2>2. CASE g # m
    <3>1. g \notin x.journal
      BY <1>2, <1>4, <2>2 DEF Retiring
    <3>2. t = x \/ (m \in Groups /\ m \in x.journal /\ Reconciles(x, t, m))
      OBVIOUS
    <3>3. t.journal \subseteq x.journal
      BY <1>1, <3>2, ReconcileFields
    <3> QED BY <3>1, <3>3
  <2> QED BY <2>1, <2>2
<1>5. ASSUME G <= m
      PROVE  g \in t.cancel
  <2>1. CASE G = m
    <3>1. G \in x.journal /\ Reconciles(x, t, G)
      BY <1>1, <1>2, <2>1
    <3>2. g \notin x.journal
      BY <1>2, <2>1 DEF Retiring
    <3>3. g \in x.planned
      BY <1>1, <3>2 DEF Onward
    <3> QED BY <1>1, <3>1, <3>2, <3>3, StepMarks
  <2>2. CASE G # m
    <3>1. g \in x.cancel
      BY <1>2, <1>5, <2>2 DEF Retiring
    <3>2. t = x \/ (m \in Groups /\ m \in x.journal /\ Reconciles(x, t, m))
      OBVIOUS
    <3>3. x.cancel \subseteq t.cancel
      BY <1>1, <3>2, ReconcileFields
    <3> QED BY <3>1, <3>3
  <2> QED BY <2>1, <2>2
<1> QED BY <1>3, <1>4, <1>5 DEF Retiring

(* So a whole reconciliation marks the older of them. *)
LEMMA ReconcileRetires ==
  ASSUME NEW s, NEW W, QueueInv(s, W),
         NEW g \in Groups, NEW G \in Groups, g < G, g \notin committed,
         g \in s.journal, G \in s.journal, G \in s.auto,
         \A c \in Kids(g) : Ended(s, c)
  PROVE  g \in reconcileWorkflowGroups(s).cancel
<1>1. PICK f : Sequel(f, s, LastId) /\ reconcileWorkflowGroups(s) = f[LastId]
  BY ReconcileIs
<1>2. \A n \in 0 .. LastId : f[n] = IF n = 0 THEN s ELSE Step(f[n - 1], n)
  BY <1>1, Zenon DEF Sequel
<1>3. LastId \in Nat /\ G <= LastId /\ g \in Nat \ {0} /\ G \in Nat \ {0}
  BY ConstantsType, WorkflowAssumption
<1> DEFINE S == {n \in Nat : n <= LastId => Retiring(s, f[n], n, W, g, G)}
<1>4. 0 \in S
  <2>1. f[0] = s
    BY <1>2, <1>3
  <2>2. Passed(s, s, 0, W)
    BY PassedStart DEF QueueInv
  <2>3. ~(g <= 0) /\ ~(G <= 0)
    BY <1>3
  <2>4. Retiring(s, s, 0, W, g, G)
    BY <2>2, <2>3 DEF Retiring
  <2> QED BY <2>1, <2>4
<1>5. ASSUME NEW n \in Nat, n \in S
      PROVE  n + 1 \in S
  <2>1. SUFFICES ASSUME n + 1 <= LastId
                 PROVE  Retiring(s, f[n + 1], n + 1, W, g, G)
    OBVIOUS
  <2>2. Retiring(s, f[n], n, W, g, G)
    BY <1>3, <1>5, <2>1
  <2>3. PICK m : m = n + 1
    OBVIOUS
  <2>4. m \in 0 .. LastId /\ m # 0 /\ m - 1 = n
    BY <1>3, <2>1, <2>3
  <2>5. f[m] = Step(f[n], m)
    BY <1>2, <2>4, Zenon
  <2>6. f[n] \in QueueFiles
    BY <2>2 DEF Retiring, Passed, FilesInv
  <2> HIDE DEF S
  <2>7. \/ m \in Groups /\ m \in f[n].journal /\ Reconciles(f[n], f[m], m)
        \/ (m \notin Groups \/ m \notin f[n].journal) /\ f[m] = f[n]
    BY <2>5, <2>6, StepCases
  <2>8. Retiring(s, f[m], m, W, g, G)
    BY <2>2, <2>3, <2>7, RetiringStep
  <2> QED BY <2>3, <2>8
<1>6. LastId \in S
  <2> HIDE DEF S
  <2> QED BY <1>3, <1>4, <1>5, AllNumbers
<1> QED BY <1>1, <1>3, <1>6 DEF Retiring

(* What a claim has found of an older group that is neither committed nor  *)
(* marked: the group of the child it may take supersedes that one.         *)
LEMMA OlderIsWithdrawn ==
  ASSUME NEW s, NEW W, QueueInv(s, W),
         NEW start, start = reconcileWorkflowGroups(s),
         NEW c \in Children, Queued(start, c), ~CancelRequested(start, c),
         FreeFor(start, GroupOf[c]),
         NEW g \in Groups, g < GroupOf[c], g \notin committed,
         g \notin start.cancel, g \in start.planned \cup start.journal
  PROVE  /\ g \in start.journal /\ Withdrawn(start, g)
         /\ GroupOf[c] \in start.journal \cap start.auto
<1> PICK G \in Groups : G = GroupOf[c]
  BY ConstantsType
<1>1. /\ QueueInv(start, W) /\ Onward(s, start)
      /\ \A p \in Groups : Placed(start, p, s.journal)
      /\ \A p \in s.journal \cap s.auto : GroupOf[c] >= p
  BY ReconcileKeeps
<1>2. /\ FilesInv(start) /\ OvertakenInv(start) /\ start.auto = s.auto
      /\ start.auto \subseteq Groups
  BY <1>1, AutoGroups DEF QueueInv, FilesInv, Onward
<1>3. \A p \in Groups : p \in Nat
  BY ConstantsType
<1>4. G \in start.journal /\ G \in start.planned
  <2>1. G \in start.journal
    BY <1>2 DEF FilesInv, ChildFiles
  <2> QED BY <1>1, <2>1 DEF Placed
<1>5. \A p \in Groups : p \in Pending(start) => p >= G
  BY DEF FreeFor
<1>6. \A p \in Groups : HasEntry(start, p) => p >= G
  <2>1. SUFFICES ASSUME NEW p \in Groups, NEW k \in Kids(p), Entry(start, k)
                 PROVE  p >= G
    BY DEF HasEntry
  <2>2. k \in Children /\ GroupOf[k] = p
    BY DEF Kids
  <2>3. CASE Queued(start, k)
    <3>1. p \in Pending(start)
      BY <2>2, <2>3 DEF Pending
    <3> QED BY <1>5, <3>1
  <2>4. CASE Held(start, k)
    BY <1>3, <2>2, <2>4 DEF FreeFor
  <2> QED BY <2>1, <2>3, <2>4 DEF Entry
<1>7. \A p \in Groups : p \in listCiUnpublishedWorkflows(start) => p >= G
  BY <1>5 DEF Pending
<1>8. g \in start.journal
  <2>1. SUFFICES ASSUME g \notin start.journal PROVE FALSE
    OBVIOUS
  <2>2. g \in listCiUnpublishedWorkflows(start)
    BY <1>2, <2>1 DEF FilesInv, ParentFiles, listCiUnpublishedWorkflows
  <2> QED BY <1>3, <1>7, <2>2
<1>9. Withdrawn(start, g) /\ Awaits(start, g, s.journal)
  BY <1>1, <1>3, <1>6, <1>8 DEF Placed
<1>10. PICK k \in start.auto :
         /\ k > g
         /\ \/ HasEntry(start, k)
            \/ k \in s.journal /\ k \in listCiUnpublishedWorkflows(start)
  BY <1>9 DEF Awaits
<1>11. CASE k \in s.journal /\ k \in listCiUnpublishedWorkflows(start)
  <2>1. k \in Groups /\ k \in Nat /\ G \in Nat /\ k >= G /\ G >= k
    BY <1>1, <1>2, <1>3, <1>7, <1>11
  <2>2. start.parent[G] \in Terminal
    BY <1>11, <2>1 DEF listCiUnpublishedWorkflows
  <2> QED BY <1>2, <1>4, <2>2 DEF FilesInv, ParentFiles
<1>12. CASE HasEntry(start, k)
  <2>1. k \in Groups /\ k \in Nat /\ G \in Nat /\ k >= G
    BY <1>2, <1>3, <1>6, <1>12
  <2>2. CASE k = G
    BY <1>4, <1>8, <1>9, <2>2
  <2>3. CASE k > G
    <3>1. PICK m \in Kids(k) : Entry(start, m)
      BY <1>12 DEF HasEntry
    <3>2. m \in Children /\ GroupOf[m] = k
      BY DEF Kids
    <3>3. Superseded(start, G)
      BY <2>3, <3>1, <3>2 DEF Superseded
    <3>4. G \notin start.cancel
      BY DEF CancelRequested
    <3>5. Withdrawn(start, G)
      BY <1>2, <1>4, <3>3, <3>4 DEF OvertakenInv, MarkedGroup
    <3>6. c \in Kids(G)
      BY DEF Kids
    <3> QED BY <3>5, <3>6 DEF Withdrawn, Entry
  <2> QED BY <2>1, <2>2, <2>3
<1> QED BY <1>10, <1>11, <1>12

(* No child of a group begins while an older group is unfinished or has    *)
(* outputs to publish.                                                     *)
InOrder(c) ==
  \A g \in q'.planned \ q'.cancel : g < GroupOf[c] => g \in committed
Starts(c) == ~Held(q, c) /\ q'.working[c] > 0
KeepsOrder == \A c \in Children : Starts(c) => InOrder(c)

LEMMA ClaimInOrder ==
  ASSUME WorkflowInv, NEW r \in Runners, NEW late, claimCiJob(r, late)
  PROVE  KeepsOrder
<1> PICK start : start = reconcileWorkflowGroups(q)
  OBVIOUS
<1> PICK x : x = Scan(r, late)
  OBVIOUS
<1> PICK s : s = x.s
  OBVIOUS
<1>1. /\ QueueInv(q, Writing) /\ QueueInv(start, Writing)
      /\ Moves(q, start, Writing, {})
      /\ \A p \in Groups : Placed(start, p, q.journal)
  BY ReconcileMoves, ReconcileKeeps DEF WorkflowInv
<1>2. ScanInv(x, start, Writing)
  BY <1>1, ScanFacts
<1>3. /\ Moves(start, s, Writing, {})
      /\ s.cancel = start.cancel /\ s.journal = start.journal
      /\ s.planned = start.planned
      /\ \A c \in Children : /\ Queued(s, c) => Queued(start, c)
                             /\ ~Queued(start, c) => s.rec[c] = start.rec[c]
  BY <1>2 DEF ScanInv
<1>4. \A c \in Children : s.working[c] = q.working[c]
  BY <1>1, <1>3 DEF Moves
<1>5. CASE x.got = 0
  <2>1. q' = s
    BY <1>5 DEF claimCiJob
  <2> QED BY <1>4, <2>1 DEF KeepsOrder, Starts, Held
<1>6. CASE x.got # 0
  <2> PICK c : c = x.got
    OBVIOUS
  <2> PICK t : t = Taken(s, c)
    OBVIOUS
  <2>1. q' = reconcileWorkflowGroups(t)
    BY <1>6 DEF claimCiJob, Taken
  <2>2. MayTake(s, start, c) /\ QueueInv(s, Writing) /\ s.auto = start.auto
    BY <1>2, <1>3, <1>6 DEF ScanInv, Moves
  <2>3. Claimed(s, t, c, Writing)
    BY <2>2, Claim DEF MayTake
  <2>4. /\ QueueInv(t, Writing \cup {c}) /\ t.auto = s.auto
        /\ t.rec = s.rec /\ t.journal = s.journal /\ t.planned = s.planned
        /\ t.cancel = s.cancel
        /\ \A k \in Children : k # c => t.working[k] = s.working[k]
    BY <2>3 DEF Claimed, Moves
  <2>5. Onward(t, q')
    BY <2>1, <2>4, ReconcileKeeps
  <2>6. /\ q'.working = t.working /\ start.cancel \subseteq q'.cancel
        /\ q'.planned \subseteq start.planned \cup start.journal
    BY <1>3, <2>4, <2>5 DEF Onward
  <2>7. \A k \in Children : Starts(k) => k = c
    BY <1>4, <2>4, <2>6 DEF Starts, Held
  <2>8. /\ c \in Children /\ Queued(start, c) /\ ~CancelRequested(start, c)
        /\ FreeFor(start, GroupOf[c])
    BY <1>3, <2>2 DEF MayTake, CancelRequested
  <2>9. InOrder(c)
    <3>1. SUFFICES ASSUME NEW g \in q'.planned \ q'.cancel, g < GroupOf[c],
                          g \notin committed
                   PROVE  FALSE
      BY DEF InOrder
    <3>2. /\ g \notin start.cancel /\ g \in start.planned \cup start.journal
      BY <2>6
    <3>3. g \in Groups
      BY <1>1, <3>2, Fields DEF QueueInv, FilesInv
    <3>4. /\ g \in start.journal /\ Withdrawn(start, g)
          /\ GroupOf[c] \in start.journal \cap start.auto
      BY <1>1, <2>8, <3>1, <3>2, <3>3, OlderIsWithdrawn
    <3>5. ASSUME NEW k \in Kids(g) PROVE Ended(t, k)
      <4>1. /\ k \in Children /\ Status_(start, k) = "Cancelled"
            /\ ~Queued(start, k)
        BY <3>4 DEF Withdrawn, Kids, Entry
      <4>2. t.rec[k] = start.rec[k]
        BY <1>3, <2>4, <4>1
      <4> QED BY <4>1, <4>2 DEF Ended, Status_, Terminal
    <3>6. g \in t.journal /\ GroupOf[c] \in t.journal /\ GroupOf[c] \in t.auto
      BY <1>3, <2>2, <2>4, <3>4
    <3>7. GroupOf[c] \in Groups
      BY <2>8, ConstantsType
    <3>8. g \in q'.cancel
      BY <2>1, <2>4, <3>1, <3>3, <3>5, <3>6, <3>7, ReconcileRetires
    <3> QED BY <3>8
  <2> QED BY <2>7, <2>9 DEF KeepsOrder
<1> QED BY <1>5, <1>6

(* No other step claims. *)
LEMMA OthersStartNone ==
  ASSUME WorkflowInv, NEW V, NEW C, Moves(q, q', V, C),
         \A c \in C : Held(q, c)
  PROVE  KeepsOrder
  BY DEF Moves, KeepsOrder, Starts, Held

LEMMA UnchangedStartsNone ==
  ASSUME q'.working = q.working
  PROVE  KeepsOrder
  BY DEF KeepsOrder, Starts, Held

LEMMA WorkInOrder ==
  ASSUME WorkflowInv, NEW r \in Runners, Work(r)
  PROVE  KeepsOrder
<1>1. ASSUME NEW late, claimCiJob(r, late)
      PROVE  KeepsOrder
  BY <1>1, ClaimInOrder
<1>2. ASSUME Busy(run[r]), NEW V, Moves(q, q', V, {run[r].job})
      PROVE  KeepsOrder
  <2>1. Held(q, run[r].job)
    BY <1>2, BusyFacts
  <2> QED BY <1>2, <2>1, OthersStartNone
<1>3. ASSUME NEW st \in {"Cancelled", "Error"}, recordCiOutcome(r, st)
      PROVE  KeepsOrder
  <2>1. Busy(run[r])
    BY <1>3 DEF recordCiOutcome, Busy
  <2>2. Moves(q, q', Writing', {run[r].job})
    BY <1>3, OutcomeStep
  <2> QED BY <1>2, <2>1, <2>2
<1>4. CASE runStarted(r) \/ progress(r)
  BY <1>2, <1>4, RunningStep DEF runStarted, progress, Busy
<1>5. CASE commitCiRun(r)
  <2>1. Busy(run[r])
    BY <1>5 DEF commitCiRun, Busy
  <2>2. Moves(q, q', Writing', {run[r].job})
    BY <1>5, CommitStep
  <2> QED BY <1>2, <2>1, <2>2
<1>6. CASE releaseCiClaim(r) \/ releaseCiJob(r)
  BY <1>2, <1>6, ReleaseStep DEF releaseCiClaim, releaseCiJob, Busy
<1>7. CASE abandonCiJob(r)
  BY <1>2, <1>7, AbandonStep DEF abandonCiJob, Busy
<1>8. ASSUME NEW collected \in BOOLEAN, finalizeCiParentForChild(r, collected)
      PROVE  KeepsOrder
  <2>1. Finalized
    BY <1>8, FinalizeStep
  <2> QED BY <2>1, UnchangedStartsNone DEF Finalized
<1>9. ASSUME NEW st \in {"Success", "Failure"}, finish(r, st)
      PROVE  KeepsOrder
  <2>1. q' = q
    BY <1>9, FinishStep
  <2> QED BY <2>1, UnchangedStartsNone
<1>10. CASE finalizeRefused(r) \/ crash(r)
  <2>1. q' = q
    BY <1>10, RefusedStep, CrashStep
  <2> QED BY <2>1, UnchangedStartsNone
<1> QED BY <1>1, <1>3, <1>4, <1>5, <1>6, <1>7, <1>8, <1>9, <1>10 DEF Work

LEMMA NextInOrder ==
  ASSUME WorkflowInv, [Next]_vars
  PROVE  KeepsOrder
<1>1. ASSUME NEW g \in Groups,
             enqueueCiWorkflowJobs(g) \/ enqueueInterrupted(g)
      PROVE  KeepsOrder
  BY <1>1, EnqueueStep, OthersStartNone
<1>2. ASSUME NEW g \in Groups, NEW collected \in BOOLEAN,
             recoverCiWorkflowResults(g, collected)
      PROVE  KeepsOrder
  <2>1. Finalized
    BY <1>2, RecoverStep
  <2> QED BY <2>1, UnchangedStartsNone DEF Finalized
<1>3. ASSUME NEW g \in Groups, NEW done \in {"site", "record"},
             finalizeInterrupted(g, done)
      PROVE  KeepsOrder
  <2>1. Finalized
    BY <1>3, InterruptedStep
  <2> QED BY <2>1, UnchangedStartsNone DEF Finalized
<1>4. ASSUME NEW x \in Cancellable, requestCiCancel(x)
      PROVE  KeepsOrder
  BY <1>4, CancelStep, OthersStartNone
<1>5. ASSUME NEW r \in Runners, Work(r)
      PROVE  KeepsOrder
  BY <1>5, WorkInOrder
<1>6. ASSUME NEW c \in Children, reapCiLeases(c)
      PROVE  KeepsOrder
  <2>1. Held(q, c)
    BY <1>6 DEF reapCiLeases, WorkflowInv, RunsInv
  <2>2. Moves(q, q', Writing', {c}) /\ \A k \in {c} : Held(q, k)
    BY <1>6, <2>1, ReapStep
  <2> QED BY <2>2, OthersStartNone
<1>7. CASE UNCHANGED vars
  <2>1. q'.working = q.working
    BY <1>7 DEF vars
  <2> QED BY <2>1, UnchangedStartsNone
<1> QED BY <1>1, <1>2, <1>3, <1>4, <1>5, <1>6, <1>7 DEF Next

(* No runner begins a child of a group while an older group of the branch  *)
(* is unfinished, or has ended without its outputs being committed, unless *)
(* that group is marked for a cancel: claimCiJob looks at the queue before *)
(* its scan, and the reconciliation that ends the claim marks what the     *)
(* claimed group supersedes.                                               *)
THEOREM GroupsTakeTurns == Spec => BranchOrder
<1>1. WorkflowInv /\ [Next]_vars =>
        [\A c \in Children :
           ~Held(q, c) /\ q'.working[c] > 0
             => \A g \in q'.planned \ q'.cancel : g < GroupOf[c] => g \in committed]_vars
  BY NextInOrder DEF KeepsOrder, Starts, InOrder
<1> QED BY <1>1, Invariant, PTL DEF Spec, BranchOrder
===============================================================================
