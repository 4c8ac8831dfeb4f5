---------------------------- MODULE ProjectsProofs ----------------------------
(* Theorems about hosted projects, for any names, clients and bounds.      *)
EXTENDS Projects, TLAPS, SequenceTheorems, WellFoundedInduction

(* The part of TypeOK that the registrations rest on. *)
Typed ==
  /\ repo \in [Names -> Nat]
  /\ born \in Nat
  /\ reg \in [Names -> [Clients -> Nat]]
  /\ op.kind \in {"register", "remove", "restore"} => op.name \in Names

(* Whoever holds the lifecycle lock to take down or put back a project     *)
(* works on a name that has no repository.                                 *)
Vacated == op.kind \in {"remove", "restore"} => repo[op.name] = 0

(* A registration is the repository's own, or its project's removal is     *)
(* under way, or that removal died or never ran.                           *)
Stale(n, r) == \/ <<n, r>> \in orphaned
               \/ op.kind = "remove" /\ op.name = n /\ op.of = r
Accounted ==
  \A n \in Names, c \in Clients :
    reg[n][c] # 0 => (repo[n] # 0 /\ reg[n][c] = repo[n]) \/ Stale(n, reg[n][c])

OwnInv == Typed /\ Vacated /\ Accounted

LEMMA OwnInit == Init => OwnInv
  BY DEF Init, OwnInv, Typed, Vacated, Accounted, NoReports, Nothing

(* Removing a name's metadata keeps the types, and only takes              *)
(* registrations away.                                                     *)
LEMMA MetadataGone ==
  ASSUME Typed, NEW n \in Names, removeProjectMetadata(n)
  PROVE  /\ reg' \in [Names -> [Clients -> Nat]]
         /\ \A m \in Names, c \in Clients :
              reg'[m][c] = IF m = n THEN 0 ELSE reg[m][c]
  BY DEF Typed, removeProjectMetadata, NoReports

LEMMA OwnNext == OwnInv /\ [Next]_vars => OwnInv'
<1> SUFFICES ASSUME OwnInv, [Next]_vars PROVE OwnInv'
  OBVIOUS
<1> USE DEF OwnInv, Typed, Vacated, Accounted, Stale
<1>1. ASSUME NEW n \in Names, createBareRepository(n) PROVE OwnInv'
  BY <1>1 DEF createBareRepository, Free, Nothing
<1>2. ASSUME NEW n \in Names, NEW c \in Clients, registerCheckout(n, c)
      PROVE OwnInv'
  BY <1>2 DEF registerCheckout, Free, Nothing
<1>3. ASSUME NEW n \in Names, NEW c \in Clients, forgetHostedCheckout(n, c)
      PROVE OwnInv'
  BY <1>3 DEF forgetHostedCheckout, Free, Nothing
<1>4. ASSUME NEW n \in Names, removeProject(n) PROVE OwnInv'
  BY <1>4 DEF removeProject, Free, Nothing
<1>5. ASSUME NEW n \in Names, deletedByHand(n) PROVE OwnInv'
  BY <1>5 DEF deletedByHand
<1>6. ASSUME NEW n \in Names, restoreTrashedRepository(n) PROVE OwnInv'
  BY <1>6 DEF restoreTrashedRepository, Free, Nothing
<1>7. ASSUME NEW n \in Names, sweepName(n) PROVE OwnInv'
  BY <1>7, MetadataGone DEF sweepName, Nothing
<1>8. ASSUME NEW n \in Names, appendInterrupted(n) PROVE OwnInv'
  BY <1>8 DEF appendInterrupted, Nothing
<1>9. ASSUME NEW n \in Names, NEW glued \in Forms, recordEvent(n, glued)
      PROVE OwnInv'
  BY <1>9 DEF recordEvent
<1>10. ASSUME NEW n \in Names, NEW glued \in Forms, appendHostedStateEvent(n, glued)
       PROVE OwnInv'
  BY <1>10, <1>9 DEF appendHostedStateEvent
<1>11. ASSUME NEW n \in Names, scrubInterrupted(n),
              (op.kind = "remove" /\ op.name = n) \/ op.kind = "sweep"
       PROVE OwnInv'
  <2>1. Vacated' /\ UNCHANGED <<repo, born>> /\ op' = Nothing
    BY <1>11 DEF scrubInterrupted, Nothing
  <2>2. reg' \in [Names -> [Clients -> Nat]]
    <3>1. CASE \E kept \in SUBSET Clients :
            reg' = [reg EXCEPT ![n] = [c \in Clients |-> IF c \in kept THEN @[c] ELSE 0]]
      BY <3>1
    <3>2. CASE reg' = [reg EXCEPT ![n] = NoReports]
      BY <3>2 DEF NoReports
    <3> QED
      BY <1>11, <3>1, <3>2 DEF scrubInterrupted
  <2>3. \A m \in Names, c \in Clients : reg'[m][c] \in {0, reg[m][c]}
    BY <1>11 DEF scrubInterrupted, NoReports
  <2>4. ASSUME NEW m \in Names, NEW c \in Clients, Stale(m, reg[m][c])
        PROVE  <<m, reg[m][c]>> \in orphaned'
    BY <1>11, <2>4 DEF scrubInterrupted, Abandoned
  <2> QED
    BY <2>1, <2>2, <2>3, <2>4 DEF Nothing
<1>12. ASSUME NEW glued \in Forms, registered(glued) PROVE OwnInv'
  BY <1>12 DEF registered, Nothing
<1>13. CASE removed
  <2>1. CASE Readable
    BY <1>13, <2>1, MetadataGone DEF removed, Nothing
  <2>2. CASE ~Readable
    BY <1>13, <2>2 DEF removed, Nothing, Abandoned
  <2> QED
    BY <2>1, <2>2
<1>14. CASE sweepOrphanProjectMetadata
  BY <1>14 DEF sweepOrphanProjectMetadata, Free, Nothing
<1>15. CASE restored
  <2>1. Typed' /\ Vacated' /\ UNCHANGED <<reg, orphaned>>
    BY <1>15 DEF restored, Nothing
  <2>2. ASSUME NEW n \in Names, NEW c \in Clients, reg[n][c] # 0
        PROVE  (repo[n] # 0 /\ repo'[n] = repo[n]) \/ <<n, reg[n][c]>> \in orphaned
    BY <1>15, <2>2 DEF restored
  <2> QED
    BY <2>1, <2>2
<1>16. CASE crash
  BY <1>16 DEF crash, Nothing, Abandoned
<1>17. CASE UNCHANGED vars
  BY <1>17 DEF vars
<1> QED
  BY <1>1, <1>2, <1>3, <1>4, <1>5, <1>6, <1>7, <1>8, <1>9, <1>10, <1>11, <1>12,
     <1>13, <1>14, <1>15, <1>16, <1>17 DEF Next

(* What a live project shows as its registrations was registered for this  *)
(* repository, unless an earlier one of the name was deleted by hand or    *)
(* its removal died: removal, creation and registration share the          *)
(* lifecycle lock.                                                         *)
THEOREM RegistrationsAreOwn == Spec => []OwnRegistrations
<1>1. OwnInv => OwnRegistrations
  BY DEF OwnInv, Typed, Vacated, Accounted, Stale, OwnRegistrations
<1> QED
  BY <1>1, OwnInit, OwnNext, PTL DEF Spec

(* A live project's registrations vanish only when their client forgets    *)
(* them: neither a sweep nor the removal of an earlier repository of the   *)
(* name takes them.                                                        *)
THEOREM NoRegistrationTaken == Spec => NothingTaken
<1> DEFINE Taken(n, c) == /\ repo[n] # 0 /\ reg[n][c] = repo[n]
                          /\ repo'[n] # 0 /\ reg'[n][c] = 0
           Forgets == Free /\ dirs' = dirs /\ log' = log
<1>1. ASSUME OwnInv, [Next]_vars, NEW n \in Names, NEW c \in Clients, Taken(n, c)
      PROVE  Forgets
  <2> USE <1>1 DEF OwnInv, Typed, Vacated
  <2>1. ASSUME NEW m \in Names, NEW e \in Clients, registerCheckout(m, e)
        PROVE  Forgets
    BY <2>1 DEF registerCheckout
  <2>2. ASSUME NEW m \in Names, NEW e \in Clients, forgetHostedCheckout(m, e)
        PROVE  Forgets
    BY <2>2 DEF forgetHostedCheckout
  <2>3. ASSUME NEW m \in Names, sweepName(m) PROVE Forgets
    BY <2>3, MetadataGone DEF sweepName, Orphan
  <2>4. CASE removed
    BY <2>4, MetadataGone DEF removed
  <2>5. ASSUME NEW m \in Names, scrubInterrupted(m),
               (op.kind = "remove" /\ op.name = m) \/ Orphan(m)
        PROVE  Forgets
    BY <2>5 DEF scrubInterrupted, Orphan
  <2>6. ASSUME UNCHANGED reg PROVE Forgets
    BY <2>6
  <2> QED
    BY <2>1, <2>2, <2>3, <2>4, <2>5, <2>6
    DEF Next, vars, createBareRepository, removeProject, deletedByHand,
        restoreTrashedRepository, appendInterrupted, recordEvent,
        appendHostedStateEvent, registered, sweepOrphanProjectMetadata,
        restored, crash
<1>2. OwnInv /\ [Next]_vars =>
        [\A n \in Names, c \in Clients : Taken(n, c) => Forgets]_vars
  BY <1>1
<1> QED
  BY <1>2, OwnInit, OwnNext, PTL DEF Spec, NothingTaken

(* What TypeOK needs of the holder of the lifecycle lock. *)
HolderType ==
  /\ op.kind \in {"register", "remove", "restore"} => op.name \in Names
  /\ op.kind = "remove" => op.of # 0
  /\ op.kind = "restore" => born < MaxRepos
TypeInv == TypeOK /\ HolderType

LEMMA NothingType == Nothing \in Operation
  BY ProjectsAssumption DEF Nothing, Operation

LEMMA TypeInit == Init => TypeInv
  BY NothingType, ProjectsAssumption
  DEF Init, TypeInv, TypeOK, HolderType, Nothing, NoReports

(* What a step leaves alone keeps its type. *)
Counters == born \in 0 .. MaxRepos /\ said \in Nat /\ crashes \in 0 .. MaxCrashes
Repositories ==
  /\ repo \in [Names -> 0 .. MaxRepos]
  /\ trash \subseteq Names \X (1 .. MaxRepos)
  /\ orphaned \subseteq Names \X (1 .. MaxRepos)
Reports ==
  /\ dirs \subseteq Names
  /\ reg \in [Names -> [Clients -> 0 .. MaxRepos]]
  /\ \A n \in Names, c \in Clients : reg[n][c] # 0 => n \in dirs
Holder == op \in Operation /\ HolderType

LEMMA AbandonedType == TypeInv => Abandoned \subseteq Names \X (1 .. MaxRepos)
  BY DEF TypeInv, TypeOK, HolderType, Operation, Abandoned

LEMMA RepositoriesNext ==
  ASSUME TypeInv, [Next]_vars
  PROVE  Repositories' /\ Counters' /\ told' \subseteq Event
<1> USE AbandonedType, ProjectsAssumption DEF TypeInv, TypeOK
<1>1. Repositories'
  <2> USE DEF Repositories
  <2>1. ASSUME NEW n \in Names, createBareRepository(n) PROVE Repositories'
    BY <2>1 DEF createBareRepository
  <2>2. ASSUME NEW n \in Names, removeProject(n) PROVE Repositories'
    BY <2>2 DEF removeProject
  <2>3. ASSUME NEW n \in Names, deletedByHand(n) PROVE Repositories'
    BY <2>3 DEF deletedByHand
  <2>4. CASE restored
    BY <2>4 DEF restored, HolderType
  <2>5. ASSUME UNCHANGED <<repo, trash>>,
               orphaned' \in {orphaned, orphaned \cup Abandoned}
        PROVE  Repositories'
    BY <2>5
  <2> QED
    BY <2>1, <2>2, <2>3, <2>4, <2>5
    DEF Next, vars, registerCheckout, forgetHostedCheckout, sweepName,
        restoreTrashedRepository, appendInterrupted, recordEvent,
        appendHostedStateEvent, scrubInterrupted, registered, removed,
        sweepOrphanProjectMetadata, crash
<1>2. Counters'
  <2>1. born' \in 0 .. MaxRepos
    <3>1. born' = born \/ (born' = born + 1 /\ born < MaxRepos)
      BY DEF HolderType, Next, vars, createBareRepository, restored, registerCheckout,
         forgetHostedCheckout, removeProject, deletedByHand, sweepName,
         restoreTrashedRepository, appendInterrupted, recordEvent, appendStateEvent,
         appendHostedStateEvent, scrubInterrupted, registered, removed,
         sweepOrphanProjectMetadata, crash
    <3> QED
      BY <3>1
  <2>2. said' \in {said, said + 1} /\ crashes' \in {crashes, crashes + 1}
    BY DEF Next, vars, createBareRepository, restored, registerCheckout,
         forgetHostedCheckout, removeProject, deletedByHand, sweepName,
         restoreTrashedRepository, appendInterrupted, recordEvent, appendStateEvent,
         appendHostedStateEvent, scrubInterrupted, registered, removed,
         sweepOrphanProjectMetadata, crash
  <2>3. crashes' = crashes \/ crashes < MaxCrashes
    BY DEF Next, vars, createBareRepository, restored, registerCheckout,
         forgetHostedCheckout, removeProject, deletedByHand, sweepName,
         restoreTrashedRepository, appendInterrupted, recordEvent, appendStateEvent,
         appendHostedStateEvent, scrubInterrupted, registered, removed,
         sweepOrphanProjectMetadata, crash
  <2> QED
    BY <2>1, <2>2, <2>3 DEF Counters
<1>3. told' \subseteq Event
  <2>1. ASSUME NEW n \in Names, NEW glued \in Forms, appendStateEvent(n, glued)
        PROVE  told' \subseteq Event
    BY <2>1 DEF appendStateEvent, Event
  <2> QED
    BY <2>1
    DEF HolderType, Next, vars, createBareRepository, registerCheckout,
        forgetHostedCheckout, removeProject, deletedByHand, sweepName,
        restoreTrashedRepository, appendInterrupted, recordEvent,
        appendHostedStateEvent, scrubInterrupted, registered, removed,
        sweepOrphanProjectMetadata, restored, crash
<1> QED
  BY <1>1, <1>2, <1>3

LEMMA ReportsNext == ASSUME TypeInv, [Next]_vars PROVE Reports'
<1> USE DEF TypeInv, TypeOK, Reports
<1>1. ASSUME NEW n \in Names, NEW c \in Clients, registerCheckout(n, c)
      PROVE  Reports'
  BY <1>1 DEF registerCheckout
<1>2. ASSUME NEW n \in Names, NEW c \in Clients, forgetHostedCheckout(n, c)
      PROVE  Reports'
  BY <1>2, ProjectsAssumption DEF forgetHostedCheckout
<1>3. ASSUME NEW n \in Names,
             dirs' = dirs \ {n}, reg' = [reg EXCEPT ![n] = NoReports]
      PROVE  Reports'
  BY <1>3, ProjectsAssumption DEF NoReports
<1>4. ASSUME NEW n \in Names, NEW kept \in SUBSET Clients, UNCHANGED dirs,
             reg' = [reg EXCEPT ![n] = [c \in Clients |-> IF c \in kept THEN @[c] ELSE 0]]
      PROVE  Reports'
  BY <1>4, ProjectsAssumption
<1>5. ASSUME UNCHANGED <<dirs, reg>> PROVE Reports'
  BY <1>5
<1> QED
  BY <1>1, <1>2, <1>3, <1>4, <1>5
  DEF HolderType, Next, vars, createBareRepository, removeProject, deletedByHand,
      sweepName, restoreTrashedRepository, appendInterrupted, recordEvent,
      appendHostedStateEvent, scrubInterrupted, registered, removed,
      removeProjectMetadata, sweepOrphanProjectMetadata, restored, crash

LEMMA HolderNext == ASSUME TypeInv, [Next]_vars PROVE Holder'
<1> USE ProjectsAssumption, NothingType
    DEF TypeInv, TypeOK, Holder, HolderType
<1>1. ASSUME op' = Nothing PROVE Holder'
  BY <1>1 DEF Nothing
<1>2. ASSUME NEW n \in Names, NEW c \in Clients, registerCheckout(n, c)
      PROVE  Holder'
  BY <1>2 DEF registerCheckout, Nothing, Operation
<1>3. ASSUME NEW n \in Names, removeProject(n) PROVE Holder'
  BY <1>3 DEF removeProject, Nothing, Operation
<1>4. CASE sweepOrphanProjectMetadata
  BY <1>4 DEF sweepOrphanProjectMetadata, Nothing, Operation, Named
<1>5. ASSUME NEW n \in Names, restoreTrashedRepository(n) PROVE Holder'
  BY <1>5 DEF restoreTrashedRepository, Nothing, Operation
<1>6. ASSUME NEW n \in Names, sweepName(n) PROVE Holder'
  BY <1>6, <1>1 DEF sweepName, Operation
<1>7. ASSUME NEW n \in Names, createBareRepository(n) PROVE Holder'
  BY <1>7 DEF createBareRepository, Free, Nothing
<1>8. ASSUME UNCHANGED <<op, born>> PROVE Holder'
  BY <1>8
<1> QED
  BY <1>1, <1>2, <1>3, <1>4, <1>5, <1>6, <1>7, <1>8
  DEF Next, vars, forgetHostedCheckout, deletedByHand, appendInterrupted,
      recordEvent, appendHostedStateEvent, scrubInterrupted, registered, removed,
      restored, crash

(* Every reachable state is well typed, and a registration lies in a       *)
(* directory of its project's name.                                        *)
THEOREM TypeCorrect == Spec => []TypeOK
<1>1. TypeInv /\ [Next]_vars => TypeInv'
  BY RepositoriesNext, ReportsNext, HolderNext
  DEF TypeInv, TypeOK, Counters, Repositories, Reports, Holder
<1>2. TypeInv => TypeOK
  BY DEF TypeInv
<1> QED
  BY <1>1, <1>2, TypeInit, PTL DEF Spec

-----------------------------------------------------------------------------
(* The event log: what a rotation, an append and a scrub keep of it. *)

(* Every non-empty set of numbers has a least one. *)
LEMMA Least ==
  ASSUME NEW T \in SUBSET Nat, T # {}
  PROVE  \E n \in T : \A m \in T : n <= m
<1> DEFINE R == OpToRel(<, Nat)
<1>1. IsWellFoundedOn(R, Nat)
  BY NatLessThanWellFounded
<1>2. PICK n \in T : \A m \in T : ~ (<<m, n>> \in R)
  BY <1>1, WFMin
<1>3. ASSUME NEW m \in T
      PROVE  n <= m
  <2>1. m \in Nat /\ n \in Nat
    OBVIOUS
  <2>2. <<m, n>> \in Nat \X Nat /\ <<m, n>>[1] = m /\ <<m, n>>[2] = n
    BY <2>1
  <2>3. ~ (m < n)
    BY <1>2, <2>2 DEF OpToRel
  <2> HIDE DEF R
  <2> QED BY <2>1, <2>3
<1> QED BY <1>3

(* Induction: a set of numbers that holds 0, and with a number the next    *)
(* one, holds all.                                                         *)
LEMMA AllNumbers ==
  ASSUME NEW S, 0 \in S, \A n \in Nat : n \in S => n + 1 \in S
  PROVE  Nat \subseteq S
<1> SUFFICES ASSUME Nat \ S # {} PROVE FALSE
  OBVIOUS
<1>1. PICK n \in Nat \ S : \A m \in Nat \ S : n <= m
  BY Least
<1>2. n # 0 /\ n - 1 \in Nat /\ n - 1 \in S
  BY <1>1
<1> QED BY <1>1, <1>2

(* What a scrub of project n keeps of the lines of f before line k. *)
Keeps(l, n) == l.form = "whole" /\ l.event.name # n
KeptUpTo(g, f, n, k) ==
  g = [i \in 0 .. k |-> IF i = 0 THEN <<>>
                        ELSE IF Keeps(f[i], n) THEN Append(g[i - 1], f[i])
                        ELSE g[i - 1]]

LEMMA KeptUpToMore ==
  ASSUME NEW f, NEW n, NEW k \in Nat, NEW g, KeptUpTo(g, f, n, k)
  PROVE  \E h : KeptUpTo(h, f, n, k + 1)
<1> DEFINE h == [i \in 0 .. k + 1 |-> IF i = 0 THEN <<>>
                        ELSE IF Keeps(f[i], n) THEN Append(g[i - 1], f[i])
                        ELSE g[i - 1]]
<1>1. \A i \in 0 .. k : g[i] = IF i = 0 THEN <<>>
                        ELSE IF Keeps(f[i], n) THEN Append(g[i - 1], f[i])
                        ELSE g[i - 1]
  BY DEF KeptUpTo
<1>2. \A i \in 0 .. k + 1 : h[i] = IF i = 0 THEN <<>>
                        ELSE IF Keeps(f[i], n) THEN Append(g[i - 1], f[i])
                        ELSE g[i - 1]
  OBVIOUS
<1>3. \A i \in 0 .. k : i \in 0 .. k + 1
  OBVIOUS
<1>4. \A i \in 0 .. k : h[i] = g[i]
  <2> HIDE DEF h
  <2> QED BY <1>1, <1>2, <1>3
<1>5. \A i \in 0 .. k + 1 : i # 0 => i - 1 \in 0 .. k
  OBVIOUS
<1>6. \A i \in 0 .. k + 1 : (IF i = 0 THEN <<>>
                             ELSE IF Keeps(f[i], n) THEN Append(h[i - 1], f[i])
                             ELSE h[i - 1])
                          = (IF i = 0 THEN <<>>
                             ELSE IF Keeps(f[i], n) THEN Append(g[i - 1], f[i])
                             ELSE g[i - 1])
  <2> HIDE DEF h
  <2> QED BY <1>4, <1>5
<1>7. h = [i \in 0 .. k + 1 |-> IF i = 0 THEN <<>>
                        ELSE IF Keeps(f[i], n) THEN Append(h[i - 1], f[i])
                        ELSE h[i - 1]]
  BY <1>6, Zenon
<1>8. KeptUpTo(h, f, n, k + 1)
  <2> HIDE DEF h
  <2> QED BY <1>7, Zenon DEF KeptUpTo
<1> QED BY <1>8

(* The recursive function of Kept exists. *)
LEMMA KeptIs ==
  ASSUME NEW f \in Seq(Line), NEW n
  PROVE  \E g : KeptUpTo(g, f, n, Len(f)) /\ Kept(f, n) = g[Len(f)]
<1> DEFINE S == {k \in Nat : \E g : KeptUpTo(g, f, n, k)}
<1>1. 0 \in S
  <2>1. KeptUpTo([i \in 0 .. 0 |-> <<>>], f, n, 0)
    BY DEF KeptUpTo
  <2> QED BY <2>1
<1>2. \A k \in Nat : k \in S => k + 1 \in S
  BY KeptUpToMore
<1>3. Len(f) \in S
  <2>1. Len(f) \in Nat
    BY LenProperties
  <2> HIDE DEF S
  <2> QED BY <1>1, <1>2, <2>1, AllNumbers
<1>4. \E g : g = [i \in 0 .. Len(f) |->
                    IF i = 0 THEN <<>>
                    ELSE IF f[i].form = "whole" /\ f[i].event.name # n
                      THEN Append(g[i - 1], f[i])
                    ELSE g[i - 1]]
  BY <1>3, Zenon DEF KeptUpTo, Keeps
<1> DEFINE fl == CHOOSE g : g = [i \in 0 .. Len(f) |->
                    IF i = 0 THEN <<>>
                    ELSE IF f[i].form = "whole" /\ f[i].event.name # n
                      THEN Append(g[i - 1], f[i])
                    ELSE g[i - 1]]
<1>5. fl = [i \in 0 .. Len(f) |->
                    IF i = 0 THEN <<>>
                    ELSE IF f[i].form = "whole" /\ f[i].event.name # n
                      THEN Append(fl[i - 1], f[i])
                    ELSE fl[i - 1]]
  BY <1>4, Zenon
<1>6. Kept(f, n) = fl[Len(f)]
  BY Zenon DEF Kept
<1> HIDE DEF fl
<1>7. KeptUpTo(fl, f, n, Len(f))
  BY <1>5, Zenon DEF KeptUpTo, Keeps
<1> QED BY <1>6, <1>7, Zenon

(* What is kept: every whole line of another project, and less than all if *)
(* there is another line.                                                  *)
Remains(s, f, n, k) ==
  /\ s \in Seq(Line) /\ Len(s) \in Nat /\ Len(s) <= k
  /\ \A i \in 1 .. k : Keeps(f[i], n) => \E j \in 1 .. Len(s) : s[j] = f[i]
  /\ (\E i \in 1 .. k : ~Keeps(f[i], n)) => Len(s) < k

LEMMA RemainsMore ==
  ASSUME NEW f, NEW n, NEW k \in Nat, NEW s, NEW t, Remains(s, f, n, k), f[k + 1] \in Line,
         t = IF Keeps(f[k + 1], n) THEN Append(s, f[k + 1]) ELSE s
  PROVE  Remains(t, f, n, k + 1)
<1>a. \A i \in 1 .. k + 1 : i \in 1 .. k \/ i = k + 1
  OBVIOUS
<1>1. CASE Keeps(f[k + 1], n)
  <2>1. /\ t \in Seq(Line) /\ Len(t) = Len(s) + 1 /\ t[Len(s) + 1] = f[k + 1]
        /\ \A j \in 1 .. Len(s) : t[j] = s[j]
    BY <1>1, AppendProperties DEF Remains
  <2>2. Len(t) \in Nat /\ Len(t) <= k + 1 /\ Len(s) + 1 \in 1 .. Len(t)
        /\ \A j \in 1 .. Len(s) : j \in 1 .. Len(t)
    BY <2>1 DEF Remains
  <2>3. ASSUME NEW i \in 1 .. k + 1, Keeps(f[i], n)
        PROVE  \E j \in 1 .. Len(t) : t[j] = f[i]
    <3>1. CASE i \in 1 .. k
      <4>1. PICK j \in 1 .. Len(s) : s[j] = f[i]
        BY <3>1, <2>3 DEF Remains
      <4> QED BY <4>1, <2>1, <2>2
    <3>2. CASE i = k + 1
      BY <3>2, <2>1, <2>2
    <3> QED BY <3>1, <3>2, <1>a
  <2>4. ASSUME NEW i \in 1 .. k + 1, ~Keeps(f[i], n)
        PROVE  Len(t) < k + 1
    <3>1. i \in 1 .. k
      BY <2>4, <1>1, <1>a
    <3>2. Len(s) < k
      BY <3>1, <2>4 DEF Remains
    <3> QED BY <3>2, <2>1 DEF Remains
  <2> QED BY <2>1, <2>2, <2>3, <2>4 DEF Remains
<1>2. CASE ~Keeps(f[k + 1], n)
  <2>1. t = s /\ Len(s) < k + 1
    BY <1>2 DEF Remains
  <2>2. ASSUME NEW i \in 1 .. k + 1, Keeps(f[i], n)
        PROVE  \E j \in 1 .. Len(t) : t[j] = f[i]
    BY <2>1, <2>2, <1>2, <1>a DEF Remains
  <2> QED BY <2>1, <2>2 DEF Remains
<1> QED BY <1>1, <1>2

LEMMA KeptFacts ==
  ASSUME NEW f \in Seq(Line), NEW n
  PROVE  Remains(Kept(f, n), f, n, Len(f))
<1>1. PICK g : KeptUpTo(g, f, n, Len(f)) /\ Kept(f, n) = g[Len(f)]
  BY KeptIs
<1>2. Len(f) \in Nat /\ \A i \in 1 .. Len(f) : f[i] \in Line
  BY LenProperties
<1>3. \A i \in 0 .. Len(f) : g[i] = IF i = 0 THEN <<>>
                        ELSE IF Keeps(f[i], n) THEN Append(g[i - 1], f[i])
                        ELSE g[i - 1]
  BY <1>1, Zenon DEF KeptUpTo
<1> DEFINE S == {k \in Nat : k <= Len(f) => Remains(g[k], f, n, k)}
<1>4. 0 \in S
  <2>1. g[0] = <<>>
    BY <1>2, <1>3
  <2>2. Remains(<<>>, f, n, 0)
    BY DEF Remains
  <2> QED BY <2>1, <2>2
<1>5. ASSUME NEW k \in Nat, k \in S
      PROVE  k + 1 \in S
  <2>1. SUFFICES ASSUME k + 1 <= Len(f) PROVE Remains(g[k + 1], f, n, k + 1)
    OBVIOUS
  <2>2. k + 1 \in 0 .. Len(f) /\ k + 1 # 0 /\ (k + 1) - 1 = k /\ k + 1 \in 1 .. Len(f)
    BY <2>1, <1>2
  <2>3. g[k + 1] = IF Keeps(f[k + 1], n) THEN Append(g[k], f[k + 1]) ELSE g[k]
    <3>1. PICK m : m = k + 1
      OBVIOUS
    <3>2. m \in 0 .. Len(f) /\ m # 0 /\ m - 1 = k
      BY <2>2, <3>1
    <3>3. g[m] = IF Keeps(f[m], n) THEN Append(g[m - 1], f[m]) ELSE g[m - 1]
      BY <3>2, <1>3, Zenon
    <3> QED BY <3>1, <3>2, <3>3
  <2>4. Remains(g[k], f, n, k)
    BY <1>5, <2>1, <1>2
  <2>5. f[k + 1] \in Line
    BY <1>2, <2>2
  <2> HIDE DEF S
  <2> QED BY <2>3, <2>4, <2>5, RemainsMore
<1>6. Len(f) \in S
  <2> HIDE DEF S
  <2> QED BY <1>2, <1>4, <1>5, AllNumbers
<1> QED BY <1>1, <1>2, <1>6

(* A directory of logs, and the lines its logs hold. *)
LogsOf(d) == Range(d.archives) \cup ({d.live} \ {0})
DirTyped(d) ==
  /\ d \in EventDirectory
  /\ \A k \in 1 .. Len(d.archives) : d.archives[k] \in 1 .. Len(d.files)
  /\ d.live \in 0 .. Len(d.files)
Has(d, l) == \E f \in LogsOf(d) : \E i \in 1 .. Len(d.files[f]) : d.files[f][i] = l

(* A rewrite of f as g, a change of d to e, leaves the lines of K. *)
Leaves(f, g, K) ==
  \A i \in 1 .. Len(f) : f[i] \in K => \E j \in 1 .. Len(g) : g[j] = f[i]
Stays(d, e, K) == DirTyped(e) /\ \A l \in K : Has(d, l) => Has(e, l)

NotTorn == {l \in Line : l.form # "torn"}
Others(n) == {l \in Line : Keeps(l, n)}

LEMMA DirParts ==
  ASSUME NEW d, DirTyped(d)
  PROVE  /\ d.files \in Seq(Seq(Line)) /\ d.archives \in Seq(Nat) /\ d.live \in Nat
         /\ Len(d.files) \in Nat /\ Len(d.archives) \in Nat
         /\ DOMAIN d.files = 1 .. Len(d.files) /\ DOMAIN d.archives = 1 .. Len(d.archives)
         /\ \A f \in 1 .. Len(d.files) : /\ d.files[f] \in Seq(Line)
                                         /\ Len(d.files[f]) \in Nat
                                         /\ DOMAIN d.files[f] = 1 .. Len(d.files[f])
         /\ d = [files |-> d.files, archives |-> d.archives, live |-> d.live]
<1>1. d \in EventDirectory
  BY DEF DirTyped
<1>2. d.files \in Seq(Seq(Line)) /\ d.archives \in Seq(Nat) /\ d.live \in Nat
  BY <1>1 DEF EventDirectory
<1>3. d = [files |-> d.files, archives |-> d.archives, live |-> d.live]
  BY <1>1 DEF EventDirectory
<1>4. \A f \in 1 .. Len(d.files) : d.files[f] \in Seq(Line)
  BY <1>2, ElementOfSeq
<1>5. \A s \in Seq(Line) : Len(s) \in Nat /\ DOMAIN s = 1 .. Len(s)
  BY LenProperties
<1> QED BY <1>2, <1>3, <1>4, <1>5, LenProperties

LEMMA LogsAreFiles ==
  ASSUME NEW d, DirTyped(d)
  PROVE  LogsOf(d) \subseteq 1 .. Len(d.files)
<1>1. Range(d.archives) \subseteq 1 .. Len(d.files)
  BY DirParts DEF DirTyped, Range
<1>2. {d.live} \ {0} \subseteq 1 .. Len(d.files)
  BY DirParts DEF DirTyped
<1> QED BY <1>1, <1>2 DEF LogsOf

LEMMA StaysThen ==
  ASSUME NEW d, NEW e, NEW g, NEW K, Stays(d, e, K), Stays(e, g, K)
  PROVE  Stays(d, g, K)
  BY DEF Stays

(* The same files, named by no fewer logs. *)
LEMMA StaysLinked ==
  ASSUME NEW d, NEW e, NEW K, DirTyped(d), DirTyped(e), e.files = d.files,
         LogsOf(d) \subseteq LogsOf(e)
  PROVE  Stays(d, e, K)
  BY DEF Stays, Has

(* The same logs, their files rewritten. *)
LEMMA StaysRewritten ==
  ASSUME NEW d, DirTyped(d), NEW g \in Seq(Seq(Line)), Len(g) = Len(d.files), NEW K,
         \A f \in 1 .. Len(d.files) : Leaves(d.files[f], g[f], K)
  PROVE  Stays(d, [d EXCEPT !.files = g], K)
<1> DEFINE e == [d EXCEPT !.files = g]
<1>1. e \in EventDirectory /\ e.files = g /\ e.archives = d.archives /\ e.live = d.live
  BY DEF DirTyped, EventDirectory
<1> HIDE DEF e
<1>2. DirTyped(e) /\ LogsOf(e) = LogsOf(d)
  BY <1>1 DEF DirTyped, LogsOf
<1>3. ASSUME NEW l \in K, Has(d, l) PROVE Has(e, l)
  <2>1. PICK f \in LogsOf(d) : \E i \in 1 .. Len(d.files[f]) : d.files[f][i] = l
    BY <1>3 DEF Has
  <2>2. f \in 1 .. Len(d.files)
    BY <2>1, LogsAreFiles
  <2>3. \E j \in 1 .. Len(g[f]) : g[f][j] = l
    BY <2>1, <2>2, <1>3 DEF Leaves
  <2> QED BY <2>1, <2>3, <1>1, <1>2 DEF Has
<1>4. Stays(d, e, K)
  BY <1>2, <1>3 DEF Stays
<1> QED BY <1>4 DEF e

LEMMA StaysOpened ==
  ASSUME NEW d, DirTyped(d), NEW K
  PROVE  Stays(d, Opened(d), K) /\ Opened(d).live \in 1 .. Len(Opened(d).files)
<1>1. CASE d.live # 0
  <2>1. Opened(d) = d
    BY <1>1 DEF Opened
  <2>2. d.live \in 1 .. Len(d.files)
    BY <1>1, DirParts DEF DirTyped
  <2> QED BY <2>1, <2>2, StaysLinked
<1>2. CASE d.live = 0
  <2> DEFINE e == Opened(d)
             h == Append(d.files, <<>>)
  <2>1. e = [d EXCEPT !.files = h, !.live = Len(d.files) + 1]
    BY <1>2 DEF Opened
  <2>2. d = [files |-> d.files, archives |-> d.archives, live |-> d.live]
    BY DirParts
  <2>3. e = [files |-> h, archives |-> d.archives, live |-> Len(d.files) + 1]
    <3> HIDE DEF h
    <3> QED BY <2>1, <2>2
  <2>4. <<>> \in Seq(Line) /\ d.files \in Seq(Seq(Line))
    BY DirParts
  <2>5. h \in Seq(Seq(Line)) /\ Len(h) = Len(d.files) + 1
        /\ \A f \in 1 .. Len(d.files) : h[f] = d.files[f]
    BY <2>4, AppendProperties
  <2> HIDE DEF e, h
  <2>6. Len(d.files) \in Nat /\ d.archives \in Seq(Nat) /\ Len(d.archives) \in Nat
    BY DirParts
  <2>7. e \in EventDirectory /\ e.files = h /\ e.archives = d.archives
        /\ e.live = Len(d.files) + 1
    BY <2>3, <2>5, <2>6 DEF EventDirectory
  <2>8. DirTyped(e) /\ e.live \in 1 .. Len(e.files)
    BY <2>5, <2>6, <2>7 DEF DirTyped
  <2>9. ASSUME NEW l \in K, Has(d, l) PROVE Has(e, l)
    <3>1. PICK f \in LogsOf(d) : \E i \in 1 .. Len(d.files[f]) : d.files[f][i] = l
      BY <2>9 DEF Has
    <3>2. f \in 1 .. Len(d.files)
      BY <3>1, LogsAreFiles
    <3>3. e.files[f] = d.files[f]
      BY <3>2, <2>5, <2>7
    <3>4. f \in LogsOf(e)
      BY <3>1, <1>2, <2>7 DEF LogsOf
    <3> QED BY <3>1, <3>3, <3>4 DEF Has
  <2>10. Stays(d, e, K)
    BY <2>8, <2>9 DEF Stays
  <2> QED BY <2>8, <2>10 DEF e
<1> QED BY <1>1, <1>2

LEMMA LinkedFacts ==
  ASSUME NEW d, DirTyped(d), d.live # 0
  PROVE  /\ DirTyped(Linked(d)) /\ Linked(d).files = d.files
         /\ LogsOf(Linked(d)) = LogsOf(d) /\ Linked(d).live = d.live
         /\ d.live \in Range(Linked(d).archives)
<1> DEFINE e == Linked(d)
           a == Append(d.archives, d.live)
<1>0. d = [files |-> d.files, archives |-> d.archives, live |-> d.live]
  BY DirParts
<1>1. e = [files |-> d.files, archives |-> a, live |-> d.live]
  <2>1. e = [d EXCEPT !.archives = a]
    BY DEF Linked
  <2> HIDE DEF a, e
  <2> QED BY <1>0, <2>1
<1>2. d.live \in Nat /\ d.archives \in Seq(Nat) /\ d.files \in Seq(Seq(Line))
      /\ Len(d.archives) \in Nat /\ Len(d.files) \in Nat
      /\ DOMAIN d.archives = 1 .. Len(d.archives)
  BY DirParts
<1>3. a \in Seq(Nat) /\ Len(a) = Len(d.archives) + 1 /\ a[Len(d.archives) + 1] = d.live
      /\ \A k \in 1 .. Len(d.archives) : a[k] = d.archives[k]
  BY <1>2, AppendProperties
<1>4. DOMAIN a = 1 .. Len(d.archives) + 1
  BY <1>3, LenProperties
<1> HIDE DEF e, a
<1>5. e \in EventDirectory /\ e.files = d.files /\ e.archives = a /\ e.live = d.live
  BY <1>1, <1>2, <1>3 DEF EventDirectory
<1>6. \A k \in 1 .. Len(d.archives) + 1 : k \in 1 .. Len(d.archives) \/ k = Len(d.archives) + 1
  BY <1>2
<1>7. d.live \in 1 .. Len(d.files)
  BY <1>2 DEF DirTyped
<1>8. \A k \in 1 .. Len(a) : a[k] \in 1 .. Len(d.files)
  BY <1>3, <1>6, <1>7 DEF DirTyped
<1>9. DirTyped(e)
  BY <1>5, <1>7, <1>8, <1>2 DEF DirTyped
<1>10. Range(a) = Range(d.archives) \cup {d.live}
  <2>1. Len(d.archives) + 1 \in DOMAIN a
    BY <1>2, <1>4
  <2>2. \A k \in 1 .. Len(d.archives) : k \in DOMAIN a
    BY <1>2, <1>4
  <2> QED BY <2>1, <2>2, <1>2, <1>3, <1>4, <1>6 DEF Range
<1>11. LogsOf(e) = LogsOf(d) /\ d.live \in Range(e.archives)
  BY <1>5, <1>10 DEF LogsOf
<1> QED BY <1>5, <1>9, <1>11 DEF e

LEMMA StaysUnlinked ==
  ASSUME NEW d, DirTyped(d), d.live # 0, NEW K
  PROVE  Stays(d, Linked(d), K) /\ Stays(d, Unlinked(Linked(d)), K)
<1>1. PICK l : l = Linked(d)
  OBVIOUS
<1>2. DirTyped(l) /\ l.files = d.files /\ LogsOf(l) = LogsOf(d) /\ l.live = d.live
      /\ d.live \in Range(l.archives)
  BY <1>1, LinkedFacts
<1>3. Stays(d, l, K)
  BY <1>2, StaysLinked
<1>4. PICK u : u = Unlinked(l)
  OBVIOUS
<1>5. l = [files |-> l.files, archives |-> l.archives, live |-> l.live]
  BY <1>2, DirParts
<1>6. u = [files |-> l.files, archives |-> l.archives, live |-> 0]
  BY <1>4, <1>5 DEF Unlinked
<1>7. l.files \in Seq(Seq(Line)) /\ l.archives \in Seq(Nat) /\ Len(l.files) \in Nat
  BY <1>2, DirParts
<1>8. u \in EventDirectory /\ u.files = l.files /\ u.archives = l.archives /\ u.live = 0
  BY <1>6, <1>7 DEF EventDirectory
<1>9. DirTyped(u)
  BY <1>2, <1>7, <1>8 DEF DirTyped
<1>10. LogsOf(u) = LogsOf(l)
  BY <1>2, <1>8 DEF LogsOf
<1>11. Stays(d, u, K)
  BY <1>2, <1>8, <1>9, <1>10, StaysLinked
<1> QED BY <1>1, <1>3, <1>4, <1>11

(* The log an event goes to: every rotation keeps every line. *)
LEMMA StaysRoomy ==
  ASSUME NEW d, DirTyped(d), NEW K
  PROVE  Stays(d, Roomy(d), K) /\ Roomy(d).live \in 1 .. Len(Roomy(d).files)
<1>1. CASE Full(d)
  <2>1. d.live # 0
    BY <1>1 DEF Full
  <2>2. PICK u : u = Unlinked(Linked(d))
    OBVIOUS
  <2>3. Stays(d, u, K)
    BY <2>1, <2>2, StaysUnlinked
  <2>4. DirTyped(u)
    BY <2>3 DEF Stays
  <2>5. Roomy(d) = Opened(u)
    BY <1>1, <2>2 DEF Roomy, rotateEvents
  <2>6. Stays(u, Opened(u), K) /\ Opened(u).live \in 1 .. Len(Opened(u).files)
    BY <2>4, StaysOpened
  <2> QED BY <2>3, <2>5, <2>6, StaysThen
<1>2. CASE ~Full(d)
  BY <1>2, StaysOpened DEF Roomy
<1> QED BY <1>1, <1>2

LEMMA TornParts ==
  ASSUME NEW f \in Seq(Line), Torn(f)
  PROVE  /\ Len(f) \in Nat /\ Len(f) # 0 /\ f[Len(f)].form = "torn"
         /\ Front(f) \in Seq(Line) /\ Len(Front(f)) = Len(f) - 1
         /\ \A i \in 1 .. Len(f) - 1 : Front(f)[i] = f[i]
<1>1. Len(f) \in Nat /\ Len(f) # 0 /\ f[Len(f)].form = "torn"
  BY EmptySeq, LenProperties DEF Torn, Last
<1>2. Front(f) = SubSeq(f, 1, Len(f) - 1)
  BY DEF Front
<1>3. \A i \in 1 .. Len(f) - 1 : f[i] \in Line
  BY <1>1, ElementOfSeq
<1>4. SubSeq(f, 1, Len(f) - 1) \in Seq(Line) /\ Len(SubSeq(f, 1, Len(f) - 1)) = Len(f) - 1
      /\ \A i \in 1 .. Len(f) - 1 : SubSeq(f, 1, Len(f) - 1)[i] = f[i]
  <2>1. PICK k : k = Len(f) - 1
    OBVIOUS
  <2>2. k \in Nat /\ k \in Int /\ 1 \in Int /\ \A i \in 1 .. k : f[i] \in Line
    BY <1>1, <1>3, <2>1
  <2>3. /\ SubSeq(f, 1, k) \in Seq(Line)
        /\ Len(SubSeq(f, 1, k)) = IF 1 <= k THEN k - 1 + 1 ELSE 0
        /\ \A i \in 1 .. k - 1 + 1 : SubSeq(f, 1, k)[i] = f[1 + i - 1]
    BY <2>2, SubSeqProperties
  <2>4. k - 1 + 1 = k /\ (IF 1 <= k THEN k - 1 + 1 ELSE 0) = k
        /\ \A i \in 1 .. k : 1 + i - 1 = i
    BY <2>2
  <2>5. PICK t : t = SubSeq(f, 1, k)
    OBVIOUS
  <2>6. t \in Seq(Line) /\ Len(t) = k /\ \A i \in 1 .. k : t[i] = f[i]
    BY <2>3, <2>4, <2>5
  <2> QED BY <2>1, <2>5, <2>6
<1> QED BY <1>1, <1>2, <1>4

LEMMA LeavesAppended ==
  ASSUME NEW f \in Seq(Line), NEW l \in Line, NEW K
  PROVE  Append(f, l) \in Seq(Line) /\ Leaves(f, Append(f, l), K)
<1>1. Len(f) \in Nat /\ Append(f, l) \in Seq(Line) /\ Len(Append(f, l)) = Len(f) + 1
      /\ \A i \in 1 .. Len(f) : Append(f, l)[i] = f[i]
  BY AppendProperties, LenProperties
<1> QED BY <1>1 DEF Leaves

(* What a record that is written leaves: all but a torn line, which it     *)
(* takes up.                                                               *)
LEMMA WrittenFacts ==
  ASSUME NEW f \in Seq(Line), NEW l \in Line, l.form = "whole", NEW glued \in Forms
  PROVE  LET g == Written(f, l, glued)
         IN /\ g \in Seq(Line) /\ Leaves(f, g, NotTorn)
            /\ Len(g) \in 1 .. Len(g)
            /\ g[Len(g)] = l \/ g[Len(g)].form = "broken"
<1> DEFINE g == Written(f, l, glued)
<1>1. CASE ~Torn(f)
  <2>1. g = Append(f, l)
    BY <1>1 DEF Written
  <2>2. Len(f) \in Nat /\ Len(Append(f, l)) = Len(f) + 1 /\ Append(f, l)[Len(f) + 1] = l
    BY AppendProperties, LenProperties
  <2> QED BY <2>1, <2>2, LeavesAppended
<1>2. CASE Torn(f)
  <2>1. PICK m : m = [l EXCEPT !.form = glued]
    OBVIOUS
  <2>2. m \in Line /\ m.form = glued /\ (glued = "whole" => m = l)
    BY <2>1 DEF Line, Forms
  <2>3. PICK h : h = Front(f)
    OBVIOUS
  <2>4. /\ Len(f) \in Nat /\ Len(f) # 0 /\ f[Len(f)].form = "torn"
        /\ h \in Seq(Line) /\ Len(h) = Len(f) - 1
        /\ \A i \in 1 .. Len(f) - 1 : h[i] = f[i]
    BY <1>2, <2>3, TornParts
  <2>5. g = Append(h, m)
    BY <1>2, <2>1, <2>3 DEF Written
  <2>6. /\ Append(h, m) \in Seq(Line) /\ Len(Append(h, m)) = Len(f)
        /\ Append(h, m)[Len(f)] = m
        /\ \A i \in 1 .. Len(f) - 1 : Append(h, m)[i] = h[i]
    BY <2>2, <2>4, AppendProperties
  <2>7. Leaves(f, g, NotTorn)
    <3>1. ASSUME NEW i \in 1 .. Len(f), f[i] \in NotTorn
          PROVE  \E j \in 1 .. Len(g) : g[j] = f[i]
      <4>1. i # Len(f)
        BY <3>1, <2>4 DEF NotTorn
      <4>2. i \in 1 .. Len(f) - 1
        BY <4>1, <2>4
      <4> QED BY <4>2, <2>4, <2>5, <2>6
    <3> QED BY <3>1 DEF Leaves
  <2>8. Len(g) = Len(f) /\ g[Len(g)] = m /\ g \in Seq(Line)
    BY <2>5, <2>6
  <2>9. Len(g) \in 1 .. Len(g) /\ (g[Len(g)] = l \/ g[Len(g)].form = "broken")
    BY <2>2, <2>4, <2>8 DEF Forms
  <2> QED BY <2>7, <2>8, <2>9
<1> QED BY <1>1, <1>2

(* One file of a directory rewritten. *)
LEMMA OneRewritten ==
  ASSUME NEW d, DirTyped(d), NEW f \in 1 .. Len(d.files), NEW g \in Seq(Line),
         NEW K, Leaves(d.files[f], g, K)
  PROVE  /\ Stays(d, [d EXCEPT !.files[f] = g], K)
         /\ [d EXCEPT !.files[f] = g].files[f] = g
         /\ LogsOf([d EXCEPT !.files[f] = g]) = LogsOf(d)
<1>1. PICK h : h = [d.files EXCEPT ![f] = g]
  OBVIOUS
<1>2. d.files \in Seq(Seq(Line))
  BY DirParts
<1>3. h \in Seq(Seq(Line)) /\ Len(h) = Len(d.files)
      /\ \A i \in 1 .. Len(d.files) : h[i] = IF i = f THEN g ELSE d.files[i]
  BY <1>1, <1>2, ExceptSeq
<1>4. \A i \in 1 .. Len(d.files) : Leaves(d.files[i], h[i], K)
  BY <1>3 DEF Leaves
<1>5. PICK e : e = [d EXCEPT !.files = h]
  OBVIOUS
<1>6. Stays(d, e, K)
  BY <1>3, <1>4, <1>5, StaysRewritten
<1>7. [d EXCEPT !.files[f] = g] = [d EXCEPT !.files = h]
  BY <1>1
<1>8. d = [files |-> d.files, archives |-> d.archives, live |-> d.live]
  BY DirParts
<1>9. e.files = h /\ e.archives = d.archives /\ e.live = d.live
  BY <1>5, <1>8
<1>10. LogsOf(e) = LogsOf(d) /\ e.files[f] = g
  BY <1>3, <1>9 DEF LogsOf
<1> QED BY <1>5, <1>6, <1>7, <1>10

(* An append keeps every line, and the log it leaves holds its record or a *)
(* line that cannot be read.                                               *)
LEMMA StaysAppended ==
  ASSUME NEW n \in Names, NEW glued \in Forms, DirTyped(log), repo[n] \in Nat,
         said \in Nat, appendStateEvent(n, glued)
  PROVE  /\ Stays(log, log', NotTorn)
         /\ LET e == [name |-> n, of |-> repo[n], id |-> said + 1]
            IN /\ told' = told \cup {e}
               /\ e \in Event
               /\ Has(log', Whole(e)) \/ \E l : Has(log', l) /\ l.form = "broken"
<1>1. PICK d : d = Roomy(log)
  OBVIOUS
<1>2. PICK e : e = [name |-> n, of |-> repo[n], id |-> said + 1]
  OBVIOUS
<1>3. PICK g : g = Written(d.files[d.live], Whole(e), glued)
  OBVIOUS
<1>4. log' = [d EXCEPT !.files[d.live] = g] /\ told' = told \cup {e}
  BY <1>1, <1>2, <1>3 DEF appendStateEvent
<1>5. Stays(log, d, NotTorn) /\ d.live \in 1 .. Len(d.files)
  BY <1>1, StaysRoomy
<1>6. DirTyped(d)
  BY <1>5 DEF Stays
<1>7. e \in Event /\ Whole(e) \in Line /\ Whole(e).form = "whole"
  BY <1>2 DEF Event, Whole, Line
<1>8. d.files[d.live] \in Seq(Line)
  BY <1>5, <1>6, DirParts
<1>9. /\ g \in Seq(Line) /\ Leaves(d.files[d.live], g, NotTorn)
      /\ Len(g) \in 1 .. Len(g)
      /\ g[Len(g)] = Whole(e) \/ g[Len(g)].form = "broken"
  BY <1>3, <1>7, <1>8, WrittenFacts
<1>10. PICK x : x = [d EXCEPT !.files[d.live] = g]
  OBVIOUS
<1>11. Stays(d, x, NotTorn) /\ x.files[d.live] = g /\ LogsOf(x) = LogsOf(d)
  <2>1. PICK k : k = d.live
    OBVIOUS
  <2>2. k \in 1 .. Len(d.files) /\ Leaves(d.files[k], g, NotTorn) /\ g \in Seq(Line)
    BY <1>5, <1>9, <2>1
  <2>3. x = [d EXCEPT !.files[k] = g]
    BY <1>10, <2>1
  <2>4. Stays(d, x, NotTorn) /\ x.files[k] = g /\ LogsOf(x) = LogsOf(d)
    BY <1>6, <2>2, <2>3, OneRewritten, Zenon
  <2> QED BY <2>1, <2>4
<1>12. d.live \in LogsOf(x)
  BY <1>5, <1>11, DirParts, <1>6 DEF LogsOf
<1>13. Has(x, g[Len(g)])
  BY <1>9, <1>11, <1>12 DEF Has
<1>14. Stays(log, x, NotTorn)
  BY <1>5, <1>11, StaysThen
<1> QED BY <1>2, <1>4, <1>7, <1>9, <1>10, <1>13, <1>14

(* So does an append that dies. *)
LEMMA StaysInterrupted ==
  ASSUME NEW n \in Names, DirTyped(log), repo[n] \in Nat, said \in Nat,
         appendInterrupted(n)
  PROVE  Stays(log, log', NotTorn)
<1>1. CASE Full(log) /\ log' \in {Linked(log), Unlinked(Linked(log))}
  <2>1. log.live # 0
    BY <1>1 DEF Full
  <2> QED BY <1>1, <2>1, StaysUnlinked
<1>2. CASE LET d == Roomy(log)
               e == [name |-> n, of |-> repo[n], id |-> said + 1]
           IN log' = [d EXCEPT !.files[d.live] =
                                 Append(@, [event |-> e, form |-> "torn"])]
  <2>1. PICK d : d = Roomy(log)
    OBVIOUS
  <2>2. PICK l : l = [event |-> [name |-> n, of |-> repo[n], id |-> said + 1],
                      form |-> "torn"]
    OBVIOUS
  <2>3. log' = [d EXCEPT !.files[d.live] = Append(d.files[d.live], l)]
    BY <1>2, <2>1, <2>2
  <2>4. Stays(log, d, NotTorn) /\ d.live \in 1 .. Len(d.files)
    BY <2>1, StaysRoomy
  <2>5. DirTyped(d)
    BY <2>4 DEF Stays
  <2>6. d.files[d.live] \in Seq(Line) /\ l \in Line
    <3>1. PICK e : e = [name |-> n, of |-> repo[n], id |-> said + 1]
      OBVIOUS
    <3>2. e \in Event
      BY <3>1 DEF Event
    <3>3. l \in Line
      BY <2>2, <3>1, <3>2 DEF Line
    <3> QED BY <2>4, <2>5, <3>3, DirParts
  <2>7. PICK g : g = Append(d.files[d.live], l)
    OBVIOUS
  <2>8. g \in Seq(Line) /\ Leaves(d.files[d.live], g, NotTorn)
    BY <2>6, <2>7, LeavesAppended
  <2>9. Stays(d, [d EXCEPT !.files[d.live] = g], NotTorn)
    BY <2>4, <2>5, <2>8, OneRewritten
  <2> QED BY <2>3, <2>4, <2>7, <2>9, StaysThen
<1> QED BY <1>1, <1>2 DEF appendInterrupted

-----------------------------------------------------------------------------
(* A scrub leaves what other projects' events say. *)

LEMMA LeavesKept ==
  ASSUME NEW f \in Seq(Line), NEW n
  PROVE  Kept(f, n) \in Seq(Line) /\ Leaves(f, Kept(f, n), Others(n))
<1>1. Remains(Kept(f, n), f, n, Len(f))
  BY KeptFacts
<1> QED BY <1>1 DEF Remains, Leaves, Others

LEMMA StaysScrubbed ==
  ASSUME NEW n, NEW some, DirTyped(log)
  PROVE  /\ Stays(log, Scrubbed(n, some), Others(n))
         /\ Len(Scrubbed(n, some).files) = Len(log.files)
         /\ \A i \in 1 .. Len(log.files) \ some : Scrubbed(n, some).files[i] = log.files[i]
<1> DEFINE h == [i \in DOMAIN log.files |->
                   IF i \in some /\ Mentions(log.files[i], n)
                   THEN Kept(log.files[i], n) ELSE log.files[i]]
<1>1. log.files \in Seq(Seq(Line)) /\ Len(log.files) \in Nat
      /\ DOMAIN log.files = 1 .. Len(log.files)
      /\ \A f \in 1 .. Len(log.files) : log.files[f] \in Seq(Line)
  BY DirParts
<1>2. \A i \in 1 .. Len(log.files) : h[i] \in Seq(Line)
                                     /\ Leaves(log.files[i], h[i], Others(n))
  <2>1. ASSUME NEW f \in Seq(Line) PROVE Leaves(f, f, Others(n))
    BY DEF Leaves
  <2> QED BY <1>1, <2>1, LeavesKept
<1>3. h = [i \in 1 .. Len(log.files) |-> h[i]]
  BY <1>1
<1>4. \A i \in 1 .. Len(log.files) \ some : h[i] = log.files[i]
  BY <1>1
<1>5. Scrubbed(n, some) = [log EXCEPT !.files = h]
  BY DEF Scrubbed
<1>6. h \in Seq(Seq(Line)) /\ Len(h) = Len(log.files)
  <2> HIDE DEF h
  <2>1. h \in [1 .. Len(log.files) -> Seq(Line)]
    BY <1>2, <1>3
  <2>2. PICK m : m = Len(log.files)
    OBVIOUS
  <2>3. m \in Nat /\ h \in [1 .. m -> Seq(Line)]
    BY <1>1, <2>1, <2>2
  <2>4. h \in Seq(Seq(Line)) /\ Len(h) = m
    BY <2>3
  <2> QED BY <2>2, <2>4
<1> HIDE DEF h
<1>7. PICK e : e = [log EXCEPT !.files = h]
  OBVIOUS
<1>8. Stays(log, e, Others(n))
  BY <1>2, <1>6, <1>7, StaysRewritten
<1>9. log = [files |-> log.files, archives |-> log.archives, live |-> log.live]
  BY DirParts
<1>10. e.files = h
  BY <1>7, <1>9
<1> QED BY <1>4, <1>5, <1>6, <1>7, <1>8, <1>10

(* A rewritten log that was not truncated begins with what was kept. *)
LEMMA LeavesOverlapped ==
  ASSUME NEW f \in Seq(Line), NEW n, Mentions(f, n), NEW cut \in {"whole", "broken"}
  PROVE  Overlapped(f, n, cut) \in Seq(Line) /\ Leaves(f, Overlapped(f, n, cut), Others(n))
<1>1. PICK k : k = Kept(f, n)
  OBVIOUS
<1>2. Len(f) \in Nat /\ DOMAIN f = 1 .. Len(f) /\ \A i \in 1 .. Len(f) : f[i] \in Line
  BY LenProperties, ElementOfSeq
<1>3. \E i \in 1 .. Len(f) : ~Keeps(f[i], n)
  BY <1>2 DEF Mentions, EventsOf, Keeps
<1>4. k \in Seq(Line) /\ Len(k) \in Nat /\ Len(k) < Len(f) /\ Leaves(f, k, Others(n))
  <2>1. Remains(k, f, n, Len(f))
    BY <1>1, KeptFacts
  <2> QED BY <1>1, <1>3, <2>1, LeavesKept DEF Remains
<1>5. PICK tail : tail = SubSeq(f, Len(k) + 1, Len(f))
  OBVIOUS
<1>6. tail \in Seq(Line) /\ Len(tail) > 0
  <2>1. PICK m : m = Len(k) + 1
    OBVIOUS
  <2>2. m \in Int /\ Len(f) \in Int /\ m <= Len(f) /\ m \in Nat /\ m >= 1
        /\ \A i \in m .. Len(f) : f[i] \in Line
    BY <1>2, <1>4, <2>1
  <2>3. /\ SubSeq(f, m, Len(f)) \in Seq(Line)
        /\ Len(SubSeq(f, m, Len(f))) = IF m <= Len(f) THEN Len(f) - m + 1 ELSE 0
    BY <2>2, SubSeqProperties
  <2> QED BY <1>5, <2>1, <2>2, <2>3
<1>7. tail # <<>> /\ Head(tail) \in Line /\ Tail(tail) \in Seq(Line)
  <2>1. tail # <<>>
    BY <1>6, EmptySeq
  <2> QED BY <1>6, <2>1, HeadTailProperties
<1>8. PICK l : l = [Head(tail) EXCEPT !.form = cut]
  OBVIOUS
<1>9. l \in Line
  BY <1>7, <1>8 DEF Line
<1>10. PICK r : r = IF Head(tail).form = "torn" THEN tail ELSE <<l>> \o Tail(tail)
  OBVIOUS
<1>11. r \in Seq(Line)
  <2>1. <<l>> \in Seq(Line)
    BY <1>9
  <2>2. <<l>> \o Tail(tail) \in Seq(Line)
    BY <1>7, <2>1, ConcatProperties
  <2> QED BY <1>6, <1>10, <2>2
<1>12. Overlapped(f, n, cut) = k \o r
  BY <1>1, <1>5, <1>8, <1>10, Zenon DEF Overlapped
<1>13. k \o r \in Seq(Line) /\ Len(k \o r) = Len(k) + Len(r) /\ Len(r) \in Nat
       /\ \A i \in 1 .. Len(k) : (k \o r)[i] = k[i]
  <2>1. Len(r) \in Nat
    BY <1>11, LenProperties
  <2>2. k \o r \in Seq(Line) /\ Len(k \o r) = Len(k) + Len(r)
        /\ \A i \in 1 .. Len(k) + Len(r) :
             (k \o r)[i] = IF i <= Len(k) THEN k[i] ELSE r[i - Len(k)]
    BY <1>4, <1>11, ConcatProperties
  <2>3. \A i \in 1 .. Len(k) : i \in 1 .. Len(k) + Len(r) /\ i <= Len(k)
    BY <1>4, <2>1
  <2> QED BY <2>1, <2>2, <2>3
<1>14. Leaves(f, k \o r, Others(n))
  <2>1. \A j \in 1 .. Len(k) : j \in 1 .. Len(k \o r)
    BY <1>4, <1>13
  <2> QED BY <1>4, <1>13, <2>1 DEF Leaves
<1> QED BY <1>12, <1>13, <1>14

LEMMA StaysScrubInterrupted ==
  ASSUME NEW n, DirTyped(log), scrubInterrupted(n)
  PROVE  Stays(log, log', Others(n))
<1>1. CASE UNCHANGED log
  BY <1>1, StaysLinked
<1>2. ASSUME NEW done \in SUBSET Logs, log' = Scrubbed(n, done)
      PROVE  Stays(log, log', Others(n))
  BY <1>2, StaysScrubbed
<1>3. ASSUME NEW done \in SUBSET Logs, NEW i \in Logs \ done,
             NEW cut \in {"whole", "broken"}, Mentions(log.files[i], n),
             log' = [Scrubbed(n, done) EXCEPT !.files[i] = Overlapped(@, n, cut)]
      PROVE  Stays(log, log', Others(n))
  <2>1. PICK d : d = Scrubbed(n, done)
    OBVIOUS
  <2>2. Stays(log, d, Others(n)) /\ Len(d.files) = Len(log.files)
        /\ \A j \in 1 .. Len(log.files) \ done : d.files[j] = log.files[j]
    BY <2>1, StaysScrubbed
  <2>3. Logs = LogsOf(log)
    BY DEF Logs, LogsOf
  <2>4. i \in 1 .. Len(log.files) \ done
    BY <2>3, LogsAreFiles
  <2>5. d.files[i] = log.files[i] /\ DirTyped(d) /\ i \in 1 .. Len(d.files)
    BY <2>2, <2>4 DEF Stays
  <2>6. PICK g : g = Overlapped(log.files[i], n, cut)
    OBVIOUS
  <2>7. log' = [d EXCEPT !.files[i] = g]
    BY <1>3, <2>1, <2>5, <2>6
  <2>8. d.files[i] \in Seq(Line)
    BY <2>5, DirParts
  <2>9. g \in Seq(Line) /\ Leaves(d.files[i], g, Others(n))
    BY <1>3, <2>5, <2>6, <2>8, LeavesOverlapped
  <2>10. Stays(d, [d EXCEPT !.files[i] = g], Others(n))
    BY <2>5, <2>9, OneRewritten
  <2> QED BY <2>2, <2>7, <2>10, StaysThen
<1> QED BY <1>1, <1>2, <1>3 DEF scrubInterrupted

-----------------------------------------------------------------------------
(* No event lost. *)

CanRead(d) == \A f \in LogsOf(d) : \A i \in DOMAIN d.files[f] : d.files[f][i].form # "broken"
Records(d, e) == \E f \in LogsOf(d) : e \in EventsOf(d.files[f])

LEMMA CanReadHas ==
  ASSUME NEW d, DirTyped(d)
  PROVE  CanRead(d) <=> \A l : Has(d, l) => l.form # "broken"
<1>1. \A f \in LogsOf(d) : DOMAIN d.files[f] = 1 .. Len(d.files[f])
  BY DirParts, LogsAreFiles
<1> QED BY <1>1 DEF CanRead, Has

LEMMA RecordsHas ==
  ASSUME NEW d, DirTyped(d), NEW e \in Event
  PROVE  Records(d, e) <=> Has(d, Whole(e))
<1>1. ASSUME NEW f \in LogsOf(d)
      PROVE  e \in EventsOf(d.files[f])
               <=> \E i \in 1 .. Len(d.files[f]) : d.files[f][i] = Whole(e)
  <2>1. PICK s : s = d.files[f]
    OBVIOUS
  <2>2. f \in 1 .. Len(d.files)
    BY LogsAreFiles
  <2>3. s \in Seq(Line) /\ DOMAIN s = 1 .. Len(s)
    BY <2>1, <2>2, DirParts
  <2>4. \A i \in 1 .. Len(s) : s[i] \in Line
    BY <2>3, ElementOfSeq
  <2>5. \A l \in Line : l.form = "whole" /\ l.event = e <=> l = Whole(e)
    BY DEF Line, Whole
  <2>6. e \in EventsOf(s) <=> \E i \in 1 .. Len(s) : s[i].form = "whole" /\ s[i].event = e
    BY <2>3 DEF EventsOf
  <2> QED BY <2>1, <2>4, <2>5, <2>6
<1> QED BY <1>1 DEF Records, Has

(* No event is dated after the last repository. *)
Dated ==
  /\ \A n \in Names : repo[n] <= born
  /\ \A e \in told : e.of <= born
EventsHeld ==
  CanRead(log) => \A e \in told : e.of # 0 /\ repo[e.name] = e.of => Has(log, Whole(e))
EventInv == TypeInv /\ OwnInv /\ Dated /\ DirTyped(log) /\ EventsHeld

(* What a step does to the log: nothing, an append, or the scrub of a name *)
(* that has no repository.                                                 *)
Untouched ==
  /\ UNCHANGED <<log, told>>
  /\ born' \in {born, born + 1}
  /\ \A n \in Names : repo'[n] \in {repo[n], 0} \/ (repo'[n] = born + 1 /\ born' = born + 1)
Appended ==
  /\ UNCHANGED <<repo, born>>
  /\ Stays(log, log', NotTorn)
  /\ \/ told' = told
     \/ \E e \in Event : /\ e.of = repo[e.name] /\ told' = told \cup {e}
                         /\ Has(log', Whole(e)) \/ \E l : Has(log', l) /\ l.form = "broken"
Cleared ==
  /\ UNCHANGED <<repo, born, told>>
  /\ CanRead(log)
  /\ \E n \in Names : repo[n] = 0 /\ Stays(log, log', Others(n))

LEMMA LogNext ==
  ASSUME EventInv, [Next]_vars
  PROVE  Untouched \/ Appended \/ Cleared
<1>1. /\ DirTyped(log) /\ repo \in [Names -> 0 .. MaxRepos] /\ said \in Nat
      /\ op.kind \in {"register", "remove", "restore"} => op.name \in Names
      /\ op.kind = "remove" => repo[op.name] = 0
  BY DEF EventInv, TypeInv, TypeOK, HolderType, OwnInv, Vacated
<1>2. Readable <=> CanRead(log)
  BY DEF Readable, CanRead, Logs, LogsOf
<1>3. \A n \in Names : repo[n] \in Nat
  BY <1>1, ProjectsAssumption
<1>4. ASSUME NEW n \in Names, NEW glued \in Forms, appendStateEvent(n, glued),
             UNCHANGED <<repo, born>>
      PROVE  Appended
  <2>1. PICK e : e = [name |-> n, of |-> repo[n], id |-> said + 1]
    OBVIOUS
  <2>2. /\ Stays(log, log', NotTorn) /\ told' = told \cup {e} /\ e \in Event
        /\ Has(log', Whole(e)) \/ \E l : Has(log', l) /\ l.form = "broken"
    BY <1>1, <1>3, <1>4, <2>1, StaysAppended
  <2>3. e.of = repo[e.name]
    BY <2>1
  <2> QED BY <1>4, <2>2, <2>3 DEF Appended
<1>5. ASSUME NEW n \in Names, appendInterrupted(n) PROVE Appended
  <2>1. Stays(log, log', NotTorn)
    BY <1>1, <1>3, <1>5, StaysInterrupted
  <2> QED BY <1>5, <2>1 DEF Appended, appendInterrupted
<1>6. ASSUME NEW n \in Names, repo[n] = 0, Readable, removeProjectMetadata(n),
             UNCHANGED <<repo, born, told>>
      PROVE  Cleared
  <2>1. Stays(log, log', Others(n))
    BY <1>1, <1>6, StaysScrubbed DEF removeProjectMetadata
  <2> QED BY <1>2, <1>6, <2>1 DEF Cleared
<1>7. ASSUME NEW n \in Names, repo[n] = 0, scrubInterrupted(n) PROVE Cleared
  <2>1. Stays(log, log', Others(n))
    BY <1>1, <1>7, StaysScrubInterrupted
  <2> QED BY <1>2, <1>7, <2>1 DEF Cleared, scrubInterrupted
<1>8. ASSUME UNCHANGED <<repo, born, log, told>> PROVE Untouched
  BY <1>8 DEF Untouched
<1>9. ASSUME NEW n \in Names, createBareRepository(n) PROVE Untouched
  BY <1>1, <1>9 DEF Untouched, createBareRepository
<1>10. ASSUME NEW n \in Names, removeProject(n) \/ deletedByHand(n) PROVE Untouched
  BY <1>1, <1>10 DEF Untouched, removeProject, deletedByHand
<1>11. CASE restored
  BY <1>1, <1>11 DEF Untouched, restored
<1>12. ASSUME NEW n \in Names, sweepName(n) PROVE Untouched \/ Cleared
  <2>1. CASE Orphan(n) /\ Readable
    <3>1. removeProjectMetadata(n) /\ UNCHANGED <<repo, born, told>>
      BY <1>12, <2>1 DEF sweepName
    <3> QED BY <1>6, <2>1, <3>1 DEF Orphan
  <2>2. CASE ~(Orphan(n) /\ Readable)
    <3>1. UNCHANGED <<repo, born, log, told>>
      BY <1>12, <2>2 DEF sweepName
    <3> QED BY <3>1, <1>8
  <2> QED BY <2>1, <2>2
<1>13. CASE removed
  <2>1. CASE Readable
    <3>1. op.name \in Names /\ repo[op.name] = 0
          /\ removeProjectMetadata(op.name) /\ UNCHANGED <<repo, born, told>>
      BY <1>1, <1>13, <2>1 DEF removed
    <3> QED BY <1>6, <2>1, <3>1
  <2>2. CASE ~Readable
    BY <1>13, <2>2, <1>8 DEF removed
  <2> QED BY <2>1, <2>2
<1>14. ASSUME NEW glued \in Forms, registered(glued) PROVE Appended
  <2>1. op.name \in Names /\ appendStateEvent(op.name, glued) /\ UNCHANGED <<repo, born>>
    BY <1>1, <1>14 DEF registered
  <2> QED BY <2>1, <1>4
<1>15. ASSUME NEW n \in Names, NEW glued \in Forms,
              recordEvent(n, glued) \/ appendHostedStateEvent(n, glued)
       PROVE  Appended
  BY <1>15, <1>4 DEF recordEvent, appendHostedStateEvent
<1>16. ASSUME NEW n \in Names, scrubInterrupted(n),
              (op.kind = "remove" /\ op.name = n) \/ Orphan(n)
       PROVE  Cleared
  BY <1>1, <1>7, <1>16 DEF Orphan
<1>17. ASSUME NEW n \in Names,
              (\E c \in Clients : registerCheckout(n, c) \/ forgetHostedCheckout(n, c))
              \/ restoreTrashedRepository(n)
       PROVE  UNCHANGED <<repo, born, log, told>>
  BY <1>17 DEF registerCheckout, forgetHostedCheckout, restoreTrashedRepository
<1>18. sweepOrphanProjectMetadata \/ crash \/ UNCHANGED vars => UNCHANGED <<repo, born, log, told>>
  BY DEF sweepOrphanProjectMetadata, crash, vars
<1>19. CASE Next
  <2>1. ASSUME NEW n \in Names,
               \/ createBareRepository(n)
               \/ \E c \in Clients : registerCheckout(n, c) \/ forgetHostedCheckout(n, c)
               \/ removeProject(n)
               \/ deletedByHand(n)
               \/ restoreTrashedRepository(n)
               \/ sweepName(n)
               \/ appendInterrupted(n)
               \/ \E glued \in Forms : recordEvent(n, glued) \/ appendHostedStateEvent(n, glued)
               \/ op.kind = "remove" /\ op.name = n /\ scrubInterrupted(n)
               \/ op.kind = "sweep" /\ n \in op.todo /\ Orphan(n) /\ scrubInterrupted(n)
        PROVE  Untouched \/ Appended \/ Cleared
    BY <2>1, <1>5, <1>8, <1>9, <1>10, <1>12, <1>15, <1>16, <1>17, Zenon
  <2> QED BY <1>19, <2>1, <1>8, <1>11, <1>13, <1>14, <1>18, Zenon DEF Next
<1> QED BY <1>8, <1>18, <1>19

LEMMA EventsNext ==
  ASSUME EventInv, [Next]_vars
  PROVE  Dated' /\ DirTyped(log') /\ EventsHeld'
<1>1. /\ DirTyped(log) /\ repo \in [Names -> Nat] /\ born \in Nat
      /\ told \subseteq Event /\ EventsHeld
      /\ \A n \in Names : repo[n] <= born
      /\ \A e \in told : e.of <= born
  BY DEF EventInv, TypeInv, TypeOK, OwnInv, Typed, Dated
<1>2. \A e \in Event : /\ e.of \in Nat /\ e.name \in Names
                       /\ Whole(e) \in Line /\ Whole(e).form = "whole" /\ Whole(e).event = e
  BY DEF Event, Whole, Line
<1>3. \A d : DirTyped(d) => (CanRead(d) <=> \A l : Has(d, l) => l.form # "broken")
  BY CanReadHas
<1>4. CASE Untouched
  <2>1. Dated'
    <3>1. born <= born' /\ 0 <= born'
      BY <1>1, <1>4 DEF Untouched
    <3>2. ASSUME NEW n \in Names PROVE repo'[n] <= born'
      <4>1. repo[n] \in Nat /\ repo[n] <= born /\ born' \in Nat
        BY <1>1, <1>4 DEF Untouched
      <4> QED BY <4>1, <3>1, <1>1, <1>4 DEF Untouched
    <3>3. ASSUME NEW e \in told PROVE e.of <= born'
      <4>1. e.of \in Nat /\ e.of <= born /\ born' \in Nat
        BY <1>1, <1>2, <1>4 DEF Untouched
      <4> QED BY <4>1, <3>1, <1>1
    <3> QED BY <3>2, <3>3, <1>4 DEF Untouched, Dated
  <2>2. ASSUME NEW e \in told, e.of # 0, repo'[e.name] = e.of
        PROVE  repo[e.name] = e.of
    <3>1. e \in Event /\ e.of \in Nat /\ e.name \in Names /\ e.of <= born
      BY <1>1, <1>2
    <3> QED BY <1>1, <1>4, <2>2, <3>1 DEF Untouched
  <2>3. EventsHeld'
    BY <1>1, <1>4, <2>2 DEF EventsHeld, Untouched
  <2> QED BY <1>1, <1>4, <2>1, <2>3 DEF Untouched
<1>5. CASE Appended
  <2>1. UNCHANGED <<repo, born>> /\ DirTyped(log')
        /\ \A l \in NotTorn : Has(log, l) => Has(log', l)
    BY <1>5 DEF Appended, Stays
  <2>2. ASSUME CanRead(log') PROVE CanRead(log)
    <3>1. \A l : Has(log', l) => l.form # "broken"
      BY <1>3, <2>1, <2>2
    <3>2. ASSUME NEW l, Has(log, l), l.form = "broken" PROVE FALSE
      <4>1. l \in Line
        <5>1. PICK f \in LogsOf(log) : \E i \in 1 .. Len(log.files[f]) : log.files[f][i] = l
          BY <3>2 DEF Has
        <5>2. f \in 1 .. Len(log.files)
          BY <1>1, <5>1, LogsAreFiles
        <5>3. log.files[f] \in Seq(Line)
          BY <1>1, <5>2, DirParts
        <5> QED BY <5>1, <5>3, ElementOfSeq
      <4>2. l \in NotTorn
        BY <4>1, <3>2 DEF NotTorn
      <4> QED BY <2>1, <3>1, <3>2, <4>2
    <3> QED BY <1>1, <1>3, <3>2
  <2>3. ASSUME CanRead(log'), NEW e \in told, e.of # 0, repo[e.name] = e.of
        PROVE  Has(log', Whole(e))
    <3>1. Has(log, Whole(e))
      BY <1>1, <2>2, <2>3 DEF EventsHeld
    <3>2. Whole(e) \in NotTorn
      BY <1>1, <1>2 DEF NotTorn
    <3> QED BY <2>1, <3>1, <3>2
  <2>4. CASE told' = told
    BY <1>1, <2>1, <2>3, <2>4 DEF EventsHeld, Dated
  <2>5. ASSUME NEW e \in Event, e.of = repo[e.name], told' = told \cup {e},
               Has(log', Whole(e)) \/ \E l : Has(log', l) /\ l.form = "broken"
        PROVE  Dated' /\ EventsHeld'
    <3>1. Dated'
      BY <1>1, <1>2, <2>1, <2>5 DEF Dated
    <3>2. CanRead(log') => Has(log', Whole(e))
      BY <1>3, <2>1, <2>5
    <3>3. EventsHeld'
      BY <2>1, <2>3, <2>5, <3>2 DEF EventsHeld
    <3> QED BY <3>1, <3>3
  <2> QED BY <1>5, <2>1, <2>4, <2>5 DEF Appended
<1>6. CASE Cleared
  <2>1. UNCHANGED <<repo, born, told>> /\ CanRead(log)
    BY <1>6 DEF Cleared
  <2>2. PICK n \in Names : repo[n] = 0 /\ Stays(log, log', Others(n))
    BY <1>6 DEF Cleared
  <2>3. DirTyped(log') /\ \A l \in Others(n) : Has(log, l) => Has(log', l)
    BY <2>2 DEF Stays
  <2>4. ASSUME NEW e \in told, e.of # 0, repo[e.name] = e.of
        PROVE  Has(log', Whole(e))
    <3>1. Has(log, Whole(e))
      BY <1>1, <2>1, <2>4 DEF EventsHeld
    <3>2. e.name # n
      BY <2>2, <2>4
    <3>3. Whole(e) \in Others(n)
      BY <1>1, <1>2, <3>2 DEF Others, Keeps
    <3> QED BY <2>3, <3>1, <3>3
  <2>5. Dated' /\ EventsHeld'
    BY <1>1, <2>1, <2>4 DEF Dated, EventsHeld
  <2> QED BY <2>3, <2>5
<1> QED BY <1>4, <1>5, <1>6, LogNext

LEMMA EventsInit == Init => Dated /\ DirTyped(log) /\ EventsHeld
<1> SUFFICES ASSUME Init PROVE Dated /\ DirTyped(log) /\ EventsHeld
  OBVIOUS
<1>1. Dated /\ told = {}
  BY DEF Init, Dated
<1>2. log = [files |-> <<>>, archives |-> <<>>, live |-> 0]
  BY DEF Init
<1>3. log \in EventDirectory
  BY <1>2 DEF EventDirectory
<1>4. DirTyped(log)
  BY <1>2, <1>3 DEF DirTyped
<1> QED BY <1>1, <1>4 DEF EventsHeld

(* While the logs can be read, every event recorded for a live repository  *)
(* is in one of them: rotation, the scrubs of other projects and the       *)
(* crashes of both lose none.                                              *)
THEOREM EventsStay == Spec => []NoEventLost
<1>1. Init => EventInv
  BY EventsInit, TypeInit, OwnInit DEF EventInv
<1>2. EventInv /\ [Next]_vars => EventInv'
  <2>1. TypeInv /\ [Next]_vars => TypeInv'
    BY RepositoriesNext, ReportsNext, HolderNext
    DEF TypeInv, TypeOK, Counters, Repositories, Reports, Holder
  <2> QED BY <2>1, OwnNext, EventsNext DEF EventInv
<1>3. ASSUME EventInv PROVE NoEventLost
  <2>1. DirTyped(log) /\ told \subseteq Event /\ EventsHeld
    BY <1>3 DEF EventInv, TypeInv, TypeOK
  <2>2. Readable => CanRead(log)
    BY DEF Readable, CanRead, Logs, LogsOf
  <2>3. ASSUME Readable, NEW e \in told, e.of # 0, repo[e.name] = e.of
        PROVE  \E f \in Logs : e \in EventsOf(log.files[f])
    <3>1. Has(log, Whole(e))
      BY <2>1, <2>2, <2>3 DEF EventsHeld
    <3>2. Records(log, e)
      BY <2>1, <3>1, RecordsHas
    <3> QED BY <3>2 DEF Records, Logs, LogsOf
  <2> QED BY <2>3 DEF NoEventLost
<1> QED BY <1>1, <1>2, <1>3, PTL DEF Spec

===============================================================================
