--------------------------- MODULE ClientSyncProofs ---------------------------
(* Theorems about the clients, for any devices, checkouts and branches.    *)
EXTENDS ClientSync, TLAPS

(* A command or a plan that is about a checkout has one that exists, and a *)
(* folder that is yet to be cloned has no commits.                         *)
HasFolder(d) ==
  /\ cmd[d].at \notin {"idle", "forget", "drop"} => Folder(d) \in here
  /\ plan[d] # NoPlan => plan[d].c \in here
Fresh == \A c \in Checkouts \ here : local[c] = NoRefs
TypeInv == TypeOK /\ (\A d \in Devices : HasFolder(d)) /\ Fresh

(* The parts of TypeInv that change together. *)
Server ==
  /\ hosted \in BOOLEAN
  /\ server \in [Branches -> SUBSET Commits]
  /\ report \in [Devices -> Reports \cup {None}]
Selection ==
  /\ canonical \in [Devices -> Checkouts \cup {None}]
  /\ cut \subseteq Devices
  /\ begun \in 0 .. MaxCommands
Worktrees ==
  /\ here \subseteq Checkouts
  /\ paired \subseteq here
  /\ local \in [Checkouts -> [Branches -> SUBSET Commits]]
  /\ head \in [Checkouts -> Branches]
  /\ acts \in 0 .. MaxActs
  /\ Fresh
Commands ==
  /\ plan \in [Devices -> Plan]
  /\ cmd \in [Devices -> Command]
  /\ \A d \in Devices : HasFolder(d)

LEMMA IdleType ==
  /\ Idle \in Command
  /\ NoPlan \in Plan
  /\ NoRefs \in [Branches -> SUBSET Commits]
  BY ClientSyncAssumption DEF Idle, NoPlan, NoRefs, Command, Plan, Commits

LEMMA TypeInit == Init => TypeInv
<1> SUFFICES ASSUME Init PROVE TypeInv
  OBVIOUS
<1> USE ClientSyncAssumption DEF Init
<1>1. PICK legacy \in SUBSET Checkouts :
        /\ hosted = (legacy # {})
        /\ report = [d \in Devices |->
             IF \E c \in legacy : On[c] = d
               THEN Report(CHOOSE c \in legacy : On[c] = d) ELSE None]
        /\ legacy \subseteq Folders
        /\ paired = legacy
        /\ server = IF legacy = {} THEN NoRefs ELSE [NoRefs EXCEPT ![Main] = {0}]
  OBVIOUS
<1>2. Server
  <2>1. ASSUME NEW d \in Devices PROVE report[d] \in Reports \cup {None}
    <3>1. CASE \E c \in legacy : On[c] = d
      <4>1. (CHOOSE c \in legacy : On[c] = d) \in legacy
        BY <3>1
      <4> QED
        BY <1>1, <3>1, <4>1 DEF Reports
    <3> QED
      BY <1>1, <3>1
  <2>2. server \in [Branches -> SUBSET Commits]
    BY <1>1, IdleType DEF NoRefs, Commits
  <2>3. report \in [Devices -> Reports \cup {None}]
    BY <1>1, <2>1
  <2> QED
    BY <1>1, <2>2, <2>3 DEF Server
<1>3. Selection
  BY DEF Selection
<1>4. Worktrees
  <2>1. local \in [Checkouts -> [Branches -> SUBSET Commits]]
    <3>1. [NoRefs EXCEPT ![Main] = {0}] \in [Branches -> SUBSET Commits]
      BY DEF NoRefs, Commits
    <3> QED
      BY <3>1, IdleType
  <2> QED
    BY <1>1, <2>1 DEF Worktrees, Fresh
<1>5. Commands
  BY IdleType DEF Commands, HasFolder, Idle
<1> QED
  BY <1>2, <1>3, <1>4, <1>5
  DEF TypeInv, TypeOK, Server, Selection, Worktrees, Commands

(* Which steps change what. *)
RemoteStep(d) == \/ registerRemoteCheckout(d) \/ push(d)
                 \/ createBareRepository(d) \/ forgetHostedCheckout(d)
SelectionStep(d) == \/ saveCanonicalCheckout(d) \/ checkoutMigrate(d)
                    \/ forgetCanonicalCheckout(d)
WorkStep(d) == remoteAdd(d) \/ merge(d) \/ \E c \in Checkouts : cloneCommand(d, c)
Frame(d) == /\ RemoteStep(d) \/ UNCHANGED remote
            /\ SelectionStep(d) \/ UNCHANGED canonical
            /\ WorkStep(d) \/ UNCHANGED work
            /\ fails(d) \/ cut' \subseteq cut
            /\ Begins \/ UNCHANGED begun

LEMMA StepFrame ==
  ASSUME NEW d \in Devices, Steps(d) \/ Starts(d)
  PROVE  Frame(d)
<1> USE DEF Frame, RemoteStep, SelectionStep, WorkStep
<1>1. CASE Steps(d)
  <2>1. CASE registerRemoteCheckout(d) \/ createBareRepository(d) \/ forgetHostedCheckout(d) \/ push(d)
    BY <2>1 DEF registerRemoteCheckout, createBareRepository, forgetHostedCheckout, push
  <2>2. CASE saveCanonicalCheckout(d) \/ forgetCanonicalCheckout(d)
    BY <2>2 DEF saveCanonicalCheckout, forgetCanonicalCheckout
  <2>3. CASE remoteAdd(d) \/ merge(d) \/ fails(d)
    BY <2>3 DEF remoteAdd, merge, fails, remote
  <2>4. CASE publishRepository(d)
    BY <2>4 DEF publishRepository
  <2>5. CASE fetch(d) \/ incomingAncestor(d)
    BY <2>5 DEF fetch, incomingAncestor
  <2> QED
    BY <1>1, <2>1, <2>2, <2>3, <2>4, <2>5 DEF Steps
<1>2. ASSUME NEW c \in Checkouts, incomingOne(d, c) \/ cloneCommand(d, c)
      PROVE  Frame(d)
  BY <1>2 DEF incomingOne, cloneCommand
<1>3. ASSUME NEW c \in Checkouts, NEW replace \in BOOLEAN,
             registerCommand(d, c, replace) \/ planPublish(d, c, replace)
      PROVE  Frame(d)
  BY <1>3 DEF registerCommand, planPublish
<1>4. ASSUME NEW c \in Checkouts, NEW replace \in BOOLEAN, NEW scope,
             syncOne(d, c, scope, replace)
      PROVE  Frame(d)
  BY <1>4 DEF syncOne
<1>5. CASE checkoutMigrate(d) \/ forgetCommand(d)
  BY <1>5 DEF checkoutMigrate, forgetCommand
<1> QED
  BY <1>1, <1>2, <1>3, <1>4, <1>5 DEF Starts

LEMMA UserFrame ==
  ASSUME NEW c \in Checkouts, User(c)
  PROVE  UNCHANGED <<remote, canonical, plan, cmd, begun, cut>>
  BY DEF User, commit, amend, switch

LEMMA ServerNext == ASSUME TypeInv, [Next]_vars PROVE Server'
<1> USE DEF TypeInv, TypeOK, Server
<1>1. ASSUME NEW d \in Devices, registerRemoteCheckout(d) PROVE Server'
  <2>1. At(d, "register") => Report(Folder(d)) \in Reports
    BY DEF HasFolder, At, Reports
  <2> QED
    BY <1>1, <2>1 DEF registerRemoteCheckout, work
<1>2. ASSUME NEW d \in Devices, push(d) PROVE Server'
  <2>1. At(d, "push") => Uploaded(Folder(d)) \in [Branches -> SUBSET Commits]
    BY DEF HasFolder, At, Uploaded
  <2> QED
    BY <1>2, <2>1 DEF push
<1>3. ASSUME NEW d \in Devices, createBareRepository(d) PROVE Server'
  BY <1>3 DEF createBareRepository
<1>4. ASSUME NEW d \in Devices, forgetHostedCheckout(d) PROVE Server'
  BY <1>4 DEF forgetHostedCheckout
<1>5. ASSUME UNCHANGED remote PROVE Server'
  BY <1>5 DEF remote
<1> QED
  BY <1>1, <1>2, <1>3, <1>4, <1>5, StepFrame, UserFrame
  DEF Next, vars, Frame, RemoteStep, SelectionStep, WorkStep, User

LEMMA SelectionNext == ASSUME TypeInv, [Next]_vars PROVE Selection'
<1> USE DEF TypeInv, TypeOK, Selection
<1>1. begun' \in 0 .. MaxCommands
  BY StepFrame, UserFrame, ClientSyncAssumption DEF Next, vars, Frame, Begins
<1>2. cut' \subseteq Devices
  BY StepFrame, UserFrame DEF Next, vars, Frame, fails
<1>3. canonical' \in [Devices -> Checkouts \cup {None}]
  <2>1. ASSUME NEW d \in Devices, saveCanonicalCheckout(d)
        PROVE  canonical' \in [Devices -> Checkouts \cup {None}]
    BY <2>1 DEF saveCanonicalCheckout, HasFolder, At
  <2>2. ASSUME NEW d \in Devices, checkoutMigrate(d)
        PROVE  canonical' \in [Devices -> Checkouts \cup {None}]
    BY <2>2 DEF checkoutMigrate, Candidates, Mine
  <2>3. ASSUME NEW d \in Devices, forgetCanonicalCheckout(d)
        PROVE  canonical' \in [Devices -> Checkouts \cup {None}]
    BY <2>3 DEF forgetCanonicalCheckout
  <2> QED
    BY <2>1, <2>2, <2>3, StepFrame, UserFrame
    DEF Next, vars, Frame, RemoteStep, SelectionStep, WorkStep, User
<1> QED
  BY <1>1, <1>2, <1>3

LEMMA WorktreesNext == ASSUME TypeInv, [Next]_vars PROVE Worktrees'
<1> USE ClientSyncAssumption DEF TypeInv, TypeOK, Worktrees, Fresh
<1>1. ASSUME NEW c \in Checkouts, commit(c) PROVE Worktrees'
  BY <1>1 DEF commit, Commits
<1>2. ASSUME NEW c \in Checkouts, amend(c) PROVE Worktrees'
  BY <1>2 DEF amend, Commits
<1>3. ASSUME NEW c \in Checkouts, NEW b \in Branches, switch(c, b)
      PROVE  Worktrees'
  BY <1>3 DEF switch, Commits
<1>4. ASSUME NEW d \in Devices, remoteAdd(d) PROVE Worktrees'
  BY <1>4 DEF remoteAdd, HasFolder, At
<1>5. ASSUME NEW d \in Devices, NEW c \in Checkouts, cloneCommand(d, c)
      PROVE  Worktrees'
  <2>1. [NoRefs EXCEPT ![Main] = server[Main]] \in [Branches -> SUBSET Commits]
    BY DEF NoRefs
  <2> QED
    BY <1>5, <2>1 DEF cloneCommand
<1>6. ASSUME NEW d \in Devices, merge(d) PROVE Worktrees'
  <2>1. cmd[d].target \subseteq Commits /\ Folder(d) \in here
    BY <1>6 DEF merge, HasFolder, At, Command
  <2> QED
    BY <1>6, <2>1 DEF merge
<1>7. ASSUME UNCHANGED work PROVE Worktrees'
  BY <1>7 DEF work
<1> QED
  BY <1>1, <1>2, <1>3, <1>4, <1>5, <1>6, <1>7, StepFrame, UserFrame
  DEF Next, vars, Frame, RemoteStep, SelectionStep, WorkStep, User

(* A command that takes the lock, goes on or ends keeps its types. *)
LEMMA CommandTypes ==
  ASSUME TypeInv, NEW d \in Devices,
         here \subseteq here', here' \subseteq Checkouts
  PROVE  /\ UNCHANGED <<plan, cmd>> => Commands'
         /\ Ends(d) /\ UNCHANGED plan => Commands'
         /\ \A step \in {"create", "pair", "push", "register", "save", "fetch",
                          "check", "merge", "drop"} :
              /\ cmd[d].at \notin {"idle", "forget", "drop"} \/ step = "drop"
              /\ GoesOn(d, step) /\ UNCHANGED plan
              => Commands'
         /\ \A op \in {"publish", "manage", "sync", "update"}, c \in here',
              replace \in BOOLEAN, step \in {"create", "push", "register"} :
              Takes(d, op, c, replace, step) /\ plan' \in {plan, [plan EXCEPT ![d] = NoPlan]}
              => Commands'
<1> USE ClientSyncAssumption, IdleType DEF TypeInv, TypeOK, Commands, HasFolder, Folder
<1>1. UNCHANGED <<plan, cmd>> => Commands'
  OBVIOUS
<1>2. Ends(d) /\ UNCHANGED plan => Commands'
  BY DEF Ends, Idle
<1>3. ASSUME NEW step \in {"create", "pair", "push", "register", "save", "fetch",
                          "check", "merge", "drop"},
             cmd[d].at \notin {"idle", "forget", "drop"} \/ step = "drop",
             GoesOn(d, step), UNCHANGED plan
      PROVE  Commands'
  BY <1>3 DEF GoesOn, Command
<1>4. ASSUME NEW op \in {"publish", "manage", "sync", "update"}, NEW c \in here',
             NEW replace \in BOOLEAN, NEW step \in {"create", "push", "register"},
             Takes(d, op, c, replace, step),
             plan' \in {plan, [plan EXCEPT ![d] = NoPlan]}
      PROVE  Commands'
  <2> DEFINE new == [Idle EXCEPT !.op = op, !.c = c, !.replace = replace, !.at = step]
  <2>1. new \in Command /\ new.c = c
    BY <1>4 DEF Idle, Command
  <2>2. cmd' = [cmd EXCEPT ![d] = new]
    BY <1>4 DEF Takes
  <2>3. cmd' \in [Devices -> Command] /\ plan' \in [Devices -> Plan]
    BY <1>4, <2>1, <2>2
  <2> HIDE DEF new
  <2> QED
    BY <1>4, <2>1, <2>2, <2>3
<1> QED
  BY <1>1, <1>2, <1>3, <1>4

LEMMA CommandSteps ==
  ASSUME TypeInv, NEW d \in Devices, Steps(d), Worktrees'
  PROVE  Commands'
<1>a. here \subseteq here' /\ here' \subseteq Checkouts
  BY StepFrame
  DEF Frame, WorkStep, work, remoteAdd, merge, cloneCommand, Worktrees
<1> USE CommandTypes, <1>a
<1>1. CASE registerRemoteCheckout(d)
  BY <1>1 DEF registerRemoteCheckout, At
<1>2. CASE saveCanonicalCheckout(d)
  BY <1>2 DEF saveCanonicalCheckout, At
<1>3. CASE push(d)
  BY <1>3 DEF push, At
<1>4. CASE publishRepository(d)
  <2>1. CASE UNCHANGED cmd
    BY <1>4, <2>1, IdleType
    DEF publishRepository, TypeInv, TypeOK, Commands, HasFolder, Folder
  <2>2. CASE Takes(d, "publish", plan[d].c, plan[d].replace,
                   IF ~plan[d].paired THEN "create"
                   ELSE IF plan[d].nothing THEN "register" ELSE "push")
    <3>1. plan[d].c \in here' /\ plan[d].replace \in BOOLEAN
      BY <1>4 DEF publishRepository, TypeInv, TypeOK, HasFolder, Plan
    <3>2. plan' = [plan EXCEPT ![d] = NoPlan]
      BY <1>4 DEF publishRepository
    <3> QED
      BY <2>2, <3>1, <3>2
  <2> QED
    BY <1>4, <2>1, <2>2 DEF publishRepository
<1>5. CASE createBareRepository(d)
  BY <1>5 DEF createBareRepository, At
<1>6. CASE remoteAdd(d)
  BY <1>6 DEF remoteAdd, At
<1>7. CASE forgetHostedCheckout(d)
  BY <1>7 DEF forgetHostedCheckout, At
<1>8. CASE forgetCanonicalCheckout(d)
  BY <1>8 DEF forgetCanonicalCheckout
<1>9. CASE fetch(d)
  <2>1. CASE Ends(d)
    BY <1>9, <2>1 DEF fetch
  <2>2. CASE cmd' = [cmd EXCEPT ![d].at = "check",
                                ![d].target = server[cmd[d].branch]]
    <3>1. /\ cmd[d] \in Command /\ server[cmd[d].branch] \in SUBSET Commits
          /\ Folder(d) \in here
      BY <1>9 DEF fetch, At, TypeInv, TypeOK, HasFolder, Command
    <3>2. cmd'[d] \in Command /\ cmd'[d].c = cmd[d].c
      BY <2>2, <3>1 DEF Command, TypeInv, TypeOK
    <3> QED
      BY <1>9, <2>2, <3>1, <3>2
      DEF fetch, TypeInv, TypeOK, Commands, HasFolder, Folder
  <2> QED
    BY <1>9, <2>1, <2>2 DEF fetch
<1>10. CASE incomingAncestor(d)
  BY <1>10 DEF incomingAncestor, At
<1>11. CASE merge(d)
  BY <1>11 DEF merge
<1>12. CASE fails(d)
  BY <1>12 DEF fails
<1> QED
  BY <1>1, <1>2, <1>3, <1>4, <1>5, <1>6, <1>7, <1>8, <1>9, <1>10, <1>11, <1>12
  DEF Steps

LEMMA CommandStarts ==
  ASSUME TypeInv, NEW d \in Devices, Starts(d), Worktrees'
  PROVE  Commands'
<1>a. here \subseteq here' /\ here' \subseteq Checkouts
  BY StepFrame
  DEF Frame, WorkStep, work, remoteAdd, merge, cloneCommand, Worktrees
<1> USE CommandTypes, <1>a
<1>1. CASE checkoutMigrate(d)
  BY <1>1 DEF checkoutMigrate
<1>2. CASE forgetCommand(d)
  BY <1>2, IdleType
  DEF forgetCommand, Takes, Idle, TypeInv, TypeOK, Commands, HasFolder, Folder,
      Command
<1>3. ASSUME NEW c \in Checkouts, incomingOne(d, c) PROVE Commands'
  <2> DEFINE new == [Idle EXCEPT !.op = "update", !.c = c, !.at = "fetch",
                       !.branch = head[c], !.tip = local[c][head[c]]]
  <2>1. new \in Command /\ new.c = c /\ c \in here
    <3>1. /\ c \in here /\ head[c] \in Branches
          /\ local[c][head[c]] \in SUBSET Commits
      BY <1>3 DEF incomingOne, Mine, TypeInv, TypeOK
    <3> QED
      BY <3>1 DEF Idle, Command
  <2>2. cmd' = [cmd EXCEPT ![d] = new] /\ UNCHANGED plan
    BY <1>3 DEF incomingOne
  <2> HIDE DEF new
  <2> QED
    BY <2>1, <2>2 DEF TypeInv, TypeOK, Commands, HasFolder, Folder
<1>4. ASSUME NEW c \in Checkouts, cloneCommand(d, c) PROVE Commands'
  BY <1>4 DEF cloneCommand
<1>5. ASSUME NEW c \in Checkouts, NEW replace \in BOOLEAN,
             registerCommand(d, c, replace)
      PROVE  Commands'
  BY <1>5 DEF registerCommand, Mine
<1>6. ASSUME NEW c \in Checkouts, NEW replace \in BOOLEAN,
             planPublish(d, c, replace)
      PROVE  Commands'
  <2> DEFINE new == [c |-> c, replace |-> replace, paired |-> c \in paired,
                     nothing |-> c \in paired /\ Uploaded(c) = server]
  <2>1. new \in Plan /\ new.c = c /\ c \in here
    BY <1>6 DEF planPublish, Mine, Plan
  <2>2. plan' = [plan EXCEPT ![d] = new] /\ UNCHANGED cmd
    BY <1>6 DEF planPublish
  <2> HIDE DEF new
  <2> QED
    BY <2>1, <2>2 DEF TypeInv, TypeOK, Commands, HasFolder, Folder
<1>7. ASSUME NEW c \in Checkouts, NEW replace \in BOOLEAN, NEW scope,
             syncOne(d, c, scope, replace)
      PROVE  Commands'
  BY <1>7 DEF syncOne, Mine
<1> QED
  BY <1>1, <1>2, <1>3, <1>4, <1>5, <1>6, <1>7 DEF Starts

LEMMA TypeNext == TypeInv /\ [Next]_vars => TypeInv'
<1> SUFFICES ASSUME TypeInv, [Next]_vars PROVE TypeInv'
  OBVIOUS
<1>1. Commands'
  <2>1. ASSUME UNCHANGED <<plan, cmd>>, here \subseteq here' PROVE Commands'
    BY <2>1 DEF TypeInv, TypeOK, Commands, HasFolder, Folder
  <2>2. ASSUME NEW c \in Checkouts, User(c) PROVE Commands'
    BY <2>1, <2>2 DEF User, commit, amend, switch
  <2> QED
    BY <2>1, <2>2, CommandSteps, CommandStarts, WorktreesNext
    DEF Next, vars, work
<1> QED
  BY <1>1, ServerNext, SelectionNext, WorktreesNext
  DEF TypeInv, TypeOK, Server, Selection, Worktrees, Commands

(* Every reachable state is well typed, a command's checkout exists, and   *)
(* a folder that was not cloned yet has no commits.                        *)
THEOREM TypeCorrect == Spec => []TypeOK
<1>1. TypeInv => TypeOK
  BY DEF TypeInv
<1> QED
  BY <1>1, TypeInit, TypeNext, PTL DEF Spec

-----------------------------------------------------------------------------
(* What a command knows of its device's two records at each of its steps.  *)
Records(d) ==
  /\ d \notin cut /\ canonical[d] # None /\ cmd[d].at \notin {"save", "drop"}
       => report[d] = Report(canonical[d])
  /\ At(d, "save") => /\ report[d] = Report(Folder(d))
                      /\ Selectable(d, Folder(d), cmd[d].replace)
  /\ At(d, "drop") => report[d] = None
  /\ At(d, "push") /\ cmd[d].op = "sync" => canonical[d] = Folder(d)
  /\ cmd[d].at \in {"create", "pair"} => cmd[d].op = "publish"
RecordsInv == \A d \in Devices : Records(d)

LEMMA RecordsInit == Init => RecordsInv
  BY DEF Init, RecordsInv, Records, Idle, At

(* The records of a device are not touched by another's commands. *)
LEMMA OtherDevice ==
  ASSUME TypeInv, NEW d \in Devices, NEW e \in Devices, d # e,
         Steps(d) \/ Starts(d), Records(e)
  PROVE  Records(e)'
<1>1. report'[e] = report[e]
  BY StepFrame
  DEF Frame, RemoteStep, remote, registerRemoteCheckout, push,
      createBareRepository, forgetHostedCheckout, TypeInv, TypeOK
<1>2. canonical'[e] = canonical[e]
  BY StepFrame
  DEF Frame, SelectionStep, saveCanonicalCheckout, checkoutMigrate,
      forgetCanonicalCheckout, TypeInv, TypeOK
<1>3. cmd'[e] = cmd[e]
  <2>1. CASE Steps(d)
    BY <2>1
    DEF Steps, Ends, GoesOn, Takes, registerRemoteCheckout, saveCanonicalCheckout,
        push, publishRepository, createBareRepository, remoteAdd,
        forgetHostedCheckout, forgetCanonicalCheckout, fetch, incomingAncestor,
        merge, fails, TypeInv, TypeOK
  <2>2. CASE Starts(d)
    BY <2>2
    DEF Starts, Takes, checkoutMigrate, forgetCommand, incomingOne, cloneCommand,
        registerCommand, planPublish, syncOne, TypeInv, TypeOK
  <2> QED
    BY <2>1, <2>2
<1>4. e \in cut' <=> e \in cut
  BY DEF Steps, Starts, registerRemoteCheckout, saveCanonicalCheckout,
         push, publishRepository, createBareRepository, remoteAdd,
         forgetHostedCheckout, forgetCanonicalCheckout, fetch, incomingAncestor,
         merge, fails, checkoutMigrate, forgetCommand, incomingOne, cloneCommand,
         registerCommand, planPublish, syncOne
<1> QED
  BY <1>1, <1>2, <1>3, <1>4 DEF Records, At, Folder, Selectable

(* What the command of a device is after it takes the lock, goes on or     *)
(* ends.                                                                   *)
LEMMA CommandFields ==
  ASSUME TypeInv, NEW d \in Devices
  PROVE  /\ Ends(d) => cmd'[d].at = "idle"
         /\ \A step : GoesOn(d, step) =>
              /\ cmd'[d].at = step /\ cmd'[d].op = cmd[d].op
              /\ cmd'[d].c = cmd[d].c /\ cmd'[d].replace = cmd[d].replace
         /\ \A op, c, replace, step : Takes(d, op, c, replace, step) =>
              /\ cmd'[d].at = step /\ cmd'[d].op = op
              /\ cmd'[d].c = c /\ cmd'[d].replace = replace
<1>1. cmd \in [Devices -> Command]
  BY DEF TypeInv, TypeOK
<1>2. Ends(d) => cmd'[d].at = "idle"
  BY <1>1 DEF Ends, Idle
<1>3. ASSUME NEW step, GoesOn(d, step)
      PROVE  /\ cmd'[d].at = step /\ cmd'[d].op = cmd[d].op
             /\ cmd'[d].c = cmd[d].c /\ cmd'[d].replace = cmd[d].replace
  BY <1>1, <1>3 DEF GoesOn, Command
<1>4. ASSUME NEW op, NEW c, NEW replace, NEW step, Takes(d, op, c, replace, step)
      PROVE  /\ cmd'[d].at = step /\ cmd'[d].op = op
             /\ cmd'[d].c = c /\ cmd'[d].replace = replace
  BY <1>1, <1>4 DEF Takes, Idle
<1> QED
  BY <1>2, <1>3, <1>4

LEMMA RecordsStep ==
  ASSUME TypeInv, NEW d \in Devices, Records(d), Steps(d) \/ Starts(d)
  PROVE  Records(d)'
<1> USE DEF Records, At, Folder, Selectable
<1>0. /\ report \in [Devices -> Reports \cup {None}]
      /\ canonical \in [Devices -> Checkouts \cup {None}]
  BY DEF TypeInv, TypeOK
<1>1. CASE registerRemoteCheckout(d)
  BY <1>0, CommandFields, <1>1
  DEF registerRemoteCheckout, ensureMainCheckout, Idle
<1>2. CASE saveCanonicalCheckout(d)
  BY <1>0, CommandFields, <1>2 DEF saveCanonicalCheckout, remote, Idle
<1>3. CASE push(d)
  BY <1>0, CommandFields, <1>3 DEF push, Idle
<1>4. CASE publishRepository(d)
  <2>1. UNCHANGED <<report, canonical, cut>>
    BY <1>4 DEF publishRepository, remote
  <2>2. CASE UNCHANGED cmd
    BY <2>1, <2>2
  <2>3. CASE Takes(d, "publish", plan[d].c, plan[d].replace,
                   IF ~plan[d].paired THEN "create"
                   ELSE IF plan[d].nothing THEN "register" ELSE "push")
    <3>1. cmd'[d].at \in {"create", "register", "push"} /\ cmd'[d].op = "publish"
      BY <2>3, CommandFields
    <3> QED
      BY <1>4, <2>1, <3>1 DEF publishRepository, Free, Idle
  <2> QED
    BY <1>4, <2>2, <2>3 DEF publishRepository
<1>5. CASE createBareRepository(d)
  BY <1>0, CommandFields, <1>5 DEF createBareRepository, Idle
<1>6. CASE remoteAdd(d)
  BY <1>0, CommandFields, <1>6 DEF remoteAdd, remote, Idle
<1>7. CASE forgetHostedCheckout(d)
  BY <1>0, CommandFields, <1>7 DEF forgetHostedCheckout
<1>8. CASE forgetCanonicalCheckout(d)
  BY <1>0, CommandFields, <1>8 DEF forgetCanonicalCheckout, Idle
<1>9. CASE fetch(d) \/ incomingAncestor(d) \/ merge(d)
  <2>1. cmd[d].at \in {"fetch", "check", "merge"} /\ UNCHANGED <<report, canonical, cut>>
    BY <1>9 DEF fetch, incomingAncestor, merge, remote
  <2>2. cmd'[d].at \in {"idle", "check", "merge"}
    <3>1. CASE cmd' = [cmd EXCEPT ![d].at = "check",
                                  ![d].target = server[cmd[d].branch]]
      BY <3>1 DEF TypeInv, TypeOK, Command
    <3> QED
      BY <1>9, <3>1, CommandFields DEF fetch, incomingAncestor, merge
  <2> QED
    BY <2>1, <2>2
<1>10. CASE fails(d)
  BY <1>0, CommandFields, <1>10 DEF fails, remote, Idle
<1>11. CASE checkoutMigrate(d)
  BY <1>0, CommandFields, <1>11
  DEF checkoutMigrate, Candidates, Free, remote, Idle
<1>12. CASE forgetCommand(d)
  <2>1. cmd'[d].at = "forget"
    BY <1>12, CommandFields DEF forgetCommand
  <2> QED
    BY <1>12, <2>1 DEF forgetCommand, Free, remote, Idle
<1>13. ASSUME NEW c \in Checkouts, incomingOne(d, c) \/ cloneCommand(d, c)
       PROVE  Records(d)'
  <2>1. cmd[d].at = "idle" /\ UNCHANGED <<report, canonical, cut>>
    <3>1. Free(d) => cmd[d].at = "idle"
      BY DEF Free, Idle
    <3>2. Free(d) /\ UNCHANGED <<remote, canonical, cut>>
      BY <1>13 DEF incomingOne, cloneCommand
    <3> QED
      BY <3>1, <3>2 DEF remote
  <2>2. cmd' = cmd \/ cmd'[d].at \in {"fetch", "register"}
    <3>1. CASE incomingOne(d, c)
      BY <3>1 DEF incomingOne, Idle, TypeInv, TypeOK
    <3> QED
      BY <1>13, <3>1, CommandFields DEF cloneCommand
  <2> QED
    BY <2>1, <2>2
<1>14. ASSUME NEW c \in Checkouts, NEW replace \in BOOLEAN,
              registerCommand(d, c, replace) \/ planPublish(d, c, replace)
       PROVE  Records(d)'
  BY <1>0, CommandFields, <1>14 DEF registerCommand, planPublish, Free, remote, Idle
<1>15. ASSUME NEW c \in Checkouts, NEW replace \in BOOLEAN, NEW scope,
              syncOne(d, c, scope, replace)
       PROVE  Records(d)'
  BY <1>0, CommandFields, <1>15 DEF syncOne, Free, remote, Idle
<1> QED
  BY <1>1, <1>2, <1>3, <1>4, <1>5, <1>6, <1>7, <1>8, <1>9, <1>10, <1>11, <1>12,
     <1>13, <1>14, <1>15 DEF Steps, Starts

LEMMA RecordsNext == TypeInv /\ RecordsInv /\ [Next]_vars => RecordsInv'
<1> SUFFICES ASSUME TypeInv, RecordsInv, [Next]_vars, NEW e \in Devices
             PROVE  Records(e)'
  BY DEF RecordsInv
<1>1. ASSUME UNCHANGED <<remote, canonical, cmd, cut>> PROVE Records(e)'
  BY <1>1 DEF RecordsInv, Records, At, Folder, Selectable, remote
<1>2. ASSUME NEW c \in Checkouts, User(c) PROVE Records(e)'
  BY <1>1, <1>2, UserFrame
<1>3. ASSUME NEW d \in Devices, Steps(d) \/ Starts(d) PROVE Records(e)'
  BY <1>3, OtherDevice, RecordsStep DEF RecordsInv
<1> QED
  BY <1>1, <1>2, <1>3 DEF Next, vars

(* The server's report and the private selection of a device come apart    *)
(* only where a command stopped between the two.                           *)
THEOREM RecordsStayTogether == Spec => []RecordsAgree
<1>1. RecordsInv => RecordsAgree
  BY DEF RecordsInv, Records, RecordsAgree, Free, Idle
<1> QED
  BY <1>1, TypeInit, TypeNext, RecordsInit, RecordsNext, PTL DEF Spec

(* A device's main checkout is replaced only by a command told to replace  *)
(* it, is forgotten only after the server forgot it, and is what a sync    *)
(* uploads from.                                                           *)
THEOREM MainStays == Spec => MainIsKept
<1> DEFINE Kept(d) ==
      /\ canonical[d] # None /\ canonical'[d] # canonical[d]
           => \/ canonical'[d] = None /\ report'[d] = None
              \/ cmd[d].replace
      /\ At(d, "push") /\ cmd[d].op = "sync" => canonical[d] = Folder(d)
<1>1. ASSUME TypeInv, RecordsInv, [Next]_vars, NEW d \in Devices PROVE Kept(d)
  <2>1. At(d, "push") /\ cmd[d].op = "sync" => canonical[d] = Folder(d)
    BY <1>1 DEF RecordsInv, Records
  <2>2. ASSUME NEW e \in Devices, SelectionStep(e), d # e
        PROVE  canonical'[d] = canonical[d]
    BY <1>1, <2>2
    DEF SelectionStep, saveCanonicalCheckout, checkoutMigrate,
        forgetCanonicalCheckout, TypeInv, TypeOK
  <2>3. CASE saveCanonicalCheckout(d)
    BY <1>1, <2>1, <2>3
    DEF saveCanonicalCheckout, RecordsInv, Records, Selectable, TypeInv, TypeOK
  <2>4. CASE checkoutMigrate(d)
    BY <2>1, <2>4 DEF checkoutMigrate
  <2>5. CASE forgetCanonicalCheckout(d)
    BY <1>1, <2>1, <2>5
    DEF forgetCanonicalCheckout, RecordsInv, Records, TypeInv, TypeOK, remote
  <2>6. CASE UNCHANGED canonical
    BY <2>1, <2>6
  <2> QED
    BY <1>1, <2>1, <2>2, <2>3, <2>4, <2>5, <2>6, StepFrame, UserFrame
    DEF Next, vars, Frame, SelectionStep
<1>2. TypeInv /\ RecordsInv /\ [Next]_vars => [\A d \in Devices : Kept(d)]_vars
  BY <1>1
<1> QED
  BY <1>2, TypeInit, TypeNext, RecordsInit, RecordsNext, PTL
  DEF Spec, MainIsKept

(* No command takes a commit from a branch, on the server or in a          *)
(* checkout, for any number of devices that upload and users that commit.  *)
THEOREM NothingIsRewound == Spec => NothingRewound
<1> DEFINE Grows == \A b \in Branches :
      /\ server[b] \subseteq server'[b]
      /\ \A c \in Checkouts : local[c][b] \subseteq local'[c][b]
           Amends == \E c \in Checkouts : amend(c)
<1>1. ASSUME TypeInv, [Next]_vars PROVE Amends \/ Grows
  <2> USE <1>1 DEF TypeInv, TypeOK
  <2>1. ASSUME NEW d \in Devices, push(d), NEW b \in Branches
        PROVE  server[b] \subseteq server'[b]
    BY <2>1 DEF push, Permitted, Uploaded
  <2>2. ASSUME NEW d \in Devices, RemoteStep(d) \/ UNCHANGED remote,
               NEW b \in Branches
        PROVE  server[b] \subseteq server'[b]
    BY <2>1, <2>2
    DEF RemoteStep, remote, registerRemoteCheckout, createBareRepository,
        forgetHostedCheckout
  <2>3. ASSUME NEW d \in Devices, WorkStep(d) \/ UNCHANGED work,
               NEW c \in Checkouts, NEW b \in Branches
        PROVE  local[c][b] \subseteq local'[c][b]
    <3>1. CASE remoteAdd(d) \/ UNCHANGED work
      BY <3>1 DEF remoteAdd, work
    <3>2. CASE merge(d)
      BY <3>2 DEF merge
    <3>3. ASSUME NEW e \in Checkouts, cloneCommand(d, e)
          PROVE  local[c][b] \subseteq local'[c][b]
      BY <3>3 DEF cloneCommand, Fresh, NoRefs
    <3> QED
      BY <2>3, <3>1, <3>2, <3>3 DEF WorkStep
  <2>4. ASSUME NEW e \in Checkouts, commit(e) \/ \E b \in Branches : switch(e, b)
        PROVE  Grows
    <3>1. CASE commit(e)
      BY <3>1 DEF commit, remote
    <3>2. ASSUME NEW b \in Branches, switch(e, b) PROVE Grows
      BY <3>2 DEF switch, remote
    <3> QED
      BY <2>4, <3>1, <3>2
  <2> QED
    BY <2>2, <2>3, <2>4, StepFrame DEF Next, User, vars, Frame, remote, work
<1>2. TypeInv /\ [Next]_vars => [Amends \/ Grows]_vars
  BY <1>1
<1> QED
  BY <1>2, TypeInit, TypeNext, PTL DEF Spec, NothingRewound
===============================================================================
