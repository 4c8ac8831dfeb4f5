------------------------------ MODULE ClientSync ------------------------------
(***************************************************************************)
(* The ckgit command on the devices of a user (client/main.cpp,            *)
(* incoming.inc, discovery.inc, sync_lock.cpp, client_state.cpp), for one  *)
(* project: publish, register, sync, clone, migrate, forget and update,    *)
(* against the server's refs and checkout reports.                         *)
(*                                                                         *)
(* A command holds the sync lock of its device from its first change to    *)
(* its end; only publish plans before it takes the lock.  cmd is the       *)
(* holder of the lock and what it does next.  Every command may end at any *)
(* of its steps: it is killed, its connection breaks (before or after the  *)
(* server acted), the worktree is not clean.  Meanwhile the user commits,  *)
(* amends and switches branches in every checkout.                         *)
(*                                                                         *)
(* A branch is the set of its commits, {} where there is none, so that an  *)
(* ancestor is a subset.                                                   *)
(***************************************************************************)
EXTENDS Naturals, FiniteSetsExt

CONSTANTS
  Devices,    \* client identities
  Checkouts,  \* folders of one project, on all devices
  Folders,    \* those that are there at first; the others may be cloned
  On,         \* the device of each checkout
  Name,       \* the last component of each checkout's path
  Full,       \* devices that report whole paths (expose_full_paths)
  Branches,
  Main,       \* the default branch
  None,       \* no checkout, no report
  MaxActs,    \* bound: commits, amends and switches of the user, in all
  MaxCommands \* bound: commands, in all

ASSUME ClientSyncAssumption ==
  /\ On \in [Checkouts -> Devices]
  /\ Folders \subseteq Checkouts
  /\ Full \subseteq Devices
  /\ Main \in Branches
  /\ {MaxActs, MaxCommands} \subseteq Nat

VARIABLES
  hosted,    \* whether the server has the project
  server,    \* its branches
  report,    \* the checkout that each device reported to the server
  canonical, \* canonical.ini: each device's main checkout
  here,      \* checkouts that exist
  paired,    \* checkouts with the configured remote
  local,     \* the branches of each checkout
  head,      \* its current branch
  acts,      \* what the user did so far, and the number of the last commit
  plan,      \* the publish that each device has prepared without the lock
  cmd,       \* the command that holds each device's lock
  begun,     \* commands so far
  cut        \* history: devices whose two records a command left half changed

remote == <<hosted, server, report>>
work == <<here, paired, local, head, acts>>
vars == <<remote, canonical, work, plan, cmd, begun, cut>>

-----------------------------------------------------------------------------

Commits == 0 .. MaxActs
NoRefs == [b \in Branches |-> {}]
Idle == [op |-> "none", c |-> None, replace |-> FALSE, at |-> "idle",
         branch |-> Main, tip |-> {}, target |-> {}]
NoPlan == [c |-> None, replace |-> FALSE, paired |-> FALSE, nothing |-> FALSE]

(* reportedPathForRegistration: the whole path or its last component, and  *)
(* sameReportedCheckout for two reports of one kind.                       *)
Report(c) == IF On[c] \in Full THEN <<"path", c>> ELSE <<"name", Name[c]>>
Reports == {Report(c) : c \in Checkouts}
IsPath(r) == r # None /\ r[1] = "path"

Command ==
  [op : {"none", "publish", "manage", "sync", "forget", "update"},
   c : Checkouts \cup {None}, replace : BOOLEAN,
   at : {"idle", "create", "pair", "push", "register", "save", "forget",
         "drop", "fetch", "check", "merge"},
   branch : Branches, tip : SUBSET Commits, target : SUBSET Commits]
Plan == [c : Checkouts \cup {None}, replace : BOOLEAN,
         paired : BOOLEAN, nothing : BOOLEAN]

TypeOK ==
  /\ hosted \in BOOLEAN
  /\ server \in [Branches -> SUBSET Commits]
  /\ report \in [Devices -> Reports \cup {None}]
  /\ canonical \in [Devices -> Checkouts \cup {None}]
  /\ here \subseteq Checkouts
  /\ paired \subseteq here
  /\ local \in [Checkouts -> [Branches -> SUBSET Commits]]
  /\ head \in [Checkouts -> Branches]
  /\ acts \in 0 .. MaxActs
  /\ plan \in [Devices -> Plan]
  /\ cmd \in [Devices -> Command]
  /\ begun \in 0 .. MaxCommands
  /\ cut \subseteq Devices

Free(d) == cmd[d] = Idle
At(d, step) == cmd[d].at = step
Folder(d) == cmd[d].c
Mine(d) == {c \in here : On[c] = d}

Begins == begun < MaxCommands /\ begun' = begun + 1

(* The command takes the lock, goes on with another step, or ends. *)
Takes(d, op, c, replace, step) ==
  cmd' = [cmd EXCEPT ![d] = [Idle EXCEPT !.op = op, !.c = c,
                               !.replace = replace, !.at = step]]
GoesOn(d, step) == cmd' = [cmd EXCEPT ![d].at = step]
Ends(d) == cmd' = [cmd EXCEPT ![d] = Idle]

(* ensureMainCheckout *)
Selectable(d, c, replace) == replace \/ canonical[d] \in {None, c}
ensureMainCheckout(d, c, replace) ==
  /\ Selectable(d, c, replace)
  /\ replace \/ report[d] \in {None, Report(c)}

(* What Git's atomic push without force permits: every branch of the       *)
(* checkout is new to the server or moves it forward.                      *)
Permitted(c) ==
  /\ hosted
  /\ \E b \in Branches : local[c][b] # {}
  /\ \A b \in Branches : local[c][b] = {} \/ server[b] \subseteq local[c][b]

-----------------------------------------------------------------------------
(* The user, in a checkout. *)

commit(c) ==
  /\ c \in here /\ acts < MaxActs
  /\ acts' = acts + 1
  /\ local' = [local EXCEPT ![c][head[c]] = @ \cup {acts + 1}]
  /\ UNCHANGED <<remote, canonical, here, paired, head, plan, cmd, begun, cut>>

(* The last commit is replaced: the branch leaves what was uploaded. *)
amend(c) ==
  /\ c \in here /\ acts < MaxActs
  /\ local[c][head[c]] # {}
  /\ acts' = acts + 1
  /\ local' = [local EXCEPT ![c][head[c]] = (@ \ {Max(@)}) \cup {acts + 1}]
  /\ UNCHANGED <<remote, canonical, here, paired, head, plan, cmd, begun, cut>>

(* git switch, with a new branch where there is none of the name *)
switch(c, b) ==
  /\ c \in here /\ acts < MaxActs /\ b # head[c]
  /\ acts' = acts + 1
  /\ head' = [head EXCEPT ![c] = b]
  /\ local' = [local EXCEPT ![c][b] = IF @ = {} THEN local[c][head[c]] ELSE @]
  /\ UNCHANGED <<remote, canonical, here, paired, plan, cmd, begun, cut>>

-----------------------------------------------------------------------------
(* registerRemoteCheckout: the server's record, then the private one. *)

registerAnyway(d) ==  \* mutant
  /\ At(d, "register")
  /\ IF hosted /\ (cmd[d].replace \/ report[d] \in {None, Report(Folder(d))})
       THEN /\ report' = [report EXCEPT ![d] = Report(Folder(d))]
            /\ GoesOn(d, "save")
     ELSE Ends(d) /\ UNCHANGED report
  /\ UNCHANGED <<hosted, server, canonical, work, plan, begun, cut>>
saveRefused(d) ==  \* mutant
  /\ At(d, "register")
  /\ IF ensureMainCheckout(d, Folder(d), cmd[d].replace)
       THEN report' = [report EXCEPT ![d] = Report(Folder(d))]
     ELSE UNCHANGED report
  /\ GoesOn(d, "save")
  /\ UNCHANGED <<hosted, server, canonical, work, plan, begun, cut>>
registerRemoteCheckout(d) ==
  /\ At(d, "register")
  /\ IF hosted /\ ensureMainCheckout(d, Folder(d), cmd[d].replace)
       THEN /\ report' = [report EXCEPT ![d] = Report(Folder(d))]
            /\ GoesOn(d, "save")
     ELSE Ends(d) /\ UNCHANGED report
  /\ UNCHANGED <<hosted, server, canonical, work, plan, begun, cut>>

saveCanonicalCheckout(d) ==
  /\ At(d, "save")
  /\ canonical' = [canonical EXCEPT ![d] = Folder(d)]
  /\ IF cmd[d].op = "sync" THEN GoesOn(d, "push") ELSE Ends(d)
  /\ cut' = cut \ {d}
  /\ UNCHANGED <<remote, work, plan, begun>>

(* git push --atomic of all branches: a publish registers afterwards. *)
Uploaded(c) ==
  [b \in Branches |-> IF local[c][b] = {} THEN server[b] ELSE local[c][b]]
pushAsPlanned(d) ==  \* mutant
  /\ At(d, "push")
  /\ server' = Uploaded(Folder(d))
  /\ IF cmd[d].op = "publish" THEN GoesOn(d, "register") ELSE Ends(d)
  /\ UNCHANGED <<hosted, report, canonical, work, plan, begun, cut>>
push(d) ==
  /\ At(d, "push")
  /\ IF Permitted(Folder(d))
       THEN /\ server' = Uploaded(Folder(d))
            /\ IF cmd[d].op = "publish" THEN GoesOn(d, "register") ELSE Ends(d)
     ELSE Ends(d) /\ UNCHANGED server
  /\ UNCHANGED <<hosted, report, canonical, work, plan, begun, cut>>

(* register, and checkout set-canonical as its replacing form *)
registerCommand(d, c, replace) ==
  /\ Begins
  /\ Free(d) /\ c \in Mine(d) \cap paired
  /\ Takes(d, "manage", c, replace, "register")
  /\ UNCHANGED <<remote, canonical, work, plan, cut>>

-----------------------------------------------------------------------------
(* sync *)

(* The checkout that sync names (--repo), that is managed, or that         *)
(* chooseAutomaticCheckout finds (--scan).                                 *)
Selected(d, c) ==
  IF canonical[d] # None THEN canonical[d] = c
  ELSE IsPath(report[d]) /\ report[d] = Report(c)
Unselected(d) == canonical[d] = None /\ ~IsPath(report[d])
InScope(d, c, scope) ==
  CASE scope = "repo" -> TRUE
    [] scope = "managed" -> Selected(d, c)
    [] scope = "scan" -> \/ Selected(d, c)
                         \/ (Unselected(d) /\ Mine(d) \cap paired = {c})

syncOne(d, c, scope, replace) ==
  /\ Begins
  /\ Free(d) /\ c \in Mine(d) \cap paired
  /\ replace => scope = "repo"
  /\ InScope(d, c, scope)
  /\ ensureMainCheckout(d, c, replace)
  /\ Permitted(c)
  /\ Takes(d, "sync", c, replace, "register")
  /\ UNCHANGED <<remote, canonical, work, plan, cut>>

-----------------------------------------------------------------------------
(* publish: the plan is acts without the lock and looked at again under it, *)
(* all but what it says of the refs and of the remote.                     *)

planPublish(d, c, replace) ==
  /\ Begins
  /\ plan[d] = NoPlan
  /\ c \in Mine(d) /\ local[c][head[c]] # {}
  /\ ensureMainCheckout(d, c, replace)
  /\ c \in paired => Permitted(c)
  /\ plan' = [plan EXCEPT ![d] =
       [c |-> c, replace |-> replace, paired |-> c \in paired,
        nothing |-> c \in paired /\ Uploaded(c) = server]]
  /\ UNCHANGED <<remote, canonical, work, cmd, cut>>

publishRepository(d) ==
  LET p == plan[d] IN
  /\ p # NoPlan
  /\ IF Free(d) /\ ensureMainCheckout(d, p.c, p.replace)
       THEN Takes(d, "publish", p.c, p.replace,
              IF ~p.paired THEN "create"
              ELSE IF p.nothing THEN "register" ELSE "push")
     ELSE UNCHANGED cmd
  /\ plan' = [plan EXCEPT ![d] = NoPlan]
  /\ UNCHANGED <<remote, canonical, work, begun, cut>>

(* The server creates the project, unless it has one of the name. *)
createBareRepository(d) ==
  /\ At(d, "create")
  /\ IF hosted THEN Ends(d) ELSE GoesOn(d, "pair")
  /\ hosted' = TRUE
  /\ UNCHANGED <<server, report, canonical, work, plan, begun, cut>>

(* git remote add *)
remoteAdd(d) ==
  /\ At(d, "pair")
  /\ IF Folder(d) \in paired THEN Ends(d) ELSE GoesOn(d, "push")
  /\ paired' = paired \cup {Folder(d)}
  /\ UNCHANGED <<remote, canonical, here, local, head, acts, plan, begun, cut>>

-----------------------------------------------------------------------------
(* clone, checkout migrate, checkout forget *)

(* The copy is managed if the device has no other main checkout. *)
cloneCommand(d, c) ==
  /\ Begins
  /\ Free(d) /\ On[c] = d /\ c \notin here /\ hosted
  /\ here' = here \cup {c}
  /\ paired' = paired \cup {c}
  /\ local' = [local EXCEPT ![c] = [NoRefs EXCEPT ![Main] = server[Main]]]
  /\ head' = [head EXCEPT ![c] = Main]
  /\ IF /\ canonical[d] = None
        /\ report[d] = None \/ (IsPath(report[d]) /\ report[d] = Report(c))
       THEN Takes(d, "manage", c, FALSE, "register")
     ELSE UNCHANGED cmd
  /\ UNCHANGED <<remote, canonical, acts, plan, cut>>

(* A report without a private selection is adopted where one checkout      *)
(* fits it.                                                                *)
Candidates(d) == {c \in Mine(d) \cap paired : Report(c) = report[d]}
checkoutMigrate(d) ==
  /\ Begins
  /\ Free(d) /\ canonical[d] = None /\ report[d] # None
  /\ \E c \in Candidates(d) :
       /\ Candidates(d) = {c}
       /\ canonical' = [canonical EXCEPT ![d] = c]
  /\ cut' = cut \ {d}
  /\ UNCHANGED <<remote, work, plan, cmd>>

forgetCommand(d) ==
  /\ Begins
  /\ Free(d) /\ ~(canonical[d] = None /\ report[d] = None)
  /\ Takes(d, "forget", None, FALSE, "forget")
  /\ UNCHANGED <<remote, canonical, work, plan, cut>>

(* The server forgets first. *)
forgetHostedCheckout(d) ==
  /\ At(d, "forget")
  /\ report' = [report EXCEPT ![d] = None]
  /\ GoesOn(d, "drop")
  /\ UNCHANGED <<hosted, server, canonical, work, plan, begun, cut>>

forgetCanonicalCheckout(d) ==
  /\ At(d, "drop")
  /\ canonical' = [canonical EXCEPT ![d] = None]
  /\ Ends(d)
  /\ cut' = cut \ {d}
  /\ UNCHANGED <<remote, work, plan, begun>>

-----------------------------------------------------------------------------
(* update: incomingOne looks at the current branch, fetches, looks again   *)
(* and lets Git move forward whatever branch is current then.              *)

Still(d) == /\ head[Folder(d)] = cmd[d].branch
            /\ local[Folder(d)][cmd[d].branch] = cmd[d].tip

incomingOne(d, c) ==
  /\ Begins
  /\ Free(d) /\ c \in Mine(d) \cap paired
  /\ hosted /\ local[c][head[c]] # {} /\ server[head[c]] # {}
  /\ cmd' = [cmd EXCEPT ![d] = [Idle EXCEPT !.op = "update", !.c = c,
       !.at = "fetch", !.branch = head[c], !.tip = local[c][head[c]]]]
  /\ UNCHANGED <<remote, canonical, work, plan, cut>>

fetch(d) ==
  /\ At(d, "fetch")
  /\ IF Still(d) THEN cmd' = [cmd EXCEPT ![d].at = "check",
                                         ![d].target = server[cmd[d].branch]]
     ELSE Ends(d)
  /\ UNCHANGED <<remote, canonical, work, plan, begun, cut>>

incomingAncestor(d) ==
  /\ At(d, "check")
  /\ IF /\ Still(d)
        /\ cmd[d].tip # cmd[d].target
        /\ cmd[d].tip \subseteq cmd[d].target
       THEN GoesOn(d, "merge")
     ELSE Ends(d)
  /\ UNCHANGED <<remote, canonical, work, plan, begun, cut>>

merge(d) ==
  LET c == Folder(d) IN
  /\ At(d, "merge")
  /\ local' = [local EXCEPT ![c][head[c]] =
                 IF @ \subseteq cmd[d].target THEN cmd[d].target ELSE @]
  /\ Ends(d)
  /\ UNCHANGED <<remote, canonical, here, paired, head, acts, plan, begun, cut>>

-----------------------------------------------------------------------------

(* A command ends where it is; what the server did stays.                  *)
fails(d) ==
  /\ ~Free(d)
  /\ Ends(d)
  /\ cut' = IF cmd[d].at \in {"save", "drop"} THEN cut \cup {d} ELSE cut
  /\ UNCHANGED <<remote, canonical, work, plan, begun>>

(* Nothing is hosted, or a device that ran an older client has uploaded a  *)
(* folder and has its report only (legacy).                                *)
Init ==
  /\ \E legacy \in SUBSET Checkouts :
       /\ \A c \in legacy, e \in legacy : On[c] = On[e] => c = e
       /\ hosted = (legacy # {})
       /\ report = [d \in Devices |->
            IF \E c \in legacy : On[c] = d
              THEN Report(CHOOSE c \in legacy : On[c] = d) ELSE None]
       /\ legacy \subseteq Folders
       /\ paired = legacy
       /\ server = IF legacy = {} THEN NoRefs ELSE [NoRefs EXCEPT ![Main] = {0}]
  /\ canonical = [d \in Devices |-> None]
  /\ here = Folders
  /\ local = [c \in Checkouts |->
       IF c \in Folders THEN [NoRefs EXCEPT ![Main] = {0}] ELSE NoRefs]
  /\ head = [c \in Checkouts |-> Main]
  /\ acts = 0
  /\ plan = [d \in Devices |-> NoPlan]
  /\ cmd = [d \in Devices |-> Idle]
  /\ begun = 0
  /\ cut = {}

User(c) == commit(c) \/ amend(c) \/ \E b \in Branches : switch(c, b)
Steps(d) ==
  \/ registerRemoteCheckout(d) \/ saveCanonicalCheckout(d) \/ push(d)
  \/ publishRepository(d) \/ createBareRepository(d) \/ remoteAdd(d)
  \/ forgetHostedCheckout(d) \/ forgetCanonicalCheckout(d)
  \/ fetch(d) \/ incomingAncestor(d) \/ merge(d) \/ fails(d)
Starts(d) ==
  \/ checkoutMigrate(d) \/ forgetCommand(d)
  \/ \E c \in Checkouts : incomingOne(d, c) \/ cloneCommand(d, c)
  \/ \E c \in Checkouts, replace \in BOOLEAN :
       \/ registerCommand(d, c, replace)
       \/ planPublish(d, c, replace)
       \/ \E scope \in {"repo", "managed", "scan"} :
            syncOne(d, c, scope, replace)

Next ==
  \/ \E c \in Checkouts : User(c)
  \/ \E d \in Devices : Steps(d) \/ Starts(d)

Spec == Init /\ [][Next]_vars

-----------------------------------------------------------------------------
(* Properties. *)

(* No command takes a commit from a branch, on the server or in a          *)
(* checkout, whatever other devices upload between its preflight and its   *)
(* push, and whatever the user does between the last look of an update and *)
(* its merge.  (A user who amends does.)                                   *)
NothingRewound ==
  [][\/ \E c \in Checkouts : amend(c)
     \/ \A b \in Branches :
          /\ server[b] \subseteq server'[b]
          /\ \A c \in Checkouts : local[c][b] \subseteq local'[c][b]]_vars

(* A device's main checkout is not replaced unless the command was told to *)
(* replace it, also by a publish that planned before another was selected; *)
(* it is forgotten only after the server forgot it; and a sync uploads     *)
(* from the main checkout only.                                            *)
MainIsKept ==
  [][\A d \in Devices :
       /\ canonical[d] # None /\ canonical'[d] # canonical[d]
            => \/ canonical'[d] = None /\ report'[d] = None
               \/ cmd[d].replace
       /\ At(d, "push") /\ cmd[d].op = "sync" => canonical[d] = Folder(d)]_vars

(* The server's report and the private selection of a device come apart    *)
(* only where a command stopped between the two, and the next that ends    *)
(* well joins them again.                                                  *)
RecordsAgree ==
  \A d \in Devices :
    Free(d) /\ d \notin cut /\ canonical[d] # None
      => report[d] = Report(canonical[d])

=============================================================================
