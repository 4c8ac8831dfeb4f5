------------------------------- MODULE CiRemote -------------------------------
(***************************************************************************)
(* A remote runner's report of one run (ci_remote.cpp, RemoteCiSink) and   *)
(* the main host's side of it (ci_gateway.cpp, ci_results.cpp): step logs  *)
(* and progress over a stream that breaks and is resumed, one output as a  *)
(* resumable upload, and the finish.                                       *)
(*                                                                         *)
(* Output is counted in units; the k-th unit of a step's log, or of the    *)
(* uploaded file, is the number k.  A frame or chunk carries a range of    *)
(* units.  Claims, leases and what commitCiRun does with the run are the   *)
(* subject of CiQueue: here the claim is held or gone.                     *)
(***************************************************************************)
EXTENDS Naturals, SequencesExt

CONSTANTS
  Sizes,       \* the most output each step may write, step by step
  Total,       \* units of the uploaded file
  Frame,       \* kMaximumCiLogFrameBytes
  Chunk,       \* kMaximumCiUploadChunkBytes
  MaxFailures, \* failed requests in a row that upload() puts up with
  MaxAttempts, \* requests that finish() makes
  MaxBreaks,   \* bound: broken streams and failed puts, in all
  MaxReports,  \* bound: progress reports during uploads
  MayLapse,    \* whether the claim may be lost
  PromptHost   \* the main host handles what a closed stream or a given-up
               \* request still carries before the runner's finish, and
               \* notices a lost claim before the next frame

ASSUME RemoteAssumption ==
  /\ Sizes \in Seq(Nat) /\ Sizes # <<>>
  /\ {Total, MaxBreaks, MaxReports, MaxFailures} \subseteq Nat
  /\ {Frame, Chunk, MaxAttempts} \subseteq Nat \ {0}
  /\ {MayLapse, PromptHost} \subseteq BOOLEAN

VARIABLES
  sink,   \* the runner: RemoteCiSink and the place in its run
  upload, \* the runner: the locals of upload()
  link,   \* the stream connections, in order, with the host's sessions
  puts,   \* the put requests, in order, with the host's handlers
  host,   \* the main host's files of this run
  claim,  \* the runner's claim stands
  breaks, \* broken streams and failed puts so far
  reports \* progress reports so far

vars == <<sink, upload, link, puts, host, claim, breaks, reports>>

-----------------------------------------------------------------------------

Steps == DOMAIN Sizes
Units(m, n) == [k \in 1 .. n |-> m + k]  \* n units after the m-th
Larger(a, b) == IF a > b THEN a ELSE b
Smaller(a, b) == IF a < b THEN a ELSE b

StepLog == [size : Nat, sent : Nat, acked : Nat, ended : BOOLEAN]
NewStep == [size |-> 0, sent |-> 0, acked |-> 0, ended |-> FALSE]

(* Frames and replies; at and len are 0 where they mean nothing. *)
Kinds == {"started", "step-start", "log", "step-end", "progress"}
FrameOf(kind, i, at, len) == [kind |-> kind, step |-> i, at |-> at, len |-> len]
Frames == [kind : Kinds, step : Nat, at : Nat, len : Nat]
Replies == [kind : {"ack", "held", "lease-lost", "error"}, step : Nat, at : Nat]
Reply(kind, i, at) == [kind |-> kind, step |-> i, at |-> at]

(* One stream: up and down are under way in it, open is the runner's end,  *)
(* alive the host's session; steps and status are the copy of the run      *)
(* record the session keeps in memory.                                     *)
Statuses == {"Pending", "Running", "Done"}
Link == [up : Seq(Frames), down : Seq(Replies), open : BOOLEAN,
         alive : BOOLEAN, steps : Nat, status : Statuses]

(* A connection that is over at both ends. *)
Gone == [up |-> <<>>, down |-> <<>>, open |-> FALSE, alive |-> FALSE,
         steps |-> 0, status |-> "Pending"]

(* One put: "sent", "write" once its offset was compared with what is      *)
(* held, "answered", or "over".                                            *)
Put == [off : Nat, len : Nat, at : {"sent", "write", "answered", "over"},
        reply : {"none", "ok", "refused", "lease-lost"}, held : Nat]

Over == [off |-> 0, len |-> 0, at |-> "over", reply |-> "none", held |-> 0]

Places == {"steps", "upload", "flush", "finish", "done"}
TypeOK ==
  /\ sink \in [pc : Places, steps : Seq(StepLog), conn : Nat, lost : BOOLEAN,
               output : {"none", "declared", "noted"},
               attempts : 0 .. MaxAttempts,
               result : {"none", "ok", "lost", "error"}]
  /\ Len(sink.steps) <= Len(Sizes)
  /\ sink.conn \in 0 .. Len(link)
  /\ sink.conn > 0 => link[sink.conn].open
  /\ upload \in [offset : Nat, failures : 0 .. MaxFailures + 1, req : Nat,
                 probe : BOOLEAN]
  /\ upload.req \in 0 .. Len(puts)
  /\ link \in Seq(Link)
  /\ puts \in Seq(Put)
  /\ host \in [log : [Steps -> Seq(Nat)], steps : 0 .. Len(Sizes),
               status : Statuses, meta : BOOLEAN, part : Seq(Nat),
               stored : SUBSET Seq(Nat)]
  /\ claim \in BOOLEAN
  /\ breaks \in 0 .. MaxBreaks
  /\ reports \in 0 .. MaxReports

Connected == sink.conn > 0
Quiet == \A k \in DOMAIN link : link[k].open \/ ~link[k].alive

-----------------------------------------------------------------------------
(* The runner's stream. *)

(* The log frames for units from + 1 .. to of step i, and the first only.  *)
Cut(i, from, to) ==
  [n \in 1 .. (to - from + Frame - 1) \div Frame |->
     LET at == from + (n - 1) * Frame
     IN FrameOf("log", i, at, Smaller(Frame, to - at))]
CutFirst(i, from, to) ==
  SubSeq(Cut(i, from, to), 1, IF from < to THEN 1 ELSE 0)

Put_(frames) == IF Connected THEN [link EXCEPT ![sink.conn].up = @ \o frames]
                ELSE link

(* flush: everything (force), or one frame of each step. *)
Pending(steps, force) ==
  FlattenSeq([i \in DOMAIN steps |->
    LET s == steps[i]
    IN IF force THEN Cut(i, s.sent, s.size) ELSE CutFirst(i, s.sent, s.size)])
Flushed(steps, force) ==
  [i \in DOMAIN steps |->
    [steps[i] EXCEPT !.sent =
       IF force THEN Larger(@, steps[i].size)
       ELSE Larger(@, Smaller(@ + Frame, steps[i].size))]]

(* What connect() sends first: all the host may not hold. *)
ResendOfNoLogs(steps) ==  \* mutant: the lost log frames are not sent again
  <<FrameOf("started", 0, 0, 0)>> \o
  FlattenSeq([i \in DOMAIN steps |->
    <<FrameOf("step-start", i, 0, 0)>>
      \o (IF steps[i].ended THEN <<FrameOf("step-end", i, 0, 0)>> ELSE <<>>)])
ResendOf(steps) ==
  <<FrameOf("started", 0, 0, 0)>> \o
  FlattenSeq([i \in DOMAIN steps |->
    <<FrameOf("step-start", i, 0, 0)>>
      \o Cut(i, steps[i].acked, steps[i].size)
      \o (IF steps[i].ended THEN <<FrameOf("step-end", i, 0, 0)>> ELSE <<>>)])
  \o (IF reports > 0 THEN <<FrameOf("progress", 0, 0, 0)>> ELSE <<>>)
(* The greeting tells what is held of the steps the record knows and the   *)
(* next one.                                                               *)
GreetedKeepingAcked(steps) ==  \* mutant: takes the units it sent for held ones
  [i \in DOMAIN steps |->
    LET a == Larger(steps[i].acked, steps[i].sent)
    IN [steps[i] EXCEPT !.acked = a, !.sent = Larger(a, steps[i].size)]]
Greeted(steps) ==
  [i \in DOMAIN steps |->
    LET a == IF i <= host.steps + 1
               THEN Larger(steps[i].acked, Len(host.log[i]))
             ELSE steps[i].acked
    IN [steps[i] EXCEPT !.acked = a, !.sent = Larger(a, steps[i].size)]]
(* connect: a stream without a claim is refused; otherwise the session     *)
(* reads the record, greets, and the runner resends.  A connection that    *)
(* comes to nothing changes nothing.                                       *)
connect ==
  /\ sink.pc \in {"steps", "upload", "flush"}
  /\ ~Connected /\ ~sink.lost
  /\ Len(link) <= MaxBreaks
  /\ IF claim
       THEN LET steps == Greeted(sink.steps) IN
         /\ link' = Append(link, [up |-> ResendOf(steps), down |-> <<>>,
                                  open |-> TRUE, alive |-> TRUE,
                                  steps |-> host.steps,
                                  status |-> host.status])
         /\ sink' = [sink EXCEPT !.steps = steps, !.conn = Len(link) + 1]
       ELSE /\ sink' = [sink EXCEPT !.lost = TRUE]
            /\ UNCHANGED link
  /\ UNCHANGED <<upload, puts, host, claim, breaks, reports>>

Closed ==
  IF Connected
    THEN [link EXCEPT ![sink.conn] =
            IF @.alive THEN [@ EXCEPT !.open = FALSE, !.down = <<>>] ELSE Gone]
  ELSE link

(* The connection breaks, and the runner drops what it had not written. *)
disconnect ==
  /\ Connected
  /\ breaks < MaxBreaks
  /\ breaks' = breaks + 1
  /\ link' = Closed
  /\ sink' = [sink EXCEPT !.conn = 0]
  /\ UNCHANGED <<upload, puts, host, claim, reports>>

flush ==
  /\ Connected
  /\ sink.pc \in {"steps", "upload", "flush"}
  /\ \E i \in DOMAIN sink.steps : sink.steps[i].sent < sink.steps[i].size
  /\ LET force == sink.pc = "flush" IN
       /\ link' = Put_(Pending(sink.steps, force))
       /\ sink' = [sink EXCEPT !.steps = Flushed(@, force)]
  /\ UNCHANGED <<upload, puts, host, claim, breaks, reports>>

(* handleReply, one reply at a time. *)
Answered(s, r) ==
  [s EXCEPT !.acked = Larger(@, r.at),
            !.sent = IF r.kind = "held" THEN Smaller(@, r.at) ELSE @]
handleReply ==
  /\ Connected
  /\ link[sink.conn].down # <<>>
  /\ LET r == Head(link[sink.conn].down)
         rest == [link EXCEPT ![sink.conn].down = Tail(@)]
     IN CASE r.kind \in {"ack", "held"} ->
               /\ sink' = [sink EXCEPT !.steps[r.step] = Answered(@, r)]
               /\ link' = rest
          [] r.kind = "lease-lost" ->
               /\ sink' = [sink EXCEPT !.lost = TRUE]
               /\ link' = rest
          [] r.kind = "error" ->
               /\ sink' = [sink EXCEPT !.conn = 0]
               /\ link' = Closed
  /\ UNCHANGED <<upload, puts, host, claim, breaks, reports>>

-----------------------------------------------------------------------------
(* The runner's steps. *)

Here == Len(sink.steps)
InStep == Here > 0 /\ ~sink.steps[Here].ended

stepStarted ==
  /\ sink.pc = "steps" /\ ~InStep /\ ~sink.lost
  /\ Here < Len(Sizes)
  /\ sink' = [sink EXCEPT !.steps = Append(@, NewStep)]
  /\ link' = Put_(<<FrameOf("step-start", Here + 1, 0, 0)>>)
  /\ UNCHANGED <<upload, puts, host, claim, breaks, reports>>

appendLog ==
  /\ sink.pc = "steps" /\ InStep
  /\ sink.steps[Here].size < Sizes[Here]
  /\ sink' = [sink EXCEPT !.steps[Here].size = @ + 1]
  /\ UNCHANGED <<upload, link, puts, host, claim, breaks, reports>>

(* The rest of the logs, then the end of the step. *)
stepFinishedEndFirst ==  \* mutant: the end goes out before the logs
  /\ sink.pc = "steps" /\ InStep
  /\ LET ended == [sink.steps EXCEPT ![Here].ended = TRUE] IN
       /\ sink' = [sink EXCEPT
            !.steps = IF Connected THEN Flushed(ended, TRUE) ELSE ended]
       /\ link' = Put_(<<FrameOf("step-end", Here, 0, 0)>>
                         \o Pending(ended, TRUE))
  /\ UNCHANGED <<upload, puts, host, claim, breaks, reports>>
stepFinished ==
  /\ sink.pc = "steps" /\ InStep
  /\ LET ended == [sink.steps EXCEPT ![Here].ended = TRUE] IN
       /\ sink' = [sink EXCEPT
            !.steps = IF Connected THEN Flushed(ended, TRUE) ELSE ended]
       /\ link' = Put_(Pending(ended, TRUE)
                         \o <<FrameOf("step-end", Here, 0, 0)>>)
  /\ UNCHANGED <<upload, puts, host, claim, breaks, reports>>
(* The steps are over: all passed and there is an output to upload, or one *)
(* failed, timed out or was cancelled.                                     *)
stepsOver ==
  /\ sink.pc = "steps" /\ ~InStep /\ Here > 0 /\ ~sink.lost
  /\ sink' = [sink EXCEPT !.pc = IF Here = Len(Sizes) THEN "upload" ELSE "flush"]
  /\ UNCHANGED <<upload, link, puts, host, claim, breaks, reports>>

(* A runner that knows its claim is gone reports nothing. *)
leaseLost ==
  /\ sink.pc # "done" /\ sink.lost
  /\ sink' = [sink EXCEPT !.pc = "done", !.result = "lost", !.conn = 0]
  /\ link' = Closed
  /\ UNCHANGED <<upload, puts, host, claim, breaks, reports>>

-----------------------------------------------------------------------------
(* The runner's upload. *)

Awaited == upload.req  \* 0 between two requests

(* The next chunk, or a probe: an empty chunk at offset 0 that is answered *)
(* with what the host holds.                                               *)
sendPut ==
  /\ sink.pc = "upload" /\ ~sink.lost
  /\ Awaited = 0
  /\ upload.offset < Total \/ puts = <<>> \/ upload.probe
  /\ LET off == IF upload.probe THEN 0 ELSE upload.offset
         len == IF upload.probe THEN 0 ELSE Smaller(Chunk, Total - off)
     IN puts' = Append(puts, [off |-> off, len |-> len, at |-> "sent",
                              reply |-> "none", held |-> 0])
  /\ upload' = [upload EXCEPT !.req = Len(puts) + 1]
  /\ UNCHANGED <<sink, link, host, claim, breaks, reports>>

(* A failed chunk makes the next request a probe; a probe that fails is    *)
(* followed by the chunk again.                                            *)
GiveUp(u) == IF u.probe THEN [u EXCEPT !.req = 0, !.probe = FALSE]
             ELSE [u EXCEPT !.req = 0, !.failures = @ + 1, !.probe = TRUE]
Noted == [sink EXCEPT !.pc = "flush", !.output = "noted"]

putReply ==
  /\ Awaited > 0 /\ puts[Awaited].at = "answered"
  /\ sink.pc = "upload"
  /\ puts' = [puts EXCEPT ![Awaited] = Over]
  /\ LET p == puts[Awaited] IN
       CASE p.reply = "ok" ->
              /\ upload' = [upload EXCEPT !.offset = p.held, !.req = 0,
                   !.failures = IF upload.probe THEN @ ELSE 0, !.probe = FALSE]
              /\ UNCHANGED sink
         [] p.reply = "lease-lost" /\ ~upload.probe ->
              /\ upload' = [upload EXCEPT !.req = 0]
              /\ sink' = [Noted EXCEPT !.lost = TRUE]
         [] OTHER ->
              /\ upload' = GiveUp(upload)
              /\ sink' = IF upload'.failures > MaxFailures THEN Noted ELSE sink
  /\ UNCHANGED <<link, host, claim, breaks, reports>>

(* The request fails or times out; the host's handler goes on with what it *)
(* received.                                                               *)
putFails ==
  /\ Awaited > 0
  /\ sink.pc = "upload"
  /\ breaks < MaxBreaks
  /\ breaks' = breaks + 1
  /\ upload' = GiveUp(upload)
  /\ sink' = IF upload'.failures > MaxFailures THEN Noted ELSE sink
  /\ puts' = [puts EXCEPT ![Awaited] = IF @.at = "answered" THEN Over ELSE @]
  /\ UNCHANGED <<link, host, claim, reports>>

(* The transfer is reported now and then. *)
progress ==
  /\ sink.pc = "upload" /\ Connected
  /\ reports < MaxReports
  /\ reports' = reports + 1
  /\ link' = Put_(<<FrameOf("progress", 0, 0, 0)>>)
  /\ UNCHANGED <<sink, upload, puts, host, claim, breaks>>

uploadOver ==
  /\ sink.pc = "upload" /\ ~sink.lost
  /\ Awaited = 0 /\ puts # <<>> /\ ~upload.probe
  /\ upload.offset >= Total
  /\ sink' = [sink EXCEPT !.pc = "flush", !.output = "declared"]
  /\ UNCHANGED <<upload, link, puts, host, claim, breaks, reports>>

-----------------------------------------------------------------------------
(* The runner's finish. *)

CaughtUp == \A i \in DOMAIN sink.steps : sink.steps[i].acked >= sink.steps[i].size

(* finish() waits until the host holds all logs, or a minute (late). *)
finishWaits(late) ==
  /\ sink.pc = "flush" /\ ~sink.lost
  /\ late \/ CaughtUp
  /\ sink' = [sink EXCEPT !.pc = "finish", !.conn = 0]
  /\ link' = Closed
  /\ UNCHANGED <<upload, puts, host, claim, breaks, reports>>

(* The run is shut down: the job is handed back, unless the request fails. *)
Reset == [log |-> [i \in Steps |-> <<>>], steps |-> 0, status |-> "Pending",
          meta |-> FALSE, part |-> <<>>, stored |-> {}]
interrupted(arrives) ==
  /\ sink.pc \in {"flush", "finish"} /\ ~sink.lost
  /\ MayLapse
  /\ sink' = [sink EXCEPT !.pc = "done", !.result = "error", !.conn = 0]
  /\ link' = Closed
  /\ IF arrives /\ claim THEN claim' = FALSE /\ host' = Reset
     ELSE UNCHANGED <<claim, host>>
  /\ UNCHANGED <<upload, puts, breaks, reports>>

(* takeStaged: an output that is complete and has its checksum. *)
Whole == Units(0, Total)
takeStagedBySize ==  \* mutant: the checksum is not compared
  IF sink.output = "declared" /\ host.meta /\ Len(host.part) = Total
    THEN {host.part} ELSE {}
takeStaged ==
  IF sink.output = "declared" /\ host.meta
       /\ Len(host.part) = Total /\ host.part = Whole
    THEN {host.part} ELSE {}
(* finish on the host: commitCiRun takes the output, discards what else is *)
(* staged, writes the record; releaseCiClaim ends the claim.               *)
finish(answered) ==
  /\ sink.pc = "finish" /\ ~sink.lost
  /\ sink.attempts < MaxAttempts
  /\ PromptHost => /\ Quiet
                   /\ \A n \in DOMAIN puts : puts[n].at \in {"answered", "over"}
  /\ IF claim
       THEN /\ host' = [host EXCEPT !.stored = takeStaged, !.part = <<>>,
                          !.meta = FALSE, !.status = "Done",
                          !.steps = Len(sink.steps)]
            /\ claim' = FALSE
       ELSE UNCHANGED <<host, claim>>
  /\ sink' = IF ~answered THEN [sink EXCEPT !.attempts = @ + 1]
             ELSE IF claim THEN [sink EXCEPT !.pc = "done", !.result = "ok"]
             ELSE [sink EXCEPT !.lost = TRUE]
  /\ UNCHANGED <<upload, link, puts, breaks, reports>>

(* The request does not arrive; after the last one the runner gives up. *)
finishFails ==
  /\ sink.pc = "finish" /\ ~sink.lost
  /\ \/ /\ sink.attempts < MaxAttempts
        /\ sink' = [sink EXCEPT !.attempts = @ + 1]
     \/ /\ sink.attempts = MaxAttempts
        /\ sink' = [sink EXCEPT !.pc = "done", !.result = "error"]
  /\ UNCHANGED <<upload, link, puts, host, claim, breaks, reports>>

-----------------------------------------------------------------------------
(* The main host's stream sessions. *)

(* A reply to a runner that has closed its end is lost. *)
Say(k, l, r) == [l EXCEPT ![k].down = IF l[k].open THEN Append(@, r) ELSE @]
Taken(k) == [link EXCEPT ![k].up = Tail(@)]

(* write(): the session's copy of the record replaces the stored one. *)
Stored(l) == [host EXCEPT !.steps = l.steps, !.status = l.status]

(* appendLog: a log of a step that is not known ends the session, a gap is *)
(* answered with what is held, units that are held are skipped.            *)
StreamLog(k, f) ==
  LET held == Len(host.log[f.step])
      skip == held - f.at
  IN IF f.step > link[k].steps + 1
       THEN /\ link' = [Say(k, Taken(k), Reply("error", 0, 0))
                          EXCEPT ![k].alive = FALSE, ![k].up = <<>>]
            /\ UNCHANGED host
     ELSE IF f.at > held
       THEN /\ link' = Say(k, Taken(k), Reply("held", f.step, held))
            /\ UNCHANGED host
     ELSE /\ host' = IF skip < f.len
                       THEN [host EXCEPT !.log[f.step] =
                               @ \o Units(f.at + skip, f.len - skip)]
                     ELSE host
          /\ link' = Say(k, Taken(k),
                         Reply("ack", f.step, Larger(held, f.at + f.len)))
(* frame(): only the next step starts or ends. *)
StreamFrame(k, f) ==
  LET mine == link[k]
      next == f.step = mine.steps + 1
      copy == CASE f.kind = "started" -> [mine EXCEPT !.status = "Running"]
                [] f.kind = "step-start" /\ next -> [mine EXCEPT !.status = "Running"]
                [] f.kind = "step-end" /\ next -> [mine EXCEPT !.steps = @ + 1]
                [] OTHER -> mine
  IN /\ host' = IF f.kind \in {"started", "progress"} \/ next THEN Stored(copy)
                ELSE host
     /\ link' = [link EXCEPT ![k] = [copy EXCEPT !.up = Tail(@)]]

consume(k) ==
  /\ link[k].alive /\ link[k].up # <<>>
  /\ PromptHost => claim
  /\ LET f == Head(link[k].up)
     IN IF f.kind = "log" THEN StreamLog(k, f) ELSE StreamFrame(k, f)
  /\ UNCHANGED <<sink, upload, puts, claim, breaks, reports>>

(* The session ends: its claim is gone, or the runner closed the stream,   *)
(* of which the last frames may never arrive.                              *)
check(k) ==
  /\ link[k].alive /\ (~claim \/ ~link[k].open)
  /\ link' = IF link[k].open
                THEN [Say(k, link, Reply("lease-lost", 0, 0)) EXCEPT
                        ![k].alive = FALSE, ![k].up = <<>>]
              ELSE [link EXCEPT ![k] = Gone]
  /\ UNCHANGED <<sink, upload, puts, host, claim, breaks, reports>>

-----------------------------------------------------------------------------
(* The main host's put handlers: appendCiStagedUpload without a lock. *)

Say_(n, r, held) ==
  [puts EXCEPT ![n] = IF upload.req = n
                        THEN [@ EXCEPT !.at = "answered", !.reply = r,
                                       !.held = held]
                      ELSE Over]

(* The offset is compared with what is held; len may be less than was sent *)
(* when the connection broke on the way.                                   *)
putLooks(n, len) ==
  LET p == puts[n]
      held == Len(host.part)
  IN /\ p.at = "sent"
     /\ len = p.len \/ (len < p.len /\ upload.req # n)
     /\ IF ~claim THEN /\ puts' = Say_(n, "lease-lost", 0)
                       /\ UNCHANGED host
        ELSE IF ~host.meta /\ p.off # 0
          THEN /\ puts' = Say_(n, "refused", 0)
               /\ UNCHANGED host
        ELSE LET has == IF host.meta THEN held ELSE 0 IN
          /\ host' = IF host.meta THEN host
                     ELSE [host EXCEPT !.meta = TRUE, !.part = <<>>]
          /\ puts' = IF p.off < has \/ (p.off = has /\ len = 0)
                       THEN Say_(n, "ok", has)
                     ELSE IF p.off > has THEN Say_(n, "refused", 0)
                     ELSE [puts EXCEPT ![n].at = "write", ![n].len = len,
                                       ![n].held = has]
     /\ UNCHANGED <<sink, upload, link, claim, breaks, reports>>

(* The bytes are appended, unless the staging directory is gone by now.    *)
putWrites(n) ==
  LET p == puts[n] IN
    /\ p.at = "write"
    /\ IF host.meta
         THEN /\ host' = [host EXCEPT !.part = @ \o Units(p.off, p.len)]
              /\ puts' = Say_(n, "ok", p.held + p.len)
         ELSE /\ puts' = Say_(n, "refused", 0)
              /\ UNCHANGED host
    /\ UNCHANGED <<sink, upload, link, claim, breaks, reports>>

(* The lease lapses and the job is requeued: the record is reset, the logs *)
(* are kept aside.                                                         *)
requeue ==
  /\ MayLapse /\ claim
  /\ claim' = FALSE
  /\ host' = Reset
  /\ UNCHANGED <<sink, upload, link, puts, breaks, reports>>

-----------------------------------------------------------------------------

Init ==
  /\ sink = [pc |-> "steps", steps |-> <<>>, conn |-> 0, lost |-> FALSE,
             output |-> "none", attempts |-> 0, result |-> "none"]
  /\ upload = [offset |-> 0, failures |-> 0, req |-> 0, probe |-> FALSE]
  /\ link = <<>>
  /\ puts = <<>>
  /\ host = Reset
  /\ claim = TRUE
  /\ breaks = 0
  /\ reports = 0

Runner ==
  \/ stepStarted \/ appendLog \/ stepFinished \/ stepsOver
  \/ connect \/ disconnect \/ flush \/ handleReply \/ leaseLost
  \/ sendPut \/ putReply \/ putFails \/ progress \/ uploadOver
  \/ \E late \in BOOLEAN : finishWaits(late)
  \/ \E arrives \in BOOLEAN : interrupted(arrives)
  \/ \E answered \in BOOLEAN : finish(answered)
  \/ finishFails

Host ==
  \/ \E k \in DOMAIN link : consume(k) \/ check(k)
  \/ \E n \in DOMAIN puts :
       putWrites(n) \/ \E len \in 0 .. puts[n].len : putLooks(n, len)
  \/ requeue

Next == Runner \/ Host

Spec == Init /\ [][Next]_vars

(* Fairness: the runner's loop and every session and handler of the host   *)
(* go on.  Nothing is assumed of breaks, lost claims, shutdowns, progress  *)
(* reports, of output, or of the minute finish() waits at most.            *)
RunnerGoesOn ==
  \/ stepStarted \/ stepFinished \/ stepsOver \/ connect \/ flush
  \/ handleReply \/ leaseLost \/ sendPut \/ putReply \/ uploadOver
  \/ finishWaits(FALSE) \/ finish(TRUE)
  \/ sink.attempts = MaxAttempts /\ finishFails

Fairness ==
  /\ WF_vars(RunnerGoesOn)
  /\ \A k \in 1 .. MaxBreaks + 1 :
       WF_vars(k \in DOMAIN link /\ (consume(k) \/ check(k)))
  /\ \A n \in 1 .. 2 * (Total + MaxBreaks) + 1 :
       WF_vars(n \in DOMAIN puts /\ (putWrites(n) \/ putLooks(n, puts[n].len)))

FairSpec == Spec /\ Fairness

-----------------------------------------------------------------------------
(* Properties. *)

(* A log on the main host is what the step wrote, without gaps or          *)
(* duplicates, although sessions of broken streams go on beside the new    *)
(* one (a dropped log stream is resumed without duplicate lines); and      *)
(* while the run goes on, a step is recorded only after it ended and after *)
(* all of its output arrived.                                              *)
LogIsWhole ==
  /\ \A i \in Steps :
       /\ host.log[i] = Units(0, Len(host.log[i]))
       /\ host.log[i] # <<>> => Len(host.log[i]) <= sink.steps[i].size
  /\ claim => \A i \in 1 .. host.steps :
                /\ sink.steps[i].ended
                /\ Len(host.log[i]) = sink.steps[i].size

(* What the runner takes for acknowledged is on the main host: it will     *)
(* never be sent again.                                                    *)
AckedIsHeld ==
  claim => \A i \in DOMAIN sink.steps :
             sink.steps[i].acked <= Len(host.log[i])

(* An output is stored only with every byte of the file in its place,      *)
(* although chunks are cut short, repeated and appended by two handlers.   *)
StoredIsWhole == host.stored \subseteq {Whole}

(* The runner's report ends: every log arrives without the time limit of   *)
(* finish(), the upload ends and the finish is answered or given up.       *)
RunEnds == <>(sink.pc = "done")

=============================================================================
