--------------------------- MODULE DeviceJobProof ---------------------------
(***************************************************************************)
(* Proofs about the jobs of one worker on one device: what a reported      *)
(* result says about the device, and a finished transfer about the files.  *)
(***************************************************************************)
EXTENDS DeviceJob, TLAPS

-----------------------------------------------------------------------------
(* The shape of the state. *)

Status == {"ok", "error", "skipped"}
LinePcs == {"enter", "line", "commit", "save", "leave", "exit", "return"}
CommandPcs == {"script", "poll", "interrupt"}
TransferPcs == {"stat", "copy", "netmiko", "copied", "exec", "rm"}
Config == SUBSET (Nat \X Nat)

Job ==
  [req : Requests \cup {NoRequest},
   pc : {"idle", "enable", "done"} \cup LinePcs \cup CommandPcs \cup TransferPcs,
   i : Nat, results : Seq(Status), failed : BOOLEAN, raised : BOOLEAN,
   unseen : SUBSET Nat]
Device ==
  [mode : {"user", "config"}, enabled : BOOLEAN, commits : BOOLEAN,
   candidate : Config, running : Config, startup : Config]

JobType == job \in Job
DevType == dev \in Device
RemType ==
  /\ DOMAIN rem = DOMAIN NoRemote
  /\ rem.polls \in 0..MaxPolls + 1
  /\ job.pc = "poll" => rem.polls <= MaxPolls
FileType ==
  /\ src \in [Files -> Versions]
  /\ dst \in [Files -> Seq(Chunks) \cup {None}]
CountType == jobs \in 0..MaxJobs /\ faults \in 0..MaxFaults

(* The requests that send lines. *)
Effective == job.req.op \in {"send", "config"}

(* Which requests get where. *)
PlaceInv ==
  /\ job.pc # "idle" => job.req \in Requests
  /\ job.pc \in LinePcs => job.req.op \in {"send", "config"}
  /\ job.pc \in LinePcs \ {"line", "exit", "return"} => IsConfig /\ IsNetmiko
  /\ job.pc = "enable" =>
       /\ IsNetmiko /\ job.req.op \in {"send", "config", "upload", "download"}
       /\ Effective => job.i \in 1..job.req.lines
       /\ ~Effective => job.i \in 1..Len(job.req.files)
  /\ job.pc \in CommandPcs => job.req.op \in {"script", "interactive"}
  /\ job.pc \in TransferPcs => job.req.op \in {"upload", "download"}
  /\ job.pc \in {"enter", "line"} => job.i \in 1..job.req.lines
  /\ job.pc \in {"stat", "copy", "netmiko"} => job.i \in 1..Len(job.req.files)
  /\ job.raised => job.pc = "done" /\ job.results = <<"error">>

ShapeInv == JobType /\ DevType /\ RemType /\ FileType /\ CountType /\ PlaceInv

-----------------------------------------------------------------------------
(* The lines. *)

Present == dev.running \cup dev.candidate
OnDevice(k) == Line(k) \in Present

(* Nothing on the device is from a later job. *)
PastInv ==
  /\ \A l \in Present : l[1] <= jobs
  /\ dev.startup \subseteq dev.running

(* Until a line fails the results are those of the lines sent so far, and  *)
(* the others are not on the device; a recorded failure shows in them.     *)
Sending == job.pc \in {"enable", "enter", "line"} /\ Effective
SentInv ==
  /\ Sending =>
       /\ Len(job.results) = job.i - 1
       /\ \A k \in DOMAIN job.results : job.results[k] # "skipped"
       /\ \A k \in job.i..job.req.lines : ~OnDevice(k)
  /\ (Sending \/ job.pc \in LinePcs) /\ job.failed =>
       \E k \in DOMAIN job.results : job.results[k] = "error"

(* What becomes of the lines after a failed one. *)
ReportInv ==
  /\ IsConfig /\ IsNetmiko /\ ~job.raised
  /\ job.pc \in {"commit", "save", "leave", "exit", "return", "done"}
  =>
    /\ Len(job.results) = job.req.lines
    /\ \A k \in DOMAIN job.results : job.results[k] = "skipped" => ~OnDevice(k)

(* Where the lines are that did not fail: in force, refused unnoticed, or  *)
(* still to be committed.                                                  *)
Carried(k) == TookEffect(k) \/ (IsNetmiko /\ IsConfig /\ OnDevice(k))
EffectInv ==
  /\ Effective /\ ~job.failed =>
       /\ Sending => \A k \in 1..(job.i - 1) : Carried(k)
       /\ job.pc = "commit" => \A k \in 1..job.req.lines : Carried(k)
       /\ job.pc \in {"save", "leave", "exit", "return"} =>
            \A k \in 1..job.req.lines : TookEffect(k)
  /\ SuccessMeansApplied

ModeInv ==
  ~job.raised /\ IsNetmiko =>
    /\ IsConfig /\ job.pc \in {"exit", "return", "done"} => dev.mode = "user"
    /\ Effective /\ job.req.enable /\ job.pc \in {"return", "done"} => ~dev.enabled

LineInv == PastInv /\ SentInv /\ ReportInv /\ EffectInv /\ ModeInv

-----------------------------------------------------------------------------
(* The files. *)

IsPart(s, t) == Len(s) <= Len(t) /\ \A k \in 1..Len(s) : s[k] = t[k]

(* A destination that is not foreign holds the beginning of its source. *)
PartOf(f) == dst[f] # None /\ f \notin foreign => IsPart(dst[f], src[f])
Settled(f) == dst[f] = src[f] \/ (Req.resume /\ f \in foreign)

FileInv ==
  /\ \A f \in Files : PartOf(f)
  /\ job.pc = "stat" => \A k \in 1..(job.i - 1) : Settled(Req.files[k])
  /\ job.pc = "copy" =>
       /\ dst[File] # None /\ (File \in foreign => Req.resume)
       /\ \A k \in 1..(job.i - 1) : Req.files[k] = File \/ Settled(Req.files[k])
  /\ job.pc \in {"copied", "exec"} => \A k \in DOMAIN Req.files : Settled(Req.files[k])

DeviceInv == ShapeInv /\ LineInv /\ FileInv

-----------------------------------------------------------------------------
(* What a step leaves of the shape. *)

(* The driver gives up, or returns. *)
LEMMA RaisedShape ==
  ASSUME JobType, job.req \in Requests
  PROVE  /\ Raised.req = job.req /\ Raised.pc = "done" /\ Raised.raised = TRUE
         /\ Raised.results = <<"error">>
         /\ Raised \in Job
  <1>1. <<"error">> \in Seq(Status)
    BY DEF Status
  <1> DEFINE e == <<"error">>
  <1>2. e \in Seq(Status)
    BY <1>1
  <1> HIDE DEF e
  <1>3. QED
    BY <1>2 DEF Raised, Job, JobType, e

(* The lines that are skipped. *)
LEMMA SkippedSeq ==
  ASSUME job.req.lines \in Nat, job.i \in 1..job.req.lines
  PROVE  /\ SkippedRest \in Seq(Status)
         /\ Len(SkippedRest) = job.req.lines - job.i
         /\ \A k \in 1..(job.req.lines - job.i) : SkippedRest[k] = "skipped"
  BY DEF SkippedRest, Status

(* A request that runs has lines or files to work on. *)
LEMMA RequestShape ==
  ASSUME NEW r \in Requests
  PROVE  /\ r.lines \in Nat /\ (r.op \in {"send", "config"} => r.lines > 0)
         /\ r.files \in Seq(Files)
         /\ r.op \in {"upload", "download"} => Len(r.files) > 0
         /\ r.drv \in {"paramiko", "netmiko"}
         /\ r.op \in {"send", "config", "script", "interactive", "upload", "download"}
         /\ r.drv = "netmiko" => r.op \notin {"script", "interactive"}
  BY DeviceAssumption

(* A line on the device. *)
LEMMA AppliedShape ==
  ASSUME DevType, CountType, NEW k \in Nat
  PROVE  /\ Applied(k) \in Device
         /\ Applied(k).mode = dev.mode
         /\ Applied(k).startup = dev.startup
         /\ Applied(k).running \subseteq dev.running \cup {Line(k)}
         /\ dev.running \subseteq Applied(k).running
         /\ Applied(k).running \cup Applied(k).candidate
              = dev.running \cup dev.candidate \cup {Line(k)}
         /\ ~(IsNetmiko /\ IsConfig) => Line(k) \in Applied(k).running
         /\ Applied(k).enabled = dev.enabled
  <1>1. Line(k) \in Nat \X Nat
    BY DeviceAssumption DEF Line, CountType
  <1> DEFINE x == Line(k)
  <1>2. x \in Nat \X Nat
    BY <1>1
  <1> HIDE DEF x
  <1>3. CASE dev.commits /\ IsNetmiko /\ IsConfig
    <2>1. Applied(k) = [dev EXCEPT !.candidate = dev.candidate \cup {x}]
      BY <1>3 DEF Applied, x, DevType, Device
    <2>2. QED
      BY <1>2, <1>3, <2>1 DEF DevType, Device, Config, x
  <1>4. CASE ~(dev.commits /\ IsNetmiko /\ IsConfig)
    <2>1. Applied(k) = [dev EXCEPT !.running = dev.running \cup {x}]
      BY <1>4 DEF Applied, x, DevType, Device
    <2>2. QED
      BY <1>2, <1>4, <2>1 DEF DevType, Device, Config, x
  <1>5. QED
    BY <1>3, <1>4

(* The driver goes on to the next line or the next file, or returns. *)
LEMMA AdvanceShape ==
  ASSUME JobType, NEW results \in Seq(Status), NEW failed \in BOOLEAN
  PROVE  LET j == Advance(results, failed)
         IN /\ j \in Job /\ j.req = job.req /\ j.results = results /\ j.i = job.i + 1
            /\ j.raised = job.raised /\ j.failed = (job.failed \/ failed)
            /\ j.pc = IF AtLastLine THEN AfterLines ELSE "line"
            /\ j.unseen = job.unseen
  <1> DEFINE f == job.failed \/ failed
             p == IF AtLastLine THEN AfterLines ELSE "line"
             i == job.i + 1
  <1>1. f \in BOOLEAN /\ p \in LinePcs /\ i \in Nat
    BY DEF AfterLines, LastStep, LinePcs, JobType, Job
  <1>2. Advance(results, failed)
          = [job EXCEPT !.results = results, !.i = i, !.failed = f, !.pc = p]
    BY DEF Advance, OverallStatus, JobType, Job
  <1> DEFINE j == Advance(results, failed)
  <1> HIDE DEF f, p, i
  <1>3. /\ j \in Job /\ j.req = job.req /\ j.results = results /\ j.i = i
        /\ j.raised = job.raised /\ j.failed = f /\ j.pc = p /\ j.unseen = job.unseen
    BY <1>1, <1>2 DEF JobType, Job
  <1> HIDE DEF j
  <1>4. QED
    BY <1>3 DEF f, p, i, j

(* The next file, or the end of the copy. *)
LEMMA NextFileShape ==
  ASSUME JobType
  PROVE  /\ NextFile \in Job /\ NextFile.req = job.req /\ NextFile.i = job.i + 1
         /\ NextFile.raised = job.raised /\ NextFile.results = job.results
         /\ NextFile.pc = IF job.i = Len(Req.files) THEN "copied" ELSE "stat"
  <1> DEFINE p == IF job.i = Len(Req.files) THEN "copied" ELSE "stat"
             i == job.i + 1
  <1>1. p \in TransferPcs /\ i \in Nat
    BY DEF TransferPcs, JobType, Job
  <1>2. NextFile = [job EXCEPT !.i = i, !.pc = p]
    BY DEF NextFile, JobType, Job
  <1> HIDE DEF p, i
  <1>3. /\ NextFile \in Job /\ NextFile.req = job.req /\ NextFile.i = i
        /\ NextFile.raised = job.raised /\ NextFile.results = job.results /\ NextFile.pc = p
    BY <1>1, <1>2 DEF JobType, Job
  <1>4. QED
    BY <1>3 DEF p, i

(* The driver returns. *)
LEMMA ReturnShape ==
  ASSUME JobType, NEW results \in Seq(Status)
  PROVE  /\ Return(results) \in Job /\ Return(results).req = job.req
         /\ Return(results).pc = "done" /\ Return(results).results = results
         /\ Return(results).raised = job.raised /\ Return(results).failed = job.failed
         /\ Return(results).unseen = job.unseen
  BY DEF Return, JobType, Job

(* Results are sequences of statuses. *)
LEMMA StatusSeq ==
  ASSUME NEW status \in Status
  PROVE  /\ <<status>> \in Seq(Status)
         /\ \A s \in Seq(Status) : Append(s, status) \in Seq(Status)
  OBVIOUS

(* A job that goes to another place with nothing else changed. *)
MovesTo(p) ==
  /\ job' \in Job /\ job'.req = job.req /\ job'.pc = p /\ job'.i = job.i
  /\ job'.results = job.results /\ job'.failed = job.failed /\ job'.raised = job.raised
  /\ job'.unseen = job.unseen

(* What such a move is. *)
LEMMA Moves ==
  ASSUME JobType, NEW p \in LinePcs \cup CommandPcs \cup TransferPcs,
         job' = [job EXCEPT !.pc = p]
  PROVE  MovesTo(p)
  BY DEF MovesTo, JobType, Job

(* What a line adds to the results. *)
LEMMA ResultSeqs ==
  ASSUME ShapeInv, job.pc = "line"
  PROVE  /\ Append(job.results, "ok") \in Seq(Status)
         /\ Append(job.results, "error") \in Seq(Status)
         /\ Append(job.results, "error") \o SkippedRest \in Seq(Status)
         /\ job.req.lines \in Nat /\ job.i \in 1..job.req.lines
  <1>1. job.req \in Requests /\ job.results \in Seq(Status) /\ job.i \in 1..job.req.lines
    BY DEF ShapeInv, JobType, Job, PlaceInv
  <1>2. SkippedRest \in Seq(Status) /\ job.req.lines \in Nat
    BY <1>1, RequestShape, SkippedSeq
  <1>3. QED
    BY <1>1, <1>2, StatusSeq DEF Status

(* What a line makes of the job: what is left to do, what is reported and  *)
(* what is remembered.                                                     *)
GoesOn(results, failed) ==
  /\ job'.results = results /\ job'.i = job.i + 1
  /\ job'.failed = (job.failed \/ failed) /\ job'.raised = job.raised
  /\ job'.pc = IF AtLastLine THEN AfterLines ELSE "line"
GivesUp(results, p) ==
  /\ job'.results = results /\ job'.i = job.i
  /\ job'.failed = TRUE /\ job'.raised = job.raised /\ job'.pc = p

(* What giving up is. *)
LEMMA Givings ==
  ASSUME JobType, NEW s \in Seq(Status), NEW p \in LinePcs,
         job' = [job EXCEPT !.results = s, !.failed = TRUE, !.pc = p]
  PROVE  job' \in Job /\ job'.req = job.req /\ GivesUp(s, p)
  BY DEF GivesUp, JobType, Job

(* A line that succeeds. *)
LEMMA SucceedsMoves ==
  ASSUME ShapeInv, LineSucceeds
  PROVE  /\ job' \in Job /\ job'.req = job.req /\ GoesOn(Append(job.results, "ok"), FALSE)
         /\ job'.unseen = job.unseen
  <1> DEFINE ok == Append(job.results, "ok")
  <1>1. ok \in Seq(Status) /\ job' = Advance(ok, FALSE) /\ JobType
    BY ResultSeqs DEF LineSucceeds, ShapeInv
  <1> HIDE DEF ok
  <1>2. job' \in Job /\ job'.req = job.req /\ GoesOn(ok, FALSE) /\ job'.unseen = job.unseen
    BY <1>1, AdvanceShape DEF GoesOn
  <1>3. QED
    BY <1>2 DEF ok

(* A line whose refusal goes unnoticed. *)
LEMMA UnnoticedMoves ==
  ASSUME ShapeInv, LineUnnoticed
  PROVE  /\ job' \in Job /\ job'.req = job.req /\ GoesOn(Append(job.results, "ok"), FALSE)
         /\ job'.unseen = job.unseen \cup {job.i}
  <1> DEFINE ok == Append(job.results, "ok")
             j == Advance(ok, FALSE)
             u == job.unseen \cup {job.i}
  <1>1. /\ ok \in Seq(Status) /\ JobType /\ u \in SUBSET Nat
        /\ job' = [j EXCEPT !.unseen = j.unseen \cup {job.i}]
    BY ResultSeqs DEF LineUnnoticed, ShapeInv, JobType, Job
  <1> HIDE DEF ok
  <1>2. /\ j \in Job /\ j.req = job.req /\ j.results = ok /\ j.i = job.i + 1
        /\ j.raised = job.raised /\ j.failed = (job.failed \/ FALSE)
        /\ j.pc = IF AtLastLine THEN AfterLines ELSE "line"
        /\ j.unseen = job.unseen
    BY <1>1, AdvanceShape
  <1> HIDE DEF j
  <1>3. job' = [j EXCEPT !.unseen = u]
    BY <1>1, <1>2
  <1> HIDE DEF u
  <1>4. /\ job' \in Job /\ job'.req = j.req /\ job'.results = j.results /\ job'.i = j.i
        /\ job'.raised = j.raised /\ job'.failed = j.failed /\ job'.pc = j.pc
        /\ job'.unseen = u
    BY <1>1, <1>2, <1>3 DEF Job
  <1>5. QED
    BY <1>2, <1>4 DEF ok, u, GoesOn

(* A line that fails. *)
LEMMA FailsMoves ==
  ASSUME ShapeInv, LineFails
  PROVE  /\ job' \in Job /\ job'.req = job.req
         /\ \/ /\ IsNetmiko /\ IsConfig
               /\ GivesUp(Append(job.results, "error") \o SkippedRest, "commit")
            \/ ~IsNetmiko /\ IsConfig /\ GivesUp(Append(job.results, "error"), "return")
            \/ ~IsNetmiko /\ GoesOn(Append(job.results, "error"), TRUE)
  <1> DEFINE er == Append(job.results, "error")
             sk == er \o SkippedRest
  <1>1. er \in Seq(Status) /\ sk \in Seq(Status) /\ JobType
    BY ResultSeqs DEF LineFails, ShapeInv
  <1>2. "commit" \in LinePcs /\ "return" \in LinePcs
    BY DEF LinePcs
  <1>3. /\ IsNetmiko => IsConfig
        /\ job' = IF IsNetmiko
                    THEN [job EXCEPT !.results = sk, !.failed = TRUE, !.pc = "commit"]
                  ELSE IF StopsOnError
                    THEN [job EXCEPT !.results = er, !.failed = TRUE, !.pc = "return"]
                    ELSE Advance(er, TRUE)
    BY DEF LineFails
  <1> HIDE DEF er, sk
  <1>4. /\ job' \in Job /\ job'.req = job.req
        /\ \/ IsNetmiko /\ IsConfig /\ GivesUp(sk, "commit")
           \/ ~IsNetmiko /\ IsConfig /\ GivesUp(er, "return")
           \/ ~IsNetmiko /\ GoesOn(er, TRUE)
    <2>1. CASE IsNetmiko
      <3>1. job' = [job EXCEPT !.results = sk, !.failed = TRUE, !.pc = "commit"]
        BY <1>3, <2>1
      <3>2. QED
        BY <1>1, <1>2, <1>3, <2>1, <3>1, Givings
    <2>2. CASE ~IsNetmiko /\ StopsOnError
      <3>1. job' = [job EXCEPT !.results = er, !.failed = TRUE, !.pc = "return"]
        BY <1>3, <2>2
      <3>2. IsConfig
        BY <2>2 DEF StopsOnError
      <3>3. QED
        BY <1>1, <1>2, <2>2, <3>1, <3>2, Givings
    <2>3. CASE ~IsNetmiko /\ ~StopsOnError
      BY <1>1, <1>3, <2>3, AdvanceShape DEF GoesOn
    <2>4. QED
      BY <2>1, <2>2, <2>3
  <1>5. QED
    BY <1>4 DEF er, sk

(* A line that raises. *)
LEMMA RaisesMoves ==
  ASSUME ShapeInv, LineRaises
  PROVE  /\ job' \in Job /\ job'.req = job.req
         /\ \/ /\ IsNetmiko /\ IsConfig
               /\ GivesUp(Append(job.results, "error") \o SkippedRest, "commit")
            \/ ~(IsNetmiko /\ IsConfig) /\ job' = Raised
  <1> DEFINE sk == Append(job.results, "error") \o SkippedRest
  <1>1. sk \in Seq(Status) /\ JobType /\ job.req \in Requests
    BY ResultSeqs DEF LineRaises, ShapeInv, PlaceInv
  <1>2. CASE IsNetmiko /\ IsConfig
    <2>1. job' = [job EXCEPT !.results = sk, !.failed = TRUE, !.pc = "commit"]
      BY <1>2 DEF LineRaises, ShapeInv, JobType, Job
    <2>2. "commit" \in LinePcs
      BY DEF LinePcs
    <2> HIDE DEF sk
    <2>3. job' \in Job /\ job'.req = job.req /\ GivesUp(sk, "commit")
      BY <1>1, <2>1, <2>2, Givings
    <2>4. QED
      BY <1>2, <2>3 DEF sk
  <1>3. CASE ~(IsNetmiko /\ IsConfig)
    <2>1. job' = Raised
      BY <1>3 DEF LineRaises
    <2>2. QED
      BY <1>1, <1>3, <2>1, RaisedShape
  <1>4. QED
    BY <1>2, <1>3

(* Where a request leads. *)
Place(r, p) ==
  \/ r.op \in {"upload", "download"} /\ p = IF r.drv = "netmiko" THEN "netmiko" ELSE "stat"
  \/ r.op = "script" /\ p = "script"
  \/ r.op = "interactive" /\ p = "poll"
  \/ r.op = "send" /\ p = "line"
  \/ r.op = "config" /\ p = IF r.drv = "netmiko" THEN "enter" ELSE "line"

(* Each has its place. *)
LEMMA EnablePlace ==
  ASSUME NEW r \in Requests
  PROVE  /\ Place(r, AfterEnable(r))
         /\ AfterEnable(r) \in LinePcs \cup CommandPcs \cup TransferPcs
  <1>1. Place(r, AfterEnable(r))
    BY RequestShape DEF AfterEnable, Place
  <1>2. QED
    BY <1>1 DEF Place, LinePcs, CommandPcs, TransferPcs

(* A job starts at the first step of its request. *)
LEMMA StartMoves ==
  ASSUME NEW r \in Requests, StartJob(r)
  PROVE  /\ job' \in Job /\ job'.req = r /\ job'.i = 1 /\ job'.results = <<>>
         /\ job'.failed = FALSE /\ job'.raised = FALSE
         /\ Place(r, job'.pc) \/ (r.drv = "netmiko" /\ job'.pc = "enable")
  <1> DEFINE p == FirstStep(r)
  <1>1. Place(r, p) \/ (r.drv = "netmiko" /\ p = "enable")
    BY EnablePlace DEF FirstStep
  <1>2. p \in {"enable"} \cup LinePcs \cup CommandPcs \cup TransferPcs
    BY EnablePlace DEF FirstStep
  <1> DEFINE e == <<>>
  <1>3. job' = [NoJob EXCEPT !.req = r, !.pc = p, !.i = 1] /\ e \in Seq(Status)
    BY DEF StartJob
  <1> HIDE DEF p, e
  <1>4. NoJob = [req |-> NoRequest, pc |-> "idle", i |-> 0, results |-> e,
                 failed |-> FALSE, raised |-> FALSE, unseen |-> {}]
    BY DEF NoJob, e
  <1>5. /\ job' = [req |-> r, pc |-> p, i |-> 1, results |-> e,
                   failed |-> FALSE, raised |-> FALSE, unseen |-> {}]
        /\ e \in Seq(Status)
    BY <1>3, <1>4
  <1>6. /\ job' \in Job /\ job'.req = r /\ job'.i = 1 /\ job'.results = e
        /\ job'.failed = FALSE /\ job'.raised = FALSE /\ job'.pc = p
    BY <1>2, <1>5 DEF Job
  <1>7. QED
    BY <1>1, <1>6 DEF e

(* A job that is over at once: the outcome of a script or a command.       *)
LEMMA OutcomeMoves ==
  ASSUME ShapeInv, RunScript \/ PollExited \/ Interrupt \/ NetmikoTransfer
  PROVE  job' \in Job /\ job'.req = job.req /\ job'.pc = "done" /\ job'.raised = job.raised
  <1>1. JobType
    BY DEF ShapeInv
  <1>2. PICK status \in Status : job' = Return(<<status>>)
    BY DEF RunScript, PollExited, Interrupt, NetmikoTransfer, Status
  <1>3. <<status>> \in Seq(Status)
    BY StatusSeq
  <1>4. QED
    BY <1>1, <1>2, <1>3, ReturnShape

(* The other steps of a job. *)
LEMMA ConfigMoves ==
  ASSUME ShapeInv
  PROVE  /\ Enable => MovesTo(AfterEnable(job.req)) /\ Place(job.req, AfterEnable(job.req))
         /\ EnterConfig => MovesTo("line")
         /\ Commit => MovesTo("save")
         /\ Save => MovesTo("leave")
         /\ LeaveConfig => MovesTo(LastStep)
         /\ ExitEnable => MovesTo("return")
         /\ OpenFile => MovesTo("copy")
         /\ PollQuiet => MovesTo(IF QuietPolls > MaxPolls THEN "interrupt" ELSE "poll")
  <1>1. JobType
    BY DEF ShapeInv
  <1>2. {"line", "save", "leave", "return", "copy", "interrupt", "poll"}
          \subseteq LinePcs \cup CommandPcs \cup TransferPcs
    BY DEF LinePcs, CommandPcs, TransferPcs
  <1>3. EnterConfig => MovesTo("line")
    BY <1>1, <1>2, Moves DEF EnterConfig
  <1>4. Commit => MovesTo("save")
    BY <1>1, <1>2, Moves DEF Commit
  <1>5. Save => MovesTo("leave")
    BY <1>1, <1>2, Moves DEF Save
  <1>6. LeaveConfig => MovesTo(LastStep)
    <2>1. LastStep \in LinePcs
      BY DEF LastStep, LinePcs
    <2>2. QED
      BY <1>1, <2>1, Moves DEF LeaveConfig
  <1>7. OpenFile => MovesTo("copy")
    BY <1>1, <1>2, Moves DEF OpenFile
  <1>8. PollQuiet => MovesTo(IF QuietPolls > MaxPolls THEN "interrupt" ELSE "poll")
    <2> DEFINE p == IF QuietPolls > MaxPolls THEN "interrupt" ELSE "poll"
    <2> SUFFICES ASSUME PollQuiet PROVE MovesTo(p)
      OBVIOUS
    <2>1. p \in LinePcs \cup CommandPcs \cup TransferPcs /\ job' = [job EXCEPT !.pc = p]
      BY <1>2 DEF PollQuiet
    <2> HIDE DEF p
    <2>2. QED
      BY <1>1, <2>1, Moves
  <1>9. ExitEnable => MovesTo("return")
    BY <1>1, <1>2, Moves DEF ExitEnable
  <1>10. Enable => MovesTo(AfterEnable(job.req)) /\ Place(job.req, AfterEnable(job.req))
    <2> SUFFICES ASSUME Enable
                 PROVE  MovesTo(AfterEnable(job.req)) /\ Place(job.req, AfterEnable(job.req))
      OBVIOUS
    <2>1. job.req \in Requests
      BY DEF Enable, ShapeInv, PlaceInv
    <2> DEFINE p == AfterEnable(job.req)
    <2>2. /\ p \in LinePcs \cup CommandPcs \cup TransferPcs /\ Place(job.req, p)
          /\ job' = [job EXCEPT !.pc = p]
      BY <2>1, EnablePlace DEF Enable
    <2> HIDE DEF p
    <2>3. MovesTo(p)
      BY <1>1, <2>2, Moves
    <2>4. QED
      BY <2>2, <2>3 DEF p
  <1>11. QED
    BY <1>3, <1>4, <1>5, <1>6, <1>7, <1>8, <1>9, <1>10

(* netmiko's results are those of its lines, paramiko's config() merges    *)
(* them.                                                                   *)
LEMMA ReturnMoves ==
  ASSUME ShapeInv, ReturnResults
  PROVE  /\ job' \in Job /\ job'.req = job.req /\ job'.pc = "done" /\ job'.raised = job.raised
         /\ ~(IsConfig /\ ~IsNetmiko) => job'.results = job.results
         /\ IsConfig /\ ~IsNetmiko =>
              job'.results = <<IF job.failed THEN "error" ELSE "ok">>
         /\ job'.unseen = job.unseen
  <1> DEFINE s == IF IsConfig /\ ~IsNetmiko
                    THEN <<IF job.failed THEN "error" ELSE "ok">> ELSE job.results
  <1>1. JobType /\ job.results \in Seq(Status)
    BY DEF ShapeInv, JobType, Job
  <1>2. <<IF job.failed THEN "error" ELSE "ok">> \in Seq(Status)
    BY StatusSeq DEF Status
  <1>3. s \in Seq(Status) /\ job' = Return(s)
    BY <1>1, <1>2 DEF ReturnResults
  <1> HIDE DEF s
  <1>4. /\ job' \in Job /\ job'.req = job.req /\ job'.pc = "done" /\ job'.raised = job.raised
        /\ job'.results = s /\ job'.unseen = job.unseen
    BY <1>1, <1>3, ReturnShape
  <1>5. QED
    BY <1>4 DEF s

(* After the copy. *)
LEMMA AfterCopyMoves ==
  ASSUME ShapeInv, Copied \/ ExecAfterUpload \/ RemoveUploaded
  PROVE  /\ job' \in Job /\ job'.req = job.req /\ job'.raised = job.raised
         /\ Copied => job'.pc \in {"exec", "done"}
         /\ ExecAfterUpload => job'.pc \in {"rm", "done"}
         /\ RemoveUploaded => job'.pc = "done"
  <1>1. JobType /\ job.results \in Seq(Status)
    BY DEF ShapeInv, JobType, Job
  <1>2. {"exec", "rm"} \subseteq TransferPcs
    BY DEF TransferPcs
  <1>3. ASSUME NEW s \in Seq(Status), NEW p \in TransferPcs,
               job' = [job EXCEPT !.results = s, !.pc = p]
        PROVE  job' \in Job /\ job'.req = job.req /\ job'.raised = job.raised /\ job'.pc = p
    BY <1>1, <1>3 DEF JobType, Job
  <1>4. ASSUME NEW s \in Seq(Status), job' = Return(s)
        PROVE  job' \in Job /\ job'.req = job.req /\ job'.raised = job.raised /\ job'.pc = "done"
    BY <1>1, <1>4, ReturnShape
  <1>5. ASSUME Copied
        PROVE  /\ job' \in Job /\ job'.req = job.req /\ job'.raised = job.raised
               /\ job'.pc \in {"exec", "done"} /\ job.pc = "copied"
    <2> DEFINE s == <<"ok">>
    <2>1. s \in Seq(Status)
      BY StatusSeq DEF Status
    <2>2. /\ job.pc = "copied"
          /\ job' = [job EXCEPT !.results = s, !.pc = "exec"] \/ job' = Return(s)
      BY <1>5 DEF Copied
    <2> HIDE DEF s
    <2>3. QED
      BY <1>2, <1>3, <1>4, <2>1, <2>2
  <1>6. ASSUME ExecAfterUpload
        PROVE  /\ job' \in Job /\ job'.req = job.req /\ job'.raised = job.raised
               /\ job'.pc \in {"rm", "done"} /\ job.pc = "exec"
    <2>1. PICK status \in Status :
            \/ job' = [job EXCEPT !.results = Append(job.results, status), !.pc = "rm"]
            \/ job' = Return(Append(job.results, status))
      BY <1>6 DEF ExecAfterUpload, Status
    <2> DEFINE s == Append(job.results, status)
    <2>2. s \in Seq(Status)
      BY <1>1
    <2>3. job' = [job EXCEPT !.results = s, !.pc = "rm"] \/ job' = Return(s)
      BY <2>1
    <2> HIDE DEF s
    <2>4. job.pc = "exec"
      BY <1>6 DEF ExecAfterUpload
    <2>5. QED
      BY <1>2, <1>3, <1>4, <2>2, <2>3, <2>4
  <1>7. ASSUME RemoveUploaded
        PROVE  /\ job' \in Job /\ job'.req = job.req /\ job'.raised = job.raised
               /\ job'.pc = "done" /\ job.pc = "rm"
    <2>1. Append(job.results, "ok") \in Seq(Status)
      BY <1>1, StatusSeq DEF Status
    <2>2. job' = Return(Append(job.results, "ok")) /\ job.pc = "rm"
      BY <1>7 DEF RemoveUploaded
    <2>3. QED
      BY <1>4, <2>1, <2>2
  <1>8. QED
    BY <1>5, <1>6, <1>7

(* Steps that leave the job as it is. *)
Idling ==
  RemoteAsks \/ PollChunk \/ CopyChunk \/ (\E f \in Files : SourceReplaced(f)) \/ UNCHANGED vars

(* Steps that end the job with an exception, outside the lines. *)
Raising == ConfigRaises \/ CommandRaises \/ TransferRaises

(* The job is as before. *)
LEMMA IdlingMoves == ASSUME Idling PROVE job' = job
  BY DEF Idling, RemoteAsks, PollChunk, CopyChunk, SourceReplaced, vars

(* What is left of such a job. *)
LEMMA RaisingMoves ==
  ASSUME ShapeInv, Raising
  PROVE  /\ job' = Raised /\ job' \in Job /\ job'.req = job.req /\ job'.pc = "done"
         /\ job'.raised = TRUE /\ job'.results = <<"error">>
         /\ job.pc \in {"enable"} \cup (LinePcs \ {"line", "return"})
                         \cup CommandPcs \cup TransferPcs
  <1>1. job.pc \in {"enable"} \cup (LinePcs \ {"line", "return"})
                      \cup CommandPcs \cup TransferPcs
    BY DEF Raising, ConfigRaises, CommandRaises, TransferRaises, LinePcs, CommandPcs, TransferPcs
  <1>2. JobType /\ job.req \in Requests
    BY <1>1 DEF ShapeInv, PlaceInv, LinePcs, CommandPcs, TransferPcs
  <1>3. job' = Raised
    BY DEF Raising, ConfigRaises, CommandRaises, TransferRaises, FailedTransfer
  <1>4. QED
    BY <1>1, <1>2, <1>3, RaisedShape

(* What a step is. *)
LEMMA StepKinds ==
  ASSUME [Next]_vars
  PROVE  \/ \E r \in Requests : StartJob(r)
         \/ Enable \/ EnterConfig \/ LineSucceeds \/ LineFails \/ LineUnnoticed \/ LineRaises
         \/ Commit \/ Save \/ LeaveConfig \/ ExitEnable \/ ReturnResults
         \/ RunScript \/ PollQuiet \/ PollExited \/ Interrupt
         \/ SkipFile \/ OpenFile \/ CloseFile \/ NetmikoTransfer
         \/ Copied \/ ExecAfterUpload \/ RemoveUploaded
         \/ Raising \/ Idling
  BY DEF Next, Step, LinesStep, TransferStep, Raising, Idling

(* The job keeps its shape, and stays where its request belongs. *)
LEMMA JobShape ==
  ASSUME ShapeInv, [Next]_vars
  PROVE  JobType' /\ PlaceInv'
  <1> USE DEF JobType
  <1>0. JobType /\ PlaceInv
    BY DEF ShapeInv
  <1>1. CASE \E r \in Requests : StartJob(r)
    <2>1. PICK r \in Requests : StartJob(r)
      BY <1>1
    <2>2. PlaceInv'
      <3>1. /\ job'.req = r /\ job'.i = 1 /\ job'.raised = FALSE
            /\ r.lines \in Nat /\ (r.op \in {"send", "config"} => 1 \in 1..r.lines)
            /\ r.op \in {"upload", "download"} => 1 \in 1..Len(r.files)
        <4>1. /\ r.files \in Seq(Files) /\ r.lines \in Nat
              /\ r.op \in {"send", "config"} => r.lines > 0
              /\ r.op \in {"upload", "download"} => Len(r.files) > 0
          BY RequestShape
        <4>2. job'.req = r /\ job'.i = 1 /\ job'.raised = FALSE
          BY <2>1, StartMoves
        <4>3. Len(r.files) \in Nat
          BY <4>1
        <4>4. QED
          BY <4>1, <4>2, <4>3
      <3>2. \/ r.op \in {"upload", "download"} /\ job'.pc \in {"netmiko", "stat"}
            \/ r.op \in {"script", "interactive"} /\ job'.pc \in CommandPcs
            \/ r.op \in {"send", "config"} /\ job'.pc = "line"
            \/ r.op = "config" /\ r.drv = "netmiko" /\ job'.pc = "enter"
            \/ /\ r.op \in {"send", "config", "upload", "download"} /\ r.drv = "netmiko"
               /\ job'.pc = "enable"
        BY <2>1, StartMoves, RequestShape DEF CommandPcs, Place
      <3>3. QED
        BY <3>1, <3>2
           DEF PlaceInv, IsConfig, IsNetmiko, Effective, LinePcs, CommandPcs, TransferPcs
    <2>3. QED
      BY <2>1, <2>2, StartMoves
  <1>2. CASE EnterConfig \/ Commit \/ Save \/ LeaveConfig \/ ExitEnable \/ OpenFile \/ PollQuiet
    BY <1>0, <1>2, ConfigMoves
       DEF MovesTo, PlaceInv, IsConfig, IsNetmiko, LinePcs, CommandPcs, TransferPcs, LastStep,
           EnterConfig, Commit, Save, LeaveConfig, ExitEnable, OpenFile, PollQuiet
  <1>17. CASE Enable
    <2>1. /\ job.pc = "enable" /\ MovesTo(AfterEnable(job.req))
          /\ Place(job.req, AfterEnable(job.req))
      BY <1>17, ConfigMoves DEF Enable
    <2>2. /\ job' \in Job /\ job'.req = job.req /\ job'.i = job.i /\ job'.raised = job.raised
          /\ Place(job.req, job'.pc)
      BY <2>1 DEF MovesTo
    <2>3. QED
      BY <1>0, <2>1, <2>2
         DEF PlaceInv, Place, IsConfig, IsNetmiko, Effective, LinePcs, CommandPcs, TransferPcs
  <1>3. ASSUME NEW s, NEW f, job.pc = "line", GoesOn(s, f), job' \in Job, job'.req = job.req
        PROVE  JobType' /\ PlaceInv'
    <2>1. job.i \in 1..job.req.lines /\ job.req.lines \in Nat
      BY <1>0, <1>3, RequestShape DEF PlaceInv
    <2>2. QED
      BY <1>0, <1>3, <2>1
         DEF GoesOn, AtLastLine, AfterLines, LastStep, PlaceInv, IsConfig, IsNetmiko, LinePcs,
             CommandPcs, TransferPcs
  <1>4. ASSUME NEW s, NEW p, job.pc = "line", GivesUp(s, p), job' \in Job, job'.req = job.req,
               p = "return" \/ (p = "commit" /\ IsConfig /\ IsNetmiko)
        PROVE  JobType' /\ PlaceInv'
    BY <1>0, <1>4
       DEF GivesUp, PlaceInv, IsConfig, IsNetmiko, LinePcs, CommandPcs, TransferPcs
  <1>5. ASSUME job.pc \notin {"idle", "done"}, job' \in Job, job'.req = job.req,
               job'.pc = "done", job'.raised = job.raised
        PROVE  JobType' /\ PlaceInv'
    BY <1>0, <1>5 DEF PlaceInv, IsConfig, IsNetmiko, LinePcs, CommandPcs, TransferPcs
  <1>6. ASSUME job.pc # "idle", job' = Raised
        PROVE  JobType' /\ PlaceInv'
    <2>1. job.req \in Requests
      BY <1>0, <1>6 DEF PlaceInv
    <2>2. /\ job'.req = job.req /\ job'.pc = "done" /\ job'.results = <<"error">>
          /\ job' \in Job
      BY <1>0, <1>6, <2>1, RaisedShape
    <2>3. QED
      BY <2>1, <2>2 DEF PlaceInv, LinePcs, CommandPcs, TransferPcs
  <1>7. CASE LineSucceeds \/ LineUnnoticed
    BY <1>3, <1>7, SucceedsMoves, UnnoticedMoves DEF LineSucceeds, LineUnnoticed
  <1>8. CASE LineFails
    <2>1. job.pc = "line"
      BY <1>8 DEF LineFails
    <2>2. QED
      BY <1>3, <1>4, <1>8, <2>1, FailsMoves
  <1>9. CASE LineRaises
    <2>1. job.pc = "line"
      BY <1>9 DEF LineRaises
    <2>2. QED
      BY <1>4, <1>6, <1>9, <2>1, RaisesMoves
  <1>10. CASE ReturnResults
    BY <1>5, <1>10, ReturnMoves DEF ReturnResults
  <1>11. CASE RunScript \/ PollExited \/ Interrupt \/ NetmikoTransfer
    <2>1. job.pc \notin {"idle", "done"}
      BY <1>11 DEF RunScript, PollExited, Interrupt, NetmikoTransfer
    <2>2. QED
      BY <1>5, <1>11, <2>1, OutcomeMoves
  <1>12. CASE SkipFile \/ CloseFile
    <2>1. job' = NextFile /\ job.pc \in {"stat", "copy"}
      BY <1>12 DEF SkipFile, CloseFile
    <2>2. job.i \in 1..Len(job.req.files) /\ Len(job.req.files) \in Nat /\ job.req \in Requests
      <3>1. job.req \in Requests
        BY <1>0, <2>1 DEF PlaceInv
      <3>2. job.req.files \in Seq(Files)
        BY <3>1, RequestShape
      <3>3. QED
        BY <1>0, <2>1, <3>1, <3>2 DEF PlaceInv
    <2>3. QED
      BY <1>0, <2>1, <2>2, NextFileShape
         DEF Req, PlaceInv, IsConfig, IsNetmiko, LinePcs, CommandPcs, TransferPcs
  <1>13. CASE Copied \/ ExecAfterUpload \/ RemoveUploaded
    BY <1>0, <1>13, AfterCopyMoves
       DEF PlaceInv, IsConfig, IsNetmiko, LinePcs, CommandPcs, TransferPcs, Copied,
           ExecAfterUpload, RemoveUploaded
  <1>14. CASE Raising
    BY <1>6, <1>14, RaisingMoves DEF LinePcs, CommandPcs, TransferPcs
  <1>15. CASE Idling
    BY <1>0, <1>15, IdlingMoves DEF PlaceInv, IsConfig, IsNetmiko, Effective
  <1>16. QED
    BY <1>1, <1>2, <1>17, <1>7, <1>8, <1>9, <1>10, <1>11, <1>12, <1>13, <1>14, <1>15, StepKinds

(* The device keeps its shape. *)
LEMMA DevShape ==
  ASSUME ShapeInv, [Next]_vars
  PROVE  DevType'
  <1> USE DEF DevType
  <1>1. DevType /\ CountType /\ job.i \in Nat
    BY DEF ShapeInv, JobType, Job
  <1>2. ASSUME NEW k \in Nat, dev' = Applied(k)
        PROVE  DevType'
    BY <1>1, <1>2, AppliedShape
  <1>3. CASE Enable \/ EnterConfig \/ ExitEnable
    BY <1>1, <1>3 DEF Enable, EnterConfig, ExitEnable, Device
  <1>4. CASE LineSucceeds
    BY <1>1, <1>2, <1>4 DEF LineSucceeds
  <1>5. CASE LineFails \/ LineRaises \/ CommandRaises
    BY <1>1, <1>2, <1>5 DEF LineFails, LineRaises, CommandRaises
  <1>6. CASE Commit
    <2> DEFINE c == dev.running \cup dev.candidate
               e == {}
    <2>1. c \in Config /\ e \in Config
      BY <1>1 DEF Device, Config
    <2>2. dev' = [dev EXCEPT !.running = c, !.candidate = e]
      BY <1>1, <1>6 DEF Commit, Device
    <2> HIDE DEF c, e
    <2>3. QED
      BY <1>1, <2>1, <2>2 DEF Device
  <1>7. CASE Save
    BY <1>1, <1>7 DEF Save, Device
  <1>8. CASE LeaveConfig
    BY <1>1, <1>8 DEF LeaveConfig, ModeAfterConfig, Device
  <1>9. CASE RunScript \/ PollExited
    BY <1>1, <1>2, <1>9 DEF RunScript, PollExited
  <1>10. CASE UNCHANGED dev
    BY <1>1, <1>10
  <1>11. QED
    BY <1>3, <1>4, <1>5, <1>6, <1>7, <1>8, <1>9, <1>10
       DEF Next, Step, LinesStep, TransferStep, StartJob, LineUnnoticed, ConfigRaises, ReturnResults,
           RemoteAsks, PollChunk, PollQuiet, Interrupt, SkipFile, OpenFile, CopyChunk, CloseFile,
           TransferRaises, NetmikoTransfer, Copied, ExecAfterUpload, RemoveUploaded,
           SourceReplaced, vars

(* The remote side keeps its shape. *)
LEMMA RemShape ==
  ASSUME ShapeInv, [Next]_vars
  PROVE  RemType'
  <1>1. RemType /\ MaxPolls \in Nat
    BY DeviceAssumption DEF ShapeInv
  <1>2. CASE \E r \in Requests : StartJob(r)
    <2>1. PICK r \in Requests : rem' = [NoRemote EXCEPT !.todo = r.asks]
      BY <1>2 DEF StartJob
    <2>2. DOMAIN rem' = DOMAIN NoRemote /\ rem'.polls = 0
      BY <2>1 DEF NoRemote
    <2>3. QED
      BY <1>1, <2>2 DEF RemType
  <1>3. ASSUME NEW t, NEW u, RemoteAsks, rem' = [rem EXCEPT !.asking = t, !.unread = u]
        PROVE  RemType'
    BY <1>1, <1>3 DEF RemType, RemoteAsks
  <1>4. CASE RemoteAsks
    BY <1>3, <1>4 DEF RemoteAsks
  <1>5. CASE PollChunk
    <2>1. DOMAIN rem' = DOMAIN rem /\ rem'.polls = 0
      <3> DEFINE seen == rem.seen \cup rem.unread
                 read == [rem EXCEPT !.unread = {}, !.seen = seen, !.polls = 0]
      <3>1. DOMAIN read = DOMAIN rem /\ read.polls = 0
        BY <1>1 DEF RemType, NoRemote
      <3>2. \/ rem' = read
            \/ \E p : rem' = [read EXCEPT !.responded = @ \cup {p}, !.asking = FALSE,
                                           !.todo = Tail(@)]
        BY <1>5 DEF PollChunk
      <3> HIDE DEF read
      <3>3. QED
        BY <1>1, <3>1, <3>2 DEF RemType, NoRemote
    <2>2. QED
      BY <1>1, <2>1 DEF RemType
  <1>6. CASE PollQuiet
    <2>1. DOMAIN rem' = DOMAIN rem /\ rem'.polls = rem.polls + 1 /\ rem.polls <= MaxPolls
      BY <1>1, <1>6 DEF PollQuiet, QuietPolls, RemType, NoRemote
    <2>2. job'.pc = IF rem.polls + 1 > MaxPolls THEN "interrupt" ELSE "poll"
      BY <1>6, ConfigMoves DEF MovesTo, QuietPolls
    <2>3. QED
      BY <1>1, <2>1, <2>2 DEF RemType
  <1>7. ASSUME UNCHANGED rem, job'.pc = "poll" => job.pc = "poll"
        PROVE  RemType'
    BY <1>1, <1>7 DEF RemType
  <1>8. ASSUME ~\E r \in Requests : StartJob(r), ~PollQuiet
        PROVE  job'.pc = "poll" => job.pc = "poll"
    <2>1. SUFFICES ASSUME job'.pc = "poll" PROVE job.pc = "poll"
      OBVIOUS
    <2>2. CASE EnterConfig \/ Commit \/ Save \/ LeaveConfig \/ ExitEnable \/ OpenFile
      BY <2>1, <2>2, ConfigMoves DEF MovesTo, LastStep
    <2>3. CASE LineSucceeds \/ LineUnnoticed
      BY <2>1, <2>3, SucceedsMoves, UnnoticedMoves DEF GoesOn, AfterLines, LastStep
    <2>4. CASE LineFails
      BY <2>1, <2>4, FailsMoves DEF GoesOn, GivesUp, AfterLines, LastStep
    <2>11. CASE Enable
      <3>1. /\ job.req.op \in {"send", "config", "upload", "download"}
            /\ job'.pc = AfterEnable(job.req) /\ Place(job.req, AfterEnable(job.req))
        BY <2>11, ConfigMoves DEF Enable, ShapeInv, PlaceInv, MovesTo
      <3>2. QED
        BY <2>1, <3>1 DEF Place
    <2>5. CASE LineRaises
      <3>1. job' = Raised => job'.pc = "done"
        BY <2>5, RaisedShape DEF ShapeInv, PlaceInv, LineRaises
      <3>2. QED
        BY <2>1, <2>5, <3>1, RaisesMoves DEF GivesUp
    <2>6. CASE ReturnResults \/ RunScript \/ PollExited \/ Interrupt \/ NetmikoTransfer \/ Raising
      BY <2>1, <2>6, ReturnMoves, OutcomeMoves, RaisingMoves
    <2>7. CASE SkipFile \/ CloseFile
      BY <2>1, <2>7, NextFileShape DEF SkipFile, CloseFile, ShapeInv
    <2>8. CASE Copied \/ ExecAfterUpload \/ RemoveUploaded
      BY <2>1, <2>8, AfterCopyMoves
    <2>9. CASE Idling
      BY <2>1, <2>9, IdlingMoves
    <2>10. QED
      BY <1>8, <2>2, <2>3, <2>4, <2>5, <2>6, <2>7, <2>8, <2>9, <2>11, StepKinds
  <1>9. \/ UNCHANGED rem \/ RemoteAsks \/ PollChunk \/ PollQuiet
        \/ \E r \in Requests : StartJob(r)
    BY DEF Next, Step, LinesStep, TransferStep, Enable, EnterConfig, LineSucceeds, LineFails,
           LineUnnoticed, LineRaises, Commit, Save, LeaveConfig, ExitEnable, ConfigRaises, ReturnResults, RunScript, PollExited,
           Interrupt, CommandRaises, SkipFile, OpenFile, CopyChunk, CloseFile,
           TransferRaises, NetmikoTransfer, Copied, ExecAfterUpload, RemoveUploaded,
           SourceReplaced, vars
  <1>10. QED
    BY <1>2, <1>4, <1>5, <1>6, <1>7, <1>8, <1>9

(* The file at hand. *)
LEMMA FileAtHand ==
  ASSUME ShapeInv, job.pc \in {"stat", "copy", "netmiko"}
  PROVE  File \in Files /\ Req.files \in Seq(Files) /\ job.i \in 1..Len(Req.files)
  <1>1. job.req \in Requests /\ job.i \in 1..Len(job.req.files)
    BY DEF ShapeInv, PlaceInv
  <1>2. job.req.files \in Seq(Files)
    BY <1>1, RequestShape
  <1>3. QED
    BY <1>1, <1>2 DEF File, Req

(* The contents of files. *)
LEMMA Contents ==
  ASSUME FileType, NEW f \in Files
  PROVE  /\ src[f] \in Seq(Chunks) /\ dst[f] \in Seq(Chunks) \cup {None}
         /\ src[f] # None
  BY DeviceAssumption DEF FileType

(* A chunk is added to a destination that is shorter than its source. *)
LEMMA Chunk ==
  ASSUME NEW s \in Seq(Chunks), NEW t \in Seq(Chunks), Len(s) < Len(t)
  PROVE  /\ Append(s, t[Len(s) + 1]) \in Seq(Chunks)
         /\ IsPart(s, t) => IsPart(Append(s, t[Len(s) + 1]), t)
  <1>1. Len(s) + 1 \in 1..Len(t)
    OBVIOUS
  <1>2. t[Len(s) + 1] \in Chunks
    BY <1>1
  <1> DEFINE c == t[Len(s) + 1]
             u == Append(s, c)
  <1>3. u \in Seq(Chunks) /\ Len(u) = Len(s) + 1
    BY <1>2
  <1>4. /\ \A k \in 1..Len(s) : u[k] = s[k]
        /\ u[Len(s) + 1] = c
    BY <1>2
  <1>5. ASSUME IsPart(s, t) PROVE IsPart(u, t)
    <2> HIDE DEF u
    <2>1. \A k \in 1..Len(u) : u[k] = t[k]
      BY <1>3, <1>4, <1>5 DEF IsPart
    <2>2. QED
      BY <1>1, <1>3, <2>1 DEF IsPart
  <1>6. QED
    BY <1>3, <1>5

(* A whole part is the whole. *)
LEMMA WholePart ==
  ASSUME NEW s \in Seq(Chunks), NEW t \in Seq(Chunks), IsPart(s, t), Len(s) >= Len(t)
  PROVE  s = t
  BY DEF IsPart

(* What becomes of the files, one by one. *)
LEMMA FileFlow ==
  ASSUME ShapeInv, [Next]_vars
  PROVE  \/ UNCHANGED files
         \/ \E f \in Files : SourceReplaced(f)
         \/ OpenFile \/ CopyChunk \/ NetmikoTransfer \/ RemoveUploaded
  BY DEF Next, Step, LinesStep, TransferStep, StartJob, Enable, EnterConfig, LineSucceeds,
         LineFails, LineUnnoticed, LineRaises, Commit, Save, LeaveConfig, ExitEnable, ConfigRaises,
         ReturnResults, RunScript,
         RemoteAsks, PollChunk, PollQuiet, PollExited, Interrupt, CommandRaises, SkipFile,
         CloseFile, TransferRaises, Copied, ExecAfterUpload, files, vars

(* The destinations of files that a step writes to. *)
LEMMA Written ==
  ASSUME ShapeInv
  PROVE  /\ OpenFile =>
              LET s == IF Req.resume /\ dst[File] # None THEN dst[File] ELSE <<>>
              IN s \in Seq(Chunks) /\ dst' = [dst EXCEPT ![File] = s]
         /\ CopyChunk =>
              /\ dst[File] # None => dst[File] \in Seq(Chunks)
              /\ src[File] \in Seq(Chunks)
         /\ NetmikoTransfer => dst' = [dst EXCEPT ![File] = src[File]]
  <1>1. FileType
    BY DEF ShapeInv
  <1>2. ASSUME OpenFile
        PROVE  LET s == IF Req.resume /\ dst[File] # None THEN dst[File] ELSE <<>>
               IN s \in Seq(Chunks) /\ dst' = [dst EXCEPT ![File] = s]
    <2>1. File \in Files
      BY <1>2, FileAtHand DEF OpenFile
    <2>2. <<>> \in Seq(Chunks)
      OBVIOUS
    <2>3. dst[File] # None => dst[File] \in Seq(Chunks)
      BY <1>1, <2>1, Contents
    <2>4. QED
      BY <1>1, <1>2, <2>1, <2>2, <2>3 DEF OpenFile, Exists, FileType
  <1>3. ASSUME CopyChunk
        PROVE  (dst[File] # None => dst[File] \in Seq(Chunks)) /\ src[File] \in Seq(Chunks)
    BY <1>1, <1>3, FileAtHand, Contents DEF CopyChunk
  <1>4. QED
    BY <1>2, <1>3 DEF NetmikoTransfer

(* The files keep their shape. *)
LEMMA FileShape ==
  ASSUME ShapeInv, FileInv, [Next]_vars
  PROVE  FileType'
  <1>1. FileType
    BY DEF ShapeInv
  <1>2. CASE UNCHANGED files
    BY <1>1, <1>2 DEF FileType, files
  <1>3. CASE \E f \in Files : SourceReplaced(f)
    BY <1>1, <1>3 DEF FileType, SourceReplaced
  <1>4. ASSUME NEW f \in Files, NEW s \in Seq(Chunks) \cup {None},
               dst' = [dst EXCEPT ![f] = s], src' = src
        PROVE  FileType'
    BY <1>1, <1>4 DEF FileType
  <1>5. CASE OpenFile
    <2> DEFINE s == IF Req.resume /\ dst[File] # None THEN dst[File] ELSE <<>>
    <2>1. s \in Seq(Chunks) /\ dst' = [dst EXCEPT ![File] = s] /\ src' = src /\ File \in Files
      BY <1>5, Written, FileAtHand DEF OpenFile
    <2> HIDE DEF s
    <2>2. QED
      BY <1>4, <2>1
  <1>6. CASE CopyChunk
    <2> DEFINE s == Append(dst[File], src[File][Len(dst[File]) + 1])
    <2>1. File \in Files /\ dst[File] # None
      BY <1>6, FileAtHand DEF CopyChunk, FileInv
    <2>2. dst[File] \in Seq(Chunks) /\ src[File] \in Seq(Chunks)
      BY <1>1, <2>1, Contents
    <2>3. s \in Seq(Chunks)
      BY <1>6, <2>2, Chunk DEF CopyChunk
    <2>4. dst' = [dst EXCEPT ![File] = s] /\ src' = src
      BY <1>1, <1>6, <2>1 DEF CopyChunk, FileType
    <2> HIDE DEF s
    <2>5. QED
      BY <1>4, <2>1, <2>3, <2>4
  <1>7. CASE NetmikoTransfer
    <2>1. File \in Files /\ src' = src /\ dst' = [dst EXCEPT ![File] = src[File]]
      BY <1>7, FileAtHand DEF NetmikoTransfer
    <2>2. src[File] \in Seq(Chunks)
      BY <1>1, <2>1, Contents
    <2>3. QED
      BY <1>4, <2>1, <2>2
  <1>8. CASE RemoveUploaded
    BY <1>1, <1>8 DEF RemoveUploaded, FileType
  <1>9. QED
    BY <1>2, <1>3, <1>5, <1>6, <1>7, <1>8, FileFlow

(* The invariant is inductive, as far as the shape is concerned. *)
LEMMA ShapeKept ==
  ASSUME ShapeInv, FileInv, [Next]_vars
  PROVE  ShapeInv'
  <1>1. CountType'
    <2>1. CountType /\ MaxJobs \in Nat /\ MaxFaults \in Nat
      BY DeviceAssumption DEF ShapeInv
    <2>2. /\ jobs' = jobs \/ (jobs < MaxJobs /\ jobs' = jobs + 1)
          /\ faults' = faults \/ (faults < MaxFaults /\ faults' = faults + 1)
      BY DEF Next, Step, LinesStep, TransferStep, StartJob, Enable, EnterConfig, LineSucceeds,
         LineFails, LineUnnoticed, LineRaises, Commit, Save, LeaveConfig, ExitEnable, ConfigRaises,
         ReturnResults, RunScript,
         RemoteAsks, PollChunk, PollQuiet, PollExited, Interrupt, CommandRaises, SkipFile,
         OpenFile, CopyChunk, CloseFile, TransferRaises, NetmikoTransfer, Copied,
         ExecAfterUpload, RemoveUploaded, SourceReplaced, MayRaise, vars
    <2>3. QED
      BY <2>1, <2>2 DEF CountType
  <1>2. QED
    BY <1>1, JobShape, DevShape, RemShape, FileShape DEF ShapeInv

-----------------------------------------------------------------------------
(* The files. *)

(* A destination that is not foreign keeps holding a part of its source. *)
LEMMA PartKept ==
  ASSUME ShapeInv, FileInv, [Next]_vars, NEW f \in Files
  PROVE  PartOf(f)'
  <1>1. FileType /\ PartOf(f)
    BY DEF ShapeInv, FileInv
  <1>2. src[f] \in Seq(Chunks) /\ dst[f] \in Seq(Chunks) \cup {None}
    BY <1>1, Contents
  <1>3. ASSUME dst'[f] = dst[f], src'[f] = src[f], f \in foreign => f \in foreign'
        PROVE  PartOf(f)'
    BY <1>1, <1>3 DEF PartOf
  <1>4. CASE UNCHANGED files
    BY <1>3, <1>4 DEF files
  <1>5. CASE \E g \in Files : SourceReplaced(g)
    <2>1. PICK g \in Files : SourceReplaced(g)
      BY <1>5
    <2>2. CASE g = f
      BY <2>1, <2>2 DEF SourceReplaced, Exists, PartOf
    <2>3. CASE g # f
      <3>1. src'[f] = src[f]
        BY <1>1, <2>1, <2>3 DEF SourceReplaced, FileType
      <3>2. QED
        BY <1>3, <2>1, <3>1 DEF SourceReplaced
    <2>4. QED
      BY <2>2, <2>3
  <1>6. CASE OpenFile
    <2> DEFINE appends == Req.resume /\ Exists(File)
    <2>1. /\ File \in Files /\ src' = src
          /\ dst' = [dst EXCEPT ![File] = IF appends THEN dst[File] ELSE <<>>]
          /\ foreign' = IF appends THEN foreign ELSE foreign \ {File}
      BY <1>1, <1>6, FileAtHand DEF OpenFile, FileType
    <2> HIDE DEF appends
    <2>2. CASE f = File /\ ~appends
      <3>1. dst'[f] = <<>> /\ src'[f] = src[f]
        BY <1>1, <2>1, <2>2 DEF FileType
      <3>2. IsPart(<<>>, src[f])
        BY <1>2 DEF IsPart
      <3>3. QED
        BY <3>1, <3>2 DEF PartOf
    <2>3. CASE f # File \/ appends
      <3>1. dst'[f] = dst[f]
        BY <1>1, <2>1, <2>3 DEF FileType
      <3>2. QED
        BY <1>3, <2>1, <2>3, <3>1
    <2>4. QED
      BY <2>2, <2>3
  <1>7. CASE CopyChunk
    <2>1. /\ File \in Files /\ src' = src /\ foreign' = foreign /\ Len(dst[File]) < Len(src[File])
          /\ dst' = [dst EXCEPT ![File] = Append(dst[File], src[File][Len(dst[File]) + 1])]
          /\ dst[File] # None
      BY <1>1, <1>7, FileAtHand DEF CopyChunk, FileType, FileInv
    <2>2. CASE f = File
      <3> DEFINE s == Append(dst[f], src[f][Len(dst[f]) + 1])
      <3>1. dst'[f] = s
        BY <1>1, <2>1, <2>2 DEF FileType
      <3>2. dst[f] \in Seq(Chunks)
        BY <1>2, <2>1, <2>2
      <3>3. IsPart(dst[f], src[f]) => IsPart(s, src[f])
        BY <1>2, <2>1, <2>2, <3>2, Chunk
      <3> HIDE DEF s
      <3>4. QED
        BY <1>1, <2>1, <2>2, <3>1, <3>3 DEF PartOf
    <2>3. CASE f # File
      <3>1. dst'[f] = dst[f]
        BY <1>1, <2>1, <2>3 DEF FileType
      <3>2. QED
        BY <1>3, <2>1, <3>1
    <2>4. QED
      BY <2>2, <2>3
  <1>8. CASE NetmikoTransfer
    <2>1. /\ File \in Files /\ src' = src /\ foreign' = foreign \ {File}
          /\ dst' = [dst EXCEPT ![File] = src[File]]
      BY <1>8, FileAtHand DEF NetmikoTransfer
    <2>2. CASE f = File
      <3>1. dst'[f] = src'[f]
        BY <1>1, <2>1, <2>2 DEF FileType
      <3>2. IsPart(src[f], src[f])
        BY <1>2 DEF IsPart
      <3>3. QED
        BY <2>1, <3>1, <3>2 DEF PartOf
    <2>3. CASE f # File
      <3>1. dst'[f] = dst[f]
        BY <1>1, <2>1, <2>3 DEF FileType
      <3>2. QED
        BY <1>3, <2>1, <2>3, <3>1
    <2>4. QED
      BY <2>2, <2>3
  <1>9. CASE RemoveUploaded
    <2>1. PICK gone : /\ dst' = [g \in Files |-> IF g \in gone THEN None ELSE dst[g]]
                      /\ foreign' = foreign \ gone /\ src' = src
      BY <1>9 DEF RemoveUploaded
    <2>2. QED
      BY <1>1, <2>1 DEF PartOf
  <1>10. QED
    BY <1>4, <1>5, <1>6, <1>7, <1>8, <1>9, FileFlow

(* Which steps lead to the places of a transfer. *)
LEMMA TransferPlaces ==
  ASSUME ShapeInv, [Next]_vars, job'.pc \in {"stat", "copy", "copied", "exec"}
  PROVE  \/ job'.pc = "stat" /\ job'.i = 1
         \/ SkipFile \/ OpenFile \/ CloseFile
         \/ Copied /\ job.pc = "copied" /\ job'.pc = "exec" /\ job'.req = job.req
         \/ CopyChunk
         \/ job' = job /\ UNCHANGED files
  <1>1. CASE \E r \in Requests : StartJob(r)
    BY <1>1, StartMoves DEF Place
  <1>2. CASE EnterConfig \/ Commit \/ Save \/ LeaveConfig \/ ExitEnable \/ PollQuiet
    BY <1>2, ConfigMoves DEF MovesTo, LastStep
  <1>3. CASE LineSucceeds \/ LineUnnoticed
    BY <1>3, SucceedsMoves, UnnoticedMoves DEF GoesOn, AfterLines, LastStep
  <1>4. CASE LineFails
    BY <1>4, FailsMoves DEF GoesOn, GivesUp, AfterLines, LastStep
  <1>10. CASE Enable
    <2>1. /\ IsNetmiko /\ job'.pc = AfterEnable(job.req)
          /\ Place(job.req, AfterEnable(job.req))
      BY <1>10, ConfigMoves DEF Enable, ShapeInv, PlaceInv, MovesTo
    <2>2. QED
      BY <2>1 DEF Place, IsNetmiko
  <1>5. CASE LineRaises
    <2>1. job' = Raised => job'.pc = "done"
      BY <1>5, RaisedShape DEF ShapeInv, PlaceInv, LineRaises
    <2>2. QED
      BY <1>5, <2>1, RaisesMoves DEF GivesUp
  <1>6. CASE ReturnResults \/ RunScript \/ PollExited \/ Interrupt \/ NetmikoTransfer \/ Raising
    BY <1>6, ReturnMoves, OutcomeMoves, RaisingMoves
  <1>7. CASE Copied \/ ExecAfterUpload \/ RemoveUploaded
    BY <1>7, AfterCopyMoves DEF Copied
  <1>8. CASE Idling
    <2>1. job' = job /\ job.pc \notin {"idle", "done"}
      BY <1>8, IdlingMoves
    <2>2. QED
      BY <1>8, <2>1
         DEF Idling, RemoteAsks, PollChunk, SourceReplaced, files, vars
  <1>9. QED
    BY <1>1, <1>2, <1>3, <1>4, <1>5, <1>6, <1>7, <1>8, <1>10, StepKinds

(* A file that is over is settled. *)
LEMMA FileOver ==
  ASSUME ShapeInv, FileInv, SkipFile \/ CloseFile
  PROVE  Settled(File)
  <1>1. job.pc \in {"stat", "copy"}
    BY DEF SkipFile, CloseFile
  <1>2. File \in Files /\ FileType /\ PartOf(File)
    BY <1>1, FileAtHand DEF ShapeInv, FileInv
  <1>3. src[File] \in Seq(Chunks) /\ (dst[File] # None => dst[File] \in Seq(Chunks))
    BY <1>2, Contents
  <1>4. CASE SkipFile /\ SameHash(File)
    BY <1>4 DEF SameHash, Settled
  <1>5. CASE SkipFile /\ AllThere(File)
    <2>1. Req.resume /\ dst[File] # None /\ Len(dst[File]) >= Len(src[File])
      BY <1>5 DEF AllThere, Exists
    <2>2. File \notin foreign => dst[File] = src[File]
      BY <1>2, <1>3, <2>1, WholePart DEF PartOf
    <2>3. QED
      BY <2>1, <2>2 DEF Settled
  <1>6. CASE CloseFile
    <2>1. /\ dst[File] # None /\ (File \in foreign => Req.resume)
          /\ Len(dst[File]) = Len(src[File])
      BY <1>6 DEF CloseFile, FileInv
    <2>2. Len(dst[File]) >= Len(src[File])
      BY <1>3, <2>1
    <2>3. File \notin foreign => dst[File] = src[File]
      BY <1>2, <1>3, <2>1, <2>2, WholePart DEF PartOf
    <2>4. QED
      BY <2>1, <2>3 DEF Settled
  <1>7. QED
    BY <1>4, <1>5, <1>6 DEF SkipFile

(* What the invariant says of the files stays true. *)
LEMMA FilesKept ==
  ASSUME ShapeInv, FileInv, [Next]_vars
  PROVE  FileInv'
  <1>1. \A f \in Files : PartOf(f)'
    BY PartKept
  <1> SUFFICES ASSUME job'.pc \in {"stat", "copy", "copied", "exec"}
               PROVE  /\ (job.pc = "stat" => \A k \in 1..(job.i - 1) : Settled(Req.files[k]))'
                      /\ (job.pc = "copy" =>
                           /\ dst[File] # None /\ (File \in foreign => Req.resume)
                           /\ \A k \in 1..(job.i - 1) :
                                Req.files[k] = File \/ Settled(Req.files[k]))'
                      /\ (job.pc \in {"copied", "exec"} =>
                           \A k \in DOMAIN Req.files : Settled(Req.files[k]))'
    BY <1>1 DEF FileInv
  <1>2. ASSUME UNCHANGED files, job'.req = job.req, NEW f, Settled(f)
        PROVE  Settled(f)'
    BY <1>2 DEF Settled, files, Req
  <1>3. CASE job'.pc = "stat" /\ job'.i = 1
    BY <1>3
  <1>4. CASE SkipFile \/ CloseFile
    <2>1. job' = NextFile /\ job.pc \in {"stat", "copy"} /\ UNCHANGED files
      BY <1>4 DEF SkipFile, CloseFile
    <2>2. /\ job'.req = job.req /\ job'.i = job.i + 1
          /\ job'.pc = IF job.i = Len(Req.files) THEN "copied" ELSE "stat"
      BY <2>1, NextFileShape DEF ShapeInv
    <2>3. /\ Req.files \in Seq(Files) /\ job.i \in 1..Len(Req.files)
      BY <2>1, FileAtHand
    <2>4. \A k \in 1..(job.i - 1) : Req.files[k] = File \/ Settled(Req.files[k])
      BY <2>1 DEF FileInv
    <2>5. \A k \in 1..job.i : Settled(Req.files[k])
      BY <1>4, <2>3, <2>4, FileOver DEF File
    <2>6. \A k \in 1..job.i : Settled(Req.files[k])'
      BY <1>2, <2>1, <2>2, <2>5 DEF Req
    <2>7. Req' = Req
      BY <2>2 DEF Req
    <2>8. QED
      BY <2>2, <2>3, <2>6, <2>7
  <1>5. CASE OpenFile
    <2> DEFINE appends == Req.resume /\ Exists(File)
    <2>1. /\ job.pc = "stat" /\ File \in Files /\ src' = src
          /\ dst' = [dst EXCEPT ![File] = IF appends THEN dst[File] ELSE <<>>]
          /\ foreign' = IF appends THEN foreign ELSE foreign \ {File}
      BY <1>5, FileAtHand DEF OpenFile, FileType, ShapeInv
    <2>2. job'.pc = "copy" /\ job'.i = job.i /\ Req' = Req /\ File' = File
      BY <1>5, ConfigMoves DEF MovesTo, Req, File
    <2>3. dst'[File] # None /\ (File \in foreign' => Req.resume)
      <3>1. <<>> # None
        <4>1. <<>> \in Seq(Chunks)
          OBVIOUS
        <4>2. QED
          BY <4>1, DeviceAssumption
      <3>2. QED
        BY <2>1, <3>1 DEF Exists, FileType, ShapeInv
    <2>4. ASSUME NEW k \in 1..(job.i - 1), Req.files[k] # File
          PROVE  Settled(Req.files[k])'
      <3>1. Settled(Req.files[k])
        BY <2>1 DEF FileInv
      <3>2. Req.files[k] \in Files
        <4>1. Req.files \in Seq(Files) /\ job.i \in 1..Len(Req.files)
          BY <2>1, FileAtHand
        <4>2. QED
          BY <4>1
      <3>3. dst'[Req.files[k]] = dst[Req.files[k]]
        BY <2>1, <2>4, <3>2 DEF ShapeInv, FileType
      <3> HIDE DEF appends
      <3>4. QED
        BY <2>1, <2>2, <2>4, <3>1, <3>3 DEF Settled
    <2>5. QED
      BY <2>2, <2>3, <2>4
  <1>6. CASE CopyChunk
    <2>1. /\ job.pc = "copy" /\ job' = job /\ src' = src /\ foreign' = foreign
          /\ File \in Files
          /\ dst' = [dst EXCEPT ![File] = Append(dst[File], src[File][Len(dst[File]) + 1])]
      BY <1>6, FileAtHand DEF CopyChunk, FileType, ShapeInv
    <2>2. Req' = Req /\ File' = File
      BY <2>1 DEF Req, File
    <2>3. dst'[File] # None /\ (File \in foreign' => Req.resume)
      <3>1. dst[File] # None /\ (File \in foreign => Req.resume)
        BY <2>1 DEF FileInv
      <3>2. dst[File] \in Seq(Chunks) /\ src[File] \in Seq(Chunks)
        BY <2>1, <3>1, Contents DEF ShapeInv
      <3>3. Append(dst[File], src[File][Len(dst[File]) + 1]) \in Seq(Chunks)
        BY <1>6, <3>2, Chunk DEF CopyChunk
      <3>4. dst'[File] = Append(dst[File], src[File][Len(dst[File]) + 1])
        BY <2>1 DEF ShapeInv, FileType
      <3>5. QED
        BY <2>1, <3>1, <3>3, <3>4, DeviceAssumption
    <2>4. ASSUME NEW k \in 1..(job.i - 1), Req.files[k] # File
          PROVE  Settled(Req.files[k])'
      <3>1. Settled(Req.files[k])
        BY <2>1, <2>4 DEF FileInv
      <3>2. Req.files[k] \in Files
        <4>1. Req.files \in Seq(Files) /\ job.i \in 1..Len(Req.files)
          BY <2>1, FileAtHand
        <4>2. QED
          BY <4>1
      <3>3. dst'[Req.files[k]] = dst[Req.files[k]]
        BY <2>1, <2>4, <3>2 DEF ShapeInv, FileType
      <3>4. QED
        BY <2>1, <2>2, <3>1, <3>3 DEF Settled
    <2>5. QED
      BY <2>1, <2>2, <2>3, <2>4
  <1>7. CASE Copied /\ job.pc = "copied" /\ job'.pc = "exec" /\ job'.req = job.req
    <2>1. UNCHANGED files /\ Req' = Req
      BY <1>7 DEF Copied, Req
    <2>2. \A k \in DOMAIN Req.files : Settled(Req.files[k])
      BY <1>7 DEF FileInv
    <2>3. QED
      BY <1>2, <1>7, <2>1, <2>2
  <1>8. CASE job' = job /\ UNCHANGED files
    BY <1>8 DEF FileInv, Settled, File, Req, files
  <1>9. QED
    BY <1>3, <1>4, <1>5, <1>6, <1>7, <1>8, TransferPlaces

-----------------------------------------------------------------------------
(* The lines. *)

(* Which steps concern the jobs that send lines. *)
LEMMA LinePlaces ==
  ASSUME ShapeInv, [Next]_vars, job'.req.op \in {"send", "config"}
  PROVE  \/ \E r \in Requests : StartJob(r)
         \/ Enable \/ EnterConfig \/ LineSucceeds \/ LineFails \/ LineUnnoticed \/ LineRaises
         \/ Commit \/ Save \/ LeaveConfig \/ ExitEnable \/ ReturnResults \/ ConfigRaises
         \/ UNCHANGED <<job, dev, jobs>>
  <1>1. ASSUME job'.req = job.req PROVE job.pc \notin CommandPcs \cup TransferPcs
    BY <1>1 DEF ShapeInv, PlaceInv
  <1>2. CASE PollQuiet \/ OpenFile
    BY <1>1, <1>2, ConfigMoves
       DEF MovesTo, PollQuiet, OpenFile, CommandPcs, TransferPcs
  <1>3. CASE RunScript \/ PollExited \/ Interrupt \/ NetmikoTransfer
    <2>1. job.pc \in CommandPcs \cup TransferPcs
      BY <1>3 DEF RunScript, PollExited, Interrupt, NetmikoTransfer, CommandPcs, TransferPcs
    <2>2. QED
      BY <1>1, <1>3, <2>1, OutcomeMoves
  <1>4. CASE SkipFile \/ CloseFile
    BY <1>1, <1>4, NextFileShape DEF SkipFile, CloseFile, ShapeInv, TransferPcs
  <1>5. CASE Copied \/ ExecAfterUpload \/ RemoveUploaded
    <2>1. job.pc \in TransferPcs
      BY <1>5 DEF Copied, ExecAfterUpload, RemoveUploaded, TransferPcs
    <2>2. QED
      BY <1>1, <1>5, <2>1, AfterCopyMoves
  <1>6. CASE Raising
    <2>1. CASE CommandRaises \/ TransferRaises
      <3>1. job.pc \in CommandPcs \cup TransferPcs
        BY <2>1 DEF CommandRaises, TransferRaises, CommandPcs, TransferPcs
      <3>2. QED
        BY <1>1, <1>6, <3>1, RaisingMoves
    <2>2. QED
      BY <1>6, <2>1 DEF Raising
  <1>7. CASE Idling
    BY <1>7 DEF Idling, RemoteAsks, PollChunk, CopyChunk, SourceReplaced, vars
  <1>8. QED
    BY <1>2, <1>3, <1>4, <1>5, <1>6, <1>7, StepKinds

(* A line is named after its job. *)
LEMMA LineNames ==
  /\ \A k : Line(k)[1] = jobs
  /\ \A k, m : Line(k) = Line(m) => k = m
  BY DEF Line

(* Nothing on the device is from a later job. *)
LEMMA PastKept ==
  ASSUME ShapeInv, PastInv, [Next]_vars
  PROVE  PastInv'
  <1>1. DevType /\ CountType /\ job.i \in Nat /\ jobs \in Nat
    BY DeviceAssumption DEF ShapeInv, JobType, Job, CountType
  <1>2. ASSUME Present' \subseteq Present, jobs' = jobs,
               dev'.startup \subseteq dev'.running
        PROVE  PastInv'
    BY <1>2 DEF PastInv
  <1>3. ASSUME NEW k \in Nat, dev' = Applied(k), jobs' = jobs
        PROVE  PastInv'
    <2>1. /\ Present' = Present \cup {Line(k)}
          /\ dev'.startup = dev.startup /\ dev.running \subseteq dev'.running
      BY <1>1, <1>3, AppliedShape DEF Present
    <2>2. Line(k)[1] <= jobs
      BY <1>1, LineNames
    <2>3. QED
      BY <1>3, <2>1, <2>2 DEF PastInv
  <1>4. ASSUME dev' = dev, jobs' = jobs PROVE PastInv'
    BY <1>4 DEF PastInv, Present
  <1>5. CASE \E r \in Requests : StartJob(r)
    <2>1. dev' = dev /\ jobs' = jobs + 1 /\ Present' = Present
      BY <1>5 DEF StartJob, Present
    <2>2. \A l \in Present : l[1] \in Nat
      BY <1>1 DEF Present, DevType, Device, Config
    <2>3. \A l \in Present : l[1] <= jobs + 1
      BY <1>1, <2>2 DEF PastInv
    <2>4. QED
      BY <2>1, <2>3 DEF PastInv
  <1>6. CASE Enable \/ EnterConfig \/ LeaveConfig \/ ExitEnable
    <2>1. /\ jobs' = jobs
          /\ \E m : dev' = [dev EXCEPT !.mode = m] \/ dev' = [dev EXCEPT !.enabled = m]
      BY <1>6 DEF Enable, EnterConfig, LeaveConfig, ExitEnable
    <2>2. /\ dev'.running = dev.running /\ dev'.candidate = dev.candidate
          /\ dev'.startup = dev.startup
      BY <1>1, <2>1 DEF DevType, Device
    <2>3. QED
      BY <1>2, <2>1, <2>2 DEF PastInv, Present
  <1>7. CASE Commit
    <2>1. /\ dev'.running = dev.running \cup dev.candidate /\ dev'.candidate = {}
          /\ dev'.startup = dev.startup /\ jobs' = jobs
      BY <1>1, <1>7 DEF Commit, DevType, Device
    <2>2. QED
      BY <1>2, <2>1 DEF PastInv, Present
  <1>8. CASE Save
    <2>1. /\ dev'.running = dev.running /\ dev'.candidate = dev.candidate /\ jobs' = jobs
          /\ dev'.startup \in {dev.startup, dev.running}
      BY <1>1, <1>8 DEF Save, DevType, Device
    <2>2. QED
      BY <1>2, <2>1 DEF PastInv, Present
  <1>9. CASE LineSucceeds \/ RunScript \/ PollExited
    BY <1>1, <1>3, <1>9 DEF LineSucceeds, RunScript, PollExited
  <1>10. CASE LineFails \/ LineRaises \/ CommandRaises
    BY <1>1, <1>3, <1>4, <1>10 DEF LineFails, LineRaises, CommandRaises
  <1>11. QED
    BY <1>4, <1>5, <1>6, <1>7, <1>8, <1>9, <1>10
       DEF Next, Step, LinesStep, TransferStep, LineUnnoticed, ConfigRaises, ReturnResults,
           RemoteAsks, PollChunk, PollQuiet, Interrupt, SkipFile, OpenFile, CopyChunk, CloseFile,
           TransferRaises, NetmikoTransfer, Copied, ExecAfterUpload, RemoveUploaded,
           SourceReplaced, vars

(* The parts of the invariant that are about the running job. *)
OwnInv == SentInv /\ ReportInv /\ EffectInv /\ ModeInv

(* They say nothing of jobs that send no lines. *)
LEMMA NoLinesNext ==
  ASSUME PlaceInv', job'.req.op \notin {"send", "config"}
  PROVE  OwnInv'
  BY DEF OwnInv, PlaceInv, SentInv, ReportInv, EffectInv, ModeInv, SuccessMeansApplied, Done,
         Sending, Effective, IsConfig, LinePcs

(* A new job has not sent anything. *)
LEMMA StartOwn ==
  ASSUME ShapeInv, PastInv, NEW r \in Requests, StartJob(r), r.op \in {"send", "config"}
  PROVE  OwnInv'
  <1>1. /\ job'.req = r /\ job'.i = 1 /\ job'.results = <<>> /\ job'.failed = FALSE
        /\ job'.pc \in {"enable", "enter", "line"}
    BY StartMoves DEF Place
  <1>2. jobs \in Nat /\ jobs' = jobs + 1 /\ Present' = Present
    BY DeviceAssumption DEF ShapeInv, CountType, StartJob, Present
  <1>3. \A k : Line(k)' \notin Present'
    <2> SUFFICES ASSUME NEW k, Line(k)' \in Present PROVE FALSE
      BY <1>2
    <2>1. Line(k)'[1] = jobs + 1
      BY <1>2 DEF Line
    <2>2. QED
      BY <1>2, <2>1 DEF PastInv
  <1>4. SentInv'
    <2>1. Len(<<>>) = 1 - 1 /\ DOMAIN <<>> = {}
      OBVIOUS
    <2>2. QED
      BY <1>1, <1>3, <2>1 DEF SentInv, OnDevice
  <1>5. EffectInv'
    <2>1. \A k \in 1..(1 - 1) : FALSE
      OBVIOUS
    <2>2. QED
      BY <1>1, <2>1 DEF EffectInv, SuccessMeansApplied, Done
  <1>6. QED
    BY <1>1, <1>4, <1>5 DEF OwnInv, ReportInv, ModeInv

(* The next line, with this one reported as x. *)
LEMMA GoesOnOwn ==
  ASSUME ShapeInv, OwnInv, ShapeInv', job.pc = "line", job'.req = job.req, jobs' = jobs,
         NEW x \in {"ok", "error"}, GoesOn(Append(job.results, x), x = "error"),
         Present' \subseteq Present \cup {Line(job.i)},
         Present \subseteq Present', dev.running \subseteq dev'.running,
         x = "ok" =>
           /\ job.unseen \subseteq job'.unseen
           /\ \/ Line(job.i) \in dev'.running
              \/ IsNetmiko /\ job.i \in job'.unseen
              \/ IsNetmiko /\ IsConfig /\ Line(job.i) \in Present'
  PROVE  OwnInv'
  <1> DEFINE i == job.i
             s == Append(job.results, x)
  <1>1. i \in 1..job.req.lines /\ job.req.lines \in Nat /\ job.results \in Seq(Status)
    BY ResultSeqs DEF ShapeInv, JobType, Job
  <1>2. /\ Len(job.results) = i - 1
        /\ \A k \in DOMAIN job.results : job.results[k] # "skipped"
        /\ \A k \in i..job.req.lines : Line(k) \notin Present
    BY DEF OwnInv, SentInv, Sending, Effective, OnDevice, ShapeInv, PlaceInv, LinePcs
  <1>3. /\ Len(s) = i /\ DOMAIN s = 1..i /\ s[i] = x
        /\ \A k \in 1..(i - 1) : s[k] = job.results[k]
    BY <1>1, <1>2 DEF Status
  <1>4. \A k \in DOMAIN s : s[k] # "skipped"
    <2> HIDE DEF s
    <2>1. \A k \in 1..(i - 1) : k \in DOMAIN job.results
      BY <1>1, <1>2
    <2>2. QED
      BY <1>1, <1>2, <1>3, <2>1
  <1>5. /\ job'.results = s /\ job'.i = i + 1 /\ job'.failed = (job.failed \/ x = "error")
        /\ job'.pc = IF i = job.req.lines THEN AfterLines ELSE "line"
    BY DEF GoesOn, AtLastLine
  <1>6. \A k : Line(k)' = Line(k)
    BY DEF Line
  <1>7. (IsConfig' <=> IsConfig) /\ (IsNetmiko' <=> IsNetmiko) /\ (Effective' <=> Effective)
    BY DEF IsConfig, IsNetmiko, Effective
  <1>8. job.failed => \E k \in DOMAIN s : s[k] = "error"
    <2> HIDE DEF s
    <2>4. job.failed => \E k \in DOMAIN job.results : job.results[k] = "error"
      BY DEF OwnInv, SentInv, LinePcs
    <2>1. job.failed => \E k \in 1..(i - 1) : job.results[k] = "error"
      BY <1>1, <1>2, <2>4
    <2>2. \A k \in 1..(i - 1) : k \in DOMAIN s /\ s[k] = job.results[k]
      BY <1>1, <1>3
    <2>3. QED
      BY <2>1, <2>2
  <1> HIDE DEF s
  <1>9. SentInv'
    <2>1. ASSUME job'.pc = "line"
          PROVE  \A k \in (i + 1)..job.req.lines : Line(k) \notin Present'
      <3> SUFFICES ASSUME NEW k \in (i + 1)..job.req.lines PROVE Line(k) \notin Present'
        OBVIOUS
      <3>1. Line(k) # Line(i) /\ Line(k) \notin Present
        BY <1>1, <1>2, LineNames
      <3>2. QED
        BY <3>1
    <2>2. job'.failed => \E k \in DOMAIN s : s[k] = "error"
      <3>1. i \in DOMAIN s /\ s[i] = x
        BY <1>1, <1>3
      <3>2. job'.failed => job.failed \/ x = "error"
        BY <1>5
      <3>3. QED
        BY <1>8, <3>1, <3>2
    <2>3. i = (i + 1) - 1
      BY <1>1
    <2>4. QED
      BY <1>3, <1>4, <1>5, <1>6, <2>1, <2>2, <2>3
         DEF SentInv, Sending, OnDevice, AfterLines, LastStep
  <1>10. ReportInv'
    BY <1>3, <1>4, <1>5 DEF ReportInv, AfterLines, LastStep
  <1>11. EffectInv'
    <2>1. ASSUME Effective, ~job'.failed, NEW k \in 1..i
          PROVE  \/ Line(k) \in dev'.running
                 \/ IsNetmiko /\ k \in job'.unseen
                 \/ IsNetmiko /\ IsConfig /\ Line(k) \in Present'
      <3>1. ~job.failed /\ x = "ok"
        BY <1>5, <2>1
      <3>2. CASE k = i
        BY <2>1, <3>1, <3>2
      <3>3. CASE k # i
        <4>1. k \in 1..(i - 1)
          BY <1>1, <3>3
        <4>2. \/ Line(k) \in dev.running
              \/ IsNetmiko /\ k \in job.unseen
              \/ IsNetmiko /\ IsConfig /\ Line(k) \in Present
          BY <2>1, <3>1, <4>1
             DEF OwnInv, EffectInv, Sending, Carried, TookEffect, OnDevice
        <4>3. QED
          BY <3>1, <4>2
      <3>4. QED
        BY <3>2, <3>3
    <2>2. i = (i + 1) - 1
      BY <1>1
    <2>3. /\ job'.pc \in {"line", "commit", "exit", "return"}
          /\ job'.pc \in {"commit", "exit", "return"} => i = job.req.lines
      BY <1>5 DEF AfterLines, LastStep
    <2>4. job'.pc \in {"exit", "return"} => ~(IsNetmiko /\ IsConfig)
      BY <1>5 DEF AfterLines
    <2>5. SuccessMeansApplied'
      BY <2>3 DEF SuccessMeansApplied, Done
    <2>6. ASSUME Effective, ~job'.failed, NEW k \in 1..i PROVE Carried(k)'
      BY <1>6, <1>7, <2>1, <2>6 DEF Carried, TookEffect, OnDevice
    <2>7. ASSUME Effective, ~job'.failed, NEW k \in 1..i, job'.pc \in {"exit", "return"}
          PROVE  TookEffect(k)'
      BY <1>6, <1>7, <2>1, <2>4, <2>7 DEF TookEffect
    <2>8. QED
      BY <1>5, <1>7, <2>2, <2>3, <2>5, <2>6, <2>7 DEF EffectInv
  <1>12. ModeInv'
    BY <1>5, <1>7 DEF ModeInv, AfterLines, LastStep
  <1>13. QED
    BY <1>9, <1>10, <1>11, <1>12 DEF OwnInv

(* Two sequences of results, one after the other. *)
LEMMA Joined ==
  ASSUME NEW a \in Seq(Status), NEW b \in Seq(Status)
  PROVE  /\ Len(a \o b) = Len(a) + Len(b) /\ DOMAIN (a \o b) = 1..Len(a \o b)
         /\ \A k \in 1..Len(a) : (a \o b)[k] = a[k]
  OBVIOUS

(* A line of netmiko's config() fails: the others are skipped. *)
LEMMA SkipOwn ==
  ASSUME ShapeInv, OwnInv, job.pc = "line", job'.req = job.req, jobs' = jobs,
         GivesUp(Append(job.results, "error") \o SkippedRest, "commit"),
         Present' \subseteq Present \cup {Line(job.i)}
  PROVE  OwnInv'
  <1> DEFINE i == job.i
             e == Append(job.results, "error")
             s == e \o SkippedRest
  <1>1. i \in 1..job.req.lines /\ job.req.lines \in Nat /\ job.results \in Seq(Status)
    BY ResultSeqs DEF ShapeInv, JobType, Job
  <1>2. /\ Len(job.results) = i - 1
        /\ \A k \in DOMAIN job.results : job.results[k] # "skipped"
        /\ \A k \in i..job.req.lines : Line(k) \notin Present
    BY DEF OwnInv, SentInv, Sending, Effective, OnDevice, ShapeInv, PlaceInv, LinePcs
  <1>3. e \in Seq(Status) /\ Len(e) = i /\ e[i] = "error"
        /\ \A k \in 1..(i - 1) : e[k] = job.results[k]
    BY <1>1, <1>2 DEF Status
  <1>4. SkippedRest \in Seq(Status) /\ Len(SkippedRest) = job.req.lines - i
    BY <1>1, SkippedSeq
  <1> HIDE DEF e
  <1>5. /\ Len(s) = job.req.lines /\ DOMAIN s = 1..job.req.lines
        /\ \A k \in 1..i : s[k] = e[k]
    <2>1. /\ Len(s) = Len(e) + Len(SkippedRest) /\ DOMAIN s = 1..Len(s)
          /\ \A k \in 1..Len(e) : s[k] = e[k]
      BY <1>3, <1>4, Joined
    <2>2. Len(e) + Len(SkippedRest) = job.req.lines
      BY <1>1, <1>3, <1>4
    <2> HIDE DEF s
    <2>3. QED
      BY <1>3, <2>1, <2>2
  <1>6. job'.results = s /\ job'.pc = "commit" /\ job'.failed = TRUE
    BY DEF GivesUp, e
  <1> HIDE DEF s
  <1>7. SentInv'
    BY <1>1, <1>3, <1>5, <1>6 DEF SentInv, Sending
  <1>8. ASSUME NEW k \in DOMAIN s, s[k] = "skipped" PROVE Line(k) \notin Present'
    <2>1. k > i /\ k \in 1..job.req.lines
      <3>1. k \notin 1..i
        <4>1. ASSUME k \in 1..(i - 1) PROVE FALSE
          <5>1. k \in DOMAIN job.results /\ s[k] = job.results[k]
            BY <1>1, <1>2, <1>3, <1>5, <4>1
          <5>2. QED
            BY <1>2, <1>8, <5>1
        <4>2. k # i
          BY <1>1, <1>3, <1>5, <1>8
        <4>3. QED
          BY <1>1, <4>1, <4>2
      <3>2. QED
        BY <1>1, <1>5, <1>8, <3>1
    <2>2. Line(k) \notin Present /\ Line(k) # Line(i)
      BY <1>1, <1>2, <2>1, LineNames
    <2>3. QED
      BY <2>2
  <1>9. ReportInv'
    <2>1. \A k : Line(k)' = Line(k)
      BY DEF Line
    <2>2. QED
      BY <1>5, <1>6, <1>8, <2>1 DEF ReportInv, OnDevice
  <1>10. EffectInv' /\ ModeInv'
    BY <1>6 DEF EffectInv, Sending, ModeInv, SuccessMeansApplied, Done
  <1>11. QED
    BY <1>7, <1>9, <1>10 DEF OwnInv

(* An exception is reported as one. *)
LEMMA RaisedOwn ==
  ASSUME JobType, job.req \in Requests, job' = Raised
  PROVE  OwnInv'
  <1>1. job'.pc = "done" /\ job'.raised = TRUE /\ job'.results = <<"error">>
    BY RaisedShape
  <1>2. ~Succeeded'
    BY <1>1 DEF Succeeded
  <1>3. QED
    BY <1>1, <1>2
       DEF OwnInv, SentInv, Sending, ReportInv, EffectInv, ModeInv, SuccessMeansApplied, LinePcs

(* The steps of a job that sends lines. *)
LEMMA LineOwn ==
  ASSUME ShapeInv, OwnInv, ShapeInv',
         LineSucceeds \/ LineFails \/ LineUnnoticed \/ LineRaises
  PROVE  OwnInv'
  <1>1. /\ job.pc = "line" /\ jobs' = jobs /\ JobType /\ DevType /\ CountType
        /\ job.i \in Nat /\ job.req \in Requests
    BY DEF LineSucceeds, LineFails, LineUnnoticed, LineRaises, ShapeInv, JobType, Job, PlaceInv
  <1>2. ASSUME dev' = Applied(job.i)
        PROVE  /\ Present' = Present \cup {Line(job.i)} /\ dev.running \subseteq dev'.running
               /\ \/ Line(job.i) \in dev'.running
                  \/ IsNetmiko /\ IsConfig /\ Line(job.i) \in Present'
    BY <1>1, <1>2, AppliedShape DEF Present
  <1>3. ASSUME dev' = dev PROVE Present' = Present
    BY <1>3 DEF Present
  <1>4. CASE LineSucceeds
    <2>1. /\ job'.req = job.req /\ GoesOn(Append(job.results, "ok"), "ok" = "error")
          /\ job'.unseen = job.unseen
      BY <1>4, SucceedsMoves
    <2>2. dev' = Applied(job.i)
      BY <1>4 DEF LineSucceeds
    <2>3. QED
      BY <1>1, <1>2, <2>1, <2>2, GoesOnOwn
  <1>8. CASE LineUnnoticed
    <2>1. /\ job'.req = job.req /\ GoesOn(Append(job.results, "ok"), "ok" = "error")
          /\ job'.unseen = job.unseen \cup {job.i}
      BY <1>8, UnnoticedMoves
    <2>2. dev' = dev /\ IsNetmiko
      BY <1>8 DEF LineUnnoticed
    <2>3. QED
      BY <1>1, <1>3, <2>1, <2>2, GoesOnOwn
  <1>5. CASE LineFails
    <2>1. dev' \in {dev, Applied(job.i)} /\ job'.req = job.req
      BY <1>5, FailsMoves DEF LineFails
    <2>2. /\ Present' \subseteq Present \cup {Line(job.i)} /\ Present \subseteq Present'
          /\ dev.running \subseteq dev'.running
      BY <1>2, <1>3, <2>1
    <2>3. CASE GivesUp(Append(job.results, "error") \o SkippedRest, "commit")
      BY <1>1, <2>1, <2>2, <2>3, SkipOwn
    <2>4. CASE ~IsNetmiko /\ GivesUp(Append(job.results, "error"), "return")
      <3> DEFINE s == Append(job.results, "error")
      <3>1. s[Len(s)] = "error" /\ Len(s) \in DOMAIN s
        BY <1>1 DEF JobType, Job, Status
      <3>2. job'.results = s /\ job'.failed = TRUE /\ job'.pc = "return" /\ ~IsNetmiko'
        BY <2>1, <2>4 DEF GivesUp, IsNetmiko
      <3> HIDE DEF s
      <3>3. QED
        BY <3>1, <3>2
           DEF OwnInv, SentInv, Sending, ReportInv, EffectInv, ModeInv, SuccessMeansApplied, Done
    <2>5. CASE ~IsNetmiko /\ GoesOn(Append(job.results, "error"), TRUE)
      <3>1. GoesOn(Append(job.results, "error"), "error" = "error")
        BY <2>5
      <3>2. QED
        BY <1>1, <2>1, <2>2, <3>1, GoesOnOwn
    <2>6. QED
      BY <1>5, <2>3, <2>4, <2>5, FailsMoves
  <1>6. CASE LineRaises
    <2>1. job'.req = job.req /\ Present' \subseteq Present \cup {Line(job.i)}
      BY <1>2, <1>3, <1>6, RaisesMoves DEF LineRaises
    <2>2. CASE GivesUp(Append(job.results, "error") \o SkippedRest, "commit")
      BY <1>1, <2>1, <2>2, SkipOwn
    <2>3. CASE job' = Raised
      BY <1>1, <2>3, RaisedOwn
    <2>4. QED
      BY <1>6, <2>2, <2>3, RaisesMoves
  <1>7. QED
    BY <1>4, <1>5, <1>6, <1>8

(* A step around the lines that leaves them where they are. *)
LEMMA MoveOwn ==
  ASSUME ShapeInv, OwnInv, NEW p, MovesTo(p), ~job.raised, jobs' = jobs, Effective,
         dev'.running = dev.running, dev'.candidate = dev.candidate,
         \/ job.pc = "enable" /\ p \in {"enter", "line"}
         \/ job.pc = "enter" /\ p = "line"
         \/ job.pc = "save" /\ p = "leave" /\ IsConfig /\ IsNetmiko
         \/ /\ job.pc = "leave" /\ p = LastStep /\ IsConfig /\ IsNetmiko
            /\ dev'.mode = "user"
         \/ /\ job.pc = "exit" /\ p = "return"
            /\ dev'.mode = dev.mode /\ dev'.enabled = FALSE
  PROVE  OwnInv'
  <1>1. /\ job'.req = job.req /\ job'.pc = p /\ job'.i = job.i /\ job'.results = job.results
        /\ job'.failed = job.failed /\ job'.raised = job.raised /\ job'.unseen = job.unseen
    BY DEF MovesTo
  <1>2. /\ IsConfig' <=> IsConfig
        /\ IsNetmiko' <=> IsNetmiko
        /\ Effective' <=> Effective
    BY <1>1 DEF IsConfig, IsNetmiko, Effective
  <1>3. Present' = Present
    BY DEF Present
  <1>4. \A k : /\ (OnDevice(k)' <=> OnDevice(k))
               /\ (TookEffect(k)' <=> TookEffect(k))
               /\ (Carried(k)' <=> Carried(k))
    BY <1>1, <1>2, <1>3 DEF OnDevice, TookEffect, Carried, Line
  <1>5. p \in {"enter", "line", "leave", "exit", "return"}
    BY DEF LastStep
  <1>6. SentInv'
    BY <1>1, <1>2, <1>4, <1>5 DEF OwnInv, SentInv, Sending, LinePcs, LastStep
  <1>7. ReportInv'
    BY <1>1, <1>2, <1>4 DEF OwnInv, ReportInv, LastStep
  <1>8. ModeInv'
    BY <1>1, <1>2 DEF OwnInv, ModeInv, LastStep
  <1>9. EffectInv'
    BY <1>1, <1>2, <1>4, <1>5
       DEF OwnInv, EffectInv, Sending, SuccessMeansApplied, Done, LastStep
  <1>10. QED
    BY <1>6, <1>7, <1>8, <1>9 DEF OwnInv

(* The lines are committed. *)
LEMMA CommitOwn ==
  ASSUME ShapeInv, OwnInv, Commit
  PROVE  OwnInv'
  <1>1. /\ job.pc = "commit" /\ jobs' = jobs /\ IsConfig /\ IsNetmiko /\ ~job.raised /\ DevType
    BY DEF Commit, ShapeInv, PlaceInv, LinePcs
  <1>2. /\ job'.req = job.req /\ job'.pc = "save" /\ job'.results = job.results
        /\ job'.failed = job.failed /\ job'.raised = job.raised /\ job'.unseen = job.unseen
    BY ConfigMoves DEF MovesTo
  <1>3. dev'.running = dev.running \cup dev.candidate /\ dev'.candidate = {}
    BY <1>1 DEF Commit, DevType, Device
  <1>4. IsConfig' /\ IsNetmiko' /\ (Effective' <=> Effective)
    BY <1>1, <1>2 DEF IsConfig, IsNetmiko, Effective
  <1>5. \A k : /\ (OnDevice(k)' <=> OnDevice(k))
               /\ (Carried(k) => TookEffect(k)')
    BY <1>1, <1>2, <1>3, <1>4 DEF OnDevice, Carried, TookEffect, Present, Line
  <1>6. SentInv'
    BY <1>1, <1>2 DEF OwnInv, SentInv, Sending, LinePcs
  <1>7. ReportInv'
    BY <1>1, <1>2, <1>4, <1>5 DEF OwnInv, ReportInv
  <1>8. ModeInv'
    BY <1>2 DEF ModeInv
  <1>9. EffectInv'
    BY <1>1, <1>2, <1>4, <1>5 DEF OwnInv, EffectInv, Sending, SuccessMeansApplied, Done
  <1>10. QED
    BY <1>6, <1>7, <1>8, <1>9 DEF OwnInv

(* The steps around the lines. *)
LEMMA ConfigOwn ==
  ASSUME ShapeInv, OwnInv, Effective,
         Enable \/ EnterConfig \/ Commit \/ Save \/ LeaveConfig \/ ExitEnable
  PROVE  OwnInv'
  <1>1. job.pc \in {"enable"} \cup (LinePcs \ {"line", "return"}) /\ jobs' = jobs
    BY DEF Enable, EnterConfig, Commit, Save, LeaveConfig, ExitEnable, LinePcs
  <1>2. DevType /\ ~job.raised
    BY <1>1 DEF ShapeInv, PlaceInv, LinePcs
  <1>3. CASE Enable
    <2>1. /\ job.pc = "enable" /\ MovesTo(AfterEnable(job.req))
          /\ AfterEnable(job.req) \in {"enter", "line"}
      BY <1>3, ConfigMoves DEF Enable, Place, Effective
    <2>2. dev'.running = dev.running /\ dev'.candidate = dev.candidate
      BY <1>2, <1>3 DEF Enable, DevType, Device
    <2>3. QED
      BY <1>1, <1>2, <2>1, <2>2, MoveOwn
  <1>4. CASE EnterConfig
    <2>1. job.pc = "enter" /\ MovesTo("line")
      BY <1>4, ConfigMoves DEF EnterConfig
    <2>2. dev'.running = dev.running /\ dev'.candidate = dev.candidate
      BY <1>2, <1>4 DEF EnterConfig, DevType, Device
    <2>3. QED
      BY <1>1, <1>2, <2>1, <2>2, MoveOwn
  <1>5. CASE Save
    <2>1. job.pc = "save" /\ MovesTo("leave")
      BY <1>5, ConfigMoves DEF Save
    <2>2. dev'.running = dev.running /\ dev'.candidate = dev.candidate
      BY <1>2, <1>5 DEF Save, DevType, Device
    <2>3. IsConfig /\ IsNetmiko
      BY <2>1 DEF ShapeInv, PlaceInv, LinePcs
    <2>4. QED
      BY <1>1, <1>2, <2>1, <2>2, <2>3, MoveOwn
  <1>6. CASE LeaveConfig
    <2>1. job.pc = "leave" /\ MovesTo(LastStep)
      BY <1>6, ConfigMoves DEF LeaveConfig
    <2>2. dev'.running = dev.running /\ dev'.candidate = dev.candidate /\ dev'.mode = "user"
      BY <1>2, <1>6 DEF LeaveConfig, ModeAfterConfig, DevType, Device
    <2>3. IsConfig /\ IsNetmiko
      BY <2>1 DEF ShapeInv, PlaceInv, LinePcs
    <2>4. QED
      BY <1>1, <1>2, <2>1, <2>2, <2>3, MoveOwn
  <1>7. CASE ExitEnable
    <2>1. job.pc = "exit" /\ MovesTo("return")
      BY <1>7, ConfigMoves DEF ExitEnable
    <2>2. /\ dev'.running = dev.running /\ dev'.candidate = dev.candidate
          /\ dev'.mode = dev.mode /\ dev'.enabled = FALSE
      BY <1>2, <1>7 DEF ExitEnable, DevType, Device
    <2>3. QED
      BY <1>1, <1>2, <2>1, <2>2, MoveOwn
  <1>8. QED
    BY <1>3, <1>4, <1>5, <1>6, <1>7, CommitOwn

(* The driver returns. *)
LEMMA ReturnOwn ==
  ASSUME ShapeInv, OwnInv, ReturnResults
  PROVE  OwnInv'
  <1>1. /\ job.pc = "return" /\ dev' = dev /\ jobs' = jobs /\ job.failed \in BOOLEAN
        /\ ~job.raised
    BY DEF ReturnResults, ShapeInv, JobType, Job, PlaceInv
  <1>2. /\ job'.req = job.req /\ job'.pc = "done" /\ job'.raised = job.raised
        /\ ~(IsConfig /\ ~IsNetmiko) => job'.results = job.results
        /\ IsConfig /\ ~IsNetmiko =>
             job'.results = <<IF job.failed THEN "error" ELSE "ok">>
        /\ job'.unseen = job.unseen
    BY ReturnMoves
  <1>4. (IsConfig' <=> IsConfig) /\ (IsNetmiko' <=> IsNetmiko) /\ (Effective' <=> Effective)
    BY <1>2 DEF IsConfig, IsNetmiko, Effective
  <1>3. \A k : (TookEffect(k)' <=> TookEffect(k)) /\ (OnDevice(k)' <=> OnDevice(k))
    BY <1>1, <1>2, <1>4 DEF Line, OnDevice, Present, TookEffect
  <1>5. SentInv' /\ ReportInv' /\ ModeInv'
    BY <1>1, <1>2, <1>3, <1>4 DEF OwnInv, SentInv, Sending, ReportInv, ModeInv, LinePcs
  <1>6. Succeeded' => ~job.failed
    <2> SUFFICES ASSUME Succeeded', job.failed PROVE FALSE
      OBVIOUS
    <2>1. CASE IsConfig /\ ~IsNetmiko
      <3>1. job'.results = <<"error">>
        BY <1>2, <2>1
      <3>2. QED
        BY <3>1 DEF Succeeded
    <2>2. CASE ~(IsConfig /\ ~IsNetmiko)
      <3>1. job'.results = job.results /\ \E k \in DOMAIN job.results : job.results[k] = "error"
        BY <1>1, <1>2, <2>2 DEF OwnInv, SentInv, LinePcs
      <3>2. QED
        BY <3>1 DEF Succeeded
    <2>3. QED
      BY <2>1, <2>2
  <1>7. Effective /\ ~job.failed => \A k \in 1..job.req.lines : TookEffect(k)
    BY <1>1 DEF OwnInv, EffectInv
  <1>8. EffectInv'
    BY <1>1, <1>2, <1>3, <1>4, <1>6, <1>7
       DEF EffectInv, Sending, SuccessMeansApplied, Done, Effective
  <1>9. QED
    BY <1>5, <1>8 DEF OwnInv

(* What the invariant says of the running job stays true. *)
LEMMA OwnKept ==
  ASSUME ShapeInv, ShapeInv', PastInv, OwnInv, [Next]_vars
  PROVE  OwnInv'
  <1>1. CASE job'.req.op \notin {"send", "config"}
    <2>1. PlaceInv'
      BY DEF ShapeInv
    <2>2. QED
      BY <1>1, <2>1, NoLinesNext
  <1>2. CASE job'.req.op \in {"send", "config"}
    <2>1. CASE \E r \in Requests : StartJob(r)
      <3>1. PICK r \in Requests : StartJob(r)
        BY <2>1
      <3>2. r.op \in {"send", "config"}
        BY <1>2, <3>1, StartMoves
      <3>3. QED
        BY <3>1, <3>2, StartOwn
    <2>2. CASE ConfigRaises
      <3>1. job' = Raised /\ JobType /\ job.req \in Requests
        BY <2>2 DEF ConfigRaises, ShapeInv, PlaceInv
      <3>2. QED
        BY <3>1, RaisedOwn
    <2>3. CASE UNCHANGED <<job, dev, jobs>>
      BY <2>3
         DEF OwnInv, SentInv, Sending, ReportInv, EffectInv, ModeInv, SuccessMeansApplied, Done,
             Succeeded, Effective, Carried, TookEffect, IsConfig, IsNetmiko, OnDevice, Present, Line
    <2>5. CASE Enable \/ EnterConfig \/ Commit \/ Save \/ LeaveConfig \/ ExitEnable
      <3>1. job'.req = job.req
        BY <2>5, ConfigMoves DEF MovesTo
      <3>2. QED
        BY <1>2, <2>5, <3>1, ConfigOwn DEF Effective
    <2>4. QED
      BY <1>2, <2>1, <2>2, <2>3, <2>5, LinePlaces, LineOwn, ReturnOwn
  <1>3. QED
    BY <1>1, <1>2

-----------------------------------------------------------------------------
(* The theorems. *)

(* The invariant holds of every reachable state. *)
LEMMA DeviceInvariant == Spec => []DeviceInv
  <1>1. Init => DeviceInv
    <2> SUFFICES ASSUME Init PROVE DeviceInv
      OBVIOUS
    <2>1. /\ job = NoJob /\ rem = NoRemote /\ jobs = 0 /\ faults = 0
          /\ foreign = {f \in Files : dst[f] # None}
          /\ src \in [Files -> Versions] /\ dst \in [Files -> Versions \cup {None}]
      BY DEF Init
    <2>2. /\ dev \in Device /\ dev.mode = "user" /\ dev.running = {} /\ dev.candidate = {}
          /\ dev.startup = {}
      BY DEF Init, Device, Config
    <2>3. /\ job \in Job /\ job.pc = "idle" /\ job.raised = FALSE
      <3> DEFINE e == <<>>
      <3>1. /\ e \in Seq(Status)
            /\ job = [req |-> NoRequest, pc |-> "idle", i |-> 0, results |-> e,
                      failed |-> FALSE, raised |-> FALSE, unseen |-> {}]
        BY <2>1 DEF NoJob
      <3> HIDE DEF e
      <3>2. QED
        BY <3>1 DEF Job
    <2>4. FileType
      BY <2>1, DeviceAssumption DEF FileType
    <2>5. RemType /\ CountType
      BY <2>1, DeviceAssumption DEF RemType, CountType, NoRemote
    <2>6. PlaceInv
      BY <2>3 DEF PlaceInv, LinePcs, CommandPcs, TransferPcs
    <2>7. FileInv
      BY <2>1, <2>3 DEF FileInv, PartOf
    <2>8. LineInv
      BY <2>2, <2>3
         DEF LineInv, PastInv, SentInv, Sending, ReportInv, EffectInv, ModeInv, SuccessMeansApplied,
             Done, Present, LinePcs
    <2>9. QED
      BY <2>2, <2>3, <2>4, <2>5, <2>6, <2>7, <2>8 DEF DeviceInv, ShapeInv, JobType, DevType
  <1>2. DeviceInv /\ [Next]_vars => DeviceInv'
    <2> SUFFICES ASSUME DeviceInv, [Next]_vars PROVE DeviceInv'
      OBVIOUS
    <2>1. ShapeInv /\ FileInv /\ PastInv /\ OwnInv
      BY DEF DeviceInv, LineInv, OwnInv
    <2>2. ShapeInv' /\ FileInv' /\ PastInv'
      BY <2>1, ShapeKept, FilesKept, PastKept
    <2>3. OwnInv'
      BY <2>1, <2>2, OwnKept
    <2>4. QED
      BY <2>2, <2>3 DEF DeviceInv, LineInv, OwnInv
  <1>3. QED
    BY <1>1, <1>2, PTL DEF Spec

(* The job, the device and the files keep their shape; in particular the   *)
(* polls of an interactive command stay within max_no_output.              *)
THEOREM DeviceTypeCorrect == Spec => []TypeOK
  <1>1. DeviceInv => TypeOK
    <2> SUFFICES ASSUME DeviceInv PROVE TypeOK
      OBVIOUS
    <2>1. ShapeInv /\ PastInv
      BY DEF DeviceInv, LineInv
    <2>2. /\ job.req \in Requests \cup {NoRequest}
          /\ job.failed \in BOOLEAN /\ job.raised \in BOOLEAN
          /\ job.results \in Seq({"ok", "error", "skipped"})
          /\ job.i \in Nat /\ job.unseen \subseteq Nat
          /\ job.pc \in {"idle", "enable", "enter", "line", "commit", "save", "leave", "exit",
                         "return", "script", "poll", "interrupt", "stat", "copy", "netmiko",
                         "copied", "exec", "rm", "done"}
      BY <2>1 DEF ShapeInv, JobType, Job, Status, LinePcs, CommandPcs, TransferPcs
    <2>3. job.i \in 0..(IF job.pc = "line" THEN job.req.lines ELSE job.i)
      <3>1. CASE job.pc = "line"
        <4>1. job.i \in 1..job.req.lines /\ job.req \in Requests
          BY <2>1, <3>1 DEF ShapeInv, PlaceInv
        <4>2. job.req.lines \in Nat
          BY <4>1, RequestShape
        <4>3. QED
          BY <3>1, <4>1, <4>2
      <3>2. CASE job.pc # "line"
        BY <2>2, <3>2
      <3>3. QED
        BY <3>1, <3>2
    <2>4. \A f \in Files : dst[f] # None => Len(dst[f]) \in Nat
      <3> SUFFICES ASSUME NEW f \in Files, dst[f] # None PROVE Len(dst[f]) \in Nat
        OBVIOUS
      <3>1. dst[f] \in Seq(Chunks)
        BY <2>1, Contents DEF ShapeInv
      <3>2. QED
        BY <3>1
    <2>5. /\ dev.mode \in {"user", "config"} /\ dev.enabled \in BOOLEAN
          /\ dev.startup \subseteq dev.running
      BY <2>1 DEF ShapeInv, DevType, Device, PastInv
    <2>6. QED
      BY <2>1, <2>2, <2>3, <2>4, <2>5 DEF TypeOK, ShapeInv, RemType, FileType, CountType
  <1>2. QED
    BY <1>1, DeviceInvariant, PTL

(* A result that reports success is true of the device: every line of the  *)
(* job has taken effect, and been committed where the device commits, or   *)
(* was refused in a way that netmiko does not recognize.                   *)
THEOREM SuccessIsApplied == Spec => []SuccessMeansApplied
  <1>1. DeviceInv => SuccessMeansApplied
    BY DEF DeviceInv, LineInv, EffectInv
  <1>2. QED
    BY <1>1, DeviceInvariant, PTL

(* netmiko's config() has one result for each line, and none of the lines  *)
(* it reports as skipped is on the device.                                 *)
THEOREM LinesAreReported == Spec => []EveryLineReported
  <1>1. DeviceInv => EveryLineReported
    BY DEF DeviceInv, LineInv, ReportInv, EveryLineReported, Done, IsConfig, OnDevice, Present
  <1>2. QED
    BY <1>1, DeviceInvariant, PTL

(* netmiko's send() and config() leave the configuration and the enable    *)
(* mode they entered, unless they raised.                                  *)
THEOREM SessionsAreLeftInUserMode == Spec => []SessionLeftInUserMode
  <1>1. DeviceInv => SessionLeftInUserMode
    BY DEF DeviceInv, LineInv, ModeInv, SessionLeftInUserMode, Effective
  <1>2. QED
    BY <1>1, DeviceInvariant, PTL

(* A transfer that is over has made every destination equal to its source, *)
(* whatever interrupted earlier ones.                                      *)
THEOREM TransfersAreComplete == Spec => []TransferredIsEqual
  <1>1. DeviceInv => TransferredIsEqual
    BY DEF DeviceInv, FileInv, TransferredIsEqual, Settled
  <1>2. QED
    BY <1>1, DeviceInvariant, PTL
=============================================================================
