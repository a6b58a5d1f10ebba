----------------------------- MODULE DeviceJob -----------------------------
(***************************************************************************)
(* The jobs of one worker on one device, one after the other: send() and   *)
(* config() of the drivers pick what a request asks for, and the steps of  *)
(* DeviceLines and FileTransfer do it.  The session, and with it the       *)
(* configuration mode, outlives the jobs.                                  *)
(***************************************************************************)
EXTENDS DeviceLines, FileTransfer

Init ==
  /\ job = NoJob
  /\ dev \in [mode : {"user"}, enabled : {FALSE}, commits : BOOLEAN,
              candidate : {{}}, running : {{}}, startup : {{}}]
  /\ rem = NoRemote
  /\ src \in [Files -> Versions]
  /\ dst \in [Files -> Versions \cup {None}]
  /\ foreign = {f \in Files : dst[f] # None}
  /\ jobs = 0
  /\ faults = 0

StartJob(r) ==
  /\ job.pc \in {"idle", "done"} /\ jobs < MaxJobs
  /\ jobs' = jobs + 1
  /\ job' = [NoJob EXCEPT !.req = r, !.pc = FirstStep(r), !.i = 1]
  /\ rem' = [NoRemote EXCEPT !.todo = r.asks]
  /\ UNCHANGED <<dev, files, faults>>

Step == LinesStep \/ TransferStep

Next ==
  \/ \E r \in Requests : StartJob(r)
  \/ Step
  \/ \E f \in Files : SourceReplaced(f)

Spec == Init /\ [][Next]_vars

(* A running job goes on; clients need not send another one. *)
FairSpec == Spec /\ WF_vars(Step)

-----------------------------------------------------------------------------
(* Properties. *)

(* The shape of the job, the device and the files. *)
TypeOK ==
  /\ job.pc \in {"idle", "enable", "enter", "line", "commit", "save", "leave",
                 "exit", "return", "script", "poll", "interrupt", "stat", "copy", "netmiko",
                 "copied", "exec", "rm", "done"}
  /\ job.req \in Requests \cup {NoRequest}
  /\ job.results \in Seq({"ok", "error", "skipped"})
  /\ job.i \in 0..(IF job.pc = "line" THEN job.req.lines ELSE job.i)
  /\ job.failed \in BOOLEAN /\ job.raised \in BOOLEAN
  /\ job.unseen \subseteq Nat
  /\ dev.mode \in {"user", "config"} /\ dev.enabled \in BOOLEAN
  /\ dev.startup \subseteq dev.running
  /\ rem.polls \in 0..MaxPolls + 1
  /\ src \in [Files -> Versions]
  /\ \A f \in Files : dst[f] # None => Len(dst[f]) \in Nat
  /\ jobs \in 0..MaxJobs /\ faults \in 0..MaxFaults

Done(op) == job.pc = "done" /\ job.req.op = op
Succeeded == \A k \in DOMAIN job.results : job.results[k] = "ok"

(* The line is in force on the device, or the device refused it and        *)
(* netmiko did not notice.                                                 *)
TookEffect(k) == Line(k) \in dev.running \/ (IsNetmiko /\ k \in job.unseen)

(* A job that reports success has had every one of its lines take effect   *)
(* on the device, committed where the device commits, except for those     *)
(* whose refusal netmiko did not recognize: its send() does not look at    *)
(* what a command prints, and its config() only looks for a few patterns.  *)
SuccessMeansApplied ==
  (Done("config") \/ Done("send")) /\ Succeeded => \A k \in 1..job.req.lines : TookEffect(k)

(* netmiko's config() accounts for every line, and a line it reports as    *)
(* skipped has not reached the device.                                     *)
EveryLineReported ==
  Done("config") /\ IsNetmiko /\ ~job.raised =>
    /\ Len(job.results) = job.req.lines
    /\ \A k \in DOMAIN job.results : job.results[k] = "skipped" =>
         Line(k) \notin dev.running \cup dev.candidate

(* A job that did not end in an exception leaves the reused session out of *)
(* the modes it entered, after failed lines too.  (File transfers are left *)
(* out: they return with the session still enabled.)                       *)
SessionLeftInUserMode ==
  job.pc = "done" /\ ~job.raised /\ IsNetmiko /\ job.req.op \in {"send", "config"} =>
    /\ IsConfig => dev.mode = "user"
    /\ job.req.enable => ~dev.enabled

(* "Fail-fast: Stop if stop_on_error is true (default)": no line runs      *)
(* after a failed one, unless the request switched it off.                 *)
FailFastByDefault ==
  Done("config") /\ job.req.drv = "paramiko" /\ job.req.args # "go" =>
    \A k \in 1..job.req.lines :
      Line(k) \in dev.running => \A j \in 1..(k - 1) : Line(j) \in dev.running

(* When a transfer is over, with the command to run on the file still to   *)
(* come, every destination equals its source: after interruptions, resumed *)
(* and restarted transfers too.  Left out are destinations that resume was *)
(* pointed at although they never came from this source.                   *)
TransferredIsEqual ==
  job.pc \in {"copied", "exec"} =>
    \A k \in DOMAIN Req.files :
      LET f == Req.files[k]
      IN dst[f] = src[f] \/ (Req.resume /\ f \in foreign)

(* "Verify file integrity after transfer" (verify_file, on by default). *)
TransferIsVerified ==
  job.pc = "copied" => \A k \in DOMAIN Req.files : dst[Req.files[k]] = src[Req.files[k]]

(* Every job ends: a command that hangs at a prompt is given up. *)
JobEnds == job.pc \notin {"idle", "done"} ~> job.pc = "done"
=============================================================================
