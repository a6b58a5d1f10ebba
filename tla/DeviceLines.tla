---------------------------- MODULE DeviceLines ----------------------------
(***************************************************************************)
(* Commands and configuration lines: send(), config(), _execute_command,   *)
(* _execute_interactive and _execute_script_content of the paramiko driver *)
(* and send() and config() of the netmiko driver, line by line.            *)
(***************************************************************************)
EXTENDS DeviceState

IsConfig == job.req.op = "config"
IsNetmiko == job.req.drv = "netmiko"

(* Where a line takes effect: on a device that commits, a configuration    *)
(* line goes to the candidate first.                                       *)
Applied(k) ==
  IF dev.commits /\ IsNetmiko /\ IsConfig
    THEN [dev EXCEPT !.candidate = @ \cup {Line(k)}]
    ELSE [dev EXCEPT !.running = @ \cup {Line(k)}]

(* The lines after the failed one, netmiko's config().  Mutant: the last   *)
(* of them is left out.                                                    *)
SkippedShort == [k \in 1..(job.req.lines - job.i - 1) |-> "skipped"]
SkippedRest == [k \in 1..(job.req.lines - job.i) |-> "skipped"]

(* paramiko's config() stops at a failed line only when driver_args were   *)
(* given.                                                                   *)
StopsOnError == IsConfig /\ job.req.args = "stop"

(* overall_exit_status.  Mutant: every line overwrites it. *)
StatusOfLine(failed) == failed
OverallStatus(failed) == job.failed \/ failed

(* exit_enable_mode, if enable() came first. *)
LastStep == IF IsNetmiko /\ job.req.enable THEN "exit" ELSE "return"

AfterLines == IF IsNetmiko /\ IsConfig THEN "commit" ELSE LastStep

AtLastLine == job.i = job.req.lines

(* The next line, or what comes after the last one. *)
Advance(results, failed) ==
  [job EXCEPT !.results = results, !.i = @ + 1,
              !.failed = OverallStatus(failed),
              !.pc = IF AtLastLine THEN AfterLines ELSE "line"]

(* File transfers first, then scripts, then commands or configuration. *)
AfterEnable(r) ==
  CASE r.op \in {"upload", "download"} -> IF r.drv = "netmiko" THEN "netmiko" ELSE "stat"
    [] r.op = "script"                 -> "script"
    [] r.op = "interactive"            -> "poll"
    [] r.op = "send"                   -> "line"
    [] r.op = "config"                 -> IF r.drv = "netmiko" THEN "enter" ELSE "line"

FirstStep(r) == IF r.drv = "netmiko" /\ r.enable THEN "enable" ELSE AfterEnable(r)

(* send() and config() of netmiko enable a session before anything else. *)
Enable ==
  /\ job.pc = "enable"
  /\ dev' = [dev EXCEPT !.enabled = TRUE]
  /\ job' = [job EXCEPT !.pc = AfterEnable(job.req)]
  /\ UNCHANGED <<rem, files, jobs, faults>>

(* config() of netmiko enters the configuration mode once. *)
EnterConfig ==
  /\ job.pc = "enter"
  /\ dev' = [dev EXCEPT !.mode = "config"]
  /\ job' = [job EXCEPT !.pc = "line"]
  /\ UNCHANGED <<rem, files, jobs, faults>>

LineSucceeds ==
  /\ job.pc = "line"
  /\ dev' = Applied(job.i)
  /\ job' = Advance(Append(job.results, "ok"), FALSE)
  /\ UNCHANGED <<rem, files, jobs, faults>>

(* The driver sees an error: a status other than 0, or output that matches *)
(* one of netmiko's patterns, which need not mean that the line had no     *)
(* effect.  netmiko's config() reports the other lines as skipped,         *)
(* paramiko goes on unless it is to stop; netmiko's send() never looks.    *)
LineFails ==
  /\ job.pc = "line" /\ (IsNetmiko => IsConfig)
  /\ dev' \in {dev, Applied(job.i)}
  /\ LET results == Append(job.results, "error")
     IN job' = IF IsNetmiko
                 THEN [job EXCEPT !.results = results \o SkippedRest,
                                  !.failed = TRUE, !.pc = "commit"]
               ELSE IF StopsOnError
                 THEN [job EXCEPT !.results = results, !.failed = TRUE, !.pc = "return"]
                 ELSE Advance(results, TRUE)
  /\ UNCHANGED <<rem, files, jobs, faults>>

(* The device refuses a line in words that match none of the patterns, or  *)
(* in answer to netmiko's send(): reported as success.                     *)
LineUnnoticed ==
  /\ job.pc = "line" /\ IsNetmiko
  /\ job' = [Advance(Append(job.results, "ok"), FALSE) EXCEPT !.unseen = @ \cup {job.i}]
  /\ UNCHANGED <<dev, rem, files, jobs, faults>>

(* A timeout or a lost connection, before or after the line took effect.   *)
(* netmiko's config() treats it as a failed line, the others give up.      *)
LineRaises ==
  /\ job.pc = "line" /\ MayRaise
  /\ faults' = faults + 1
  /\ dev' \in {dev, Applied(job.i)}
  /\ job' = IF IsNetmiko /\ IsConfig
              THEN [job EXCEPT !.results = Append(@, "error") \o SkippedRest,
                               !.failed = TRUE, !.pc = "commit"]
              ELSE Raised
  /\ UNCHANGED <<rem, files, jobs>>

(* _commit, whatever became of the lines. *)
Commit ==
  /\ job.pc = "commit"
  /\ dev' = [dev EXCEPT !.running = @ \cup dev.candidate, !.candidate = {}]
  /\ job' = [job EXCEPT !.pc = "save"]
  /\ UNCHANGED <<rem, files, jobs, faults>>

AllSuccess == \A k \in DOMAIN job.results : job.results[k] = "ok"

Save ==
  /\ job.pc = "save"
  /\ dev' = IF job.req.save /\ AllSuccess
              THEN [dev EXCEPT !.startup = dev.running] ELSE dev
  /\ job' = [job EXCEPT !.pc = "leave"]
  /\ UNCHANGED <<rem, files, jobs, faults>>

(* Mutant: the mode is left only after success. *)
ModeKeptOnError == IF job.failed THEN dev.mode ELSE "user"
ModeAfterConfig == "user"

LeaveConfig ==
  /\ job.pc = "leave"
  /\ dev' = [dev EXCEPT !.mode = ModeAfterConfig]
  /\ job' = [job EXCEPT !.pc = LastStep]
  /\ UNCHANGED <<rem, files, jobs, faults>>

ExitEnable ==
  /\ job.pc = "exit"
  /\ dev' = [dev EXCEPT !.enabled = FALSE]
  /\ job' = [job EXCEPT !.pc = "return"]
  /\ UNCHANGED <<rem, files, jobs, faults>>

(* An exception around the lines reaches the outer handler of send() or    *)
(* config(): the mode stays as it is.                                      *)
ConfigRaises ==
  /\ job.pc \in {"enable", "enter", "commit", "save", "leave", "exit"} /\ MayRaise
  /\ faults' = faults + 1
  /\ job' = Raised
  /\ UNCHANGED <<dev, rem, files, jobs>>

(* config() of paramiko merges the lines into one result. *)
ReturnResults ==
  /\ job.pc = "return"
  /\ job' = Return(IF IsConfig /\ ~IsNetmiko
                    THEN <<IF job.failed THEN "error" ELSE "ok">> ELSE job.results)
  /\ UNCHANGED <<dev, rem, files, jobs, faults>>

(* The whole script goes through the interpreter's stdin. *)
RunScript ==
  /\ job.pc = "script"
  /\ dev' = Applied(1)
  /\ \E status \in {"ok", "error"} : job' = Return(<<status>>)
  /\ UNCHANGED <<rem, files, jobs, faults>>

-----------------------------------------------------------------------------
(* An interactive command and its prompts. *)

RemoteAsks ==
  /\ job.pc = "poll" /\ ~rem.asking /\ rem.todo # <<>>
  /\ rem' = [rem EXCEPT !.asking = TRUE, !.unread = {Head(rem.todo)}]
  /\ UNCHANGED <<job, dev, files, jobs, faults>>

(* A chunk arrives: one expected prompt in all the output so far that has  *)
(* not been answered yet is answered.                                      *)
Unanswered(seen) == (seen \cap job.req.expects) \ rem.responded

PollChunk ==
  /\ job.pc = "poll" /\ rem.unread # {}
  /\ LET seen == rem.seen \cup rem.unread
         read == [rem EXCEPT !.unread = {}, !.seen = seen, !.polls = 0]
     IN IF Unanswered(seen) = {} THEN rem' = read
        ELSE \E p \in Unanswered(seen) :
               rem' = [read EXCEPT !.responded = @ \cup {p},
                                   !.asking = FALSE, !.todo = Tail(@)]
  /\ UNCHANGED <<job, dev, files, jobs, faults>>

(* After max_no_output polls without output the command counts as hung.    *)
(* Mutant: the polls are not counted.                                      *)
NotCounted == rem.polls
QuietPolls == rem.polls + 1

PollQuiet ==
  /\ job.pc = "poll" /\ rem.unread = {}
  /\ rem.asking \/ rem.todo # <<>>
  /\ rem' = [rem EXCEPT !.polls = QuietPolls]
  /\ job' = [job EXCEPT !.pc = IF QuietPolls > MaxPolls THEN "interrupt" ELSE "poll"]
  /\ UNCHANGED <<dev, files, jobs, faults>>

PollExited ==
  /\ job.pc = "poll" /\ rem.todo = <<>> /\ ~rem.asking
  /\ dev' = Applied(1)
  /\ \E status \in {"ok", "error"} : job' = Return(<<status>>)
  /\ UNCHANGED <<rem, files, jobs, faults>>

(* Ctrl+C: the command ends with a status of its own, or the channel is    *)
(* closed with status -1.                                                  *)
Interrupt ==
  /\ job.pc = "interrupt"
  /\ \E status \in {"ok", "error"} : job' = Return(<<status>>)
  /\ UNCHANGED <<dev, rem, files, jobs, faults>>

(* A script or an interactive command raises, before or after its effect. *)
CommandRaises ==
  /\ job.pc \in {"script", "poll", "interrupt"} /\ MayRaise
  /\ faults' = faults + 1
  /\ dev' \in {dev, Applied(1)}
  /\ job' = Raised
  /\ UNCHANGED <<rem, files, jobs>>

LinesStep ==
  \/ Enable \/ EnterConfig
  \/ LineSucceeds \/ LineFails \/ LineUnnoticed \/ LineRaises
  \/ Commit \/ Save \/ LeaveConfig \/ ExitEnable \/ ConfigRaises \/ ReturnResults
  \/ RunScript
  \/ RemoteAsks \/ PollChunk \/ PollQuiet \/ PollExited \/ Interrupt
  \/ CommandRaises
=============================================================================
