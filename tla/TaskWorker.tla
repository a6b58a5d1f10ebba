----------------------------- MODULE TaskWorker -----------------------------
(***************************************************************************)
(* The pinned worker's side of detached tasks: linux_net/services/rpc.py   *)
(* (manage_detached_task, the detached branch of execute, the registry     *)
(* part of rpc_webhook_callback) and what the paramiko driver finds and    *)
(* does on the remote host.  One action per Redis command or remote        *)
(* command whose result is used.                                           *)
(***************************************************************************)
EXTENDS TaskState

IdleWorker == [pc |-> "idle", job |-> None, off |-> 0, run |-> FALSE, next |-> 0]

(* The remote process writes, or ends.                                     *)
ProcWrites(t) ==
  /\ remote[t].proc = "running" /\ remote[t].size < MaxLog
  /\ remote' = [remote EXCEPT ![t].size = @ + 1]
  /\ UNCHANGED <<registry, hostq, wk, result, launch, api, supervision, history, faults>>

ProcEnds(t) ==
  /\ remote[t].proc \in {"running", "loose"}
  /\ remote' = [remote EXCEPT ![t].proc = "ended"]
  /\ UNCHANGED <<registry, hostq, wk, result, launch, api, supervision, history, faults>>

(* _is_task_running: the pid file names a process with the task's name.    *)
Running(t) == remote[t].files /\ remote[t].proc = "running"

-----------------------------------------------------------------------------
At(pc) == wk.pc = pc
Step(pc) == wk' = [wk EXCEPT !.pc = pc]

(* The job ends and its result becomes visible to the call that waits; a   *)
(* result nobody waits for (any more) is dropped.                          *)
Finish(res) ==
  /\ wk' = IdleWorker
  /\ result' = [c \in Calls |->
                  IF c = wk.job.call /\ api[c].pc = "wait" THEN res ELSE result[c]]

(* rq runs the success callback before it marks the job finished; only     *)
(* jobs nobody waits for have one.                                         *)
Answer == [NoResult EXCEPT !.kind = "log", !.run = wk.run, !.next = wk.next]
Succeed ==
  IF wk.job.hook THEN Step("hook") /\ UNCHANGED result ELSE Finish(Answer)

WorkTake ==
  /\ At("idle") /\ hostq # <<>>
  /\ hostq' = Tail(hostq)
  /\ wk' = [IdleWorker EXCEPT !.pc = Head(hostq).op, !.job = Head(hostq)]
  /\ UNCHANGED <<registry, remote, result, launch, api, supervision, history, faults>>

(* launch_detached starts the process, or returns early without one: the   *)
(* upload failed or there is no command.  execute then finds no "launch"   *)
(* entry and takes the task for running.                                   *)
WorkLaunch ==
  /\ At("launch")
  /\ \/ /\ remote' = [remote EXCEPT ![wk.job.task] =
                        [proc |-> "running", files |-> TRUE, size |-> 0]]
        /\ Step("started")
     \/ /\ wk' = [wk EXCEPT !.pc = "launched", !.run = TRUE]
        /\ UNCHANGED remote
  /\ UNCHANGED <<registry, hostq, result, launch, api, supervision, history, faults>>

(* "Wait a brief moment to catch immediate failures"                       *)
WorkLaunchCheck ==
  /\ At("started")
  /\ wk' = [wk EXCEPT !.pc = "launched", !.run = Running(wk.job.task)]
  /\ UNCHANGED <<registry, remote, hostq, result, launch, api, supervision, history, faults>>

(* "Register in Redis for global tracking"                                 *)
WorkLaunchRegister ==
  /\ At("launched")
  /\ registry' = Registered(wk.job.task, StatusOf(wk.run), 0)
  /\ Succeed
  /\ UNCHANGED <<remote, hostq, launch, api, supervision, history, faults>>

-----------------------------------------------------------------------------
(* manage_detached_task, query.                                            *)

(* No record: ValueError.  Completed: an empty result, and the callback of *)
(* such a redundant query does nothing.  Otherwise start at last_offset.   *)
WorkQuery ==
  /\ At("query")
  /\ LET m == registry[wk.job.task] IN
       \/ m = None /\ Finish([NoResult EXCEPT !.kind = "failed"])
       \/ m # None /\ m.status = "completed" /\ Finish(NoResult)
       \/ /\ m # None /\ m.status # "completed"
          /\ wk' = [wk EXCEPT !.pc = "check", !.off = m.last_offset]
          /\ UNCHANGED result
  /\ UNCHANGED <<registry, remote, hostq, launch, api, supervision, history, faults>>

(* _read_logs: is it running; read from the offset (or from the start, if  *)
(* the log is shorter than that); then take the size as the next offset.   *)
WorkCheck ==
  /\ At("check")
  /\ wk' = [wk EXCEPT !.pc = "read", !.run = Running(wk.job.task)]
  /\ UNCHANGED <<registry, remote, hostq, result, launch, api, supervision, history, faults>>

WorkRead ==
  /\ At("read")
  /\ LET t == wk.job.task
         start == IF wk.off > remote[t].size THEN 0 ELSE wk.off IN
       readlog' = [readlog EXCEPT ![t] = @ \cup (start + 1 .. remote[t].size)]
  /\ Step("size")
  /\ UNCHANGED <<registry, remote, hostq, result, launch, api, supervision,
                 announced, faults>>

(* Mutant: zero-based offset.                                              *)
WorkSizeZeroBased ==
  /\ At("size")
  /\ wk' = [wk EXCEPT !.pc = "exists", !.next = remote[wk.job.task].size - 1]
  /\ UNCHANGED <<registry, remote, hostq, result, launch, api, supervision, history, faults>>

WorkSize ==
  /\ At("size")
  /\ wk' = [wk EXCEPT !.pc = "exists", !.next = remote[wk.job.task].size]
  /\ UNCHANGED <<registry, remote, hostq, result, launch, api, supervision, history, faults>>

(* "Only update registry if task still exists"                             *)
WorkExists ==
  /\ At("exists")
  /\ \/ registry[wk.job.task] # None /\ Step("register") /\ UNCHANGED result
     \/ registry[wk.job.task] = None /\ Succeed
  /\ UNCHANGED <<registry, remote, hostq, launch, api, supervision, history, faults>>

WorkRegister ==
  /\ At("register")
  /\ registry' = Registered(wk.job.task, StatusOf(wk.run), wk.next)
  /\ Succeed
  /\ UNCHANGED <<remote, hostq, launch, api, supervision, history, faults>>

-----------------------------------------------------------------------------
(* rpc_webhook_callback for a detached request.                            *)

(* Mutant: every result counts as completed.                               *)
HookSendAlways ==
  /\ At("hook")
  /\ \/ /\ wk.job.op = "query" /\ registry[wk.job.task] = None
        /\ Finish(Answer)
        /\ UNCHANGED announced
     \/ /\ wk.job.op = "launch" \/ registry[wk.job.task] # None
        /\ announced' = IF wk.job.op = "query"
                          THEN announced \cup {wk.job.task} ELSE announced
        /\ Step("sync")
        /\ UNCHANGED result
  /\ UNCHANGED <<registry, remote, hostq, launch, api, supervision, readlog,
                 faults>>

(* Mutant: the event of the last push stays detached.log_push.             *)
HookSendNoUpgrade ==
  /\ At("hook")
  /\ \/ wk.job.op = "query" /\ registry[wk.job.task] = None /\ Finish(Answer)
     \/ /\ wk.job.op = "launch" \/ registry[wk.job.task] # None
        /\ Step("sync") /\ UNCHANGED result
  /\ UNCHANGED <<registry, remote, hostq, launch, api, supervision, history, faults>>

(* The webhook: none for the launch job, none once the record is gone;     *)
(* detached.completed if the process had ended.                            *)
HookSend ==
  /\ At("hook")
  /\ \/ /\ wk.job.op = "query" /\ registry[wk.job.task] = None
        /\ Finish(Answer)
        /\ UNCHANGED announced
     \/ /\ wk.job.op = "launch" \/ registry[wk.job.task] # None
        /\ announced' = IF wk.job.op = "query" /\ ~wk.run
                          THEN announced \cup {wk.job.task} ELSE announced
        /\ Step("sync")
        /\ UNCHANGED result
  /\ UNCHANGED <<registry, remote, hostq, launch, api, supervision, readlog,
                 faults>>

(* Mutant: a result without "completed" counts as completed.               *)
HookGetDefaultDone ==
  /\ At("sync")
  /\ LET m == registry[wk.job.task] IN
       \/ m = None /\ Finish(Answer)
       \/ /\ m # None
          /\ wk' = IF wk.job.op = "query" THEN [wk EXCEPT !.pc = "syncing"]
                   ELSE [wk EXCEPT !.pc = "syncing", !.run = FALSE, !.next = m.last_offset]
          /\ UNCHANGED result
  /\ UNCHANGED <<registry, remote, hostq, launch, api, supervision, history, faults>>

(* Registry sync.  The result of a launch has no next_offset and no        *)
(* "completed", so its record keeps its offset and becomes running.        *)
HookGet ==
  /\ At("sync")
  /\ LET m == registry[wk.job.task] IN
       \/ m = None /\ Finish(Answer)
       \/ /\ m # None
          /\ wk' = IF wk.job.op = "query" THEN [wk EXCEPT !.pc = "syncing"]
                   ELSE [wk EXCEPT !.pc = "syncing", !.run = TRUE, !.next = m.last_offset]
          /\ UNCHANGED result
  /\ UNCHANGED <<registry, remote, hostq, launch, api, supervision, history, faults>>

HookRegister ==
  /\ At("syncing")
  /\ registry' = Registered(wk.job.task, StatusOf(wk.run), wk.next)
  /\ Finish(Answer)
  /\ UNCHANGED <<remote, hostq, launch, api, supervision, history, faults>>

-----------------------------------------------------------------------------
(* manage_detached_task, kill: kill_task signals the process group of a    *)
(* running task and removes its files.  It does not look at what the       *)
(* signal achieved, and sends it without the sudo a task may have been     *)
(* launched with: the process may live on, out of the driver's sight.      *)
WorkKill ==
  /\ At("kill")
  /\ LET t == wk.job.task IN
       \/ /\ registry[t] = None
          /\ Finish([NoResult EXCEPT !.kind = "failed"])
          /\ UNCHANGED remote
       \/ /\ registry[t] # None
          /\ \E p \in IF Running(t) THEN {"ended", "loose"} ELSE {remote[t].proc} :
               remote' = [remote EXCEPT ![t] = [proc |-> p, files |-> FALSE, size |-> 0]]
          /\ Finish([NoResult EXCEPT !.kind = "killed"])
  /\ UNCHANGED <<registry, hostq, launch, api, supervision, history, faults>>

(* _list_active_tasks *)
WorkScan ==
  /\ At("scan")
  /\ Finish([NoResult EXCEPT !.kind = "scan", !.active = {t \in Tasks : Running(t)}])
  /\ UNCHANGED <<registry, remote, hostq, launch, api, supervision, history, faults>>

(* The device cannot be reached, or the worker dies: the job fails.  A     *)
(* scan that does not reach the device does not fail: execute and          *)
(* _list_active_tasks log the error, and the job finishes without the      *)
(* tasks it could not look at.                                             *)
WorkFails ==
  /\ ~At("idle")
  /\ Fault
  /\ \/ Finish([NoResult EXCEPT !.kind = "failed"])
     \/ /\ At("scan")
        /\ \E seen \in SUBSET {t \in Tasks : Running(t)} :
             Finish([NoResult EXCEPT !.kind = "scan", !.active = seen])
  /\ UNCHANGED <<registry, remote, hostq, launch, api, supervision, history>>

WorkStep ==
  \/ WorkTake \/ WorkLaunch \/ WorkLaunchCheck \/ WorkLaunchRegister
  \/ WorkQuery \/ WorkCheck \/ WorkRead \/ WorkSize \/ WorkExists \/ WorkRegister
  \/ HookSend \/ HookGet \/ HookRegister \/ WorkKill \/ WorkScan
=============================================================================
