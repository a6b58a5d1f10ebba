--------------------------- MODULE DetachedTasks ---------------------------
(***************************************************************************)
(* Detached tasks: the pinned worker of the host, API threads and the      *)
(* supervisors, all writing the same records.                              *)
(***************************************************************************)
EXTENDS TaskWorker, TaskManager, Supervisor

Init ==
  /\ registry = [t \in Tasks |-> None]
  /\ remote = [t \in Tasks |-> [proc |-> "none", files |-> FALSE, size |-> 0]]
  /\ launch = [t \in Tasks |-> "new"]
  /\ hostq = <<>>
  /\ wk = IdleWorker
  /\ result = [c \in Calls |-> None]
  /\ api = [c \in Calls |-> IdleCall]
  /\ sup = [s \in Supervisors |-> IdleSupervisor]
  /\ lock = FALSE
  /\ recent = [s \in Supervisors |-> {}]
  /\ readlog = [t \in Tasks |-> {}]
  /\ announced = {}
  /\ faults = 0

Next ==
  \/ \E t \in Tasks : LaunchDispatch(t) \/ LaunchRegister(t)
  \/ \E t \in Tasks : ProcWrites(t) \/ ProcEnds(t)
  \/ WorkStep
  \/ WorkFails
  \/ \E c \in Calls : CallStarts(c)
  \/ \E c \in Calls : CallStep(c)
  \/ \E s \in Supervisors : SupervisorStep(s)
  \/ \E s \in Supervisors, t \in Tasks : TriggerPushFails(s, t)
  \/ LockExpires
  \/ \E t \in Tasks : RecordAges(t)
  \/ \E s \in Supervisors, t \in Tasks : IntervalPasses(s, t)

Spec == Init /\ [][Next]_vars

(* Every thread and the worker keep running, and time passes.  Calls, the  *)
(* end of a process and faults are not forced.                             *)
Fairness ==
  /\ \A t \in Tasks : WF_vars(LaunchRegister(t))
  /\ WF_vars(WorkStep)
  /\ \A c \in Calls : WF_vars(CallStep(c))
  /\ \A s \in Supervisors : WF_vars(SupervisorStep(s))
  /\ WF_vars(LockExpires)
  /\ \A t \in Tasks : WF_vars(RecordAges(t))
  /\ \A s \in Supervisors, t \in Tasks : WF_vars(IntervalPasses(s, t))

FairSpec == Spec /\ Fairness

-----------------------------------------------------------------------------
WorkerLocals ==
  [pc : {"idle", "launch", "started", "launched", "query", "check", "read", "size",
         "exists", "register", "hook", "sync", "syncing", "kill", "scan"},
   job : Job \cup {None}, off : Nat, run : BOOLEAN, next : Nat]

CallLocals ==
  [pc : {"new", "wait", "write", "each", "done"}, op : Op \cup {None},
   task : Tasks \cup {None}, todo : SUBSET Tasks, offsets : [Tasks -> Nat],
   ended : BOOLEAN,
   answer : {None, "error", "running", "completed", "killed", "ok"}]

SupervisorLocals ==
  [pc : {"idle", "check"}, todo : SUBSET Tasks, snap : [Tasks -> Record \cup {None}]]

(* Every record, queue and process local holds values of its type.         *)
TypeOK ==
  /\ registry \in [Tasks -> Record \cup {None}]
  /\ remote \in [Tasks -> [proc : {"none", "running", "loose", "ended"},
                          files : BOOLEAN, size : Nat]]
  /\ launch \in [Tasks -> {"new", "dispatched", "done"}]
  /\ hostq \in Seq(Job)
  /\ wk \in WorkerLocals
  /\ result \in [Calls -> Result \cup {None}]
  /\ api \in [Calls -> CallLocals]
  /\ sup \in [Supervisors -> SupervisorLocals]
  /\ lock \in BOOLEAN
  /\ recent \in [Supervisors -> SUBSET Tasks]
  /\ readlog \in [Tasks -> SUBSET Nat]
  /\ announced \in SUBSET Tasks
  /\ faults \in Nat

(* A record says completed only of a task whose process does not run, no   *)
(* matter how stale what its writer had read: else the supervisor stops    *)
(* following the task and purges it.  (A process that survived a kill has  *)
(* no files by which the driver could see it run.)                         *)
CompletedIsOver ==
  \A t \in Tasks : t \in Known /\ registry[t].status = "completed" => ~Running(t)

(* The registry is a lagging view of the tasks' lives: a task that runs is *)
(* neither called completed nor forgotten, whatever late writers do, until *)
(* a kill of it has been carried out, effective or not.                    *)
Life == INSTANCE TaskLife WITH
  life <- [t \in Tasks |-> remote[t].proc],
  shown <- [t \in Tasks |-> IF registry[t] = None THEN None ELSE registry[t].status]
RegistryIsView == Life!LifeSpec

(* The event detached.completed is only sent of a task whose process has   *)
(* ended, is never to start, or was the target of a kill, effective or     *)
(* not: a query job neither overtakes the launch job of its task nor       *)
(* reports what it did not see.                                            *)
AnnouncedIsOver == \A t \in announced : remote[t].proc # "running"

(* Every log byte below the recorded offset has been read by some query:   *)
(* increments leave no gap.                                                *)
OffsetCovered ==
  \A t \in Known : 1..registry[t].last_offset \subseteq readlog[t]

(* A query that began after the process had ended is not answered with     *)
(* "running".                                                              *)
AnswerCurrent ==
  \A c \in Calls : api[c].ended => api[c].answer # "running"

(* The record of a task whose process has ended is removed in the end,     *)
(* whatever API calls, callbacks and late writers did to it.               *)
EndedTaskForgotten ==
  \A t \in Tasks :
    (remote[t].proc = "ended" /\ launch[t] = "done") ~> registry[t] = None

(* A task with a push_interval and a webhook announces its end.            *)
CompletionAnnounced ==
  \A t \in PushTasks \cap HookTasks : remote[t].proc = "ended" ~> t \in announced
=============================================================================
