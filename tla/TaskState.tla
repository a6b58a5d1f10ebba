----------------------------- MODULE TaskState -----------------------------
(***************************************************************************)
(* Detached tasks: commands left running on a remote host, followed by     *)
(* records in a Redis hash (linux_net/services/rediz.py,                   *)
(* DetachedTaskRegistry).  All tasks here are on one host, so that all     *)
(* their jobs go through the HostQ of one pinned worker.                   *)
(***************************************************************************)
EXTENDS Naturals, Sequences, FiniteSets

CONSTANTS
  Tasks,        \* task ids
  PushTasks,    \* tasks with a push_interval
  HookTasks,    \* tasks with a webhook
  Calls,        \* calls of the detached-task API
  Ops,          \* what those calls may do
  Supervisors,  \* one per Gunicorn worker
  Ages,         \* record states that may outlive their purge threshold
  SlowCheck,    \* may the supervisor lock expire while its holder works?
  MaxLog,       \* bound on the log bytes of a task
  MaxQueue,     \* bound on the HostQ, for pushes
  MaxFaults,    \* bound on injected faults
  None

Op == {"query", "kill", "clear", "discover"}

VARIABLES
  registry,     \* linux_net:detached_task_registry
  remote,       \* the process, its files and its log on the host
  launch,       \* the thread of execute_on_device that launches each task
  hostq,        \* jobs for the pinned worker of the host
  wk,           \* locals of the job the pinned worker runs
  result,       \* what rq holds for the waiting call
  api,          \* locals of the API calls
  sup,          \* locals of the supervisors
  lock,         \* linux_net:supervisor:lock is set
  recent,       \* _last_dispatch of each supervisor: younger than the interval
  readlog,      \* history: log bytes some query has read
  announced,    \* history: tasks whose detached.completed event was sent
  faults        \* injected so far

host == <<remote, hostq, wk, result>>
supervision == <<sup, lock, recent>>
history == <<readlog, announced>>
vars == <<registry, host, launch, api, supervision, history, faults>>

Status == {"launching", "running", "completed"}
Record == [status : Status, last_offset : Nat, old : BOOLEAN]
Job == [op : {"launch", "query", "kill", "scan"}, task : Tasks \cup {None},
        call : Calls \cup {None}, hook : BOOLEAN]
Result == [kind : {"failed", "empty", "log", "killed", "scan"}, run : BOOLEAN,
           next : Nat, active : SUBSET Tasks]
NoResult == [kind |-> "empty", run |-> TRUE, next |-> 0, active |-> {}]

ASSUME TaskAssumption ==
  /\ None \notin Tasks \cup Calls \cup Record \cup Result
  /\ PushTasks \subseteq Tasks /\ HookTasks \subseteq Tasks
  /\ Ops \subseteq Op
  /\ Ages \subseteq {"launching", "completed"}
  /\ SlowCheck \in BOOLEAN
  /\ MaxLog \in Nat /\ MaxQueue \in Nat /\ MaxFaults \in Nat

(* register: hset of the whole record; every writer stamps it with the     *)
(* current time, so it is not old.                                         *)
Registered(t, status, offset) ==
  [registry EXCEPT ![t] = [status |-> status, last_offset |-> offset, old |-> FALSE]]

(* unregister: hdel                                                        *)
Unregistered(t) == [registry EXCEPT ![t] = None]

(* list_all *)
Known == {t \in Tasks : registry[t] # None}

StatusOf(run) == IF run THEN "running" ELSE "completed"

(* The PINNED dispatch of a job to the host.                               *)
Enqueue(op, t, c, hook) ==
  hostq' = Append(hostq, [op |-> op, task |-> t, call |-> c, hook |-> hook])

Fault == faults < MaxFaults /\ faults' = faults + 1
=============================================================================
