----------------------------- MODULE Supervisor -----------------------------
(***************************************************************************)
(* linux_net/services/supervisor.py, DetachedTaskSupervisor: one instance  *)
(* per Gunicorn worker, coordinated by a Redis key with a ttl that nobody  *)
(* renews or deletes.                                                      *)
(***************************************************************************)
EXTENDS TaskState

IdleSupervisor == [pc |-> "idle", todo |-> {}, snap |-> [t \in Tasks |-> None]]

(* SET lock 1 NX EX 5                                                      *)
LockFree == ~lock

(* The lock, then list_all.                                                *)
Acquire(s) ==
  /\ sup[s].pc = "idle"
  /\ LockFree
  /\ lock' = TRUE
  /\ sup' = [sup EXCEPT ![s] = [pc |-> "check", todo |-> Known, snap |-> registry]]
  /\ UNCHANGED <<registry, host, launch, api, recent, history, faults>>

(* The ttl of the lock runs out; after the check, unless checks are slow.  *)
LockExpires ==
  /\ lock
  /\ SlowCheck \/ \A s \in Supervisors : sup[s].pc = "idle"
  /\ lock' = FALSE
  /\ UNCHANGED <<registry, host, launch, api, sup, recent, history, faults>>

(* One turn of the loop over the listed tasks.                             *)
Turn(s, t) == sup[s].pc = "check" /\ t \in sup[s].todo
Visited(s, t) == sup' = [sup EXCEPT ![s].todo = @ \ {t}, ![s].snap[t] = None]

(* Completed for 5 minutes, or launching for 10.                           *)
Stale(s, t) == sup[s].snap[t].old

Due(s, t) ==
  /\ ~Stale(s, t) /\ t \notin recent[s]
  /\ \/ t \in PushTasks /\ sup[s].snap[t].status # "completed"
     \/ t \notin PushTasks /\ sup[s].snap[t].status = "running"

(* Mutant: the record is not removed.                                      *)
PurgeNothing(s, t) ==
  /\ Turn(s, t) /\ Stale(s, t)
  /\ Visited(s, t)
  /\ UNCHANGED <<registry, host, launch, api, lock, recent, history, faults>>

Purge(s, t) ==
  /\ Turn(s, t) /\ Stale(s, t)
  /\ registry' = Unregistered(t)
  /\ recent' = [recent EXCEPT ![s] = @ \ {t}]
  /\ Visited(s, t)
  /\ UNCHANGED <<host, launch, api, lock, history, faults>>

(* _trigger_push: a query job, with the webhook callback if the task has a *)
(* push_interval and a webhook.                                            *)
TriggerPush(s, t) ==
  /\ Turn(s, t) /\ Due(s, t) /\ Len(hostq) < MaxQueue
  /\ Enqueue("query", t, None, t \in PushTasks \cap HookTasks)
  /\ recent' = [recent EXCEPT ![s] = @ \cup {t}]
  /\ Visited(s, t)
  /\ UNCHANGED <<registry, remote, wk, result, launch, api, lock, history, faults>>

(* No node takes the job: logged, and tried again on the next check.       *)
TriggerPushFails(s, t) ==
  /\ Turn(s, t) /\ Due(s, t)
  /\ Fault
  /\ Visited(s, t)
  /\ UNCHANGED <<registry, host, launch, api, lock, recent, history>>

NothingDue(s, t) ==
  /\ Turn(s, t) /\ ~Stale(s, t) /\ ~Due(s, t)
  /\ Visited(s, t)
  /\ UNCHANGED <<registry, host, launch, api, lock, recent, history, faults>>

CheckDone(s) ==
  /\ sup[s].pc = "check" /\ sup[s].todo = {}
  /\ sup' = [sup EXCEPT ![s] = IdleSupervisor]
  /\ UNCHANGED <<registry, host, launch, api, lock, recent, history, faults>>

SupervisorStep(s) ==
  \/ Acquire(s) \/ CheckDone(s)
  \/ \E t \in Tasks : Purge(s, t) \/ TriggerPush(s, t) \/ NothingDue(s, t)

-----------------------------------------------------------------------------
(* Time.  A record outlives its purge threshold; push_interval seconds (or *)
(* the 10 minutes of the automatic check) pass without a dispatch.         *)
RecordAges(t) ==
  /\ t \in Known /\ ~registry[t].old /\ registry[t].status \in Ages
  /\ registry' = [registry EXCEPT ![t].old = TRUE]
  /\ UNCHANGED <<host, launch, api, supervision, history, faults>>

IntervalPasses(s, t) ==
  /\ t \in recent[s]
  /\ recent' = [recent EXCEPT ![s] = @ \ {t}]
  /\ UNCHANGED <<registry, host, launch, api, sup, lock, history, faults>>
=============================================================================
