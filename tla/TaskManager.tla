---------------------------- MODULE TaskManager ----------------------------
(***************************************************************************)
(* linux_net/services/manager.py: how API threads launch, query, kill,     *)
(* clear and discover detached tasks.  One action per Redis round trip     *)
(* that others can interleave with.                                        *)
(***************************************************************************)
EXTENDS TaskState

IdleCall == [pc |-> "new", op |-> None, task |-> None, todo |-> {},
             offsets |-> [t \in Tasks |-> 0], ended |-> FALSE, answer |-> None]

(* What list_all shows of the offsets.                                     *)
Offsets == [t \in Tasks |-> IF t \in Known THEN registry[t].last_offset ELSE 0]

(* execute_on_device: the job, always with the callback, is dispatched     *)
(* first ...                                                               *)
LaunchDispatch(t) ==
  /\ launch[t] = "new"
  /\ Enqueue("launch", t, None, TRUE)
  /\ launch' = [launch EXCEPT ![t] = "dispatched"]
  /\ UNCHANGED <<registry, remote, wk, result, api, supervision, history, faults>>

(* ... and then the record is written.                                     *)
LaunchRegister(t) ==
  /\ launch[t] = "dispatched"
  /\ registry' = Registered(t, "launching", 0)
  /\ launch' = [launch EXCEPT ![t] = "done"]
  /\ UNCHANGED <<host, api, supervision, history, faults>>

-----------------------------------------------------------------------------
SetCall(c, locals) == api' = [api EXCEPT ![c] = locals]
Return(c, answer) == SetCall(c, [api[c] EXCEPT !.pc = "done", !.answer = answer,
                                !.offsets = [t \in Tasks |-> 0]])

(* A call of one of the operations arrives.  Query and kill look up the    *)
(* record first and dispatch a job only if there is one; discover always   *)
(* dispatches; clear lists the records.                                    *)
CallTask(c, op, t) ==
  /\ api[c].pc = "new" /\ op \in Ops \cap {"query", "kill"}
  /\ LET l == [api[c] EXCEPT !.op = op, !.task = t, !.ended = remote[t].proc = "ended"] IN
       \/ /\ registry[t] = None
          /\ SetCall(c, [l EXCEPT !.pc = "done", !.answer = "error"])
          /\ UNCHANGED hostq
       \/ /\ registry[t] # None
          /\ SetCall(c, [l EXCEPT !.pc = "wait"])
          /\ Enqueue(op, t, c, FALSE)
  /\ UNCHANGED <<registry, remote, wk, result, launch, supervision, history, faults>>

CallDiscover(c) ==
  /\ api[c].pc = "new" /\ "discover" \in Ops
  /\ SetCall(c, [api[c] EXCEPT !.pc = "wait", !.op = "discover"])
  /\ Enqueue("scan", None, c, FALSE)
  /\ UNCHANGED <<registry, remote, wk, result, launch, supervision, history, faults>>

CallClear(c) ==
  /\ api[c].pc = "new" /\ "clear" \in Ops
  /\ SetCall(c, [api[c] EXCEPT !.pc = "each", !.op = "clear", !.todo = Known])
  /\ UNCHANGED <<registry, host, launch, supervision, history, faults>>

(* The job failed, or it was not done in time (5 or 10 seconds).           *)
CallFails(c) ==
  /\ api[c].pc = "wait"
  /\ result[c] # None => result[c].kind = "failed"
  /\ Return(c, "error")
  /\ UNCHANGED <<registry, host, launch, supervision, history, faults>>

(* query_detached_task: an empty result is answered with "running"; else   *)
(* look the record up again ...                                            *)
QueryDone(c) ==
  /\ api[c].pc = "wait" /\ api[c].op = "query"
  /\ result[c] # None /\ result[c].kind \in {"empty", "log"}
  /\ LET written == result[c].kind = "log" /\ registry[api[c].task] # None IN
       \/ written /\ SetCall(c, [api[c] EXCEPT !.pc = "write"])
       \/ ~written /\ Return(c, StatusOf(result[c].run))
  /\ UNCHANGED <<registry, host, launch, supervision, history, faults>>

(* ... and write it back with the offset and the status the job found.     *)
QueryWrite(c) ==
  /\ api[c].pc = "write"
  /\ registry' = Registered(api[c].task, StatusOf(result[c].run), result[c].next)
  /\ Return(c, StatusOf(result[c].run))
  /\ UNCHANGED <<host, launch, supervision, history, faults>>

(* Mutant: unregistered without waiting for the job.                       *)
KillDoneUnawaited(c) ==
  /\ api[c].pc = "wait" /\ api[c].op = "kill"
  /\ registry' = Unregistered(api[c].task)
  /\ Return(c, "killed")
  /\ UNCHANGED <<host, launch, supervision, history, faults>>

(* kill_detached_task: "Cleanup registry if killed successfully", which is *)
(* whenever the job finished.                                              *)
KillDone(c) ==
  /\ api[c].pc = "wait" /\ api[c].op = "kill"
  /\ result[c] # None /\ result[c].kind = "killed"
  /\ registry' = Unregistered(api[c].task)
  /\ Return(c, "killed")
  /\ UNCHANGED <<host, launch, supervision, history, faults>>

(* clear_detached_tasks, one record.                                       *)
ClearOne(c, t) ==
  /\ api[c].pc = "each" /\ api[c].op = "clear" /\ t \in api[c].todo
  /\ registry' = Unregistered(t)
  /\ SetCall(c, [api[c] EXCEPT !.todo = @ \ {t}])
  /\ UNCHANGED <<host, launch, supervision, history, faults>>

(* discover_detached_tasks: records that say running although the scan did *)
(* not find the task ...                                                   *)
DiscoverList(c) ==
  /\ api[c].pc = "wait" /\ api[c].op = "discover"
  /\ result[c] # None /\ result[c].kind = "scan"
  /\ SetCall(c, [api[c] EXCEPT !.pc = "each", !.offsets = Offsets, !.todo =
       {t \in Known : registry[t].status = "running" /\ t \notin result[c].active}])
  /\ UNCHANGED <<registry, host, launch, supervision, history, faults>>

(* ... are written back as completed, with the offset that was listed.     *)
DiscoverWrite(c, t) ==
  /\ api[c].pc = "each" /\ api[c].op = "discover" /\ t \in api[c].todo
  /\ registry' = Registered(t, "completed", api[c].offsets[t])
  /\ SetCall(c, [api[c] EXCEPT !.todo = @ \ {t}])
  /\ UNCHANGED <<host, launch, supervision, history, faults>>

EachDone(c) ==
  /\ api[c].pc = "each" /\ api[c].todo = {}
  /\ Return(c, "ok")
  /\ UNCHANGED <<registry, host, launch, supervision, history, faults>>

CallStarts(c) ==
  \/ \E op \in Op, t \in Tasks : CallTask(c, op, t)
  \/ CallDiscover(c) \/ CallClear(c)

CallStep(c) ==
  \/ CallFails(c) \/ QueryDone(c) \/ QueryWrite(c) \/ KillDone(c)
  \/ DiscoverList(c) \/ EachDone(c)
  \/ \E t \in Tasks : ClearOne(c, t) \/ DiscoverWrite(c, t)
=============================================================================
