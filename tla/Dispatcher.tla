---------------------------- MODULE Dispatcher ----------------------------
(***************************************************************************)
(* linux_net/services/manager.py, dispatch_rpc_job for the PINNED queue    *)
(* strategy: what one API thread does for one request, one action per      *)
(* Redis round trip.                                                       *)
(***************************************************************************)
EXTENDS PoolState

SetRequest(r, locals) == req' = [req EXCEPT ![r] = locals]
Goto(r, pc) == SetRequest(r, [req[r] EXCEPT !.pc = pc])

(* The end of one turn of the retry loop without a node.                   *)
Again(r) == IF req[r].cnt <= MaxRetries THEN "lookup" ELSE "failed"

Arrive(r) ==
  /\ req[r].pc = "new"
  /\ Goto(r, "lookup")
  /\ UNCHANGED <<redis, local, child, faults, exposed>>

(* Mutant: the turns of the loop are not counted.                          *)
LookupUncounted(r) ==
  /\ req[r].pc = "lookup"
  /\ LET n == host_to_node_map[Target[r]] IN
       SetRequest(r, [req[r] EXCEPT
                 !.pc = IF n = None THEN "select" ELSE "info", !.node = n])
  /\ UNCHANGED <<redis, local, child, faults, exposed>>

(* _get_assigned_node_for_host, first hmget.                               *)
Lookup(r) ==
  /\ req[r].pc = "lookup"
  /\ LET n == host_to_node_map[Target[r]] IN
       SetRequest(r, [req[r] EXCEPT
                 !.pc = IF n = None THEN "select" ELSE "info",
                 !.node = n, !.cnt = @ + 1])
  /\ UNCHANGED <<redis, local, child, faults, exposed>>

(* ... second hmget: a lock whose node has no info counts as no node.      *)
LookupInfo(r) ==
  /\ req[r].pc = "info"
  /\ \/ node_info_map[req[r].node] # None /\ Goto(r, "alive")
     \/ /\ node_info_map[req[r].node] = None
        /\ SetRequest(r, [req[r] EXCEPT !.pc = "select", !.node = None])
  /\ UNCHANGED <<redis, local, child, faults, exposed>>

(* scheduler.node_select(get_all_nodes()): some registered node with room; *)
(* every scheduler plugin raises when there is none.                       *)
Candidates == {n \in Nodes : node_info_map[n] # None /\ node_info_map[n] < Capacity}

Select(r) ==
  /\ req[r].pc = "select"
  /\ \/ \E n \in Candidates :
          SetRequest(r, [req[r] EXCEPT !.pc = "alive", !.node = n])
     \/ Candidates = {} /\ Goto(r, Again(r))
  /\ UNCHANGED <<redis, local, child, faults, exposed>>

(* _check_worker_alive(node.queue)                                         *)
CheckNode(r) ==
  /\ req[r].pc = "alive"
  /\ Goto(r, IF NodeAlive(req[r].node) THEN "hostq" ELSE "scan")
  /\ UNCHANGED <<redis, local, child, faults, exposed>>

(* _force_delete_node: hscan ...                                           *)
ForceScan(r) ==
  /\ req[r].pc = "scan"
  /\ SetRequest(r, [req[r] EXCEPT !.pc = "delete", !.keys = KeysOf(req[r].node)])
  /\ exposed' = exposed \cup KeysOf(req[r].node)
  /\ UNCHANGED <<redis, local, child, faults>>

(* ... the pipeline that drops the locks found and the node's entry ...    *)
ForceDelete(r) ==
  /\ req[r].pc = "delete"
  /\ host_to_node_map' = Unlock(req[r].keys)
  /\ node_info_map' = [node_info_map EXCEPT ![req[r].node] = None]
  /\ Goto(r, "shutdown")
  /\ UNCHANGED <<nodeq, hostq, nreg, wreg, job, local, child, faults, exposed>>

(* ... and shutdown commands to the workers of those HostQs.               *)
ForceShutdown(r) ==
  /\ req[r].pc = "shutdown"
  /\ ShutdownWorkers(req[r].keys)
  /\ SetRequest(r, [req[r] EXCEPT !.pc = Again(r), !.node = None, !.keys = {}])
  /\ UNCHANGED <<redis, local, faults, exposed>>

(* Mutant: no worker is ever launched.                                     *)
CheckHostQueueSkipped(r) ==
  /\ req[r].pc = "hostq"
  /\ Goto(r, "send")
  /\ UNCHANGED <<redis, local, child, faults, exposed>>

(* _check_worker_alive(HostQ)                                              *)
CheckHostQueue(r) ==
  /\ req[r].pc = "hostq"
  /\ Goto(r, IF HostQueueAlive(Target[r]) THEN "send" ELSE "launch")
  /\ UNCHANGED <<redis, local, child, faults, exposed>>

(* _try_launch_pinned_worker: a spawn job for the node.                    *)
Launch(r) ==
  /\ req[r].pc = "launch"
  /\ nodeq' = [nodeq EXCEPT ![req[r].node] = Append(@, SpawnJob(Target[r]))]
  /\ Goto(r, "send")
  /\ UNCHANGED <<host_to_node_map, node_info_map, hostq, nreg, wreg, job, local,
                 child, faults, exposed>>

(* _send_job to the HostQ.                                                 *)
Send(r) ==
  /\ req[r].pc = "send"
  /\ hostq' = [hostq EXCEPT ![Target[r]] = Append(@, r)]
  /\ job' = [job EXCEPT ![r] = "queued"]
  /\ SetRequest(r, [req[r] EXCEPT !.pc = "sent", !.node = None])
  /\ UNCHANGED <<host_to_node_map, node_info_map, nodeq, nreg, wreg, local,
                 child, faults, exposed>>

(* The ttl given to the job runs out while nobody takes it: Redis drops it.*)
JobExpire(r) ==
  /\ "ttl" \in Faults
  /\ job[r] = "queued"
  /\ job' = [job EXCEPT ![r] = "expired"]
  /\ UNCHANGED <<host_to_node_map, node_info_map, nodeq, hostq, nreg, wreg, local,
                 child, req, faults, exposed>>

(* What a controller thread, and then Redis, does for one request.         *)
RequestStep(r) ==
  \/ Lookup(r) \/ LookupInfo(r) \/ Select(r) \/ CheckNode(r)
  \/ ForceScan(r) \/ ForceDelete(r) \/ ForceShutdown(r)
  \/ CheckHostQueue(r) \/ Launch(r) \/ Send(r) \/ JobExpire(r)
=============================================================================
