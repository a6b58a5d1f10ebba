---------------------------- MODULE PinnedWorker ----------------------------
(***************************************************************************)
(* linux_net/worker/pinned.py under rq's SimpleWorker: a forked process    *)
(* that registers itself as worker <node>_HostQ_<device>, runs the jobs of *)
(* that HostQ one after the other and leaves on a shutdown command.        *)
(***************************************************************************)
EXTENDS PoolState

(* A child is normally tracked by its parent before it can possibly exit;  *)
(* the "early" fault lets it exit between the fork and AddTrack.           *)
MayExit(n, p) ==
  "early" \in Faults \/ ~(npc[n] = "track" /\ cur[n].pid = p)

(* rq refuses a worker name that is still registered; listen() then exits. *)
Boot(n, p) ==
  /\ child[n][p].st = "boot"
  /\ LET h == child[n][p].host IN
       \/ /\ wreg[n][h] = "none"
          /\ wreg' = [wreg EXCEPT ![n][h] = "up"]
          /\ SetChild(n, p, [child[n][p] EXCEPT !.st = "idle"])
       \/ /\ wreg[n][h] # "none"
          /\ MayExit(n, p)
          /\ SetChild(n, p, [child[n][p] EXCEPT !.st = "zombie"])
          /\ UNCHANGED wreg
  /\ UNCHANGED <<host_to_node_map, node_info_map, nodeq, hostq, nreg, job,
                 local, req, faults, exposed>>

(* SimpleWorker takes the next job of the HostQ and runs it in process.    *)
TakeJob(n, p) ==
  /\ child[n][p].st = "idle"
  /\ ~child[n][p].stop
  /\ LET h == child[n][p].host IN
       /\ hostq[h] # <<>>
       /\ job[Head(hostq[h])] # "expired"
       /\ SetChild(n, p, [child[n][p] EXCEPT !.st = "busy", !.job = Head(hostq[h])])
       /\ job' = [job EXCEPT ![Head(hostq[h])] = "running"]
       /\ hostq' = [hostq EXCEPT ![h] = Tail(@)]
  /\ UNCHANGED <<host_to_node_map, node_info_map, nodeq, nreg, wreg, local, req,
                 faults, exposed>>

(* The id of a job that expired is still in the queue: rq drops it.        *)
SkipExpired(n, p) ==
  /\ child[n][p].st = "idle"
  /\ ~child[n][p].stop
  /\ LET h == child[n][p].host IN
       /\ hostq[h] # <<>>
       /\ job[Head(hostq[h])] = "expired"
       /\ hostq' = [hostq EXCEPT ![h] = Tail(@)]
  /\ UNCHANGED <<host_to_node_map, node_info_map, nodeq, nreg, wreg, job, local,
                 child, req, faults, exposed>>

FinishJob(n, p) ==
  /\ child[n][p].st = "busy"
  /\ SetChild(n, p, [child[n][p] EXCEPT !.st = "idle", !.job = None])
  /\ job' = [job EXCEPT ![child[n][p].job] = "done"]
  /\ UNCHANGED <<host_to_node_map, node_info_map, nodeq, hostq, nreg, wreg,
                 local, req, faults, exposed>>

(* A requested stop takes effect between jobs: rq unregisters the worker.  *)
Leave(n, p) ==
  /\ child[n][p].st = "idle"
  /\ child[n][p].stop
  /\ MayExit(n, p)
  /\ SetChild(n, p, [child[n][p] EXCEPT !.st = "zombie", !.stop = FALSE])
  /\ wreg' = [wreg EXCEPT ![n][child[n][p].host] = "none"]
  /\ UNCHANGED <<host_to_node_map, node_info_map, nodeq, hostq, nreg, job,
                 local, req, faults, exposed>>

(* Manager.kill_worker, or the driver's session monitor sends the          *)
(* process a SIGTERM because its device session died.                      *)
Quit(n, p) ==
  /\ Serving(n, p)
  /\ ~child[n][p].stop
  /\ Inject("quit")
  /\ SetChild(n, p, [child[n][p] EXCEPT !.stop = TRUE])
  /\ UNCHANGED <<redis, local, req, exposed>>

(* The process is killed: its registration stays, its job is abandoned.    *)
Killed(n, p) ==
  /\ Live(n, p)
  /\ MayExit(n, p)
  /\ Inject("kill")
  /\ SetChild(n, p, [FreeChild EXCEPT !.st = "zombie", !.host = child[n][p].host])
  /\ job' = [r \in Requests |-> IF child[n][p].job = r THEN "lost" ELSE job[r]]
  /\ UNCHANGED <<host_to_node_map, node_info_map, nodeq, hostq, nreg, wreg,
                 local, req, exposed>>

(* A registration without a process grows old, then expires.               *)
WorkerExpire(n, h) ==
  /\ wreg[n][h] # "none"
  /\ \A p \in Pids : ~(Serving(n, p) /\ child[n][p].host = h)
  /\ wreg' = [wreg EXCEPT ![n][h] = IF @ = "up" THEN "late" ELSE "none"]
  /\ UNCHANGED <<host_to_node_map, node_info_map, nodeq, hostq, nreg, job,
                 local, child, req, faults, exposed>>

ChildStep(n, p) ==
  \/ Boot(n, p) \/ TakeJob(n, p) \/ SkipExpired(n, p) \/ FinishJob(n, p)
  \/ Leave(n, p)

ChildFault(n, p) == Quit(n, p) \/ Killed(n, p)
=============================================================================
