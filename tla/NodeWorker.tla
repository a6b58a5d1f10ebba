---------------------------- MODULE NodeWorker ----------------------------
(***************************************************************************)
(* linux_net/worker/node.py, with the pinned workers it forks              *)
(* (linux_net/worker/pinned.py): one action per step that other processes  *)
(* can observe.  A Redis pipeline is one step; a loop over independent     *)
(* devices is one step.                                                    *)
(***************************************************************************)
EXTENDS PoolState

-----------------------------------------------------------------------------
(* NodeWorker.listen: start, sweep what an earlier incarnation left, then  *)
(* register.                                                               *)

(* node.lock is held; hscan of the keys that carry this node's name.       *)
ListenScan(n) ==
  /\ npc[n] = "down"
  /\ npc' = [npc EXCEPT ![n] = "scanned"]
  /\ nkeys' = [nkeys EXCEPT ![n] = KeysOf(n)]
  /\ exposed' = exposed \cup KeysOf(n)
  /\ UNCHANGED <<redis, cur, signaled, stopping, pid_to_host_map, child, req, faults>>

(* register_death of every worker of the swept HostQs and of NodeQ.        *)
ListenReap(n) ==
  /\ npc[n] = "scanned"
  /\ npc' = [npc EXCEPT ![n] = "reaped"]
  /\ wreg' = [m \in Nodes |-> [h \in Hosts |->
                IF h \in nkeys[n] THEN "none" ELSE wreg[m][h]]]
  /\ nreg' = [nreg EXCEPT ![n] = "none"]
  /\ UNCHANGED <<host_to_node_map, node_info_map, nodeq, hostq, job, cur,
                 signaled, stopping, pid_to_host_map, nkeys, child, req, faults, exposed>>

(* The pipeline that drops the swept locks and writes a fresh NodeInfo.    *)
ListenRegister(n) ==
  /\ npc[n] = "reaped"
  /\ npc' = [npc EXCEPT ![n] = "registered"]
  /\ host_to_node_map' = Unlock(nkeys[n])
  /\ node_info_map' = [node_info_map EXCEPT ![n] = 0]
  /\ nkeys' = [nkeys EXCEPT ![n] = {}]
  /\ UNCHANGED <<nodeq, hostq, nreg, wreg, job, cur, signaled, stopping,
                 pid_to_host_map, child, req, faults, exposed>>

(* RedisWorker.listen: SimpleWorker.work registers the worker with rq.     *)
ListenBirth(n) ==
  /\ npc[n] = "registered"
  /\ npc' = [npc EXCEPT ![n] = "idle"]
  /\ nreg' = [nreg EXCEPT ![n] = "up"]
  /\ UNCHANGED <<host_to_node_map, node_info_map, nodeq, hostq, wreg, job, cur,
                 signaled, stopping, pid_to_host_map, nkeys, child, req, faults, exposed>>

-----------------------------------------------------------------------------
(* NodeWorker.add, run by the rq loop for a spawn job.                     *)

(* The loop pops the next NodeQ job unless it was asked to stop.           *)
Pop(n, op) ==
  /\ npc[n] = "idle"
  /\ ~stopping[n]
  /\ nodeq[n] # <<>>
  /\ Head(nodeq[n]).op = op
  /\ nodeq' = [nodeq EXCEPT ![n] = Tail(@)]

Pinned(n, h) == \E p \in Pids : pid_to_host_map[n][p] = h

(* "Check if the node has enough capacity"                                 *)
RoomOffByOne(n) == node_info_map[n] <= Capacity

Room(n) == node_info_map[n] < Capacity

(* "already pinned, skipping"                                              *)
AddAlreadyPinned(n) ==
  /\ Pop(n, "spawn")
  /\ Pinned(n, Head(nodeq[n]).host)
  /\ UNCHANGED <<host_to_node_map, node_info_map, hostq, nreg, wreg, job,
                 local, child, req, faults, exposed>>

(* node_info is gone: sys.exit(1).  rq either turns the SystemExit into a  *)
(* failed job or leaves its loop, and then listen() cleans up.             *)
AddNodeMissing(n) ==
  /\ Pop(n, "spawn")
  /\ ~Pinned(n, Head(nodeq[n]).host)
  /\ node_info_map[n] = None
  /\ \E leave \in BOOLEAN : stopping' = [stopping EXCEPT ![n] = leave]
  /\ UNCHANGED <<host_to_node_map, node_info_map, hostq, nreg, wreg, job, npc,
                 cur, signaled, pid_to_host_map, nkeys, child, req, faults, exposed>>

(* NodePreemptedError: the spawn job fails.                                *)
AddPreempted(n) ==
  /\ Pop(n, "spawn")
  /\ ~Pinned(n, Head(nodeq[n]).host)
  /\ node_info_map[n] # None
  /\ ~Room(n)
  /\ UNCHANGED <<host_to_node_map, node_info_map, hostq, nreg, wreg, job,
                 local, child, req, faults, exposed>>

(* Room for one more: remember count + 1.                                  *)
AddRead(n) ==
  /\ Pop(n, "spawn")
  /\ ~Pinned(n, Head(nodeq[n]).host)
  /\ node_info_map[n] # None
  /\ Room(n)
  /\ npc' = [npc EXCEPT ![n] = "lock"]
  /\ cur' = [cur EXCEPT ![n] = [host |-> Head(nodeq[n]).host, pid |-> None,
                                cnt |-> node_info_map[n] + 1]]
  /\ UNCHANGED <<host_to_node_map, node_info_map, hostq, nreg, wreg, job,
                 signaled, stopping, pid_to_host_map, nkeys, child, req, faults, exposed>>

(* Mutants: hset instead of hsetnx; the result of hsetnx not looked at.    *)
FreeOrNot(n) == TRUE

AddLockUnchecked(n) ==
  /\ npc[n] = "lock"
  /\ host_to_node_map' = [host_to_node_map EXCEPT ![cur[n].host] =
                            IF @ = None THEN n ELSE @]
  /\ npc' = [npc EXCEPT ![n] = "fork"]
  /\ UNCHANGED <<node_info_map, nodeq, hostq, nreg, wreg, job, cur, signaled,
                 stopping, pid_to_host_map, nkeys, child, req, faults, exposed>>

(* hsetnx host_to_node_map; HostAlreadyPinnedError when it fails.          *)
LockFree(n) == host_to_node_map[cur[n].host] = None

AddLock(n) ==
  /\ npc[n] = "lock"
  /\ \/ /\ LockFree(n)
        /\ host_to_node_map' = [host_to_node_map EXCEPT ![cur[n].host] = n]
        /\ npc' = [npc EXCEPT ![n] = "fork"]
        /\ UNCHANGED cur
     \/ /\ ~LockFree(n)
        /\ npc' = [npc EXCEPT ![n] = "idle"]
        /\ cur' = [cur EXCEPT ![n] = NoJob]
        /\ UNCHANGED host_to_node_map
  /\ UNCHANGED <<node_info_map, nodeq, hostq, nreg, wreg, job, signaled, stopping,
                 pid_to_host_map, nkeys, child, req, faults, exposed>>

(* Process(target=start).start(): pids grow and are not reused before the  *)
(* container restarts.                                                     *)
AddFork(n) ==
  /\ npc[n] = "fork"
  /\ \E p \in Pids :
       /\ child[n][p].st = "free"
       /\ \A q \in Pids : q < p => child[n][q].st # "free"
       /\ SetChild(n, p, [FreeChild EXCEPT !.st = "boot", !.host = cur[n].host])
       /\ cur' = [cur EXCEPT ![n].pid = p]
  /\ npc' = [npc EXCEPT ![n] = "track"]
  /\ UNCHANGED <<redis, signaled, stopping, pid_to_host_map, nkeys, req, faults, exposed>>

(* The fork fails: hdel the lock again and fail the job.                   *)
AddForkFails(n) ==
  /\ npc[n] = "fork"
  /\ Inject("forkfail")
  /\ host_to_node_map' = Unlock({cur[n].host})
  /\ npc' = [npc EXCEPT ![n] = "idle"]
  /\ cur' = [cur EXCEPT ![n] = NoJob]
  /\ UNCHANGED <<node_info_map, nodeq, hostq, nreg, wreg, job, signaled, stopping,
                 pid_to_host_map, nkeys, child, req, exposed>>

(* Mutant: the new process is not recorded.                                *)
AddTrackForgets(n) ==
  /\ npc[n] = "track"
  /\ npc' = [npc EXCEPT ![n] = "commit"]
  /\ UNCHANGED <<redis, cur, signaled, stopping, pid_to_host_map, nkeys, child,
                 req, faults, exposed>>

(* self._pid_to_host_map[p.pid] = host                                     *)
AddTrack(n) ==
  /\ npc[n] = "track"
  /\ pid_to_host_map' = [pid_to_host_map EXCEPT ![n][cur[n].pid] = cur[n].host]
  /\ npc' = [npc EXCEPT ![n] = "commit"]
  /\ UNCHANGED <<redis, cur, signaled, stopping, nkeys, child, req, faults, exposed>>

(* hset node_info_map with the count computed before the fork.             *)
AddCommit(n) ==
  /\ npc[n] = "commit"
  /\ node_info_map' = [node_info_map EXCEPT ![n] = cur[n].cnt]
  /\ npc' = [npc EXCEPT ![n] = "idle"]
  /\ cur' = [cur EXCEPT ![n] = NoJob]
  /\ UNCHANGED <<host_to_node_map, nodeq, hostq, nreg, wreg, job, signaled, stopping,
                 pid_to_host_map, nkeys, child, req, faults, exposed>>

-----------------------------------------------------------------------------
(* remove: is there a device for the pid?  Mutants: not asked, inverted.   *)
KnownPidUnchecked(n, p) == TRUE
KnownPidInverted(n, p) == pid_to_host_map[n][p] = None

KnownPid(n, p) == pid_to_host_map[n][p] # None

(* sigchld_handler and NodeWorker.remove: may run between any two steps of *)
(* the rq loop.                                                            *)
Sigchld(n, p) ==
  /\ child[n][p].st = "zombie"
  /\ SetChild(n, p, [child[n][p] EXCEPT !.st = "gone"])
  /\ \/ /\ ~signaled[n]
        /\ KnownPid(n, p)
        /\ nodeq' = [nodeq EXCEPT ![n] =
                       Append(@, RemoveJob(p, pid_to_host_map[n][p]))]
     \/ /\ signaled[n] \/ ~KnownPid(n, p)
        /\ UNCHANGED nodeq
  /\ UNCHANGED <<host_to_node_map, node_info_map, hostq, nreg, wreg, job,
                 local, req, faults, exposed>>

(* NodeWorker._remove: pop the pid; unknown pids are ignored, and so is a  *)
(* node without node_info.  The device to unlock is the one in the job.    *)
RemoveTake(n) ==
  /\ Pop(n, "remove")
  /\ LET j == Head(nodeq[n])
         known == pid_to_host_map[n][j.pid] # None IN
       /\ pid_to_host_map' = [pid_to_host_map EXCEPT ![n][j.pid] = None]
       /\ exposed' = IF known /\ pid_to_host_map[n][j.pid] # j.host
                       THEN exposed \cup {j.host} ELSE exposed
       /\ \/ /\ known /\ node_info_map[n] # None
             /\ npc' = [npc EXCEPT ![n] = "rcommit"]
             /\ cur' = [cur EXCEPT ![n] = [host |-> j.host, pid |-> None,
                                           cnt |-> node_info_map[n] - 1]]
          \/ /\ ~known \/ node_info_map[n] = None
             /\ UNCHANGED <<npc, cur>>
  /\ UNCHANGED <<host_to_node_map, node_info_map, hostq, nreg, wreg, job,
                 signaled, stopping, nkeys, child, req, faults>>

(* Mutant: the lower count is not written.                                 *)
RemoveCommitNoCount(n) ==
  /\ npc[n] = "rcommit"
  /\ host_to_node_map' = Unlock({cur[n].host})
  /\ npc' = [npc EXCEPT ![n] = "idle"]
  /\ cur' = [cur EXCEPT ![n] = NoJob]
  /\ UNCHANGED <<node_info_map, nodeq, hostq, nreg, wreg, job, signaled, stopping,
                 pid_to_host_map, nkeys, child, req, faults, exposed>>

(* The pipeline of _remove: unlock the device, write the lower count.      *)
RemoveCommit(n) ==
  /\ npc[n] = "rcommit"
  /\ host_to_node_map' = Unlock({cur[n].host})
  /\ node_info_map' = [node_info_map EXCEPT ![n] = cur[n].cnt]
  /\ npc' = [npc EXCEPT ![n] = "idle"]
  /\ cur' = [cur EXCEPT ![n] = NoJob]
  /\ UNCHANGED <<nodeq, hostq, nreg, wreg, job, signaled, stopping, pid_to_host_map,
                 nkeys, child, req, faults, exposed>>

-----------------------------------------------------------------------------
(* Leaving: signaled_to_exit, cleanup, and the exit of the process.        *)

(* SIGTERM / SIGINT in the loop: rq finishes the running job, then leaves. *)
(* rq's work() installs handlers of its own, so the flag may stay unset    *)
(* until cleanup.                                                          *)
NodeSignal(n) ==
  /\ npc[n] \in InLoop
  /\ ~stopping[n]
  /\ Inject("stop")
  /\ stopping' = [stopping EXCEPT ![n] = TRUE]
  /\ \E flag \in {signaled[n], TRUE} : signaled' = [signaled EXCEPT ![n] = flag]
  /\ UNCHANGED <<redis, npc, cur, pid_to_host_map, nkeys, child, req, exposed>>

(* The same signal before there is an rq worker to stop: only the flag.    *)
NodeSignalEarly(n) ==
  /\ npc[n] \in {"scanned", "reaped", "registered"}
  /\ ~signaled[n]
  /\ Inject("earlystop")
  /\ signaled' = [signaled EXCEPT ![n] = TRUE]
  /\ UNCHANGED <<redis, npc, cur, stopping, pid_to_host_map, nkeys, child, req,
                 exposed>>

(* rq unregisters the worker when its loop ends; then the first half of    *)
(* cleanup: set the flag, and one pipeline drops the locks of the tracked  *)
(* devices and the node's own entry.                                       *)
CleanupMaps(n) ==
  /\ npc[n] = "idle"
  /\ stopping[n]
  /\ signaled' = [signaled EXCEPT ![n] = TRUE]
  /\ LET keys == {pid_to_host_map[n][p] : p \in Tracked(n)} IN
       /\ host_to_node_map' = Unlock(keys)
       /\ nkeys' = [nkeys EXCEPT ![n] = keys]
  /\ node_info_map' = [node_info_map EXCEPT ![n] = None]
  /\ nreg' = [nreg EXCEPT ![n] = "none"]
  /\ npc' = [npc EXCEPT ![n] = "cleaned"]
  /\ UNCHANGED <<nodeq, hostq, wreg, job, cur, stopping, pid_to_host_map,
                 child, req, faults, exposed>>

(* The second half: shutdown commands to the workers of those HostQs.      *)
CleanupWorkers(n) ==
  /\ npc[n] = "cleaned"
  /\ ShutdownWorkers(nkeys[n])
  /\ npc' = [npc EXCEPT ![n] = "exiting"]
  /\ nkeys' = [nkeys EXCEPT ![n] = {}]
  /\ UNCHANGED <<redis, cur, signaled, stopping, pid_to_host_map, req, faults, exposed>>

(* What a process that is gone leaves behind locally: nothing.             *)
ProcessGone(n) ==
  /\ npc' = [npc EXCEPT ![n] = "down"]
  /\ cur' = [cur EXCEPT ![n] = NoJob]
  /\ signaled' = [signaled EXCEPT ![n] = FALSE]
  /\ stopping' = [stopping EXCEPT ![n] = FALSE]
  /\ pid_to_host_map' = [pid_to_host_map EXCEPT ![n] = [p \in Pids |-> None]]
  /\ nkeys' = [nkeys EXCEPT ![n] = {}]
  /\ child' = [child EXCEPT ![n] = [p \in Pids |-> FreeChild]]

(* Python joins its child processes before the interpreter ends.           *)
NodeExit(n) ==
  /\ npc[n] = "exiting"
  /\ \A p \in Pids : ~Live(n, p)
  /\ ProcessGone(n)
  /\ UNCHANGED <<redis, req, faults, exposed>>

(* The container is killed: the node worker is its first process, so the   *)
(* pinned workers die with it and the jobs they run are abandoned.         *)
NodeCrash(n) ==
  /\ npc[n] # "down"
  /\ Inject("crash")
  /\ ProcessGone(n)
  /\ job' = [r \in Requests |->
               IF \E p \in Pids : child[n][p].st = "busy" /\ child[n][p].job = r
                 THEN "lost" ELSE job[r]]
  /\ UNCHANGED <<host_to_node_map, node_info_map, nodeq, hostq, nreg, wreg,
                 req, exposed>>

-----------------------------------------------------------------------------
(* rq heartbeats of the node worker (external).                            *)

(* A live worker misses its heartbeat, or catches up again.                *)
NodeLate(n) ==
  /\ npc[n] \in InLoop /\ nreg[n] = "up"
  /\ Inject("late")
  /\ nreg' = [nreg EXCEPT ![n] = "late"]
  /\ UNCHANGED <<host_to_node_map, node_info_map, nodeq, hostq, wreg, job,
                 local, child, req, exposed>>

NodeHeartbeat(n) ==
  /\ npc[n] \in InLoop /\ nreg[n] = "late"
  /\ nreg' = [nreg EXCEPT ![n] = "up"]
  /\ UNCHANGED <<host_to_node_map, node_info_map, nodeq, hostq, wreg, job,
                 local, child, req, faults, exposed>>

(* The registration a killed node worker left grows old, then expires.     *)
NodeExpire(n) ==
  /\ npc[n] = "down" /\ nreg[n] # "none"
  /\ nreg' = [nreg EXCEPT ![n] = IF @ = "up" THEN "late" ELSE "none"]
  /\ UNCHANGED <<host_to_node_map, node_info_map, nodeq, hostq, wreg, job,
                 local, child, req, faults, exposed>>

-----------------------------------------------------------------------------
(* The steps a running node worker takes by itself.                        *)
NodeStep(n) ==
  \/ ListenScan(n) \/ ListenReap(n) \/ ListenRegister(n) \/ ListenBirth(n)
  \/ AddAlreadyPinned(n) \/ AddNodeMissing(n) \/ AddPreempted(n) \/ AddRead(n)
  \/ AddLock(n) \/ AddFork(n) \/ AddTrack(n) \/ AddCommit(n)
  \/ RemoveTake(n) \/ RemoveCommit(n)
  \/ CleanupMaps(n) \/ CleanupWorkers(n) \/ NodeExit(n)
  \/ NodeHeartbeat(n) \/ NodeExpire(n)

NodeFault(n) ==
  \/ NodeSignal(n) \/ NodeSignalEarly(n) \/ NodeCrash(n) \/ NodeLate(n)
  \/ AddForkFails(n)
=============================================================================
