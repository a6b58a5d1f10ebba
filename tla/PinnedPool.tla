---------------------------- MODULE PinnedPool ----------------------------
(***************************************************************************)
(* The pinned-worker pool: node workers, the pinned workers they fork, and *)
(* controller threads that dispatch jobs, interleaved over Redis.          *)
(***************************************************************************)
EXTENDS NodeWorker, PinnedWorker, Dispatcher

Init ==
  /\ host_to_node_map = [h \in Hosts |-> None]
  /\ node_info_map = [n \in Nodes |-> IF ColdStart THEN None ELSE 0]
  /\ nodeq = [n \in Nodes |-> <<>>]
  /\ hostq = [h \in Hosts |-> <<>>]
  /\ nreg = [n \in Nodes |-> IF ColdStart THEN "none" ELSE "up"]
  /\ wreg = [n \in Nodes |-> [h \in Hosts |-> "none"]]
  /\ job = [r \in Requests |-> "none"]
  /\ npc = [n \in Nodes |-> IF ColdStart THEN "down" ELSE "idle"]
  /\ cur = [n \in Nodes |-> NoJob]
  /\ signaled = [n \in Nodes |-> FALSE]
  /\ stopping = [n \in Nodes |-> FALSE]
  /\ pid_to_host_map = [n \in Nodes |-> [p \in Pids |-> None]]
  /\ nkeys = [n \in Nodes |-> {}]
  /\ child = [n \in Nodes |-> [p \in Pids |-> FreeChild]]
  /\ req = [r \in Requests |-> [pc |-> "new", node |-> None, cnt |-> 0, keys |-> {}]]
  /\ faults = 0
  /\ exposed = {}

(* Every request is answered and every process waits for work.  A node     *)
(* worker may also rest at "fork" when the pids of the instance are used   *)
(* up, and at "exiting" while it joins a child that missed its shutdown    *)
(* command.                                                                *)
Rest ==
  /\ \A r \in Requests : req[r].pc \in {"sent", "failed"}
  /\ \A n \in Nodes :
       /\ \/ npc[n] = "idle" /\ ~stopping[n] /\ nodeq[n] = <<>>
          \/ npc[n] = "fork" /\ \A p \in Pids : child[n][p].st # "free"
          \/ npc[n] = "exiting" /\ \E p \in Pids : Live(n, p)
       /\ \A p \in Pids : child[n][p].st \in {"free", "idle", "gone"}
  /\ UNCHANGED vars

Next ==
  \/ \E n \in Nodes : NodeStep(n)
  \/ \E n \in Nodes : NodeFault(n)
  \/ \E n \in Nodes, p \in Pids : Sigchld(n, p)
  \/ \E n \in Nodes, p \in Pids : ChildStep(n, p)
  \/ \E n \in Nodes, p \in Pids : ChildFault(n, p)
  \/ \E n \in Nodes, h \in Hosts : WorkerExpire(n, h)
  \/ \E r \in Requests : Arrive(r)
  \/ \E r \in Requests : RequestStep(r)
  \/ Rest

Spec == Init /\ [][Next]_vars

(* Every process keeps running: the rq loops, the pinned workers, the      *)
(* controller threads, signal delivery and key expiry.  Faults and new     *)
(* requests are not forced.                                                *)
Fairness ==
  /\ \A n \in Nodes : WF_vars(NodeStep(n))
  /\ \A n \in Nodes, p \in Pids : WF_vars(Sigchld(n, p)) /\ WF_vars(ChildStep(n, p))
  /\ \A n \in Nodes, h \in Hosts : WF_vars(WorkerExpire(n, h))
  /\ \A r \in Requests : WF_vars(RequestStep(r))

FairSpec == Spec /\ Fairness

-----------------------------------------------------------------------------
RedisTypeOK ==
  /\ host_to_node_map \in [Hosts -> Nodes \cup {None}]
  /\ node_info_map \in [Nodes -> Int \cup {None}]
  /\ nodeq \in [Nodes -> Seq(NodeJobs)]
  /\ hostq \in [Hosts -> Seq(Requests)]
  /\ nreg \in [Nodes -> RegStates]
  /\ wreg \in [Nodes -> [Hosts -> RegStates]]
  /\ job \in [Requests -> JobStates]

NodeTypeOK ==
  /\ npc \in [Nodes -> NodePCs]
  /\ cur \in [Nodes -> NodeLocals]
  /\ signaled \in [Nodes -> BOOLEAN]
  /\ stopping \in [Nodes -> BOOLEAN]
  /\ pid_to_host_map \in [Nodes -> [Pids -> Hosts \cup {None}]]
  /\ nkeys \in [Nodes -> SUBSET Hosts]

(* Every process, queue and Redis hash holds values of its type.           *)
TypeOK ==
  /\ RedisTypeOK
  /\ NodeTypeOK
  /\ child \in [Nodes -> [Pids -> Child]]
  /\ req \in [Requests -> RequestLocals]
  /\ faults \in Nat
  /\ exposed \in SUBSET Hosts

(* The count a controller reads is the number of pinned workers the node   *)
(* tracks, off by one only while add or _remove is between its two writes. *)
CountMatches ==
  \A n \in Nodes : npc[n] \in InLoop /\ node_info_map[n] # None =>
    node_info_map[n] = Cardinality(Tracked(n)) +
      (CASE npc[n] = "commit" -> -1 [] npc[n] = "rcommit" -> 1 [] OTHER -> 0)

(* No sequence of adds, removes, crashes, restarts and forced deletes      *)
(* makes a node track more pinned workers than pinned_per_node, or drives  *)
(* the count a scheduler reads outside 0..capacity.                        *)
CapacityRespected ==
  \A n \in Nodes :
    /\ Cardinality(Tracked(n)) <= Capacity
    /\ node_info_map[n] # None => node_info_map[n] \in 0..Capacity

(* Unless a restart sweep, a forced delete or a stale remove job named the *)
(* device, a node that tracks a pinned worker for it holds its lock ...    *)
OwnerHoldsLock ==
  \A n \in Nodes, p \in Pids :
    npc[n] \in InLoop /\ pid_to_host_map[n][p] \in Hosts \ exposed =>
      host_to_node_map[pid_to_host_map[n][p]] = n

(* ... so no two nodes, and no two pids of one node, serve it at once.     *)
OneTrackerPerHost ==
  \A m, n \in Nodes, p, q \in Pids :
    /\ npc[m] \in InLoop /\ npc[n] \in InLoop
    /\ pid_to_host_map[m][p] \in Hosts \ exposed
    /\ pid_to_host_map[m][p] = pid_to_host_map[n][q]
    => m = n /\ p = q

(* "we want to execute commands serially on devices": at most one pinned   *)
(* worker runs a job of a device.                                          *)
SerialPerHost ==
  \A m, n \in Nodes, p, q \in Pids :
    /\ child[m][p].st = "busy" /\ child[n][q].st = "busy"
    /\ child[m][p].host = child[n][q].host
    => m = n /\ p = q

(* A process the node worker forked and that still runs is one it tracks:  *)
(* otherwise nobody frees its slot and its device's lock when it ends.     *)
LiveChildTracked ==
  \A n \in Nodes, p \in Pids : npc[n] \in InLoop /\ Live(n, p) =>
    pid_to_host_map[n][p] = child[n][p].host \/ (npc[n] = "track" /\ cur[n].pid = p)

(* A lock passes from one node to another only by way of being free.       *)
NoLockStealing ==
  [][\A h \in Hosts : host_to_node_map[h] # None =>
       host_to_node_map'[h] \in {None, host_to_node_map[h]}]_vars

(* add: a node worker in its loop finds its own node_info; a missing one   *)
(* "Should never happen".                                                  *)
NodeInfoPresent ==
  \A n \in Nodes : npc[n] \in InLoop /\ ~stopping[n] => node_info_map[n] # None

(* dispatch_rpc_job returns or raises: the retry loop ends.                *)
DispatchEnds ==
  \A r \in Requests : req[r].pc = "lookup" ~> req[r].pc \in {"sent", "failed"}

(* A pinned worker that died is forgotten by the node that tracks it, so   *)
(* that its slot and its device's lock come back, unless the node leaves.  *)
DeadChildForgotten ==
  \A n \in Nodes, p \in Pids :
    (child[n][p].st \in {"zombie", "gone"} /\ pid_to_host_map[n][p] # None)
      ~> (pid_to_host_map[n][p] = None \/ npc[n] \notin InLoop)

(* A job handed to a HostQ is eventually run, instead of waiting for ever  *)
(* or expiring in the queue.                                               *)
SentJobServed ==
  \A r \in Requests : job[r] = "queued" ~> job[r] \in {"done", "lost"}
=============================================================================
