---------------------------- MODULE BulkDispatch ----------------------------
(***************************************************************************)
(* One bulk request: the expansion of the devices in the route, and        *)
(* dispatch_bulk_rpc_jobs, while nodes die, restart and take other hosts.  *)
(* The node workers appear with what the dispatch sees of them; PinnedPool *)
(* has the rest.                                                           *)
(***************************************************************************)
EXTENDS Schedulers

CONSTANTS
  Nodes,       \* node workers, numbers in the order of their hostnames
  Hosts,       \* devices
  Batches,     \* requests: the hosts of their devices, in order
  MaxCapacity, \* bound on the capacity of a node
  MaxFaults,   \* bound on what happens to nodes and to Redis meanwhile
  None         \* null marker

ASSUME BulkAssumption ==
  /\ Nodes \subseteq Nat /\ IsFiniteSet(Nodes)
  /\ \A b \in Batches : b \in Seq(Hosts) /\ b # <<>>
  /\ MaxCapacity \in Nat \ {0} /\ MaxFaults \in Nat
  /\ None \notin Nodes /\ None \notin [count : 0..MaxCapacity, cap : 1..MaxCapacity]

VARIABLES
  plugin,  \* the configured scheduler
  info,    \* node_info_map: node -> count and capacity, or None
  alive,   \* nodes whose worker has a fresh heartbeat
  lock,    \* host_to_node_map
  nodeq,   \* spawn jobs this request has sent: <<node, host, group>>
  hostq,   \* indices of the devices whose job has been queued
  d,       \* locals of the dispatch
  faults

vars == <<plugin, info, alive, lock, nodeq, hostq, d, faults>>
pool == <<info, alive, lock>>

NoDispatch ==
  [pc |-> "idle", fifo |-> FALSE, batch |-> <<>>,
   locks |-> <<>>,                      \* host_mappings
   assigned |-> {}, unassigned |-> <<>>,
   snap |-> <<>>, sel |-> <<>>, k |-> 1,
   failed |-> {},                       \* hosts in failed_hosts
   succ |-> {}]

Host(i) == d.batch[i]
Indices == DOMAIN d.batch
UnassignedAt(k) == d.unassigned[k]

Init ==
  /\ plugin \in Plugins
  /\ \E cap \in [Nodes -> 1..MaxCapacity] :
       info \in [Nodes -> {None} \cup [count : 0..MaxCapacity, cap : 1..MaxCapacity]]
       /\ \A n \in Nodes : info[n] # None => info[n].cap = cap[n] /\ info[n].count <= cap[n]
  /\ alive = {n \in Nodes : info[n] # None}
  /\ lock \in [Hosts -> {None} \cup {n \in Nodes : info[n] # None}]
  /\ \A n \in Nodes : info[n] # None => info[n].count >= Cardinality({h \in Hosts : lock[h] = n})
  /\ nodeq = {} /\ hostq = {}
  /\ d = NoDispatch
  /\ faults = 0

-----------------------------------------------------------------------------
(* The route expands the request to one per device, or refuses it: a       *)
(* device with both a command and a configuration, one without a host, or  *)
(* a first device the driver does not accept.                              *)
Receive(b, fifo) ==
  /\ d.pc = "idle"
  /\ d' \in {[NoDispatch EXCEPT !.pc = "refused", !.batch = b],
             [NoDispatch EXCEPT !.pc = IF fifo THEN "fifo" ELSE "locks", !.batch = b,
                                !.fifo = fifo]}
  /\ UNCHANGED <<plugin, pool, nodeq, hostq, faults>>

(* The FIFO strategy: one queue for all, if it has a worker. *)
SendFifo ==
  /\ d.pc = "fifo"
  /\ \/ /\ d' = [d EXCEPT !.pc = "done", !.succ = Indices]
        /\ hostq' = Indices
     \/ d' = [d EXCEPT !.pc = "refused"] /\ UNCHANGED hostq
  /\ UNCHANGED <<plugin, pool, nodeq, faults>>

-----------------------------------------------------------------------------
(* _get_assigned_node_for_host, in two reads. *)
ReadLocks ==
  /\ d.pc = "locks"
  /\ d' = [d EXCEPT !.pc = "info", !.locks = [i \in Indices |-> lock[Host(i)]]]
  /\ UNCHANGED <<plugin, pool, nodeq, hostq, faults>>

(* The loop over the devices lists the others in their order. *)
Ascending(S) == {s \in SetToSeqs(S) : \A i, j \in DOMAIN s : i < j => s[i] < s[j]}

ReadInfo ==
  /\ d.pc = "info"
  /\ LET found == {i \in Indices : d.locks[i] # None /\ info[d.locks[i]] # None}
     IN \E missing \in Ascending(Indices \ found) :
          d' = [d EXCEPT !.pc = IF missing = <<>> THEN "send" ELSE "select",
                         !.assigned = found, !.unassigned = missing]
  /\ UNCHANGED <<plugin, pool, nodeq, hostq, faults>>

(* The handler around the scheduling: every unassigned host has failed. *)
UnassignedHosts == {Host(UnassignedAt(k)) : k \in DOMAIN d.unassigned}
AllFailed == [d EXCEPT !.pc = "send", !.failed = @ \cup UnassignedHosts]

(* get_all_nodes and batch_node_select. *)
Snapshot == [n \in {m \in Nodes : info[m] # None} |-> info[n]]

Select ==
  /\ d.pc = "select"
  /\ LET snap == Snapshot
         h == Len(d.unassigned)
     IN IF TooMany(snap, h) THEN d' = [AllFailed EXCEPT !.snap = snap]
        ELSE \E sel \in BatchNodeSelect(plugin, snap, h, None) :
               d' = [d EXCEPT !.pc = "group", !.snap = snap, !.sel = sel,
                              !.failed = {Host(UnassignedAt(k)) : k \in {j \in 1..h : sel[j] = None}}]
  /\ UNCHANGED <<plugin, pool, nodeq, hostq, faults>>

NextGroup(failed) ==
  [d EXCEPT !.failed = failed, !.k = @ + 1,
            !.pc = IF d.k = Len(d.sel) THEN "send" ELSE "group"]

(* Mutant: the hosts of a dead node are passed over. *)
PassedOver(h) == d.failed
DeadNode(h) == d.failed \cup {h}

(* One group per selected node: its worker is checked, a dead node is      *)
(* deleted (its locks and its entry; the shutdown commands to its pinned   *)
(* workers concern PinnedPool), a live one gets the spawn job.             *)
LaunchGroup ==
  /\ d.pc = "group"
  /\ LET n == d.sel[d.k]
         h == Host(UnassignedAt(d.k))
     IN IF n = None
          THEN /\ d' = NextGroup(d.failed)
               /\ UNCHANGED <<pool, nodeq>>
        ELSE IF n \in alive
          THEN /\ nodeq' = nodeq \cup {<<n, h, d.k>>}
               /\ d' = NextGroup(d.failed)
               /\ UNCHANGED pool
        ELSE /\ lock' = [x \in Hosts |-> IF lock[x] = n THEN None ELSE lock[x]]
             /\ info' = [info EXCEPT ![n] = None]
             /\ d' = NextGroup(DeadNode(h))
             /\ UNCHANGED <<alive, nodeq>>
  /\ UNCHANGED <<plugin, hostq, faults>>

(* Redis fails: within the launch of a group, or around it. *)
LaunchRaises ==
  /\ d.pc = "group" /\ d.sel[d.k] # None /\ faults < MaxFaults
  /\ faults' = faults + 1
  /\ d' \in {NextGroup(d.failed \cup {Host(UnassignedAt(d.k))}), AllFailed}
  /\ UNCHANGED <<plugin, pool, nodeq, hostq>>

(* Mutant: the failed hosts are those the scheduler had no node for. *)
ReadyUnlessDead ==
  d.assigned \cup {UnassignedAt(k) : k \in {j \in DOMAIN d.sel : d.sel[j] # None}}
Ready == d.assigned \cup {i \in Indices \ d.assigned : Host(i) \notin d.failed}

(* One pipeline for all jobs. *)
Send ==
  /\ d.pc = "send"
  /\ hostq' = hostq \cup Ready
  /\ d' = [d EXCEPT !.pc = "done", !.succ = Ready]
  /\ UNCHANGED <<plugin, pool, nodeq, faults>>

(* The pipeline raises, before or after Redis has executed it. *)
SendRaises ==
  /\ d.pc = "send" /\ Ready # {} /\ faults < MaxFaults
  /\ faults' = faults + 1
  /\ hostq' \in {hostq, hostq \cup Ready}
  /\ d' = [d EXCEPT !.pc = "done", !.failed = @ \cup {Host(i) : i \in Ready}]
  /\ UNCHANGED <<plugin, pool, nodeq>>

Step ==
  \/ SendFifo \/ ReadLocks \/ ReadInfo \/ Select
  \/ LaunchGroup \/ LaunchRaises \/ Send \/ SendRaises

-----------------------------------------------------------------------------
(* The pool meanwhile. *)

NodeDies(n) ==
  /\ n \in alive /\ faults < MaxFaults
  /\ faults' = faults + 1
  /\ alive' = alive \ {n}
  /\ UNCHANGED <<plugin, info, lock, nodeq, hostq, d>>

(* A node takes a host for another request. *)
OtherPins(n, h) ==
  /\ n \in alive /\ info[n] # None /\ info[n].count < info[n].cap /\ lock[h] = None
  /\ faults < MaxFaults
  /\ faults' = faults + 1
  /\ lock' = [lock EXCEPT ![h] = n]
  /\ info' = [info EXCEPT ![n].count = @ + 1]
  /\ UNCHANGED <<plugin, alive, nodeq, hostq, d>>

PoolStep == \E n \in Nodes : NodeDies(n) \/ \E h \in Hosts : OtherPins(n, h)

Next ==
  \/ \E b \in Batches, fifo \in BOOLEAN : Receive(b, fifo)
  \/ Step
  \/ PoolStep

Spec == Init /\ [][Next]_vars

-----------------------------------------------------------------------------
(* Properties. *)

(* The shape of the locals of a request, and of what it sees of the pool. *)
TypeOK ==
  /\ plugin \in Plugins
  /\ \A n \in Nodes : info[n] # None => info[n].count \in 0..info[n].cap
  /\ alive \subseteq Nodes
  /\ lock \in [Hosts -> Nodes \cup {None}]
  /\ nodeq \subseteq Nodes \X Hosts \X Nat
  /\ hostq \subseteq Indices
  /\ d.pc \in {"idle", "fifo", "locks", "info", "select", "group", "send", "done", "refused"}
  /\ d.failed \subseteq Hosts /\ d.succ \subseteq Indices
  /\ d.pc = "group" => d.k \in DOMAIN d.sel /\ Len(d.sel) = Len(d.unassigned)
  /\ faults \in 0..MaxFaults

(* The answer accounts for every device, also for one listed twice: its    *)
(* job is reported and queued, or its host is reported as failed.          *)
Accounted ==
  d.pc = "done" =>
    /\ d.succ \subseteq hostq
    /\ \A i \in Indices : (i \in d.succ) <=> (Host(i) \notin d.failed)

(* A job is queued for a host that had no worker only if its worker was    *)
(* asked for, on a node that was not known to be dead.                     *)
QueuedIsLaunched ==
  d.pc = "done" /\ ~d.fifo =>
    \A k \in DOMAIN d.unassigned :
      UnassignedAt(k) \in d.succ =>
        \E n \in Nodes : <<n, Host(UnassignedAt(k)), k>> \in nodeq

(* A batch does not ask more of a node than it had room for when the       *)
(* scheduler looked.                                                       *)
WithinSnapshot ==
  \A n \in DOMAIN d.snap : Cardinality({s \in nodeq : s[1] = n}) <= Room(d.snap, n)

(* Where the snapshot had room for all and nothing happened meanwhile,     *)
(* nothing fails.  least_load_random is left out: it leaves the smaller    *)
(* nodes of a load level unused.                                           *)
NoFailureWithoutCause ==
  d.pc = "done" /\ faults = 0 /\ plugin # "least_load_random"
    /\ Len(d.unassigned) <= TotalRoom(d.snap) => d.failed = {}

(* The least_load plugins use a node only when the less loaded ones are    *)
(* used up, as far as the plugin takes them into account.                  *)
LeastLoadedFirst ==
  d.sel # <<>> /\ plugin \in {"least_load", "least_load_random"} =>
    \A m, n \in Available(d.snap) :
      /\ Times(d.sel, m) > 0 /\ d.snap[n].count < d.snap[m].count
      /\ plugin = "least_load" \/ n \in BestOf(d.snap, d.snap[n].count)
      => Times(d.sel, n) >= Room(d.snap, n)
=============================================================================
