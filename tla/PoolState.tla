---------------------------- MODULE PoolState ----------------------------
(***************************************************************************)
(* The state shared by the controllers (linux_net/services/manager.py) and *)
(* the node workers (linux_net/worker/node.py): the Redis hashes, the rq   *)
(* queues and worker registrations, and what each process keeps for        *)
(* itself.  rq and the operating system are external: they are modelled    *)
(* from how this code uses them.                                           *)
(***************************************************************************)
EXTENDS Integers, Sequences, FiniteSets

CONSTANTS
  Nodes,       \* node workers, one per container (NodeInfo.hostname)
  Hosts,       \* managed devices
  Pids,        \* pids one node-worker incarnation may hand to its children
  Requests,    \* API requests; each dispatches one job
  Target,      \* Target[r]: the device request r is for
  Capacity,    \* g_config.worker.pinned_per_node
  MaxRetries,  \* MAX_RETRIES of dispatch_rpc_job
  Faults,      \* kinds of fault this instance injects
  MaxFaults,   \* bound on the number of injected faults
  ColdStart,   \* TRUE: the node workers still have to start
  None         \* null marker

FaultKinds ==
  {"crash", "stop", "earlystop", "kill", "quit", "late", "forkfail", "early", "ttl"}

ASSUME PoolAssumption ==
  /\ None \notin Nodes \cup Hosts \cup Requests \cup Int
  /\ IsFiniteSet(Pids) /\ Pids \subseteq Nat
  /\ Target \in [Requests -> Hosts]
  /\ Capacity \in Nat \ {0}
  /\ MaxRetries \in Nat
  /\ Faults \subseteq FaultKinds
  /\ MaxFaults \in Nat
  /\ ColdStart \in BOOLEAN

VARIABLES
  \* Redis
  host_to_node_map,  \* device -> the node that holds its lock, or None
  node_info_map,     \* node -> NodeInfo.count, or None when not registered
  nodeq,             \* NodeQ of each node: spawn and remove jobs
  hostq,             \* HostQ of each device: requests
  nreg,              \* rq registration of each node worker
  wreg,              \* rq registration of the pinned worker of a device on a node
  job,               \* what became of each request's job
  \* node worker processes
  npc,               \* where the node worker is in its code
  cur,               \* locals of the NodeQ job it runs
  signaled,          \* NodeWorker.signaled: SIGCHLD is ignored
  stopping,          \* the rq loop leaves after the running job
  pid_to_host_map,   \* NodeWorker._pid_to_host_map
  nkeys,             \* keys_to_delete of listen() and cleanup()
  child,             \* the forked PinnedWorker processes
  \* controller threads
  req,               \* locals of each dispatch_rpc_job call
  \* bookkeeping of the model
  faults,            \* faults injected so far
  exposed            \* devices whose lock somebody but its owner set out to delete

redis == <<host_to_node_map, node_info_map, nodeq, hostq, nreg, wreg, job>>
local == <<npc, cur, signaled, stopping, pid_to_host_map, nkeys>>
vars == <<redis, local, child, req, faults, exposed>>

-----------------------------------------------------------------------------
SpawnJob(h) == [op |-> "spawn", host |-> h, pid |-> None]
RemoveJob(p, h) == [op |-> "remove", host |-> h, pid |-> p]
NodeJobs == [op : {"spawn"}, host : Hosts, pid : {None}]
            \cup [op : {"remove"}, host : Hosts, pid : Pids]

(* A registration is "up" while the heartbeat is fresh, "late" while the   *)
(* rq key exists with an old heartbeat, "none" when there is no key.       *)
RegStates == {"none", "up", "late"}

(* down: no process.  scanned..registered: NodeWorker.listen.  idle: in    *)
(* the rq loop between jobs.  lock..commit: add.  rcommit: _remove.        *)
(* cleaned, exiting: cleanup and the exit of the process.                  *)
NodePCs == {"down", "scanned", "reaped", "registered", "idle", "lock", "fork",
            "track", "commit", "rcommit", "cleaned", "exiting"}
InLoop == {"idle", "lock", "fork", "track", "commit", "rcommit"}

NodeLocals == [host : Hosts \cup {None}, pid : Pids \cup {None}, cnt : Int]
NoJob == [host |-> None, pid |-> None, cnt |-> 0]

Child == [st : {"free", "boot", "idle", "busy", "zombie", "gone"},
          host : Hosts \cup {None}, job : Requests \cup {None}, stop : BOOLEAN]
FreeChild == [st |-> "free", host |-> None, job |-> None, stop |-> FALSE]

ReqPCs == {"new", "lookup", "info", "select", "alive", "scan", "delete",
           "shutdown", "hostq", "launch", "send", "sent", "failed"}
RequestLocals == [pc : ReqPCs, node : Nodes \cup {None}, cnt : Nat,
                  keys : SUBSET Hosts]

JobStates == {"none", "queued", "running", "done", "lost", "expired"}

(* The pids the node worker believes are its running pinned workers.       *)
Tracked(n) == {p \in Pids : pid_to_host_map[n][p] # None}

(* A process that still executes device jobs or is about to.               *)
Live(n, p) == child[n][p].st \in {"boot", "idle", "busy"}
Serving(n, p) == child[n][p].st \in {"idle", "busy"}

(* Manager._check_worker_alive for NodeQ and HostQ.                        *)
NodeAlive(n) == nreg[n] = "up"
HostQueueAlive(h) == \E n \in Nodes : wreg[n][h] = "up"

(* Keys of host_to_node_map whose value is n (an hscan_iter loop).         *)
KeysOf(n) == {h \in Hosts : host_to_node_map[h] = n}

(* hdel host_to_node_map keys.                                             *)
Unlock(keys) ==
  [h \in Hosts |-> IF h \in keys THEN None ELSE host_to_node_map[h]]

(* send_shutdown_command to every worker rq lists for the HostQ of a       *)
(* device in keys: whichever node runs it, and only if it is registered.   *)
ShutdownWorkers(keys) ==
  child' = [n \in Nodes |-> [p \in Pids |->
    LET c == child[n][p] IN
      IF Serving(n, p) /\ c.host \in keys /\ wreg[n][c.host] # "none"
        THEN [c EXCEPT !.stop = TRUE] ELSE c]]

SetChild(n, p, c) == child' = [child EXCEPT ![n][p] = c]

Inject(kind) ==
  /\ kind \in Faults
  /\ faults < MaxFaults
  /\ faults' = faults + 1
=============================================================================
