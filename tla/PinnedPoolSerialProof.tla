----------------------- MODULE PinnedPoolSerialProof -----------------------
(***************************************************************************)
(* Proofs about which processes serve a device, for a pool whose node      *)
(* workers are up and stay up: pinned workers may be killed, told to quit, *)
(* fail to fork or exit at once, and queued jobs may expire, but no node   *)
(* worker crashes, is stopped or misses its heartbeat.                     *)
(***************************************************************************)
EXTENDS PinnedPoolLockProof

(* What may go wrong in such a pool. *)
StayUp == ~ColdStart /\ Faults \subseteq {"kill", "quit", "forkfail", "early", "ttl"}

(* Every node worker is in its loop, registered and known, so that no      *)
(* controller ever sets out to delete a node.                              *)
NodesUp ==
  \A n \in Nodes :
    npc[n] \in InLoop /\ ~stopping[n] /\ nreg[n] = "up" /\ node_info_map[n] # None
NoForcedDelete ==
  \A r \in Requests :
    /\ req[r].pc \notin {"scan", "delete", "shutdown"}
    /\ req[r].pc \in {"info", "alive"} => req[r].node \in Nodes

Calm == NodesUp /\ NoForcedDelete

(* A remove job is about a process that is gone, and about its device: a   *)
(* pid is not handed out twice.                                            *)
RemovesOf(n) ==
  \A k \in DOMAIN nodeq[n] :
    LET j == nodeq[n][k] IN
      j.op = "remove" =>
        /\ child[n][j.pid].st = "gone"
        /\ pid_to_host_map[n][j.pid] \in {None, j.host}
        /\ ~(npc[n] = "track" /\ cur[n].pid = j.pid)

(* A process that runs is tracked, or will be in the next step of add.     *)
LiveOf(n) ==
  \A p \in Pids :
    Live(n, p) =>
      \/ pid_to_host_map[n][p] = child[n][p].host
      \/ npc[n] = "track" /\ cur[n].pid = p /\ cur[n].host = child[n][p].host

SerialInv ==
  /\ Calm
  /\ exposed = {}
  /\ \A n \in Nodes : RemovesOf(n) /\ LiveOf(n)

-----------------------------------------------------------------------------
(* What node workers do in such a pool. *)
Working(n) ==
  \/ AddAlreadyPinned(n) \/ AddPreempted(n) \/ AddRead(n)
  \/ AddLock(n) \/ AddFork(n) \/ AddTrack(n) \/ AddCommit(n) \/ AddForkFails(n)
  \/ RemoveTake(n) \/ RemoveCommit(n)

(* A node worker that is up neither starts nor leaves. *)
LEMMA CalmNode ==
  ASSUME StayUp, Calm, NEW n \in Nodes, NodeStep(n) \/ NodeFault(n)
  PROVE  Working(n)
  <1>1. /\ npc[n] \in InLoop /\ ~stopping[n] /\ nreg[n] = "up" /\ node_info_map[n] # None
    BY DEF Calm, NodesUp
  <1>2. ~(ListenScan(n) \/ ListenReap(n) \/ ListenRegister(n) \/ ListenBirth(n))
    BY <1>1 DEF ListenScan, ListenReap, ListenRegister, ListenBirth, InLoop
  <1>3. ~(CleanupMaps(n) \/ CleanupWorkers(n) \/ NodeExit(n) \/ AddNodeMissing(n))
    BY <1>1 DEF CleanupMaps, CleanupWorkers, NodeExit, AddNodeMissing, InLoop
  <1>4. ~(NodeHeartbeat(n) \/ NodeExpire(n))
    BY <1>1 DEF NodeHeartbeat, NodeExpire, InLoop
  <1>5. ~(NodeSignal(n) \/ NodeSignalEarly(n) \/ NodeCrash(n) \/ NodeLate(n))
    BY DEF NodeSignal, NodeSignalEarly, NodeCrash, NodeLate, Inject, StayUp
  <1>6. QED
    BY <1>2, <1>3, <1>4, <1>5 DEF NodeStep, NodeFault, Working

(* Controllers find every node alive. *)
LEMMA CalmRequest ==
  ASSUME Calm, NEW r \in Requests
  PROVE  ~ForceScan(r) /\ ~ForceDelete(r) /\ ~ForceShutdown(r)
  BY DEF Calm, NoForcedDelete, ForceScan, ForceDelete, ForceShutdown

(* What the pool's steps are, then. *)
LEMMA CalmSteps ==
  ASSUME StayUp, Calm, [Next]_vars
  PROVE  \/ \E n \in Nodes : Working(n)
         \/ \E n \in Nodes, p \in Pids : Sigchld(n, p) \/ ChildStep(n, p) \/ ChildFault(n, p)
         \/ \E n \in Nodes, h \in Hosts : WorkerExpire(n, h)
         \/ \E r \in Requests : Arrive(r) \/ RequestStep(r)
         \/ UNCHANGED vars
  BY CalmNode DEF Next, Rest

(* The state of the node workers that others read. *)
LEMMA NodesStayUp ==
  ASSUME TypeInv, StayUp, Calm, [Next]_vars
  PROVE  NodesUp'
  <1>1. /\ npc \in [Nodes -> NodePCs] /\ cur \in [Nodes -> NodeLocals]
        /\ node_info_map \in [Nodes -> Int \cup {None}]
    BY DEF TypeInv, TypeOK, NodeTypeOK, RedisTypeOK
  <1>2. ASSUME NEW n \in Nodes, Working(n) PROVE NodesUp'
    <2>1. UNCHANGED <<nreg, stopping>>
      BY <1>2 DEF Working, AddAlreadyPinned, AddPreempted, AddRead, AddLock, AddFork,
         AddTrack, AddCommit, AddForkFails, RemoveTake, RemoveCommit, local, redis
    <2>2. \A m \in Nodes : npc'[m] \in InLoop
      <3>1. \A m \in Nodes : npc[m] \in InLoop
        BY DEF Calm, NodesUp
      <3>2. \/ UNCHANGED npc
            \/ \E pc \in InLoop : npc' = [npc EXCEPT ![n] = pc]
        BY <1>2 DEF Working, AddAlreadyPinned, AddPreempted, AddRead, AddLock, AddFork,
           AddTrack, AddCommit, AddForkFails, RemoveTake, RemoveCommit, local, InLoop
      <3>3. QED
        BY <1>1, <3>1, <3>2
    <2>3. \A m \in Nodes : node_info_map'[m] # None
      <3>1. \A m \in Nodes : node_info_map[m] # None
        BY DEF Calm, NodesUp
      <3>2. \/ UNCHANGED node_info_map
            \/ node_info_map' = [node_info_map EXCEPT ![n] = cur[n].cnt]
        BY <1>2 DEF Working, AddAlreadyPinned, AddPreempted, AddRead, AddLock, AddFork,
           AddTrack, AddCommit, AddForkFails, RemoveTake, RemoveCommit, redis
      <3>3. cur[n].cnt # None
        BY <1>1, PoolAssumption DEF NodeLocals
      <3>4. QED
        BY <1>1, <3>1, <3>2, <3>3
    <2>4. QED
      BY <2>1, <2>2, <2>3 DEF Calm, NodesUp
  <1>3. ASSUME NEW n \in Nodes, NEW p \in Pids,
               Sigchld(n, p) \/ ChildStep(n, p) \/ ChildFault(n, p)
        PROVE  UNCHANGED <<npc, stopping, nreg, node_info_map>>
    BY <1>3 DEF Sigchld, ChildStep, ChildFault, Boot, TakeJob, SkipExpired, FinishJob,
       Leave, Quit, Killed, redis, local
  <1>4. ASSUME NEW r \in Requests, Arrive(r) \/ RequestStep(r)
        PROVE  UNCHANGED <<npc, stopping, nreg, node_info_map>>
    BY <1>4, CalmRequest DEF Arrive, RequestStep, Lookup, LookupInfo, Select, CheckNode,
       CheckHostQueue, Launch, Send, JobExpire, redis, local
  <1>5. ASSUME NEW n \in Nodes, NEW h \in Hosts, WorkerExpire(n, h)
        PROVE  UNCHANGED <<npc, stopping, nreg, node_info_map>>
    BY <1>5 DEF WorkerExpire, local
  <1>6. UNCHANGED vars => UNCHANGED <<npc, stopping, nreg, node_info_map>>
    BY DEF vars, local, redis
  <1>7. QED
    BY <1>2, <1>3, <1>4, <1>5, <1>6, CalmSteps DEF Calm, NodesUp

(* No controller sets out to delete a node. *)
LEMMA NoDeleteStays ==
  ASSUME TypeInv, StayUp, Calm, [Next]_vars
  PROVE  NoForcedDelete'
  <1>1. /\ req \in [Requests -> RequestLocals] /\ NoForcedDelete
        /\ host_to_node_map \in [Hosts -> Nodes \cup {None}]
    BY DEF TypeInv, TypeOK, RedisTypeOK, Calm
  <1>2. ASSUME NEW r \in Requests, NEW l, req' = [req EXCEPT ![r] = l],
               l.pc \notin {"scan", "delete", "shutdown"},
               l.pc \in {"info", "alive"} => l.node \in Nodes
        PROVE  NoForcedDelete'
    BY <1>1, <1>2 DEF NoForcedDelete
  <1>3. ASSUME NEW r \in Requests, Arrive(r) \/ RequestStep(r), ~UNCHANGED req
        PROVE  NoForcedDelete'
    <2>1. req[r] \in RequestLocals /\ (NodeAlive(req[r].node) \/ req[r].pc # "alive")
      BY <1>1 DEF Calm, NodesUp, NoForcedDelete, NodeAlive
    <2>2. Again(r) \in {"lookup", "failed"}
      BY DEF Again
    <2>3. ASSUME NEW pc, Goto(r, pc), pc \notin {"scan", "delete", "shutdown"},
                 pc \in {"info", "alive"} => req[r].node \in Nodes
          PROVE  NoForcedDelete'
      <3> DEFINE l == [req[r] EXCEPT !.pc = pc]
      <3>1. req' = [req EXCEPT ![r] = l]
        BY <2>3 DEF Goto, SetRequest
      <3>2. l.pc = pc /\ l.node = req[r].node
        BY <1>1 DEF RequestLocals
      <3> HIDE DEF l
      <3>3. QED
        BY <1>2, <2>3, <3>1, <3>2
    <2>4. CASE Arrive(r)
      BY <2>3, <2>4 DEF Arrive
    <2>5. CASE Lookup(r)
      <3> DEFINE n == host_to_node_map[Target[r]]
                 pc == IF n = None THEN "select" ELSE "info"
                 l == [req[r] EXCEPT !.pc = pc, !.node = n, !.cnt = @ + 1]
      <3>1. req' = [req EXCEPT ![r] = l]
        BY <2>5 DEF Lookup, SetRequest
      <3>2. n \in Nodes \cup {None}
        BY <1>1, PoolAssumption
      <3>3. l.pc = pc /\ l.node = n
        BY <1>1 DEF RequestLocals
      <3>4. pc \in {"select", "info"} /\ (pc = "info" => n \in Nodes)
        BY <3>2
      <3> HIDE DEF n, pc, l
      <3>5. QED
        BY <1>2, <3>1, <3>3, <3>4
    <2>6. CASE LookupInfo(r)
      <3>1. CASE Goto(r, "alive")
        <4>1. req[r].node \in Nodes
          BY <1>1, <2>6 DEF LookupInfo, NoForcedDelete
        <4>2. QED
          BY <2>3, <3>1, <4>1
      <3>2. CASE SetRequest(r, [req[r] EXCEPT !.pc = "select", !.node = None])
        <4>1. [req[r] EXCEPT !.pc = "select", !.node = None].pc = "select"
          BY <1>1 DEF RequestLocals
        <4>2. QED
          BY <1>2, <3>2, <4>1 DEF SetRequest
      <3>3. QED
        BY <2>6, <3>1, <3>2 DEF LookupInfo
    <2>7. CASE Select(r)
      <3>1. CASE Goto(r, Again(r))
        BY <2>2, <2>3, <3>1
      <3>2. ASSUME NEW n \in Candidates,
                   SetRequest(r, [req[r] EXCEPT !.pc = "alive", !.node = n])
            PROVE  NoForcedDelete'
        <4>1. [req[r] EXCEPT !.pc = "alive", !.node = n].pc = "alive"
              /\ [req[r] EXCEPT !.pc = "alive", !.node = n].node = n /\ n \in Nodes
          BY <1>1 DEF RequestLocals, Candidates
        <4>2. QED
          BY <1>2, <3>2, <4>1 DEF SetRequest
      <3>3. QED
        BY <2>7, <3>1, <3>2 DEF Select
    <2>8. CASE CheckNode(r)
      BY <2>1, <2>3, <2>8 DEF CheckNode
    <2>9. CASE CheckHostQueue(r) \/ Launch(r)
      BY <2>3, <2>9 DEF CheckHostQueue, Launch
    <2>10. CASE Send(r)
      <3>1. [req[r] EXCEPT !.pc = "sent", !.node = None].pc = "sent"
        BY <1>1 DEF RequestLocals
      <3>2. QED
        BY <1>2, <2>10, <3>1 DEF Send, SetRequest
    <2>11. QED
      BY <1>3, <2>4, <2>5, <2>6, <2>7, <2>8, <2>9, <2>10, CalmRequest
         DEF RequestStep, JobExpire
  <1>4. ASSUME NEW n \in Nodes, Working(n) PROVE UNCHANGED req
    BY <1>4 DEF Working, AddAlreadyPinned, AddPreempted, AddRead, AddLock, AddFork,
       AddTrack, AddCommit, AddForkFails, RemoveTake, RemoveCommit
  <1>5. UNCHANGED req => NoForcedDelete'
    BY <1>1 DEF NoForcedDelete
  <1>6. QED
    BY <1>3, <1>4, <1>5, CalmSteps, WorkersKeepRequests DEF vars

-----------------------------------------------------------------------------
(* The steps of processes. *)

(* A process that runs has been forked before, or is forked now; one that  *)
(* is gone stays gone.                                                     *)
LEMMA ChildFlow ==
  ASSUME TypeInv, StayUp, Calm, [Next]_vars, NEW n \in Nodes, NEW p \in Pids
  PROVE  /\ Live(n, p)' =>
              \/ Live(n, p) /\ child'[n][p].host = child[n][p].host
              \/ /\ AddFork(n) /\ child[n][p].st = "free" /\ cur'[n].pid = p
                 /\ child'[n][p].host = cur[n].host /\ cur'[n].host = cur[n].host
                 /\ npc'[n] = "track"
         /\ child[n][p].st = "gone" => child'[n][p].st = "gone"
  <1>1. /\ child \in [Nodes -> [Pids -> Child]] /\ cur \in [Nodes -> NodeLocals]
        /\ npc \in [Nodes -> NodePCs]
    BY DEF TypeInv, TypeOK, NodeTypeOK
  <1> DEFINE Kept == /\ Live(n, p)' => Live(n, p) /\ child'[n][p].host = child[n][p].host
                     /\ child[n][p].st = "gone" => child'[n][p].st = "gone"
  <1>2. ASSUME UNCHANGED child PROVE Kept
    BY <1>2 DEF Live
  <1>3. ASSUME NEW m \in Nodes, NEW q \in Pids, NEW c, SetChild(m, q, c),
               c.st \in {"boot", "idle", "busy"} =>
                 child[m][q].st \in {"boot", "idle", "busy"} /\ c.host = child[m][q].host,
               child[m][q].st = "gone" => c.st = "gone"
        PROVE  Kept
    <2>1. CASE m = n /\ q = p
      <3>1. child'[n][p] = c
        BY <1>1, <1>3, <2>1 DEF SetChild
      <3>2. QED
        BY <1>3, <2>1, <3>1 DEF Live
    <2>2. CASE ~(m = n /\ q = p)
      <3>1. child'[n][p] = child[n][p]
        BY <1>1, <1>3, <2>2 DEF SetChild
      <3>2. QED
        BY <3>1 DEF Live
    <2>3. QED
      BY <2>1, <2>2
  <1>4. ASSUME NEW m \in Nodes, NEW q \in Pids PROVE child[m][q] \in Child
    BY <1>1
  <1> HIDE DEF Kept
  <1>5. ASSUME NEW m \in Nodes, NEW q \in Pids,
               Sigchld(m, q) \/ ChildStep(m, q) \/ ChildFault(m, q)
        PROVE  Kept
    <2> DEFINE c == child[m][q]
    <2>1. ASSUME NEW d, SetChild(m, q, d), c.st # "gone", d.st \in {"zombie", "gone"}
          PROVE  Kept
      BY <1>3, <2>1
    <2>2. ASSUME NEW d, SetChild(m, q, d), Live(m, q), d.host = c.host, d.st # "free"
          PROVE  Kept
      BY <1>3, <2>2 DEF Live
    <2>3. CASE Sigchld(m, q)
      <3> DEFINE d == [c EXCEPT !.st = "gone"]
      <3>1. SetChild(m, q, d) /\ c.st # "gone"
        BY <2>3 DEF Sigchld
      <3>2. d.st \in {"zombie", "gone"}
        BY <1>4 DEF Child, FreeChild
      <3> HIDE DEF d
      <3>3. QED
        BY <2>1, <3>1, <3>2
    <2>4. CASE Boot(m, q)
      <3> DEFINE d == [c EXCEPT !.st = "idle"]
                 e == [c EXCEPT !.st = "zombie"]
      <3>1. c.st = "boot" /\ (SetChild(m, q, d) \/ SetChild(m, q, e))
        BY <2>4 DEF Boot
      <3>2. d.host = c.host /\ d.st # "free" /\ Live(m, q) /\ e.st = "zombie"
        BY <1>4, <3>1 DEF Child, Live
      <3> HIDE DEF d, e
      <3>3. QED
        BY <2>1, <2>2, <3>1, <3>2
    <2>5. CASE TakeJob(m, q)
      <3> DEFINE d == [c EXCEPT !.st = "busy", !.job = Head(hostq[c.host])]
      <3>1. SetChild(m, q, d) /\ c.st = "idle"
        BY <2>5 DEF TakeJob
      <3>2. d.host = c.host /\ d.st # "free" /\ Live(m, q)
        BY <1>4, <3>1 DEF Child, Live
      <3> HIDE DEF d
      <3>3. QED
        BY <2>2, <3>1, <3>2
    <2>6. CASE SkipExpired(m, q)
      BY <1>2, <2>6 DEF SkipExpired
    <2>7. CASE FinishJob(m, q)
      <3> DEFINE d == [c EXCEPT !.st = "idle", !.job = None]
      <3>1. SetChild(m, q, d) /\ c.st = "busy"
        BY <2>7 DEF FinishJob
      <3>2. d.host = c.host /\ d.st # "free" /\ Live(m, q)
        BY <1>4, <3>1 DEF Child, Live
      <3> HIDE DEF d
      <3>3. QED
        BY <2>2, <3>1, <3>2
    <2>8. CASE Leave(m, q)
      <3> DEFINE d == [c EXCEPT !.st = "zombie", !.stop = FALSE]
      <3>1. SetChild(m, q, d) /\ c.st # "gone"
        BY <2>8 DEF Leave
      <3>2. d.st \in {"zombie", "gone"}
        BY <1>4 DEF Child, FreeChild
      <3> HIDE DEF d
      <3>3. QED
        BY <2>1, <3>1, <3>2
    <2>9. CASE Quit(m, q)
      <3> DEFINE d == [c EXCEPT !.stop = TRUE]
      <3>1. SetChild(m, q, d) /\ c.st \in {"idle", "busy"}
        BY <2>9 DEF Quit, Serving
      <3>2. d.host = c.host /\ d.st # "free" /\ Live(m, q)
        BY <1>4, <3>1 DEF Child, Live
      <3> HIDE DEF d
      <3>3. QED
        BY <2>2, <3>1, <3>2
    <2>10. CASE Killed(m, q)
      <3> DEFINE d == [FreeChild EXCEPT !.st = "zombie", !.host = c.host]
      <3>1. SetChild(m, q, d) /\ c.st # "gone"
        BY <2>10 DEF Killed, Live
      <3>2. d.st \in {"zombie", "gone"}
        BY <1>4 DEF Child, FreeChild
      <3> HIDE DEF d
      <3>3. QED
        BY <2>1, <3>1, <3>2
    <2>11. QED
      BY <1>5, <2>3, <2>4, <2>5, <2>6, <2>7, <2>8, <2>9, <2>10 DEF ChildStep, ChildFault
  <1>6. ASSUME NEW m \in Nodes, Working(m), ~AddFork(m) PROVE UNCHANGED child
    BY <1>6 DEF Working, AddAlreadyPinned, AddPreempted, AddRead, AddLock,
       AddTrack, AddCommit, AddForkFails, RemoveTake, RemoveCommit
  <1>7. ASSUME NEW m \in Nodes, AddFork(m)
        PROVE  \/ Kept
               \/ /\ m = n /\ child[n][p].st = "free" /\ cur'[n].pid = p
                  /\ child'[n][p].host = cur[n].host /\ cur'[n].host = cur[n].host
                  /\ npc'[n] = "track"
    <2> DEFINE c == [FreeChild EXCEPT !.st = "boot", !.host = cur[m].host]
    <2>1. PICK q \in Pids : /\ child[m][q].st = "free" /\ SetChild(m, q, c)
                            /\ cur' = [cur EXCEPT ![m].pid = q]
      BY <1>7 DEF AddFork
    <2>2. c.host = cur[m].host
      BY DEF FreeChild
    <2> HIDE DEF c
    <2>3. CASE m = n /\ q = p
      <3>1. child'[n][p] = c
        BY <1>1, <2>1, <2>3 DEF SetChild
      <3>2. cur'[n].pid = p /\ cur'[n].host = cur[n].host
        BY <1>1, <2>1, <2>3 DEF NodeLocals
      <3>3. npc'[n] = "track"
        BY <1>1, <1>7, <2>3 DEF AddFork
      <3>4. QED
        BY <2>1, <2>2, <2>3, <3>1, <3>2, <3>3
    <2>4. CASE ~(m = n /\ q = p)
      <3>1. child'[n][p] = child[n][p]
        BY <1>1, <2>1, <2>4 DEF SetChild
      <3>2. QED
        BY <3>1 DEF Live, Kept
    <2>5. QED
      BY <2>3, <2>4
  <1>8. ASSUME NEW r \in Requests, Arrive(r) \/ RequestStep(r) PROVE UNCHANGED child
    BY <1>8, CalmRequest, OthersKeepChildren
  <1>9. UNCHANGED vars => UNCHANGED child
    BY DEF vars
  <1>10. \/ Kept
         \/ /\ AddFork(n) /\ child[n][p].st = "free" /\ cur'[n].pid = p
            /\ child'[n][p].host = cur[n].host /\ cur'[n].host = cur[n].host
            /\ npc'[n] = "track"
    BY <1>2, <1>5, <1>6, <1>7, <1>8, <1>9, CalmSteps, OthersKeepChildren
  <1>11. QED
    BY <1>10 DEF Kept

(* What becomes of NodeQ: the first job is taken, or one is added. *)
LEMMA NodeQueueFlow ==
  ASSUME TypeInv, StayUp, Calm, [Next]_vars, NEW n \in Nodes,
         NEW k \in DOMAIN nodeq'[n]
  PROVE  \/ \E l \in DOMAIN nodeq[n] : nodeq'[n][k] = nodeq[n][l]
         \/ nodeq'[n][k].op = "spawn"
         \/ \E p \in Pids :
              /\ nodeq'[n][k].pid = p /\ nodeq'[n][k].host = pid_to_host_map[n][p]
              /\ child'[n][p].st = "gone" /\ pid_to_host_map[n][p] # None
              /\ UNCHANGED <<pid_to_host_map, npc, cur>>
  <1>1. nodeq \in [Nodes -> Seq(NodeJobs)] /\ child \in [Nodes -> [Pids -> Child]]
    BY DEF TypeInv, TypeOK, RedisTypeOK
  <1>2. nodeq[n] \in Seq(NodeJobs)
    BY <1>1
  <1> DEFINE Goal == \/ \E l \in DOMAIN nodeq[n] : nodeq'[n][k] = nodeq[n][l]
                     \/ nodeq'[n][k].op = "spawn"
                     \/ \E p \in Pids :
                          /\ nodeq'[n][k].pid = p /\ nodeq'[n][k].host = pid_to_host_map[n][p]
                          /\ child'[n][p].st = "gone" /\ pid_to_host_map[n][p] # None
                          /\ UNCHANGED <<pid_to_host_map, npc, cur>>
  <1>3. ASSUME nodeq'[n] = nodeq[n] PROVE Goal
    BY <1>3
  <1>4. ASSUME nodeq'[n] = Tail(nodeq[n]), nodeq[n] # <<>> PROVE Goal
    <2>1. k \in Nat /\ k + 1 \in DOMAIN nodeq[n] /\ nodeq'[n][k] = nodeq[n][k + 1]
      BY <1>2, <1>4, HeadTailProperties, LenProperties
    <2>2. QED
      BY <2>1
  <1>5. ASSUME NEW j \in NodeJobs, nodeq'[n] = Append(nodeq[n], j)
        PROVE  nodeq'[n][k] = j \/ \E l \in DOMAIN nodeq[n] : nodeq'[n][k] = nodeq[n][l]
    BY <1>2, <1>5, AppendProperties, LenProperties
  <1>6. ASSUME NEW m \in Nodes, Working(m) PROVE Goal
    <2>1. \/ UNCHANGED nodeq
          \/ nodeq[m] # <<>> /\ nodeq' = [nodeq EXCEPT ![m] = Tail(@)]
      BY <1>6 DEF Working, AddAlreadyPinned, AddPreempted, AddRead, AddLock, AddFork,
         AddTrack, AddCommit, AddForkFails, RemoveTake, RemoveCommit, Pop, redis
    <2>2. nodeq'[n] = nodeq[n] \/ (nodeq[n] # <<>> /\ nodeq'[n] = Tail(nodeq[n]))
      BY <1>1, <2>1
    <2>3. QED
      BY <1>3, <1>4, <2>2
  <1>7. ASSUME NEW m \in Nodes, NEW p \in Pids, Sigchld(m, p) PROVE Goal
    <2>1. CASE m = n /\ KnownPid(n, p)
               /\ nodeq' = [nodeq EXCEPT ![n] = Append(@, RemoveJob(p, pid_to_host_map[n][p]))]
      <3> DEFINE j == RemoveJob(p, pid_to_host_map[n][p])
      <3>1. pid_to_host_map[n][p] \in Hosts /\ pid_to_host_map[n][p] # None
        BY <2>1 DEF TypeInv, TypeOK, NodeTypeOK, KnownPid
      <3>2. j \in NodeJobs /\ j.pid = p /\ j.host = pid_to_host_map[n][p]
        BY <3>1 DEF RemoveJob, NodeJobs
      <3>3. nodeq'[n] = Append(nodeq[n], j)
        BY <1>1, <2>1
      <3>4. child'[n][p].st = "gone"
        BY <1>1, <1>7, <2>1 DEF Sigchld, SetChild, Child
      <3>5. UNCHANGED <<pid_to_host_map, npc, cur>>
        BY <1>7 DEF Sigchld, local
      <3> HIDE DEF j
      <3>6. QED
        BY <1>5, <3>1, <3>2, <3>3, <3>4, <3>5
    <2>2. CASE m # n \/ UNCHANGED nodeq
      <3>1. nodeq'[n] = nodeq[n]
        BY <1>1, <1>7, <2>2 DEF Sigchld
      <3>2. QED
        BY <1>3, <3>1
    <2>3. QED
      BY <1>7, <2>1, <2>2 DEF Sigchld
  <1>8. ASSUME NEW r \in Requests, Launch(r) PROVE Goal
    <2> DEFINE j == SpawnJob(Target[r])
    <2>1. j \in NodeJobs /\ j.op = "spawn"
      BY PoolAssumption DEF SpawnJob, NodeJobs
    <2>2. nodeq'[n] = nodeq[n] \/ nodeq'[n] = Append(nodeq[n], j)
      BY <1>1, <1>8 DEF Launch
    <2> HIDE DEF j
    <2>3. QED
      BY <1>3, <1>5, <2>1, <2>2
  <1>9. ASSUME NEW r \in Requests, Arrive(r) \/ RequestStep(r), ~Launch(r)
        PROVE  UNCHANGED nodeq
    BY <1>9, CalmRequest DEF Arrive, RequestStep, Lookup, LookupInfo, Select, CheckNode,
       CheckHostQueue, Send, JobExpire, redis
  <1>10. ASSUME NEW m \in Nodes, NEW p \in Pids, ChildStep(m, p) \/ ChildFault(m, p)
         PROVE  UNCHANGED nodeq
    BY <1>10 DEF ChildStep, ChildFault, Boot, TakeJob, SkipExpired, FinishJob,
       Leave, Quit, Killed, redis
  <1>11. ASSUME NEW m \in Nodes, NEW h \in Hosts, WorkerExpire(m, h) PROVE UNCHANGED nodeq
    BY <1>11 DEF WorkerExpire
  <1>12. UNCHANGED vars => UNCHANGED nodeq
    BY DEF vars, redis
  <1>13. QED
    BY <1>3, <1>6, <1>7, <1>8, <1>9, <1>10, <1>11, <1>12, CalmSteps

-----------------------------------------------------------------------------
(* SerialInv is inductive. *)

(* The job that _remove takes. *)
LEMMA Removed ==
  ASSUME TypeInv, SerialInv, NEW n \in Nodes, RemoveTake(n)
  PROVE  LET j == Head(nodeq[n]) IN
           /\ j.pid \in Pids /\ child[n][j.pid].st = "gone"
           /\ pid_to_host_map[n][j.pid] \in {None, j.host}
           /\ pid_to_host_map' = [pid_to_host_map EXCEPT ![n][j.pid] = None]
  <1> DEFINE j == Head(nodeq[n])
  <1>1. nodeq[n] \in Seq(NodeJobs) /\ nodeq[n] # <<>> /\ j.op = "remove"
    BY DEF TypeInv, TypeOK, RedisTypeOK, RemoveTake, Pop
  <1>2. j \in NodeJobs /\ 1 \in DOMAIN nodeq[n] /\ j = nodeq[n][1]
    BY <1>1, HeadTailProperties, LenProperties
  <1>3. j.pid \in Pids
    BY <1>1, <1>2 DEF NodeJobs
  <1>4. RemovesOf(n)
    BY DEF SerialInv
  <1>5. pid_to_host_map' = [pid_to_host_map EXCEPT ![n][j.pid] = None]
    BY DEF RemoveTake
  <1>6. child[n][j.pid].st = "gone" /\ pid_to_host_map[n][j.pid] \in {None, j.host}
    BY <1>1, <1>2, <1>4 DEF RemovesOf
  <1>7. QED
    BY <1>3, <1>5, <1>6

(* Nobody names the device of another. *)
LEMMA NeverExposed ==
  ASSUME TypeInv, StayUp, SerialInv, [Next]_vars
  PROVE  exposed' = {}
  <1>1. exposed = {} /\ Calm
    BY DEF SerialInv
  <1>2. ASSUME NEW n \in Nodes, RemoveTake(n) PROVE UNCHANGED exposed
    BY <1>2, Removed DEF RemoveTake
  <1>3. ASSUME NEW n \in Nodes, Working(n), ~RemoveTake(n) PROVE UNCHANGED exposed
    BY <1>3 DEF Working, AddAlreadyPinned, AddPreempted, AddRead, AddLock, AddFork,
       AddTrack, AddCommit, AddForkFails, RemoveCommit
  <1>4. ASSUME NEW n \in Nodes, NEW p \in Pids,
               Sigchld(n, p) \/ ChildStep(n, p) \/ ChildFault(n, p)
        PROVE  UNCHANGED exposed
    BY <1>4 DEF Sigchld, ChildStep, ChildFault, Boot, TakeJob, SkipExpired, FinishJob,
       Leave, Quit, Killed
  <1>5. ASSUME NEW r \in Requests, Arrive(r) \/ RequestStep(r) PROVE UNCHANGED exposed
    BY <1>1, <1>5, CalmRequest DEF Arrive, RequestStep, Lookup, LookupInfo, Select, CheckNode,
       CheckHostQueue, Launch, Send, JobExpire
  <1>6. ASSUME NEW n \in Nodes, NEW h \in Hosts, WorkerExpire(n, h) PROVE UNCHANGED exposed
    BY <1>6 DEF WorkerExpire
  <1>7. QED
    BY <1>1, <1>2, <1>3, <1>4, <1>5, <1>6, CalmSteps DEF vars

(* How the pid map of a node worker changes. *)
LEMMA MapFlow ==
  ASSUME TypeInv, StayUp, SerialInv, [Next]_vars, NEW n \in Nodes, NEW p \in Pids
  PROVE  \/ pid_to_host_map'[n][p] = pid_to_host_map[n][p]
         \/ /\ AddTrack(n) /\ npc[n] = "track" /\ cur[n].pid = p
            /\ pid_to_host_map'[n][p] = cur[n].host
         \/ child[n][p].st = "gone" /\ pid_to_host_map'[n][p] = None
  <1>1. /\ pid_to_host_map \in [Nodes -> [Pids -> Hosts \cup {None}]] /\ Calm
    BY DEF TypeInv, TypeOK, NodeTypeOK, SerialInv
  <1>2. ASSUME NodeStep(n) \/ NodeFault(n), ProcessGone(n) PROVE FALSE
    <2>1. npc'[n] = "down"
      BY <1>2 DEF ProcessGone, TypeInv, TypeOK, NodeTypeOK
    <2>2. NodesUp'
      BY <1>1, NodesStayUp
    <2>3. QED
      BY <2>1, <2>2 DEF NodesUp, InLoop
  <1>3. CASE AddTrack(n)
    <2>1. /\ npc[n] = "track"
          /\ pid_to_host_map' = [pid_to_host_map EXCEPT ![n][cur[n].pid] = cur[n].host]
      BY <1>3 DEF AddTrack
    <2>2. QED
      BY <1>1, <1>3, <2>1
  <1>4. CASE RemoveTake(n)
    <2> DEFINE j == Head(nodeq[n])
    <2>1. /\ j.pid \in Pids /\ child[n][j.pid].st = "gone"
          /\ pid_to_host_map' = [pid_to_host_map EXCEPT ![n][j.pid] = None]
      BY <1>4, Removed
    <2> HIDE DEF j
    <2>2. QED
      BY <1>1, <2>1
  <1>5. QED
    BY <1>2, <1>3, <1>4, Actor, PidMapWriters

(* When a node worker is at "track". *)
LEMMA TrackFlow ==
  ASSUME TypeInv, [Next]_vars, NEW n \in Nodes
  PROVE  /\ npc'[n] = "track" => AddFork(n) \/ (npc[n] = "track" /\ cur'[n] = cur[n])
         /\ npc[n] = "track" /\ Working(n) => AddTrack(n)
  <1>1. npc'[n] = "track" => AddFork(n) \/ (npc[n] = "track" /\ cur'[n] = cur[n])
    BY Actor, ControlFlow
  <1>2. npc[n] = "track" /\ Working(n) => AddTrack(n)
    BY DEF Working, AddAlreadyPinned, AddPreempted, AddRead, AddLock, AddFork, AddCommit,
       AddForkFails, RemoveTake, RemoveCommit, Pop
  <1>3. QED
    BY <1>1, <1>2

(* Remove jobs stay true. *)
LEMMA RemovesKept ==
  ASSUME LockInv, StayUp, SerialInv, [Next]_vars, NEW n \in Nodes
  PROVE  RemovesOf(n)'
  <1>1. TypeInv /\ Calm /\ FreshOf(n) /\ RemovesOf(n)
    BY DEF LockInv, SerialInv, FreshPids
  <1> SUFFICES ASSUME NEW k \in DOMAIN nodeq'[n], nodeq'[n][k].op = "remove"
               PROVE  /\ child'[n][nodeq'[n][k].pid].st = "gone"
                      /\ pid_to_host_map'[n][nodeq'[n][k].pid] \in {None, nodeq'[n][k].host}
                      /\ ~(npc'[n] = "track" /\ cur'[n].pid = nodeq'[n][k].pid)
    BY DEF RemovesOf
  <1>2. ASSUME NEW p \in Pids, nodeq'[n][k].pid = p,
               nodeq'[n][k].host = pid_to_host_map[n][p],
               child'[n][p].st = "gone", pid_to_host_map[n][p] # None,
               UNCHANGED <<pid_to_host_map, npc, cur>>
        PROVE  /\ child'[n][nodeq'[n][k].pid].st = "gone"
               /\ pid_to_host_map'[n][nodeq'[n][k].pid] \in {None, nodeq'[n][k].host}
               /\ ~(npc'[n] = "track" /\ cur'[n].pid = nodeq'[n][k].pid)
    <2>1. ~(npc[n] = "track" /\ cur[n].pid = p)
      BY <1>1, <1>2 DEF FreshOf
    <2>2. QED
      BY <1>2, <2>1
  <1>3. ASSUME NEW l \in DOMAIN nodeq[n], nodeq'[n][k] = nodeq[n][l]
        PROVE  /\ child'[n][nodeq'[n][k].pid].st = "gone"
               /\ pid_to_host_map'[n][nodeq'[n][k].pid] \in {None, nodeq'[n][k].host}
               /\ ~(npc'[n] = "track" /\ cur'[n].pid = nodeq'[n][k].pid)
    <2> DEFINE j == nodeq[n][l]
    <2>1. j \in NodeJobs /\ j.op = "remove"
      <3>1. nodeq[n] \in Seq(NodeJobs)
        BY <1>1 DEF TypeInv, TypeOK, RedisTypeOK
      <3>2. QED
        BY <1>3, <3>1, LenProperties
    <2>2. j.pid \in Pids
      BY <2>1 DEF NodeJobs
    <2>3. /\ child[n][j.pid].st = "gone"
          /\ pid_to_host_map[n][j.pid] \in {None, j.host}
          /\ ~(npc[n] = "track" /\ cur[n].pid = j.pid)
      BY <1>1, <1>3, <2>1 DEF RemovesOf
    <2> HIDE DEF j
    <2>4. child'[n][j.pid].st = "gone"
      BY <1>1, <2>2, <2>3, ChildFlow
    <2>5. pid_to_host_map'[n][j.pid] \in {None, j.host}
      BY <1>1, <2>2, <2>3, MapFlow
    <2>6. ~(npc'[n] = "track" /\ cur'[n].pid = j.pid)
      <3>1. ASSUME AddFork(n) PROVE cur'[n].pid # j.pid
        <4>1. PICK p \in Pids : child[n][p].st = "free" /\ cur' = [cur EXCEPT ![n].pid = p]
          BY <3>1 DEF AddFork
        <4>2. cur'[n].pid = p
          BY <1>1, <4>1 DEF TypeInv, TypeOK, NodeTypeOK, NodeLocals
        <4>3. QED
          BY <2>3, <4>1, <4>2
      <3>2. QED
        BY <1>1, <2>3, <3>1, TrackFlow
    <2>7. QED
      BY <1>3, <2>4, <2>5, <2>6 DEF j
  <1>4. QED
    BY <1>1, <1>2, <1>3, NodeQueueFlow

(* A process that runs stays tracked. *)
LEMMA LiveKept ==
  ASSUME LockInv, StayUp, SerialInv, [Next]_vars, NEW n \in Nodes
  PROVE  LiveOf(n)'
  <1>1. TypeInv /\ Calm /\ FreshOf(n) /\ LiveOf(n)
    BY DEF LockInv, SerialInv, FreshPids
  <1> SUFFICES ASSUME NEW p \in Pids, Live(n, p)'
               PROVE  \/ pid_to_host_map'[n][p] = child'[n][p].host
                      \/ /\ npc'[n] = "track" /\ cur'[n].pid = p
                         /\ cur'[n].host = child'[n][p].host
    BY DEF LiveOf
  <1>2. CASE /\ AddFork(n) /\ cur'[n].pid = p /\ child'[n][p].host = cur[n].host
             /\ cur'[n].host = cur[n].host /\ npc'[n] = "track"
    BY <1>2
  <1>3. CASE Live(n, p) /\ child'[n][p].host = child[n][p].host
    <2>1. child[n][p].st # "gone"
      BY <1>3 DEF Live
    <2>2. CASE pid_to_host_map[n][p] = child[n][p].host
      <3>1. ~(npc[n] = "track" /\ cur[n].pid = p)
        <4>1. child[n][p].host # None
          <5>1. child[n][p] \in GoodChild /\ child[n][p].st # "free"
            BY <1>1, <1>3 DEF TypeInv, ChildOK, Live
          <5>2. QED
            BY <5>1, PoolAssumption DEF GoodChild
        <4>2. QED
          BY <1>1, <2>2, <4>1 DEF FreshOf
      <3>2. QED
        BY <1>1, <1>3, <2>1, <2>2, <3>1, MapFlow
    <2>3. CASE npc[n] = "track" /\ cur[n].pid = p /\ cur[n].host = child[n][p].host
      <3>1. CASE AddTrack(n)
        <4>1. pid_to_host_map'[n][p] = cur[n].host
          BY <2>3, <3>1 DEF AddTrack, LockInv, TypeInv, TypeOK, NodeTypeOK
        <4>2. QED
          BY <1>3, <2>3, <4>1
      <3>2. CASE ~AddTrack(n)
        <4>1. npc'[n] = npc[n] /\ cur'[n] = cur[n]
          BY <1>1, <2>3, <3>2, Actor, CalmNode, TrackFlow
        <4>2. QED
          BY <1>3, <2>3, <4>1
      <3>3. QED
        BY <3>1, <3>2
    <2>4. QED
      BY <1>1, <1>3, <2>2, <2>3 DEF LiveOf
  <1>4. QED
    BY <1>1, <1>2, <1>3, ChildFlow

(* The invariant holds of every reachable state of such a pool. *)
LEMMA SerialInvariant == ASSUME StayUp PROVE Spec => []SerialInv
  <1>1. Init => SerialInv
    <2> SUFFICES ASSUME Init PROVE SerialInv
      OBVIOUS
    <2>1. Calm /\ exposed = {}
      BY PoolAssumption DEF Init, StayUp, Calm, NodesUp, NoForcedDelete, InLoop
    <2>2. ASSUME NEW n \in Nodes PROVE DOMAIN nodeq[n] = {}
      BY DEF Init
    <2>3. ASSUME NEW n \in Nodes, NEW p \in Pids PROVE ~Live(n, p)
      BY DEF Init, Live, FreeChild
    <2>4. QED
      BY <2>1, <2>2, <2>3 DEF SerialInv, RemovesOf, LiveOf
  <1>2. LockInv /\ SerialInv /\ [Next]_vars => SerialInv'
    <2> SUFFICES ASSUME LockInv, SerialInv, [Next]_vars PROVE SerialInv'
      OBVIOUS
    <2>1. TypeInv /\ Calm
      BY DEF LockInv, SerialInv
    <2>2. Calm'
      BY <2>1, NodesStayUp, NoDeleteStays DEF Calm
    <2>3. exposed' = {}
      BY <2>1, NeverExposed
    <2>4. QED
      BY <2>2, <2>3, RemovesKept, LiveKept DEF SerialInv
  <1>3. QED
    BY <1>1, <1>2, LockAlways, PTL DEF Spec

(* While the node workers stay up, every pinned worker process that runs   *)
(* is in _pid_to_host_map, or add is about to put it there.                *)
THEOREM LiveChildrenAreTracked == ASSUME StayUp PROVE Spec => []LiveChildTracked
  <1>1. SerialInv => LiveChildTracked
    BY DEF SerialInv, LiveOf, LiveChildTracked
  <1>2. QED
    BY <1>1, SerialInvariant, PTL

(* While the node workers stay up, jobs of a device run one at a time: two *)
(* processes that serve it would both rely on its lock.                    *)
THEOREM DevicesAreServedSerially == ASSUME StayUp PROVE Spec => []SerialPerHost
  <1>1. LockInv /\ SerialInv => SerialPerHost
    <2> SUFFICES ASSUME LockInv, SerialInv, NEW m \in Nodes, NEW n \in Nodes,
                        NEW p \in Pids, NEW q \in Pids,
                        child[m][p].st = "busy", child[n][q].st = "busy",
                        child[m][p].host = child[n][q].host
                 PROVE  m = n /\ p = q
      BY DEF SerialPerHost
    <2> DEFINE h == child[m][p].host
    <2>1. h \in Hosts /\ h # None /\ exposed = {}
      <3>1. child[m][p] \in GoodChild
        BY DEF LockInv, TypeInv, ChildOK
      <3>2. QED
        BY <3>1, PoolAssumption DEF GoodChild, SerialInv
    <2>2. ASSUME NEW i \in Nodes, NEW o \in Pids, child[i][o].st = "busy", child[i][o].host = h
          PROVE  /\ \/ pid_to_host_map[i][o] = h
                    \/ npc[i] = "track" /\ cur[i].pid = o /\ cur[i].host = h
                 /\ host_to_node_map[h] = i
      <3>1. \/ pid_to_host_map[i][o] = h
            \/ npc[i] = "track" /\ cur[i].pid = o /\ cur[i].host = h
        BY <2>2 DEF SerialInv, LiveOf, Live
      <3>2. npc[i] \in InLoop /\ LocksOf(i)
        BY DEF SerialInv, Calm, NodesUp, LockInv, LocksHeld
      <3>3. QED
        BY <2>1, <3>1, <3>2 DEF LocksOf
    <2>3. m = n
      BY <2>2
    <2>4. UniqueOf(n)
      BY DEF LockInv, UniquePids
    <2> HIDE DEF h
    <2>5. QED
      BY <2>1, <2>2, <2>3, <2>4 DEF UniqueOf, Adding, h
  <1>2. QED
    BY <1>1, LockAlways, SerialInvariant, PTL
=============================================================================
