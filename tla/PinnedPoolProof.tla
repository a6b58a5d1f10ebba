-------------------------- MODULE PinnedPoolProof --------------------------
(***************************************************************************)
(* Proofs about PinnedPool for any number of nodes, devices, pids,         *)
(* requests and faults.                                                    *)
(***************************************************************************)
EXTENDS PinnedPool, TLAPS, FiniteSetTheorems, SequenceTheorems

(* The node worker is inside add with a lock still to take or to record.   *)
Adding == {"lock", "fork", "track"}

(* A child that exists has a device.                                       *)
GoodChild == {c \in Child : c.st # "free" => c.host \in Hosts}
ChildOK == child \in [Nodes -> [Pids -> GoodChild]]

(* So has the NodeQ job that is being run.                                 *)
NodeShape ==
  \A n \in Nodes :
    npc[n] \in Adding \cup {"commit", "rcommit"} => cur[n].host \in Hosts

TypeInv == TypeOK /\ ChildOK /\ NodeShape

(* A pid that is not handed out yet is not tracked, nor is the one add is  *)
(* about to track; a process that is not in its loop yet tracks nothing.   *)
Starting == {"down", "scanned", "reaped", "registered"}

FreshOf(n) ==
  /\ \A p \in Pids : child[n][p].st = "free" => pid_to_host_map[n][p] = None
  /\ npc[n] = "track" =>
       /\ cur[n].pid \in Pids
       /\ pid_to_host_map[n][cur[n].pid] = None
       /\ child[n][cur[n].pid].st # "free"
  /\ npc[n] \in Starting => \A p \in Pids : pid_to_host_map[n][p] = None

FreshPids == \A n \in Nodes : FreshOf(n)

(* What add and _remove carry between their reads and their writes, and    *)
(* what controllers may read, in terms of the number of tracked pids.      *)
CountInvOf(n, t) ==
  /\ t <= Capacity
  /\ npc[n] \in Adding => cur[n].cnt = t + 1 /\ t < Capacity
  /\ npc[n] = "commit" => cur[n].cnt = t /\ t > 0
  /\ npc[n] = "rcommit" => cur[n].cnt = t /\ t < Capacity
  /\ node_info_map[n] # None =>
       /\ node_info_map[n] \in 0..Capacity
       /\ npc[n] \in Adding \cup {"idle"} => node_info_map[n] = t
       /\ npc[n] = "registered" => node_info_map[n] = 0
       /\ npc[n] = "commit" => node_info_map[n] = t - 1
       /\ npc[n] = "rcommit" => node_info_map[n] = t + 1

CountInv == \A n \in Nodes : CountInvOf(n, Cardinality(Tracked(n)))

-----------------------------------------------------------------------------
(* Writing one entry of child or of req keeps the type if the entry has it.*)
LEMMA SetChildType ==
  ASSUME NEW n \in Nodes, NEW p \in Pids, NEW c \in GoodChild,
         ChildOK, SetChild(n, p, c)
  PROVE  ChildOK'
  BY DEF SetChild, ChildOK

LEMMA SetRequestType ==
  ASSUME NEW r \in Requests, NEW c \in RequestLocals,
         req \in [Requests -> RequestLocals], SetRequest(r, c)
  PROVE  req' \in [Requests -> RequestLocals]
  BY DEF SetRequest

(* A shutdown command changes nothing but the stop flags.                  *)
LEMMA ShutdownKeeps ==
  ASSUME NEW keys, ChildOK, ShutdownWorkers(keys)
  PROVE  /\ ChildOK'
         /\ \A n \in Nodes, p \in Pids : child'[n][p].st = child[n][p].st
  <1> DEFINE Sent(n, p) == Serving(n, p) /\ child[n][p].host \in keys
                             /\ wreg[n][child[n][p].host] # "none"
  <1>1. ASSUME NEW n \in Nodes, NEW p \in Pids
        PROVE  child'[n][p] = IF Sent(n, p) THEN [child[n][p] EXCEPT !.stop = TRUE]
                                            ELSE child[n][p]
    BY DEF ShutdownWorkers
  <1>2. ASSUME NEW n \in Nodes, NEW p \in Pids
        PROVE  /\ [child[n][p] EXCEPT !.stop = TRUE] \in GoodChild
               /\ [child[n][p] EXCEPT !.stop = TRUE].st = child[n][p].st
    <2>1. child[n][p] \in GoodChild
      BY DEF ChildOK
    <2>2. QED
      BY <2>1 DEF GoodChild, Child
  <1>3. child' = [n \in Nodes |-> [p \in Pids |-> child'[n][p]]]
    BY DEF ShutdownWorkers
  <1> HIDE DEF Sent
  <1>4. ASSUME NEW n \in Nodes, NEW p \in Pids
        PROVE  child'[n][p] \in GoodChild /\ child'[n][p].st = child[n][p].st
    BY <1>1, <1>2 DEF ChildOK
  <1>5. QED
    BY <1>3, <1>4 DEF ChildOK

(* Only controller threads touch their own locals.                         *)
LEMMA WorkersKeepRequests ==
  /\ \A n \in Nodes : NodeStep(n) \/ NodeFault(n) => UNCHANGED req
  /\ \A n \in Nodes, p \in Pids :
       Sigchld(n, p) \/ ChildStep(n, p) \/ ChildFault(n, p) => UNCHANGED req
  /\ \A n \in Nodes, h \in Hosts : WorkerExpire(n, h) => UNCHANGED req
  <1>1. ASSUME NEW n \in Nodes, NodeStep(n) PROVE UNCHANGED req
    BY <1>1 DEF NodeStep, ListenScan, ListenReap, ListenRegister, ListenBirth,
       AddAlreadyPinned, AddNodeMissing, AddPreempted, AddRead, AddLock, AddFork,
       AddTrack, AddCommit, RemoveTake, RemoveCommit, CleanupMaps,
       CleanupWorkers, NodeExit, NodeHeartbeat, NodeExpire
  <1>2. ASSUME NEW n \in Nodes, NodeFault(n) PROVE UNCHANGED req
    BY <1>2 DEF NodeFault, NodeSignal, NodeSignalEarly, NodeCrash, NodeLate, AddForkFails
  <1>3. ASSUME NEW n \in Nodes, NEW p \in Pids,
               Sigchld(n, p) \/ ChildStep(n, p) \/ ChildFault(n, p)
        PROVE  UNCHANGED req
    BY <1>3 DEF Sigchld, ChildStep, ChildFault, Boot, TakeJob, SkipExpired, FinishJob, Leave,
       Quit, Killed
  <1>4. QED
    BY <1>1, <1>2, <1>3 DEF WorkerExpire

(* Only a node worker writes its own locals.                               *)
LEMMA OthersKeepLocals ==
  /\ \A n \in Nodes, p \in Pids :
       Sigchld(n, p) \/ ChildStep(n, p) \/ ChildFault(n, p) => UNCHANGED local
  /\ \A n \in Nodes, h \in Hosts : WorkerExpire(n, h) => UNCHANGED local
  /\ \A r \in Requests : Arrive(r) \/ RequestStep(r) => UNCHANGED local
  <1>1. ASSUME NEW n \in Nodes, NEW p \in Pids,
               Sigchld(n, p) \/ ChildStep(n, p) \/ ChildFault(n, p)
        PROVE  UNCHANGED local
    BY <1>1 DEF Sigchld, ChildStep, ChildFault, Boot, TakeJob, SkipExpired, FinishJob, Leave,
       Quit, Killed
  <1>2. ASSUME NEW r \in Requests, Arrive(r) \/ RequestStep(r)
        PROVE  UNCHANGED local
    BY <1>2 DEF Arrive, RequestStep, Lookup, LookupInfo, Select, CheckNode,
       ForceScan, ForceDelete, ForceShutdown, CheckHostQueue, Launch, Send, JobExpire
  <1>3. QED
    BY <1>1, <1>2 DEF WorkerExpire

(* Children change by what they do, by fork, by signals and commands.      *)
LEMMA OthersKeepChildren ==
  /\ \A n \in Nodes :
       NodeStep(n) => \/ AddFork(n) \/ CleanupWorkers(n) \/ NodeExit(n)
                      \/ UNCHANGED child
  /\ \A n \in Nodes : NodeFault(n) => NodeCrash(n) \/ UNCHANGED child
  /\ \A n \in Nodes, h \in Hosts : WorkerExpire(n, h) => UNCHANGED child
  /\ \A r \in Requests :
       Arrive(r) \/ RequestStep(r) => ForceShutdown(r) \/ UNCHANGED child
  <1>1. ASSUME NEW n \in Nodes, NodeStep(n)
        PROVE  AddFork(n) \/ CleanupWorkers(n) \/ NodeExit(n) \/ UNCHANGED child
    BY <1>1 DEF NodeStep, ListenScan, ListenReap, ListenRegister, ListenBirth,
       AddAlreadyPinned, AddNodeMissing, AddPreempted, AddRead, AddLock,
       AddTrack, AddCommit, RemoveTake, RemoveCommit, CleanupMaps,
       NodeHeartbeat, NodeExpire
  <1>2. ASSUME NEW n \in Nodes, NodeFault(n) PROVE NodeCrash(n) \/ UNCHANGED child
    BY <1>2 DEF NodeFault, NodeSignal, NodeSignalEarly, NodeLate, AddForkFails
  <1>3. ASSUME NEW r \in Requests, Arrive(r) \/ RequestStep(r)
        PROVE  ForceShutdown(r) \/ UNCHANGED child
    BY <1>3 DEF Arrive, RequestStep, Lookup, LookupInfo, Select, CheckNode,
       ForceScan, ForceDelete, CheckHostQueue, Launch, Send, JobExpire
  <1>4. QED
    BY <1>1, <1>2, <1>3 DEF WorkerExpire

-----------------------------------------------------------------------------
(* Types.                                                                  *)
LEMMA TypeInit == Init => TypeInv
  BY PoolAssumption DEF Init, TypeInv, TypeOK, RedisTypeOK, NodeTypeOK,
     ChildOK, NodeShape, GoodChild, NodePCs, RegStates, JobStates, NoJob,
     NodeLocals, FreeChild, Child, ReqPCs, RequestLocals, Adding

LEMMA RequestType ==
  ASSUME TypeInv, [Next]_vars
  PROVE  req' \in [Requests -> RequestLocals]
  <1>1. req \in [Requests -> RequestLocals]
    BY DEF TypeInv, TypeOK
  <1>2. host_to_node_map \in [Hosts -> Nodes \cup {None}]
    BY DEF TypeInv, TypeOK, RedisTypeOK
  <1>3. ASSUME NEW r \in Requests, NEW pc \in ReqPCs,
               NEW node \in Nodes \cup {None}, NEW keys \in SUBSET Hosts
        PROVE  /\ [req[r] EXCEPT !.pc = pc] \in RequestLocals
               /\ [req[r] EXCEPT !.pc = pc, !.node = node] \in RequestLocals
               /\ [req[r] EXCEPT !.pc = pc, !.keys = keys] \in RequestLocals
               /\ [req[r] EXCEPT !.pc = pc, !.node = node, !.keys = keys]
                    \in RequestLocals
               /\ [req[r] EXCEPT !.pc = pc, !.node = node, !.cnt = req[r].cnt + 1]
                    \in RequestLocals
    <2>1. req[r] \in RequestLocals
      BY <1>1
    <2>2. req[r].cnt + 1 \in Nat
      BY <2>1 DEF RequestLocals
    <2> DEFINE cnt == req[r].cnt + 1
    <2> HIDE DEF cnt
    <2>3. cnt \in Nat
      BY <2>2 DEF cnt
    <2>4. [req[r] EXCEPT !.pc = pc, !.node = node, !.cnt = cnt] \in RequestLocals
      BY <2>1, <2>3 DEF RequestLocals
    <2>5. QED
      BY <2>1, <2>4 DEF RequestLocals, cnt
  <1>4. ASSUME NEW r \in Requests, NEW pc \in ReqPCs, Goto(r, pc)
        PROVE  req' \in [Requests -> RequestLocals]
    BY <1>1, <1>3, <1>4, SetRequestType DEF Goto
  <1>5. ASSUME NEW r \in Requests PROVE Again(r) \in ReqPCs
    BY DEF Again, ReqPCs
  <1>6. ASSUME NEW r \in Requests,
               \/ Arrive(r) \/ CheckNode(r) \/ ForceDelete(r)
               \/ CheckHostQueue(r) \/ Launch(r)
        PROVE  req' \in [Requests -> RequestLocals]
    BY <1>4, <1>6 DEF Arrive, CheckNode, ForceDelete, CheckHostQueue, Launch, ReqPCs
  <1>7. ASSUME NEW r \in Requests, Lookup(r)
        PROVE  req' \in [Requests -> RequestLocals]
    <2> DEFINE node == host_to_node_map[Target[r]]
               pc == IF node = None THEN "select" ELSE "info"
    <2>1. SetRequest(r, [req[r] EXCEPT !.pc = pc, !.node = node, !.cnt = req[r].cnt + 1])
      BY <1>7 DEF Lookup
    <2>2. node \in Nodes \cup {None} /\ pc \in ReqPCs
      BY <1>2, PoolAssumption DEF ReqPCs
    <2>3. [req[r] EXCEPT !.pc = pc, !.node = node, !.cnt = req[r].cnt + 1] \in RequestLocals
      BY <2>2, <1>3
    <2>4. QED
      BY <1>1, <2>1, <2>3, SetRequestType
  <1>8. ASSUME NEW r \in Requests, LookupInfo(r)
        PROVE  req' \in [Requests -> RequestLocals]
    <2>1. "select" \in ReqPCs /\ "alive" \in ReqPCs
      BY DEF ReqPCs
    <2>2. CASE Goto(r, "alive")
      BY <1>4, <2>1, <2>2
    <2>3. CASE SetRequest(r, [req[r] EXCEPT !.pc = "select", !.node = None])
      BY <1>1, <1>3, <2>1, <2>3, SetRequestType
    <2>4. QED
      BY <1>8, <2>2, <2>3 DEF LookupInfo
  <1>9. ASSUME NEW r \in Requests, Select(r)
        PROVE  req' \in [Requests -> RequestLocals]
    <2>1. "alive" \in ReqPCs
      BY DEF ReqPCs
    <2>2. CASE Goto(r, Again(r))
      BY <1>4, <1>5, <2>2
    <2>3. ASSUME NEW n \in Candidates,
                 SetRequest(r, [req[r] EXCEPT !.pc = "alive", !.node = n])
          PROVE  req' \in [Requests -> RequestLocals]
      <3>1. n \in Nodes
        BY DEF Candidates
      <3>2. QED
        BY <1>1, <1>3, <2>1, <2>3, <3>1, SetRequestType
    <2>4. QED
      BY <1>9, <2>2, <2>3 DEF Select
  <1>10. ASSUME NEW r \in Requests, ForceScan(r)
         PROVE  req' \in [Requests -> RequestLocals]
    <2>1. "delete" \in ReqPCs /\ KeysOf(req[r].node) \in SUBSET Hosts
      BY DEF ReqPCs, KeysOf
    <2>2. SetRequest(r, [req[r] EXCEPT !.pc = "delete", !.keys = KeysOf(req[r].node)])
      BY <1>10 DEF ForceScan
    <2>3. QED
      BY <1>1, <1>3, <2>1, <2>2, SetRequestType
  <1>11. ASSUME NEW r \in Requests, ForceShutdown(r)
         PROVE  req' \in [Requests -> RequestLocals]
    <2>1. SetRequest(r, [req[r] EXCEPT !.pc = Again(r), !.node = None, !.keys = {}])
      BY <1>11 DEF ForceShutdown
    <2>2. QED
      BY <1>1, <1>3, <1>5, <2>1, SetRequestType
  <1>12. ASSUME NEW r \in Requests, Send(r)
         PROVE  req' \in [Requests -> RequestLocals]
    <2>1. SetRequest(r, [req[r] EXCEPT !.pc = "sent", !.node = None]) /\ "sent" \in ReqPCs
      BY <1>12 DEF Send, ReqPCs
    <2>2. QED
      BY <1>1, <1>3, <2>1, SetRequestType
  <1>13. ASSUME NEW r \in Requests, Arrive(r) \/ RequestStep(r)
         PROVE  req' \in [Requests -> RequestLocals]
    BY <1>1, <1>6, <1>7, <1>8, <1>9, <1>10, <1>11, <1>12, <1>13
       DEF RequestStep, JobExpire
  <1>14. ASSUME UNCHANGED req
         PROVE  req' \in [Requests -> RequestLocals]
    BY <1>1, <1>14
  <1>15. QED
    BY <1>13, <1>14, WorkersKeepRequests DEF Next, Rest, vars

LEMMA ChildType ==
  ASSUME TypeInv, [Next]_vars
  PROVE  ChildOK'
  <1>1. ChildOK
    BY DEF TypeInv
  <1>2. ASSUME NEW n \in Nodes, NEW p \in Pids PROVE child[n][p] \in GoodChild
    BY <1>1 DEF ChildOK
  <1>3. ASSUME NEW h \in Hosts
        PROVE  /\ [FreeChild EXCEPT !.st = "boot", !.host = h] \in GoodChild
               /\ [FreeChild EXCEPT !.st = "zombie", !.host = h] \in GoodChild
    BY DEF GoodChild, Child, FreeChild
  <1>4. FreeChild \in GoodChild
    BY DEF GoodChild, Child, FreeChild
  <1>5. ASSUME NEW n \in Nodes, ProcessGone(n) PROVE ChildOK'
    BY <1>1, <1>4, <1>5 DEF ProcessGone, ChildOK
  <1>6. ASSUME NEW n \in Nodes, AddFork(n) PROVE ChildOK'
    <2>1. cur[n].host \in Hosts
      BY <1>6 DEF TypeInv, NodeShape, Adding, AddFork
    <2>2. PICK p \in Pids :
            SetChild(n, p, [FreeChild EXCEPT !.st = "boot", !.host = cur[n].host])
      BY <1>6 DEF AddFork
    <2>3. QED
      BY <1>1, <1>3, <2>1, <2>2, SetChildType
  <1>7. ASSUME NEW n \in Nodes, CleanupWorkers(n) PROVE ChildOK'
    BY <1>1, <1>7, ShutdownKeeps DEF CleanupWorkers
  <1>8. ASSUME NEW n \in Nodes, NodeExit(n) \/ NodeCrash(n) PROVE ChildOK'
    BY <1>5, <1>8 DEF NodeExit, NodeCrash
  <1>9. ASSUME NEW r \in Requests, ForceShutdown(r) PROVE ChildOK'
    BY <1>1, <1>9, ShutdownKeeps DEF ForceShutdown
  <1>10. ASSUME NEW n \in Nodes, NEW p \in Pids, child[n][p].st # "free"
         PROVE  /\ [child[n][p] EXCEPT !.st = "gone"] \in GoodChild
                /\ [child[n][p] EXCEPT !.st = "idle"] \in GoodChild
                /\ [child[n][p] EXCEPT !.st = "zombie"] \in GoodChild
                /\ [child[n][p] EXCEPT !.stop = TRUE] \in GoodChild
                /\ [child[n][p] EXCEPT !.st = "idle", !.job = None] \in GoodChild
                /\ [child[n][p] EXCEPT !.st = "zombie", !.stop = FALSE] \in GoodChild
                /\ child[n][p].host \in Hosts
    BY <1>2, <1>10 DEF GoodChild, Child
  <1>11. ASSUME NEW n \in Nodes, NEW p \in Pids, Sigchld(n, p) PROVE ChildOK'
    BY <1>1, <1>10, <1>11, SetChildType DEF Sigchld
  <1>12. ASSUME NEW n \in Nodes, NEW p \in Pids, Boot(n, p) PROVE ChildOK'
    BY <1>1, <1>10, <1>12, SetChildType DEF Boot
  <1>13. ASSUME NEW n \in Nodes, NEW p \in Pids, TakeJob(n, p) PROVE ChildOK'
    <2>1. child[n][p].st # "free"
      BY <1>13 DEF TakeJob
    <2> DEFINE r == Head(hostq[child[n][p].host])
    <2>2. r \in Requests
      <3>1. child[n][p].host \in Hosts
        BY <1>10, <2>1
      <3>2. hostq[child[n][p].host] \in Seq(Requests) /\ hostq[child[n][p].host] # <<>>
        BY <1>13, <3>1 DEF TypeInv, TypeOK, RedisTypeOK, TakeJob
      <3>3. QED
        BY <3>2, HeadTailProperties
    <2>3. SetChild(n, p, [child[n][p] EXCEPT !.st = "busy", !.job = r])
      BY <1>13 DEF TakeJob
    <2> HIDE DEF r
    <2>4. [child[n][p] EXCEPT !.st = "busy", !.job = r] \in GoodChild
      <3>1. child[n][p] \in Child /\ child[n][p].host \in Hosts
        BY <1>2, <1>10, <2>1 DEF GoodChild
      <3>2. QED
        BY <2>2, <3>1 DEF GoodChild, Child
    <2>5. QED
      BY <1>1, <2>3, <2>4, SetChildType
  <1>14. ASSUME NEW n \in Nodes, NEW p \in Pids, FinishJob(n, p) PROVE ChildOK'
    BY <1>1, <1>10, <1>14, SetChildType DEF FinishJob
  <1>15. ASSUME NEW n \in Nodes, NEW p \in Pids, Leave(n, p) PROVE ChildOK'
    BY <1>1, <1>10, <1>15, SetChildType DEF Leave
  <1>16. ASSUME NEW n \in Nodes, NEW p \in Pids, Quit(n, p) PROVE ChildOK'
    BY <1>1, <1>10, <1>16, SetChildType DEF Quit, Serving
  <1>17. ASSUME NEW n \in Nodes, NEW p \in Pids, Killed(n, p) PROVE ChildOK'
    BY <1>1, <1>3, <1>10, <1>17, SetChildType DEF Killed, Live
  <1>18. ASSUME UNCHANGED child PROVE ChildOK'
    BY <1>1, <1>18 DEF ChildOK
  <1>19. ASSUME NEW n \in Nodes, NodeStep(n) \/ NodeFault(n) PROVE ChildOK'
    BY <1>6, <1>7, <1>8, <1>18, <1>19, OthersKeepChildren
  <1>20. ASSUME NEW n \in Nodes, NEW p \in Pids,
                Sigchld(n, p) \/ ChildStep(n, p) \/ ChildFault(n, p)
         PROVE  ChildOK'
    BY <1>11, <1>12, <1>13, <1>14, <1>15, <1>16, <1>17, <1>18, <1>20
       DEF ChildStep, ChildFault, SkipExpired
  <1>21. ASSUME NEW r \in Requests, Arrive(r) \/ RequestStep(r) PROVE ChildOK'
    BY <1>9, <1>18, <1>21, OthersKeepChildren
  <1>22. QED
    BY <1>18, <1>19, <1>20, <1>21, OthersKeepChildren DEF Next, Rest, vars

LEMMA NodeType ==
  ASSUME TypeInv, [Next]_vars
  PROVE  NodeTypeOK' /\ NodeShape'
  <1> DEFINE Goal == NodeTypeOK' /\ NodeShape'
  <1>1. /\ npc \in [Nodes -> NodePCs]
        /\ cur \in [Nodes -> NodeLocals]
        /\ signaled \in [Nodes -> BOOLEAN] /\ stopping \in [Nodes -> BOOLEAN]
        /\ pid_to_host_map \in [Nodes -> [Pids -> Hosts \cup {None}]]
        /\ nkeys \in [Nodes -> SUBSET Hosts]
        /\ NodeShape
    BY DEF TypeInv, TypeOK, NodeTypeOK
  <1>2. NoJob \in NodeLocals
    BY DEF NoJob, NodeLocals
  <1> USE <1>1, <1>2 DEF NodeTypeOK, NodeShape, NodePCs, Adding
  <1>3. ASSUME NEW n \in Nodes, ListenScan(n) PROVE Goal
    BY <1>3 DEF ListenScan, KeysOf
  <1>4. ASSUME NEW n \in Nodes, ListenReap(n) PROVE Goal
    BY <1>4 DEF ListenReap
  <1>5. ASSUME NEW n \in Nodes, ListenRegister(n) PROVE Goal
    BY <1>5 DEF ListenRegister
  <1>6. ASSUME NEW n \in Nodes, ListenBirth(n) PROVE Goal
    BY <1>6 DEF ListenBirth
  <1>7. ASSUME NEW n \in Nodes, AddAlreadyPinned(n) \/ AddPreempted(n) PROVE Goal
    BY <1>7 DEF AddAlreadyPinned, AddPreempted, local
  <1>8. ASSUME NEW n \in Nodes, AddNodeMissing(n) PROVE Goal
    BY <1>8 DEF AddNodeMissing
  <1>9. ASSUME NEW n \in Nodes, AddRead(n) PROVE Goal
    <2>1. Head(nodeq[n]) \in NodeJobs
      BY <1>9, HeadTailProperties DEF TypeInv, TypeOK, RedisTypeOK, AddRead, Pop
    <2>2. node_info_map[n] \in Int
      BY <1>9 DEF TypeInv, TypeOK, RedisTypeOK, AddRead
    <2> DEFINE new == [host |-> Head(nodeq[n]).host, pid |-> None,
                       cnt |-> node_info_map[n] + 1]
    <2>3. new \in NodeLocals /\ new.host \in Hosts
      BY <2>1, <2>2 DEF NodeLocals, NodeJobs
    <2>4. cur' = [cur EXCEPT ![n] = new]
      BY <1>9 DEF AddRead
    <2> HIDE DEF new
    <2>5. QED
      BY <1>9, <2>3, <2>4 DEF AddRead
  <1>10. ASSUME NEW n \in Nodes, AddLock(n) PROVE Goal
    BY <1>10 DEF AddLock
  <1>11. ASSUME NEW n \in Nodes, AddFork(n) PROVE Goal
    <2>1. PICK p \in Pids : cur' = [cur EXCEPT ![n].pid = p]
      BY <1>11 DEF AddFork
    <2> DEFINE new == [cur[n] EXCEPT !.pid = p]
    <2>2. new \in NodeLocals /\ new.host \in Hosts
      BY <1>11 DEF AddFork, NodeLocals
    <2>3. cur' = [cur EXCEPT ![n] = new]
      BY <2>1
    <2> HIDE DEF new
    <2>4. QED
      BY <1>11, <2>2, <2>3 DEF AddFork
  <1>12. ASSUME NEW n \in Nodes, AddTrack(n) PROVE Goal
    <2>1. cur[n].host \in Hosts
      BY <1>12 DEF AddTrack
    <2>2. pid_to_host_map' \in [Nodes -> [Pids -> Hosts \cup {None}]]
      BY <1>12, <2>1 DEF AddTrack
    <2>3. QED
      BY <1>12, <2>2 DEF AddTrack
  <1>13. ASSUME NEW n \in Nodes, AddCommit(n) PROVE Goal
    BY <1>13 DEF AddCommit
  <1>14. ASSUME NEW n \in Nodes, RemoveTake(n) PROVE Goal
    <2> DEFINE j == Head(nodeq[n])
               new == [host |-> j.host, pid |-> None, cnt |-> node_info_map[n] - 1]
    <2>1. j \in NodeJobs
      BY <1>14, HeadTailProperties DEF TypeInv, TypeOK, RedisTypeOK, RemoveTake, Pop
    <2>2. j.host \in Hosts
      BY <2>1 DEF NodeJobs
    <2>3. pid_to_host_map' = [pid_to_host_map EXCEPT ![n][j.pid] = None]
      BY <1>14 DEF RemoveTake
    <2>4. pid_to_host_map' \in [Nodes -> [Pids -> Hosts \cup {None}]]
      BY <2>3
    <2>5. \/ /\ npc' = [npc EXCEPT ![n] = "rcommit"]
             /\ cur' = [cur EXCEPT ![n] = new]
             /\ node_info_map[n] # None
          \/ UNCHANGED <<npc, cur>>
      BY <1>14 DEF RemoveTake
    <2>6. node_info_map[n] # None => new \in NodeLocals /\ new.host = j.host
      BY <2>2 DEF NodeLocals, TypeInv, TypeOK, RedisTypeOK
    <2>7. UNCHANGED <<signaled, stopping, nkeys>>
      BY <1>14 DEF RemoveTake
    <2> HIDE DEF j, new
    <2>8. QED
      BY <2>2, <2>4, <2>5, <2>6, <2>7
  <1>15. ASSUME NEW n \in Nodes, RemoveCommit(n) PROVE Goal
    BY <1>15 DEF RemoveCommit
  <1>16. ASSUME NEW n \in Nodes, CleanupMaps(n) PROVE Goal
    <2>1. {pid_to_host_map[n][p] : p \in Tracked(n)} \in SUBSET Hosts
      BY DEF Tracked
    <2>2. nkeys' \in [Nodes -> SUBSET Hosts]
      BY <1>16, <2>1 DEF CleanupMaps
    <2>3. QED
      BY <1>16, <2>2 DEF CleanupMaps
  <1>17. ASSUME NEW n \in Nodes, CleanupWorkers(n) PROVE Goal
    BY <1>17 DEF CleanupWorkers
  <1>18. ASSUME NEW n \in Nodes, NodeExit(n) \/ NodeCrash(n) PROVE Goal
    <2>1. ProcessGone(n)
      BY <1>18 DEF NodeExit, NodeCrash
    <2>2. QED
      BY <2>1 DEF ProcessGone
  <1>19. ASSUME NEW n \in Nodes, NodeHeartbeat(n) \/ NodeExpire(n) \/ NodeLate(n)
         PROVE  Goal
    BY <1>19 DEF NodeHeartbeat, NodeExpire, NodeLate, local
  <1>20. ASSUME NEW n \in Nodes, NodeSignal(n) \/ NodeSignalEarly(n) PROVE Goal
    BY <1>20 DEF NodeSignal, NodeSignalEarly
  <1>21. ASSUME NEW n \in Nodes, AddForkFails(n) PROVE Goal
    BY <1>21 DEF AddForkFails
  <1>22. ASSUME UNCHANGED local PROVE Goal
    BY <1>22 DEF local
  <1> HIDE DEF Goal
  <1>23. ASSUME NEW n \in Nodes, NodeStep(n) \/ NodeFault(n) PROVE Goal
    BY <1>3, <1>4, <1>5, <1>6, <1>7, <1>8, <1>9, <1>10, <1>11, <1>12, <1>13,
       <1>14, <1>15, <1>16, <1>17, <1>18, <1>19, <1>20, <1>21, <1>23
       DEF NodeStep, NodeFault
  <1>24. Goal
    BY <1>22, <1>23, OthersKeepLocals DEF Next, Rest, vars
  <1>25. QED
    BY <1>24 DEF Goal

LEMMA RedisType ==
  ASSUME TypeInv, [Next]_vars
  PROVE  RedisTypeOK'
  <1> DEFINE Goal == RedisTypeOK'
  <1>1. /\ host_to_node_map \in [Hosts -> Nodes \cup {None}]
        /\ node_info_map \in [Nodes -> Int \cup {None}]
        /\ nodeq \in [Nodes -> Seq(NodeJobs)]
        /\ hostq \in [Hosts -> Seq(Requests)]
        /\ nreg \in [Nodes -> RegStates]
        /\ wreg \in [Nodes -> [Hosts -> RegStates]]
        /\ job \in [Requests -> JobStates]
    BY DEF TypeInv, TypeOK, RedisTypeOK
  <1>2. /\ {"none", "up", "late"} \subseteq RegStates
        /\ {"queued", "running", "done", "lost", "expired"} \subseteq JobStates
    BY DEF RegStates, JobStates
  <1>3. \A keys : Unlock(keys) \in [Hosts -> Nodes \cup {None}]
    BY <1>1 DEF Unlock
  <1>4. \A n \in Nodes : cur[n].cnt \in Int
    BY DEF TypeInv, TypeOK, NodeTypeOK, NodeLocals
  <1>5. \A n \in Nodes : \A op : Pop(n, op) => nodeq' \in [Nodes -> Seq(NodeJobs)]
    BY <1>1, HeadTailProperties DEF Pop
  <1> USE <1>1 DEF RedisTypeOK
  <1>6. ASSUME NEW n \in Nodes, ListenScan(n) PROVE Goal
    BY <1>6 DEF ListenScan, redis
  <1>7. ASSUME NEW n \in Nodes, ListenReap(n) PROVE Goal
    BY <1>2, <1>7 DEF ListenReap
  <1>8. ASSUME NEW n \in Nodes, ListenRegister(n) PROVE Goal
    BY <1>3, <1>8 DEF ListenRegister
  <1>9. ASSUME NEW n \in Nodes, ListenBirth(n) PROVE Goal
    BY <1>2, <1>9 DEF ListenBirth
  <1>10. ASSUME NEW n \in Nodes, AddAlreadyPinned(n) PROVE Goal
    BY <1>5, <1>10 DEF AddAlreadyPinned
  <1>11. ASSUME NEW n \in Nodes, AddNodeMissing(n) PROVE Goal
    BY <1>5, <1>11 DEF AddNodeMissing
  <1>12. ASSUME NEW n \in Nodes, AddPreempted(n) PROVE Goal
    BY <1>5, <1>12 DEF AddPreempted
  <1>13. ASSUME NEW n \in Nodes, AddRead(n) PROVE Goal
    BY <1>5, <1>13 DEF AddRead
  <1>14. ASSUME NEW n \in Nodes, AddLock(n) PROVE Goal
    BY <1>14 DEF AddLock
  <1>15. ASSUME NEW n \in Nodes,
                \/ AddFork(n) \/ AddTrack(n) \/ CleanupWorkers(n) \/ NodeExit(n)
                \/ NodeSignal(n) \/ NodeSignalEarly(n)
         PROVE  Goal
    BY <1>15 DEF AddFork, AddTrack, CleanupWorkers, NodeExit, NodeSignal, NodeSignalEarly, redis
  <1>16. ASSUME NEW n \in Nodes, AddCommit(n) PROVE Goal
    BY <1>4, <1>16 DEF AddCommit
  <1>17. ASSUME NEW n \in Nodes, RemoveTake(n) PROVE Goal
    BY <1>5, <1>17 DEF RemoveTake
  <1>18. ASSUME NEW n \in Nodes, RemoveCommit(n) PROVE Goal
    BY <1>3, <1>4, <1>18 DEF RemoveCommit
  <1>19. ASSUME NEW n \in Nodes, CleanupMaps(n) PROVE Goal
    BY <1>2, <1>3, <1>19 DEF CleanupMaps
  <1>20. ASSUME NEW n \in Nodes, NodeHeartbeat(n) PROVE Goal
    BY <1>2, <1>20 DEF NodeHeartbeat
  <1>21. ASSUME NEW n \in Nodes, NodeExpire(n) PROVE Goal
    BY <1>2, <1>21 DEF NodeExpire
  <1>22. ASSUME NEW n \in Nodes, NodeCrash(n) PROVE Goal
    BY <1>2, <1>22 DEF NodeCrash
  <1>23. ASSUME NEW n \in Nodes, NodeLate(n) PROVE Goal
    BY <1>2, <1>23 DEF NodeLate
  <1>24. ASSUME NEW n \in Nodes, AddForkFails(n) PROVE Goal
    BY <1>3, <1>24 DEF AddForkFails
  <1>25. ASSUME NEW n \in Nodes, NEW p \in Pids, Sigchld(n, p) PROVE Goal
    <2>1. CASE UNCHANGED nodeq
      BY <1>25, <2>1 DEF Sigchld, KnownPid
    <2>2. CASE /\ pid_to_host_map[n][p] # None
               /\ nodeq' = [nodeq EXCEPT ![n] =
                              Append(@, RemoveJob(p, pid_to_host_map[n][p]))]
      <3>1. pid_to_host_map[n][p] \in Hosts
        BY <2>2 DEF TypeInv, TypeOK, NodeTypeOK
      <3>2. RemoveJob(p, pid_to_host_map[n][p]) \in NodeJobs
        BY <3>1 DEF RemoveJob, NodeJobs
      <3>3. nodeq' \in [Nodes -> Seq(NodeJobs)]
        BY <2>2, <3>2, AppendProperties
      <3>4. QED
        BY <1>25, <3>3 DEF Sigchld, KnownPid
    <2>3. QED
      BY <1>25, <2>1, <2>2 DEF Sigchld, KnownPid
  <1>26. ASSUME NEW n \in Nodes, NEW p \in Pids, Boot(n, p) PROVE Goal
    <2>1. \/ wreg' = [wreg EXCEPT ![n][child[n][p].host] = "up"]
          \/ UNCHANGED wreg
      BY <1>26 DEF Boot
    <2>2. wreg' \in [Nodes -> [Hosts -> RegStates]]
      <3>1. CASE wreg' = [wreg EXCEPT ![n][child[n][p].host] = "up"]
        BY <1>2, <3>1
      <3>2. QED
        BY <2>1, <3>1
    <2>3. QED
      BY <1>26, <2>2 DEF Boot
  <1>27. ASSUME NEW n \in Nodes, NEW p \in Pids, TakeJob(n, p) PROVE Goal
    <2>1. child[n][p].host \in Hosts
      BY <1>27 DEF TypeInv, ChildOK, GoodChild, TakeJob
    <2>2. hostq' \in [Hosts -> Seq(Requests)]
      BY <1>27, <2>1, HeadTailProperties DEF TakeJob
    <2>3. job' \in [Requests -> JobStates]
      BY <1>2, <1>27 DEF TakeJob
    <2>4. QED
      BY <1>27, <2>2, <2>3 DEF TakeJob
  <1>28. ASSUME NEW n \in Nodes, NEW p \in Pids, FinishJob(n, p) PROVE Goal
    BY <1>2, <1>28 DEF FinishJob
  <1>29. ASSUME NEW n \in Nodes, NEW p \in Pids, Leave(n, p) PROVE Goal
    <2>1. wreg' \in [Nodes -> [Hosts -> RegStates]]
      BY <1>2, <1>29 DEF Leave
    <2>2. QED
      BY <1>29, <2>1 DEF Leave
  <1>30. ASSUME NEW n \in Nodes, NEW p \in Pids, Quit(n, p) PROVE Goal
    BY <1>30 DEF Quit, redis
  <1>31. ASSUME NEW n \in Nodes, NEW p \in Pids, Killed(n, p) PROVE Goal
    BY <1>2, <1>31 DEF Killed
  <1>32. ASSUME NEW n \in Nodes, NEW h \in Hosts, WorkerExpire(n, h) PROVE Goal
    BY <1>2, <1>32 DEF WorkerExpire
  <1>33. ASSUME NEW r \in Requests,
                \/ Arrive(r) \/ Lookup(r) \/ LookupInfo(r) \/ Select(r)
                \/ CheckNode(r) \/ ForceScan(r) \/ ForceShutdown(r)
                \/ CheckHostQueue(r)
         PROVE  Goal
    BY <1>33 DEF Arrive, Lookup, LookupInfo, Select, CheckNode, ForceScan,
       ForceShutdown, CheckHostQueue, redis
  <1>34. ASSUME NEW r \in Requests, ForceDelete(r) PROVE Goal
    BY <1>3, <1>34 DEF ForceDelete
  <1>35. ASSUME NEW r \in Requests, Launch(r) PROVE Goal
    <2>1. SpawnJob(Target[r]) \in NodeJobs
      BY PoolAssumption DEF SpawnJob, NodeJobs
    <2>2. nodeq' \in [Nodes -> Seq(NodeJobs)]
      BY <1>35, <2>1, AppendProperties DEF Launch
    <2>3. QED
      BY <1>35, <2>2 DEF Launch
  <1>36. ASSUME NEW r \in Requests, Send(r) PROVE Goal
    <2>1. hostq' \in [Hosts -> Seq(Requests)]
      BY <1>36, AppendProperties DEF Send
    <2>2. job' \in [Requests -> JobStates]
      BY <1>2, <1>36 DEF Send
    <2>3. QED
      BY <1>36, <2>1, <2>2 DEF Send
  <1>37. ASSUME NEW n \in Nodes, NEW p \in Pids, SkipExpired(n, p) PROVE Goal
    <2>1. child[n][p].host \in Hosts
      BY <1>37 DEF TypeInv, ChildOK, GoodChild, SkipExpired
    <2>2. hostq' \in [Hosts -> Seq(Requests)]
      BY <1>37, <2>1, HeadTailProperties DEF SkipExpired
    <2>3. QED
      BY <1>37, <2>2 DEF SkipExpired
  <1>38. ASSUME NEW r \in Requests, JobExpire(r) PROVE Goal
    BY <1>2, <1>38 DEF JobExpire
  <1>39. ASSUME UNCHANGED redis PROVE Goal
    BY <1>39 DEF redis
  <1> HIDE DEF Goal
  <1>40. ASSUME NEW n \in Nodes, NodeStep(n) \/ NodeFault(n) PROVE Goal
    BY <1>6, <1>7, <1>8, <1>9, <1>10, <1>11, <1>12, <1>13, <1>14, <1>15, <1>16,
       <1>17, <1>18, <1>19, <1>20, <1>21, <1>22, <1>23, <1>24, <1>40
       DEF NodeStep, NodeFault
  <1>41. ASSUME NEW n \in Nodes, NEW p \in Pids, ChildStep(n, p) \/ ChildFault(n, p)
         PROVE  Goal
    BY <1>26, <1>27, <1>28, <1>29, <1>30, <1>31, <1>41, <1>37
       DEF ChildStep, ChildFault
  <1>42. ASSUME NEW r \in Requests, RequestStep(r) PROVE Goal
    BY <1>33, <1>34, <1>35, <1>36, <1>42, <1>38 DEF RequestStep
  <1>43. Goal
    BY <1>25, <1>32, <1>33, <1>39, <1>40, <1>41, <1>42 DEF Next, Rest, vars
  <1>44. QED
    BY <1>43 DEF Goal

LEMMA GhostType ==
  ASSUME TypeInv, [Next]_vars
  PROVE  /\ faults' \in Nat /\ exposed' \in SUBSET Hosts
         /\ exposed \subseteq exposed'
  <1> DEFINE Goal == /\ faults' \in Nat /\ exposed' \in SUBSET Hosts
                     /\ exposed \subseteq exposed'
  <1>1. faults \in Nat /\ exposed \in SUBSET Hosts
    BY DEF TypeInv, TypeOK
  <1>2. \A n : KeysOf(n) \in SUBSET Hosts
    BY DEF KeysOf
  <1>3. ASSUME NEW n \in Nodes, NodeStep(n), ~RemoveTake(n) PROVE Goal
    BY <1>1, <1>2, <1>3 DEF NodeStep, ListenScan, ListenReap, ListenRegister,
       ListenBirth, AddAlreadyPinned, AddNodeMissing, AddPreempted, AddRead,
       AddLock, AddFork, AddTrack, AddCommit, RemoveCommit, CleanupMaps,
       CleanupWorkers, NodeExit, NodeHeartbeat, NodeExpire
  <1>4. ASSUME NEW n \in Nodes, RemoveTake(n) PROVE Goal
    <2>1. Head(nodeq[n]) \in NodeJobs
      BY <1>4, HeadTailProperties DEF TypeInv, TypeOK, RedisTypeOK, RemoveTake, Pop
    <2>2. Head(nodeq[n]).host \in Hosts
      BY <2>1 DEF NodeJobs
    <2>3. QED
      BY <1>1, <1>4, <2>2 DEF RemoveTake
  <1>5. ASSUME NEW n \in Nodes, NodeFault(n) PROVE Goal
    BY <1>1, <1>5 DEF NodeFault, NodeSignal, NodeSignalEarly, NodeCrash, NodeLate, AddForkFails, Inject
  <1>6. ASSUME NEW n \in Nodes, NEW p \in Pids,
               Sigchld(n, p) \/ ChildStep(n, p) \/ ChildFault(n, p)
        PROVE  Goal
    <2>1. CASE Sigchld(n, p)
      BY <1>1, <2>1 DEF Sigchld
    <2>2. CASE ChildFault(n, p)
      BY <1>1, <2>2 DEF ChildFault, Quit, Killed, Inject
    <2>3. CASE Boot(n, p) \/ Leave(n, p)
      BY <1>1, <2>3 DEF Boot, Leave
    <2>4. CASE TakeJob(n, p) \/ SkipExpired(n, p) \/ FinishJob(n, p)
      BY <1>1, <2>4 DEF TakeJob, SkipExpired, FinishJob
    <2>5. QED
      BY <1>6, <2>1, <2>2, <2>3, <2>4 DEF ChildStep
  <1>7. ASSUME NEW n \in Nodes, NEW h \in Hosts, WorkerExpire(n, h) PROVE Goal
    BY <1>1, <1>7 DEF WorkerExpire
  <1>8. ASSUME NEW r \in Requests, Arrive(r) \/ RequestStep(r) PROVE Goal
    BY <1>1, <1>2, <1>8 DEF Arrive, RequestStep, Lookup, LookupInfo, Select,
       CheckNode, ForceScan, ForceDelete, ForceShutdown, CheckHostQueue, Launch,
       Send, JobExpire
  <1>9. ASSUME UNCHANGED vars PROVE Goal
    BY <1>1, <1>9 DEF vars
  <1> HIDE DEF Goal
  <1>10. Goal
    BY <1>3, <1>4, <1>5, <1>6, <1>7, <1>8, <1>9 DEF Next, Rest
  <1>11. QED
    BY <1>10 DEF Goal

LEMMA TypeNext == TypeInv /\ [Next]_vars => TypeInv'
  <1> SUFFICES ASSUME TypeInv, [Next]_vars PROVE TypeInv'
    OBVIOUS
  <1>1. ChildOK' => child' \in [Nodes -> [Pids -> Child]]
    BY DEF ChildOK, GoodChild
  <1>2. QED
    BY <1>1, RequestType, ChildType, NodeType, RedisType, GhostType
       DEF TypeInv, TypeOK

(* Redis hashes, queues and the locals of every process keep the types the *)
(* code gives them, whatever fails and however the processes interleave.   *)
THEOREM TypeCorrect == Spec => []TypeOK
  <1>1. TypeInv => TypeOK
    BY DEF TypeInv
  <1>2. QED
    BY <1>1, TypeInit, TypeNext, PTL DEF Spec

-----------------------------------------------------------------------------
(* Counting.                                                               *)

(* A step of one node worker leaves the state of the others alone.         *)
LEMMA OtherNodes ==
  ASSUME TypeInv, NEW n \in Nodes, NodeStep(n) \/ NodeFault(n),
         NEW m \in Nodes, m # n
  PROVE  /\ npc'[m] = npc[m] /\ cur'[m] = cur[m] /\ nkeys'[m] = nkeys[m]
         /\ pid_to_host_map'[m] = pid_to_host_map[m]
         /\ node_info_map'[m] = node_info_map[m]
  <1>1. /\ npc \in [Nodes -> NodePCs]
        /\ cur \in [Nodes -> NodeLocals]
        /\ pid_to_host_map \in [Nodes -> [Pids -> Hosts \cup {None}]]
        /\ nkeys \in [Nodes -> SUBSET Hosts]
        /\ node_info_map \in [Nodes -> Int \cup {None}]
    BY DEF TypeInv, TypeOK, NodeTypeOK, RedisTypeOK
  <1>2. CASE ListenScan(n) \/ ListenReap(n) \/ ListenRegister(n) \/ ListenBirth(n)
    BY <1>1, <1>2 DEF ListenScan, ListenReap, ListenRegister, ListenBirth, redis
  <1>3. CASE AddAlreadyPinned(n) \/ AddNodeMissing(n) \/ AddPreempted(n) \/ AddRead(n)
    BY <1>1, <1>3 DEF AddAlreadyPinned, AddNodeMissing, AddPreempted, AddRead, local
  <1>4. CASE \/ AddLock(n) \/ AddFork(n) \/ AddTrack(n) \/ AddCommit(n)
             \/ AddForkFails(n)
    BY <1>1, <1>4 DEF AddLock, AddFork, AddTrack, AddCommit, AddForkFails, redis
  <1>5. CASE RemoveTake(n) \/ RemoveCommit(n)
    BY <1>1, <1>5 DEF RemoveTake, RemoveCommit
  <1>6. CASE CleanupMaps(n) \/ CleanupWorkers(n)
    BY <1>1, <1>6 DEF CleanupMaps, CleanupWorkers, redis
  <1>7. CASE NodeExit(n) \/ NodeCrash(n)
    BY <1>1, <1>7 DEF NodeExit, NodeCrash, ProcessGone, redis
  <1>8. CASE NodeHeartbeat(n) \/ NodeExpire(n) \/ NodeLate(n) \/ NodeSignal(n) \/ NodeSignalEarly(n)
    BY <1>1, <1>8 DEF NodeHeartbeat, NodeExpire, NodeLate, NodeSignal, NodeSignalEarly, local, redis
  <1>9. QED
    BY <1>2, <1>3, <1>4, <1>5, <1>6, <1>7, <1>8 DEF NodeStep, NodeFault

(* A child becomes free only when its node worker's process is gone.       *)
LEMMA FreeStays ==
  ASSUME TypeInv, [Next]_vars, NEW n \in Nodes, NEW p \in Pids,
         child'[n][p].st = "free"
  PROVE  child[n][p].st = "free" \/ ProcessGone(n)
  <1>1. ChildOK
    BY DEF TypeInv
  <1>2. ASSUME NEW m \in Nodes, NEW q \in Pids PROVE child[m][q] \in Child
    BY <1>1 DEF ChildOK, GoodChild
  <1>3. ASSUME NEW m \in Nodes, NEW q \in Pids, NEW c, SetChild(m, q, c), c.st # "free"
        PROVE  child[n][p].st = "free"
    BY <1>1, <1>3 DEF SetChild, ChildOK
  <1>4. ASSUME NEW m \in Nodes, AddFork(m) PROVE child[n][p].st = "free"
    <2>1. PICK q \in Pids :
            SetChild(m, q, [FreeChild EXCEPT !.st = "boot", !.host = cur[m].host])
      BY <1>4 DEF AddFork
    <2>2. [FreeChild EXCEPT !.st = "boot", !.host = cur[m].host].st # "free"
      BY DEF FreeChild
    <2>3. QED
      BY <1>3, <2>1, <2>2
  <1>5. ASSUME NEW m \in Nodes, CleanupWorkers(m) PROVE child[n][p].st = "free"
    BY <1>1, <1>5, ShutdownKeeps DEF CleanupWorkers
  <1>6. ASSUME NEW r \in Requests, ForceShutdown(r) PROVE child[n][p].st = "free"
    BY <1>1, <1>6, ShutdownKeeps DEF ForceShutdown
  <1>7. ASSUME NEW m \in Nodes, NodeExit(m) \/ NodeCrash(m)
        PROVE  child[n][p].st = "free" \/ ProcessGone(n)
    <2>1. ProcessGone(m)
      BY <1>7 DEF NodeExit, NodeCrash
    <2>2. CASE m # n
      BY <1>1, <2>1, <2>2 DEF ProcessGone, ChildOK
    <2>3. QED
      BY <2>1, <2>2
  <1>8. ASSUME NEW m \in Nodes, NEW q \in Pids, child[m][q].st # "free", NEW j
        PROVE  /\ [child[m][q] EXCEPT !.st = "gone"].st # "free"
               /\ [child[m][q] EXCEPT !.st = "idle"].st # "free"
               /\ [child[m][q] EXCEPT !.st = "zombie"].st # "free"
               /\ [child[m][q] EXCEPT !.stop = TRUE].st # "free"
               /\ [child[m][q] EXCEPT !.st = "busy", !.job = j].st # "free"
               /\ [child[m][q] EXCEPT !.st = "idle", !.job = None].st # "free"
               /\ [child[m][q] EXCEPT !.st = "zombie", !.stop = FALSE].st # "free"
               /\ [FreeChild EXCEPT !.st = "zombie", !.host = j].st # "free"
    BY <1>2, <1>8 DEF Child, FreeChild
  <1>9. ASSUME NEW m \in Nodes, NEW q \in Pids,
               Sigchld(m, q) \/ ChildStep(m, q) \/ ChildFault(m, q)
        PROVE  child[n][p].st = "free"
    <2>1. CASE Sigchld(m, q)
      BY <1>3, <1>8, <2>1 DEF Sigchld
    <2>2. CASE Boot(m, q)
      BY <1>3, <1>8, <2>2 DEF Boot
    <2>3. CASE TakeJob(m, q) \/ SkipExpired(m, q)
      BY <1>3, <1>8, <2>3 DEF TakeJob, SkipExpired
    <2>4. CASE FinishJob(m, q)
      BY <1>3, <1>8, <2>4 DEF FinishJob
    <2>5. CASE Leave(m, q)
      BY <1>3, <1>8, <2>5 DEF Leave
    <2>6. CASE Quit(m, q)
      BY <1>3, <1>8, <2>6 DEF Quit, Serving
    <2>7. CASE Killed(m, q)
      BY <1>3, <1>8, <2>7 DEF Killed, Live
    <2>8. QED
      BY <1>9, <2>1, <2>2, <2>3, <2>4, <2>5, <2>6, <2>7 DEF ChildStep, ChildFault
  <1>10. CASE UNCHANGED child
    BY <1>10
  <1>11. QED
    BY <1>4, <1>5, <1>6, <1>7, <1>9, <1>10, OthersKeepChildren DEF Next, Rest, vars

(* Every step is one of the node worker n or leaves n's locals alone; then *)
(* n's entry can only disappear (_force_delete_node).                      *)
LEMMA Actor ==
  ASSUME TypeInv, [Next]_vars, NEW n \in Nodes
  PROVE  \/ NodeStep(n) \/ NodeFault(n)
         \/ /\ npc'[n] = npc[n] /\ cur'[n] = cur[n] /\ nkeys'[n] = nkeys[n]
            /\ pid_to_host_map'[n] = pid_to_host_map[n]
            /\ node_info_map'[n] \in {node_info_map[n], None}
  <1> DEFINE Kept == /\ npc'[n] = npc[n] /\ cur'[n] = cur[n] /\ nkeys'[n] = nkeys[n]
                     /\ pid_to_host_map'[n] = pid_to_host_map[n]
                     /\ node_info_map'[n] \in {node_info_map[n], None}
  <1>1. ASSUME NEW m \in Nodes, NodeStep(m) \/ NodeFault(m), m # n PROVE Kept
    BY <1>1, OtherNodes
  <1>2. ASSUME NEW m \in Nodes, NEW p \in Pids,
               Sigchld(m, p) \/ ChildStep(m, p) \/ ChildFault(m, p)
        PROVE  Kept
    <2>1. UNCHANGED node_info_map
      BY <1>2 DEF Sigchld, ChildStep, ChildFault, Boot, TakeJob, SkipExpired, FinishJob,
         Leave, Quit, Killed, redis
    <2>2. QED
      BY <1>2, <2>1, OthersKeepLocals DEF local
  <1>3. ASSUME NEW m \in Nodes, NEW h \in Hosts, WorkerExpire(m, h) PROVE Kept
    BY <1>3 DEF WorkerExpire, local
  <1>4. ASSUME NEW r \in Requests, Arrive(r) \/ RequestStep(r) PROVE Kept
    <2>1. node_info_map \in [Nodes -> Int \cup {None}]
      BY DEF TypeInv, TypeOK, RedisTypeOK
    <2>2. node_info_map'[n] \in {node_info_map[n], None}
      BY <1>4, <2>1 DEF Arrive, RequestStep, Lookup, LookupInfo, Select,
         CheckNode, ForceScan, ForceDelete, ForceShutdown, CheckHostQueue,
         Launch, Send, JobExpire, redis
    <2>3. QED
      BY <1>4, <2>2, OthersKeepLocals DEF local
  <1>5. ASSUME UNCHANGED vars PROVE Kept
    BY <1>5 DEF vars, local, redis
  <1> HIDE DEF Kept
  <1>6. NodeStep(n) \/ NodeFault(n) \/ Kept
    BY <1>1, <1>2, <1>3, <1>4, <1>5 DEF Next, Rest
  <1>7. QED
    BY <1>6 DEF Kept

(* The steps that write the pid map of a node worker.                      *)
LEMMA PidMapWriters ==
  ASSUME NEW n \in Nodes, NodeStep(n) \/ NodeFault(n)
  PROVE  AddTrack(n) \/ RemoveTake(n) \/ ProcessGone(n) \/ UNCHANGED pid_to_host_map
  <1>1. CASE NodeStep(n)
    BY <1>1 DEF NodeStep, ListenScan, ListenReap, ListenRegister, ListenBirth,
       AddAlreadyPinned, AddNodeMissing, AddPreempted, AddRead, AddLock, AddFork,
       AddCommit, RemoveCommit, CleanupMaps, CleanupWorkers, NodeExit,
       NodeHeartbeat, NodeExpire, local
  <1>2. CASE NodeFault(n)
    BY <1>2 DEF NodeFault, NodeSignal, NodeSignalEarly, NodeCrash, NodeLate, AddForkFails, local
  <1>3. QED
    BY <1>1, <1>2

(* A node worker gets to "track" by a fork, and out of its loop only by    *)
(* losing its process.                                                     *)
LEMMA ControlFlow ==
  ASSUME TypeInv, NEW n \in Nodes, NodeStep(n) \/ NodeFault(n)
  PROVE  /\ npc'[n] = "track" =>
              AddFork(n) \/ (npc[n] = "track" /\ UNCHANGED <<cur, pid_to_host_map>>)
         /\ npc'[n] \in Starting =>
              \/ ProcessGone(n)
              \/ npc[n] \in Starting /\ UNCHANGED pid_to_host_map
  <1>1. npc \in [Nodes -> NodePCs]
    BY DEF TypeInv, TypeOK, NodeTypeOK
  <1>2. CASE ListenScan(n) \/ ListenReap(n) \/ ListenRegister(n) \/ ListenBirth(n)
    BY <1>1, <1>2 DEF ListenScan, ListenReap, ListenRegister, ListenBirth, Starting
  <1>3. CASE AddAlreadyPinned(n) \/ AddNodeMissing(n) \/ AddPreempted(n) \/ AddRead(n)
    BY <1>1, <1>3 DEF AddAlreadyPinned, AddNodeMissing, AddPreempted, AddRead,
       local, Pop, Starting
  <1>4. CASE \/ AddLock(n) \/ AddFork(n) \/ AddTrack(n) \/ AddCommit(n)
             \/ AddForkFails(n)
    BY <1>1, <1>4 DEF AddLock, AddFork, AddTrack, AddCommit, AddForkFails, Starting
  <1>5. CASE RemoveTake(n) \/ RemoveCommit(n)
    BY <1>1, <1>5 DEF RemoveTake, RemoveCommit, Pop, Starting
  <1>6. CASE CleanupMaps(n) \/ CleanupWorkers(n)
    BY <1>1, <1>6 DEF CleanupMaps, CleanupWorkers, Starting
  <1>7. CASE NodeExit(n) \/ NodeCrash(n)
    <2>1. ProcessGone(n) /\ npc'[n] = "down"
      BY <1>1, <1>7 DEF NodeExit, NodeCrash, ProcessGone
    <2>2. QED
      BY <2>1
  <1>8. CASE NodeHeartbeat(n) \/ NodeExpire(n) \/ NodeLate(n) \/ NodeSignal(n) \/ NodeSignalEarly(n)
    BY <1>1, <1>8 DEF NodeHeartbeat, NodeExpire, NodeLate, NodeSignal, NodeSignalEarly, local, Starting
  <1>9. QED
    BY <1>2, <1>3, <1>4, <1>5, <1>6, <1>7, <1>8 DEF NodeStep, NodeFault

LEMMA FreshNext == TypeInv /\ FreshPids /\ [Next]_vars => FreshPids'
  <1> SUFFICES ASSUME TypeInv, FreshPids, [Next]_vars, NEW n \in Nodes
               PROVE  FreshOf(n)'
    BY DEF FreshPids
  <1>1. FreshOf(n)
    BY DEF FreshPids
  <1>2. pid_to_host_map \in [Nodes -> [Pids -> Hosts \cup {None}]]
    BY DEF TypeInv, TypeOK, NodeTypeOK
  <1>3. CASE ProcessGone(n)
    <2>1. npc'[n] = "down" /\ \A p \in Pids : pid_to_host_map'[n][p] = None
      BY <1>2, <1>3 DEF ProcessGone, TypeInv, TypeOK, NodeTypeOK
    <2>2. QED
      BY <2>1 DEF FreshOf
  <1>4. CASE ~ProcessGone(n)
    <2>1. \A p \in Pids : child'[n][p].st = "free" => child[n][p].st = "free"
      BY <1>4, FreeStays
    <2>2. ASSUME UNCHANGED <<npc[n], cur[n], pid_to_host_map[n]>> PROVE FreshOf(n)'
      BY <1>1, <2>1, <2>2 DEF FreshOf
    <2>3. ASSUME NodeStep(n) \/ NodeFault(n) PROVE FreshOf(n)'
      <3>1. ASSUME NEW p \in Pids, child'[n][p].st = "free"
            PROVE  pid_to_host_map'[n][p] = None
        <4>1. child[n][p].st = "free" /\ pid_to_host_map[n][p] = None
          BY <1>1, <2>1, <3>1 DEF FreshOf
        <4>2. CASE AddTrack(n)
          <5>1. cur[n].pid # p
            BY <1>1, <4>1, <4>2 DEF FreshOf, AddTrack
          <5>2. QED
            BY <1>2, <4>1, <4>2, <5>1 DEF AddTrack
        <4>3. CASE RemoveTake(n)
          BY <1>2, <4>1, <4>3 DEF RemoveTake
        <4>4. QED
          BY <1>4, <2>3, <4>1, <4>2, <4>3, PidMapWriters
      <3>2. ASSUME npc'[n] = "track"
            PROVE  /\ cur'[n].pid \in Pids
                   /\ pid_to_host_map'[n][cur'[n].pid] = None
                   /\ child'[n][cur'[n].pid].st # "free"
        <4>1. CASE npc[n] = "track" /\ UNCHANGED <<cur, pid_to_host_map>>
          BY <1>1, <2>1, <4>1 DEF FreshOf
        <4>2. CASE AddFork(n)
          <5>1. PICK p \in Pids :
                  /\ child[n][p].st = "free"
                  /\ SetChild(n, p, [FreeChild EXCEPT !.st = "boot", !.host = cur[n].host])
                  /\ cur' = [cur EXCEPT ![n].pid = p]
            BY <4>2 DEF AddFork
          <5>2. cur'[n].pid = p
            BY <5>1 DEF TypeInv, TypeOK, NodeTypeOK, NodeLocals
          <5>3. child'[n][p] = [FreeChild EXCEPT !.st = "boot", !.host = cur[n].host]
            BY <5>1 DEF SetChild, TypeInv, ChildOK
          <5>4. child'[n][p].st # "free"
            BY <5>3 DEF FreeChild
          <5>5. UNCHANGED pid_to_host_map
            BY <4>2 DEF AddFork
          <5>6. QED
            BY <1>1, <5>1, <5>2, <5>4, <5>5 DEF FreshOf
        <4>3. QED
          BY <2>3, <3>2, <4>1, <4>2, ControlFlow
      <3>3. ASSUME npc'[n] \in Starting
            PROVE  \A p \in Pids : pid_to_host_map'[n][p] = None
        BY <1>1, <1>4, <2>3, <3>3, ControlFlow DEF FreshOf
      <3>4. QED
        BY <3>1, <3>2, <3>3 DEF FreshOf
    <2>4. QED
      BY <2>2, <2>3, Actor
  <1>5. QED
    BY <1>3, <1>4

(* The tracked pids are finitely many; add puts in one, _remove takes out  *)
(* one, the others do not change them.                                     *)
LEMMA TrackedFinite ==
  ASSUME NEW n \in Nodes
  PROVE  IsFiniteSet(Tracked(n)) /\ Cardinality(Tracked(n)) \in Nat
  <1>1. Tracked(n) \subseteq Pids /\ IsFiniteSet(Pids)
    BY PoolAssumption DEF Tracked
  <1>2. QED
    BY <1>1, FS_Subset, FS_CardinalityType

LEMMA TrackedAdd ==
  ASSUME TypeInv, FreshPids, NEW n \in Nodes, AddTrack(n)
  PROVE  Cardinality(Tracked(n))' = Cardinality(Tracked(n)) + 1
  <1> DEFINE p == cur[n].pid
  <1>1. pid_to_host_map \in [Nodes -> [Pids -> Hosts \cup {None}]]
    BY DEF TypeInv, TypeOK, NodeTypeOK
  <1>2. npc[n] = "track"
    BY DEF AddTrack
  <1>3. p \in Pids /\ pid_to_host_map[n][p] = None
    BY <1>2 DEF FreshPids, FreshOf
  <1>4. cur[n].host \in Hosts /\ None \notin Hosts
    BY <1>2, PoolAssumption DEF TypeInv, NodeShape, Adding
  <1>5. pid_to_host_map' = [pid_to_host_map EXCEPT ![n][p] = cur[n].host]
    BY DEF AddTrack
  <1> HIDE DEF p
  <1>6. Tracked(n)' = Tracked(n) \cup {p} /\ p \notin Tracked(n)
    BY <1>1, <1>3, <1>4, <1>5 DEF Tracked
  <1>7. QED
    BY <1>6, TrackedFinite, FS_AddElement

LEMMA TrackedRemove ==
  ASSUME TypeInv, NEW n \in Nodes, RemoveTake(n)
  PROVE  /\ Head(nodeq[n]).host \in Hosts /\ Head(nodeq[n]).pid \in Pids
         /\ IF pid_to_host_map[n][Head(nodeq[n]).pid] # None
              THEN /\ Cardinality(Tracked(n))' = Cardinality(Tracked(n)) - 1
                   /\ Cardinality(Tracked(n)) > 0
              ELSE Cardinality(Tracked(n))' = Cardinality(Tracked(n))
  <1> DEFINE p == Head(nodeq[n]).pid
  <1>1. pid_to_host_map \in [Nodes -> [Pids -> Hosts \cup {None}]]
    BY DEF TypeInv, TypeOK, NodeTypeOK
  <1>2. nodeq[n] \in Seq(NodeJobs) /\ nodeq[n] # <<>> /\ Head(nodeq[n]).op = "remove"
    BY DEF TypeInv, TypeOK, RedisTypeOK, RemoveTake, Pop
  <1>3. Head(nodeq[n]) \in NodeJobs
    BY <1>2, HeadTailProperties
  <1>4. Head(nodeq[n]).host \in Hosts /\ p \in Pids
    BY <1>2, <1>3 DEF NodeJobs
  <1>5. pid_to_host_map' = [pid_to_host_map EXCEPT ![n][p] = None]
    BY DEF RemoveTake
  <1> HIDE DEF p
  <1>6. Tracked(n)' = Tracked(n) \ {p}
    BY <1>1, <1>4, <1>5 DEF Tracked
  <1>7. p \in Tracked(n) <=> pid_to_host_map[n][p] # None
    BY <1>4 DEF Tracked
  <1>8. CASE p \in Tracked(n)
    <2>1. Cardinality(Tracked(n) \ {p}) = Cardinality(Tracked(n)) - 1
      BY <1>8, TrackedFinite, FS_RemoveElement
    <2>2. Cardinality(Tracked(n)) > 0
      <3>1. Tracked(n) # {}
        BY <1>8
      <3>2. Cardinality(Tracked(n)) # 0
        BY <3>1, TrackedFinite, FS_EmptySet
      <3>3. QED
        BY <3>2, TrackedFinite
    <2>3. QED
      BY <1>4, <1>6, <1>7, <1>8, <2>1, <2>2 DEF p
  <1>9. CASE p \notin Tracked(n)
    <2>1. Tracked(n)' = Tracked(n)
      BY <1>6, <1>9
    <2>2. QED
      BY <1>4, <1>7, <1>9, <2>1 DEF p
  <1>10. QED
    BY <1>8, <1>9

(* The steps that leave the pid map alone.                                 *)
LEMMA CountKeep ==
  ASSUME TypeInv, NEW n \in Nodes, NEW t \in Nat, CountInvOf(n, t),
         npc[n] \in Starting => t = 0,
         NodeStep(n) \/ NodeFault(n),
         ~AddTrack(n), ~RemoveTake(n), ~ProcessGone(n)
  PROVE  CountInvOf(n, t)'
  <1>1. /\ npc \in [Nodes -> NodePCs]
        /\ cur \in [Nodes -> NodeLocals]
        /\ node_info_map \in [Nodes -> Int \cup {None}]
    BY DEF TypeInv, TypeOK, NodeTypeOK, RedisTypeOK
  <1>2. Capacity \in Nat \ {0} /\ None \notin Int
    BY PoolAssumption
  <1>3. CASE ListenScan(n) \/ ListenReap(n) \/ ListenRegister(n) \/ ListenBirth(n)
    BY <1>1, <1>2, <1>3 DEF ListenScan, ListenReap, ListenRegister, ListenBirth,
       redis, CountInvOf, Adding, Starting
  <1>4. CASE AddAlreadyPinned(n) \/ AddNodeMissing(n) \/ AddPreempted(n)
    BY <1>1, <1>2, <1>4 DEF AddAlreadyPinned, AddNodeMissing, AddPreempted, local,
       CountInvOf
  <1>5. CASE AddRead(n)
    <2>1. /\ npc'[n] = "lock" /\ node_info_map'[n] = node_info_map[n]
          /\ cur'[n].cnt = node_info_map[n] + 1
          /\ node_info_map[n] = t /\ t < Capacity
      BY <1>1, <1>2, <1>5 DEF AddRead, Room, Pop, CountInvOf, NodeLocals
    <2>2. QED
      BY <1>1, <1>2, <2>1 DEF CountInvOf, Adding
  <1>6. CASE AddLock(n) \/ AddForkFails(n)
    BY <1>1, <1>2, <1>6 DEF AddLock, AddForkFails, CountInvOf, Adding
  <1>7. CASE AddFork(n)
    <2>1. PICK p : cur' = [cur EXCEPT ![n].pid = p]
      BY <1>7 DEF AddFork
    <2>2. cur'[n].cnt = cur[n].cnt
      BY <1>1, <2>1 DEF NodeLocals
    <2>3. /\ npc'[n] = "track" /\ npc[n] = "fork"
          /\ node_info_map'[n] = node_info_map[n]
      BY <1>1, <1>7 DEF AddFork, redis
    <2>4. QED
      BY <1>1, <1>2, <2>2, <2>3 DEF CountInvOf, Adding
  <1>8. CASE AddCommit(n) \/ RemoveCommit(n)
    BY <1>1, <1>2, <1>8 DEF AddCommit, RemoveCommit, CountInvOf, Adding
  <1>9. CASE CleanupMaps(n) \/ CleanupWorkers(n)
    BY <1>1, <1>2, <1>9 DEF CleanupMaps, CleanupWorkers, redis, CountInvOf, Adding
  <1>10. CASE NodeHeartbeat(n) \/ NodeExpire(n) \/ NodeLate(n) \/ NodeSignal(n) \/ NodeSignalEarly(n)
    BY <1>1, <1>2, <1>10 DEF NodeHeartbeat, NodeExpire, NodeLate, NodeSignal, NodeSignalEarly,
       local, redis, CountInvOf
  <1>11. ~NodeExit(n) /\ ~NodeCrash(n)
    BY DEF NodeExit, NodeCrash
  <1>12. QED
    BY <1>3, <1>4, <1>5, <1>6, <1>7, <1>8, <1>9, <1>10, <1>11
       DEF NodeStep, NodeFault

LEMMA CountNext ==
  TypeInv /\ FreshPids /\ CountInv /\ [Next]_vars => CountInv'
  <1> SUFFICES ASSUME TypeInv, FreshPids, CountInv, [Next]_vars, NEW n \in Nodes
               PROVE  CountInvOf(n, Cardinality(Tracked(n)))'
    BY DEF CountInv
  <1> DEFINE t == Cardinality(Tracked(n))
             T == Cardinality(Tracked(n))'
  <1>1. CountInvOf(n, t) /\ t \in Nat
    BY TrackedFinite DEF CountInv
  <1>2. ASSUME pid_to_host_map'[n] = pid_to_host_map[n] PROVE T = t
    BY <1>2 DEF Tracked
  <1>3. npc[n] \in Starting => t = 0
    <2>1. ASSUME npc[n] \in Starting PROVE Tracked(n) = {}
      BY <2>1 DEF FreshPids, FreshOf, Tracked
    <2>2. QED
      BY <2>1, FS_EmptySet
  <1>4. Capacity \in Nat \ {0} /\ None \notin Int
    BY PoolAssumption
  <1>5. /\ npc \in [Nodes -> NodePCs]
        /\ cur \in [Nodes -> NodeLocals]
        /\ pid_to_host_map \in [Nodes -> [Pids -> Hosts \cup {None}]]
        /\ node_info_map \in [Nodes -> Int \cup {None}]
    BY DEF TypeInv, TypeOK, NodeTypeOK, RedisTypeOK
  <1>6. SUFFICES ASSUME NEW u, u = T PROVE CountInvOf(n, u)'
    BY DEF CountInvOf
  <1>7. CASE /\ npc'[n] = npc[n] /\ cur'[n] = cur[n]
             /\ pid_to_host_map'[n] = pid_to_host_map[n]
             /\ node_info_map'[n] \in {node_info_map[n], None}
    <2>1. u = t
      BY <1>2, <1>6, <1>7
    <2> HIDE DEF t
    <2>2. QED
      BY <1>1, <1>7, <2>1 DEF CountInvOf
  <1>8. CASE NodeStep(n) \/ NodeFault(n)
    <2>1. CASE AddTrack(n)
      <3>1. u = t + 1
        BY <1>6, <2>1, TrackedAdd
      <3>2. /\ npc[n] = "track" /\ npc'[n] = "commit" /\ cur'[n] = cur[n]
            /\ node_info_map'[n] = node_info_map[n]
        BY <1>5, <2>1 DEF AddTrack, redis
      <3> HIDE DEF t, T
      <3>3. QED
        BY <1>1, <1>4, <1>5, <3>1, <3>2 DEF CountInvOf, Adding
    <2>2. CASE RemoveTake(n)
      <3> DEFINE j == Head(nodeq[n])
      <3>1. /\ npc[n] = "idle"
            /\ node_info_map'[n] = node_info_map[n]
        BY <2>2 DEF RemoveTake, Pop
      <3>2. CASE pid_to_host_map[n][j.pid] # None /\ node_info_map[n] # None
        <4>1. npc'[n] = "rcommit" /\ cur'[n].cnt = node_info_map[n] - 1
          BY <1>5, <2>2, <3>2 DEF RemoveTake, NodeLocals
        <4>2. u = t - 1 /\ t > 0
          BY <1>6, <2>2, <3>2, TrackedRemove
        <4> HIDE DEF t, T, j
        <4>3. QED
          BY <1>1, <1>4, <1>5, <3>1, <3>2, <4>1, <4>2 DEF CountInvOf, Adding
      <3>3. CASE pid_to_host_map[n][j.pid] = None \/ node_info_map[n] = None
        <4>1. npc'[n] = npc[n] /\ cur'[n] = cur[n]
          BY <2>2, <3>3 DEF RemoveTake
        <4>2. u = t \/ (u = t - 1 /\ t > 0 /\ node_info_map[n] = None)
          BY <1>6, <2>2, <3>3, TrackedRemove
        <4> HIDE DEF t, T, j
        <4>3. QED
          BY <1>1, <1>4, <1>5, <3>1, <4>1, <4>2 DEF CountInvOf, Adding
      <3>4. QED
        BY <3>2, <3>3
    <2>3. CASE ProcessGone(n)
      <3>1. npc'[n] = "down" /\ \A p \in Pids : pid_to_host_map'[n][p] = None
        BY <1>5, <2>3 DEF ProcessGone
      <3>2. Tracked(n)' = {}
        BY <3>1 DEF Tracked
      <3>3. u = 0
        BY <1>6, <3>2, FS_EmptySet
      <3>4. node_info_map'[n] = node_info_map[n] \/ node_info_map'[n] \in {0, None}
        <4>1. CASE NodeExit(n) \/ NodeCrash(n)
          BY <4>1 DEF NodeExit, NodeCrash, redis
        <4>2. CASE ~NodeExit(n) /\ ~NodeCrash(n)
          BY <1>5, <1>8, <3>1, <4>2 DEF NodeStep, NodeFault, ListenScan, ListenReap,
             ListenRegister, ListenBirth, AddAlreadyPinned, AddNodeMissing,
             AddPreempted, AddRead, AddLock, AddFork, AddTrack, AddCommit,
             RemoveTake, RemoveCommit, CleanupMaps, CleanupWorkers, NodeSignal, NodeSignalEarly,
             NodeHeartbeat, NodeExpire, NodeLate, AddForkFails, redis
        <4>3. QED
          BY <4>1, <4>2
      <3> HIDE DEF t, T
      <3>5. QED
        BY <1>1, <1>4, <3>1, <3>3, <3>4 DEF CountInvOf, Adding
    <2>4. CASE ~AddTrack(n) /\ ~RemoveTake(n) /\ ~ProcessGone(n)
      <3>1. u = t
        BY <1>2, <1>6, <1>8, <2>4, PidMapWriters
      <3> HIDE DEF t, T
      <3>2. ASSUME NEW k \in Nat, k = t PROVE CountInvOf(n, k)'
        BY <1>1, <1>3, <1>8, <2>4, <3>2, CountKeep
      <3>3. QED
        BY <1>1, <3>1, <3>2
    <2>5. QED
      BY <2>1, <2>2, <2>3, <2>4
  <1>9. QED
    BY <1>7, <1>8, Actor

LEMMA CountInit == Init => FreshPids /\ CountInv
  <1> SUFFICES ASSUME Init PROVE FreshPids /\ CountInv
    OBVIOUS
  <1>1. ASSUME NEW n \in Nodes
        PROVE  /\ npc[n] \in {"down", "idle"}
               /\ node_info_map[n] \in {None, 0}
               /\ \A p \in Pids : pid_to_host_map[n][p] = None
    BY DEF Init
  <1>2. FreshPids
    BY <1>1 DEF FreshPids, FreshOf
  <1>3. ASSUME NEW n \in Nodes PROVE Cardinality(Tracked(n)) = 0
    <2>1. Tracked(n) = {}
      BY <1>1 DEF Tracked
    <2>2. QED
      BY <2>1, FS_EmptySet
  <1>4. ASSUME NEW n \in Nodes PROVE CountInvOf(n, 0)
    BY <1>1, PoolAssumption DEF CountInvOf, Adding
  <1>5. QED
    BY <1>2, <1>3, <1>4 DEF CountInv

(* The whole of the counting argument, by induction on the steps.          *)
LEMMA CountAlways == Spec => [](TypeInv /\ FreshPids /\ CountInv)
  <1>1. TypeInv /\ FreshPids /\ CountInv /\ [Next]_vars
          => (TypeInv /\ FreshPids /\ CountInv)'
    BY TypeNext, FreshNext, CountNext
  <1>2. QED
    BY <1>1, TypeInit, CountInit, PTL DEF Spec

(* NodeInfo.count is the number of workers the node tracks, whatever order *)
(* add, _remove, SIGCHLD, crashes and forced deletes come in.              *)
THEOREM CountTheorem == Spec => []CountMatches
  <1>1. TypeInv /\ CountInv => CountMatches
    <2> SUFFICES ASSUME TypeInv, CountInv, NEW n \in Nodes,
                        npc[n] \in InLoop, node_info_map[n] # None
                 PROVE  node_info_map[n] = Cardinality(Tracked(n)) +
                          (CASE npc[n] = "commit" -> -1
                             [] npc[n] = "rcommit" -> 1 [] OTHER -> 0)
      BY DEF CountMatches
    <2>1. PICK t \in Nat : t = Cardinality(Tracked(n)) /\ CountInvOf(n, t)
      BY TrackedFinite DEF CountInv
    <2>2. node_info_map[n] \in Int
      BY <2>1, PoolAssumption DEF CountInvOf
    <2>3. npc[n] \in Adding \cup {"idle", "commit", "rcommit"}
      BY DEF InLoop, Adding
    <2>4. node_info_map[n] =
            t + (CASE npc[n] = "commit" -> -1 [] npc[n] = "rcommit" -> 1 [] OTHER -> 0)
      BY <2>1, <2>2, <2>3 DEF CountInvOf, Adding
    <2>5. QED
      BY <2>1, <2>4
  <1>2. QED
    BY <1>1, CountAlways, PTL

(* No node ever tracks more pinned workers than pinned_per_node, and the   *)
(* count a scheduler reads stays within 0..pinned_per_node.                *)
THEOREM CapacityTheorem == Spec => []CapacityRespected
  <1>1. CountInv => CapacityRespected
    BY DEF CountInv, CountInvOf, CapacityRespected
  <1>2. QED
    BY <1>1, CountAlways, PTL
=============================================================================
