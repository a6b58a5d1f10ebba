------------------------ MODULE PinnedPoolLockProof ------------------------
(***************************************************************************)
(* Proofs about the device locks of PinnedPool (host_to_node_map).  A lock *)
(* can be deleted by a sweep that somebody else computed earlier, so what  *)
(* holds of it is stated for the devices no such sweep named (exposed).    *)
(***************************************************************************)
EXTENDS PinnedPoolProof

(* A node worker tracks at most one process per device, and the device it  *)
(* is adding is not among them.                                            *)
UniqueOf(n) ==
  /\ \A p, q \in Pids :
       pid_to_host_map[n][p] = pid_to_host_map[n][q] /\ p # q =>
         pid_to_host_map[n][p] = None
  /\ npc[n] \in Adding => \A p \in Pids : pid_to_host_map[n][p] # cur[n].host

UniquePids == \A n \in Nodes : UniqueOf(n)

(* What a sweep is about to delete, it has named.                          *)
SweepsExposed ==
  /\ \A n \in Nodes : npc[n] \in {"scanned", "reaped"} => nkeys[n] \subseteq exposed
  /\ \A r \in Requests : req[r].pc = "delete" => req[r].keys \subseteq exposed

(* Whoever relies on the lock of an unexposed device holds it.             *)
LocksOf(n) ==
  /\ npc[n] \in {"fork", "track"} /\ cur[n].host \notin exposed =>
       host_to_node_map[cur[n].host] = n
  /\ npc[n] = "rcommit" /\ cur[n].host \notin exposed =>
       /\ host_to_node_map[cur[n].host] = n
       /\ \A p \in Pids : pid_to_host_map[n][p] # cur[n].host
  /\ \A p \in Pids :
       npc[n] \in InLoop /\ pid_to_host_map[n][p] \in Hosts \ exposed =>
         host_to_node_map[pid_to_host_map[n][p]] = n

LocksHeld == \A n \in Nodes : LocksOf(n)

LockInv == TypeInv /\ FreshPids /\ UniquePids /\ SweepsExposed /\ LocksHeld

-----------------------------------------------------------------------------
(* hdel of some keys frees them and touches no other lock.                 *)
LEMMA UnlockEffect ==
  ASSUME NEW keys, NEW h \in Hosts, host_to_node_map' = Unlock(keys)
  PROVE  host_to_node_map'[h] = IF h \in keys THEN None ELSE host_to_node_map[h]
  BY DEF Unlock

(* The steps that write host_to_node_map.                                  *)
LEMMA LockWriters ==
  ASSUME [Next]_vars
  PROVE  \/ UNCHANGED host_to_node_map
         \/ \E n \in Nodes : \/ ListenRegister(n) \/ AddLock(n) \/ AddForkFails(n)
                             \/ RemoveCommit(n) \/ CleanupMaps(n)
         \/ \E r \in Requests : ForceDelete(r)
  <1>1. ASSUME NEW n \in Nodes, NodeStep(n)
        PROVE  \/ UNCHANGED host_to_node_map
               \/ ListenRegister(n) \/ AddLock(n) \/ RemoveCommit(n) \/ CleanupMaps(n)
    BY <1>1 DEF NodeStep, ListenScan, ListenReap, ListenBirth, AddAlreadyPinned,
       AddNodeMissing, AddPreempted, AddRead, AddFork, AddTrack, AddCommit,
       RemoveTake, CleanupWorkers, NodeExit, NodeHeartbeat, NodeExpire, redis
  <1>2. ASSUME NEW n \in Nodes, NodeFault(n)
        PROVE  UNCHANGED host_to_node_map \/ AddForkFails(n)
    BY <1>2 DEF NodeFault, NodeSignal, NodeSignalEarly, NodeCrash, NodeLate, redis
  <1>3. ASSUME NEW n \in Nodes, NEW p \in Pids,
               Sigchld(n, p) \/ ChildStep(n, p) \/ ChildFault(n, p)
        PROVE  UNCHANGED host_to_node_map
    BY <1>3 DEF Sigchld, ChildStep, ChildFault, Boot, TakeJob, SkipExpired, FinishJob, Leave,
       Quit, Killed, redis
  <1>4. ASSUME NEW n \in Nodes, NEW h \in Hosts, WorkerExpire(n, h)
        PROVE  UNCHANGED host_to_node_map
    BY <1>4 DEF WorkerExpire
  <1>5. ASSUME NEW r \in Requests, Arrive(r) \/ RequestStep(r)
        PROVE  UNCHANGED host_to_node_map \/ ForceDelete(r)
    BY <1>5 DEF Arrive, RequestStep, Lookup, LookupInfo, Select, CheckNode,
       ForceScan, ForceShutdown, CheckHostQueue, Launch, Send, JobExpire, redis
  <1>6. ASSUME UNCHANGED vars PROVE UNCHANGED host_to_node_map
    BY <1>6 DEF vars, redis
  <1>7. QED
    BY <1>1, <1>2, <1>3, <1>4, <1>5, <1>6 DEF Next, Rest

(* A lock that is held is kept or freed, never overwritten.                *)
LEMMA KeptOrFreed ==
  ASSUME TypeInv, [Next]_vars, NEW h \in Hosts, host_to_node_map[h] # None
  PROVE  host_to_node_map'[h] \in {None, host_to_node_map[h]}
  <1>1. host_to_node_map \in [Hosts -> Nodes \cup {None}]
    BY DEF TypeInv, TypeOK, RedisTypeOK
  <1>2. ASSUME NEW keys, host_to_node_map' = Unlock(keys)
        PROVE  host_to_node_map'[h] \in {None, host_to_node_map[h]}
    BY <1>2, UnlockEffect
  <1>3. ASSUME NEW n \in Nodes, AddLock(n)
        PROVE  host_to_node_map'[h] \in {None, host_to_node_map[h]}
    BY <1>1, <1>3 DEF AddLock, LockFree
  <1>4. ASSUME NEW n \in Nodes,
               ListenRegister(n) \/ AddForkFails(n) \/ RemoveCommit(n) \/ CleanupMaps(n)
        PROVE  \E keys : host_to_node_map' = Unlock(keys)
    BY <1>4 DEF ListenRegister, AddForkFails, RemoveCommit, CleanupMaps
  <1>5. ASSUME NEW r \in Requests, ForceDelete(r)
        PROVE  \E keys : host_to_node_map' = Unlock(keys)
    BY <1>5 DEF ForceDelete
  <1>6. CASE UNCHANGED host_to_node_map
    BY <1>6
  <1>7. QED
    BY <1>2, <1>3, <1>4, <1>5, <1>6, LockWriters

(* A lock passes from one node to another only by way of being free:       *)
(* hsetnx in add is the only write that takes a lock.                      *)
THEOREM LockStealingTheorem == Spec => NoLockStealing
  <1>1. TypeInv /\ [Next]_vars =>
          [\A h \in Hosts : host_to_node_map[h] # None =>
             host_to_node_map'[h] \in {None, host_to_node_map[h]}]_vars
    BY KeptOrFreed
  <1>2. QED
    BY <1>1, TypeInit, TypeNext, PTL DEF Spec, NoLockStealing

-----------------------------------------------------------------------------
LEMMA UniqueNext == TypeInv /\ FreshPids /\ UniquePids /\ [Next]_vars => UniquePids'
  <1> SUFFICES ASSUME TypeInv, FreshPids, UniquePids, [Next]_vars, NEW n \in Nodes
               PROVE  UniqueOf(n)'
    BY DEF UniquePids
  <1>1. UniqueOf(n)
    BY DEF UniquePids
  <1>2. /\ npc \in [Nodes -> NodePCs] /\ cur \in [Nodes -> NodeLocals]
        /\ pid_to_host_map \in [Nodes -> [Pids -> Hosts \cup {None}]]
    BY DEF TypeInv, TypeOK, NodeTypeOK
  <1>3. CASE UNCHANGED <<npc[n], cur[n], pid_to_host_map[n]>>
    BY <1>1, <1>3 DEF UniqueOf
  <1>4. CASE NodeStep(n) \/ NodeFault(n)
    <2>1. CASE AddTrack(n)
      <3>1. /\ npc[n] = "track" /\ npc'[n] = "commit"
            /\ pid_to_host_map' = [pid_to_host_map EXCEPT ![n][cur[n].pid] = cur[n].host]
        BY <1>2, <2>1 DEF AddTrack
      <3>2. \A p \in Pids : pid_to_host_map[n][p] # cur[n].host
        BY <1>1, <3>1 DEF UniqueOf, Adding
      <3>3. QED
        BY <1>1, <1>2, <3>1, <3>2 DEF UniqueOf, Adding
    <2>2. CASE RemoveTake(n)
      <3>1. /\ pid_to_host_map' = [pid_to_host_map EXCEPT ![n][Head(nodeq[n]).pid] = None]
            /\ npc'[n] \in {"idle", "rcommit"}
        BY <1>2, <2>2 DEF RemoveTake, Pop
      <3>2. QED
        BY <1>1, <1>2, <3>1 DEF UniqueOf, Adding
    <2>3. CASE ProcessGone(n)
      BY <1>2, <2>3 DEF ProcessGone, UniqueOf, Adding
    <2>4. CASE UNCHANGED pid_to_host_map
      <3>1. ASSUME npc'[n] \in Adding
            PROVE  \A p \in Pids : pid_to_host_map[n][p] # cur'[n].host
        <4>1. CASE AddRead(n)
          BY <1>2, <4>1 DEF AddRead, Pinned, NodeLocals
        <4>2. CASE AddLock(n)
          BY <1>1, <1>2, <3>1, <4>2 DEF AddLock, UniqueOf, Adding
        <4>3. CASE AddFork(n)
          <5>1. PICK p : cur' = [cur EXCEPT ![n].pid = p]
            BY <4>3 DEF AddFork
          <5>2. cur'[n].host = cur[n].host
            BY <1>2, <5>1 DEF NodeLocals
          <5>3. npc[n] = "fork"
            BY <4>3 DEF AddFork
          <5>4. QED
            BY <1>1, <5>2, <5>3 DEF UniqueOf, Adding
        <4>4. CASE ~AddRead(n) /\ ~AddLock(n) /\ ~AddFork(n)
          <5>1. npc'[n] = npc[n] /\ cur'[n] = cur[n]
            <6>1. CASE NodeStep(n)
              BY <1>2, <3>1, <4>4, <6>1 DEF NodeStep, ListenScan, ListenReap,
                 ListenRegister, ListenBirth, AddAlreadyPinned, AddNodeMissing,
                 AddPreempted, AddTrack, AddCommit, RemoveTake, RemoveCommit, Pop,
                 CleanupMaps, CleanupWorkers, NodeExit, ProcessGone, NodeHeartbeat,
                 NodeExpire, local, Adding
            <6>2. CASE NodeFault(n)
              BY <1>2, <3>1, <6>2 DEF NodeFault, NodeSignal, NodeSignalEarly, NodeCrash, NodeLate,
                 AddForkFails, ProcessGone, local, Adding
            <6>3. QED
              BY <1>4, <6>1, <6>2
          <5>2. QED
            BY <1>1, <3>1, <5>1 DEF UniqueOf
        <4>5. QED
          BY <4>1, <4>2, <4>3, <4>4
      <3>2. QED
        BY <1>1, <2>4, <3>1 DEF UniqueOf
    <2>5. QED
      BY <1>4, <2>1, <2>2, <2>3, <2>4, PidMapWriters
  <1>5. QED
    BY <1>3, <1>4, Actor

LEMMA SweepsNext == TypeInv /\ SweepsExposed /\ [Next]_vars => SweepsExposed'
  <1> SUFFICES ASSUME TypeInv, SweepsExposed, [Next]_vars PROVE SweepsExposed'
    OBVIOUS
  <1>1. exposed \subseteq exposed'
    BY GhostType
  <1>2. ASSUME NEW n \in Nodes, npc'[n] \in {"scanned", "reaped"}
        PROVE  nkeys'[n] \subseteq exposed'
    <2>1. npc \in [Nodes -> NodePCs] /\ nkeys \in [Nodes -> SUBSET Hosts]
      BY DEF TypeInv, TypeOK, NodeTypeOK
    <2>2. CASE npc'[n] = npc[n] /\ nkeys'[n] = nkeys[n]
      BY <1>1, <1>2, <2>2 DEF SweepsExposed
    <2>3. CASE ListenScan(n)
      BY <2>1, <2>3 DEF ListenScan
    <2>4. CASE ListenReap(n)
      BY <1>1, <2>4 DEF ListenReap, SweepsExposed
    <2>5. CASE (NodeStep(n) \/ NodeFault(n)) /\ ~ListenScan(n) /\ ~ListenReap(n)
      <3>1. CASE NodeStep(n)
        <4>1. npc'[n] = npc[n] /\ nkeys'[n] = nkeys[n]
          BY <1>2, <2>1, <2>5, <3>1 DEF NodeStep, ListenRegister, ListenBirth,
             AddAlreadyPinned, AddNodeMissing, AddPreempted, AddRead, AddLock,
             AddFork, AddTrack, AddCommit, RemoveTake, RemoveCommit, Pop,
             CleanupMaps, CleanupWorkers, NodeExit, ProcessGone, NodeHeartbeat,
             NodeExpire, local
        <4>2. QED
          BY <2>2, <4>1
      <3>2. CASE NodeFault(n)
        <4>1. npc'[n] = npc[n] /\ nkeys'[n] = nkeys[n]
          BY <1>2, <2>1, <3>2 DEF NodeFault, NodeSignal, NodeSignalEarly, NodeCrash, NodeLate,
             AddForkFails, ProcessGone, local
        <4>2. QED
          BY <2>2, <4>1
      <3>3. QED
        BY <2>5, <3>1, <3>2
    <2>6. QED
      BY <2>2, <2>3, <2>4, <2>5, Actor
  <1>3. ASSUME NEW r \in Requests, req'[r].pc = "delete"
        PROVE  req'[r].keys \subseteq exposed'
    <2>1. req \in [Requests -> RequestLocals]
      BY DEF TypeInv, TypeOK
    <2>2. CASE req'[r] = req[r]
      BY <1>1, <1>3, <2>2 DEF SweepsExposed
    <2>3. ASSUME NEW s \in Requests, Arrive(s) \/ RequestStep(s), s # r
          PROVE  req'[r] = req[r]
      BY <2>1, <2>3 DEF Arrive, RequestStep, Lookup, LookupInfo, Select, CheckNode,
         ForceScan, ForceDelete, ForceShutdown, CheckHostQueue, Launch, Send, JobExpire,
         SetRequest, Goto
    <2>4. CASE ForceScan(r)
      <3>1. req'[r].keys = KeysOf(req[r].node)
        BY <2>1, <2>4 DEF ForceScan, SetRequest, RequestLocals
      <3>2. QED
        BY <2>4, <3>1 DEF ForceScan
    <2>5. ASSUME Arrive(r) \/ RequestStep(r), ~ForceScan(r), ~JobExpire(r)
          PROVE  FALSE
      <3>1. ASSUME NEW pc, Goto(r, pc) PROVE req'[r].pc = pc
        BY <2>1, <3>1 DEF Goto, SetRequest, RequestLocals
      <3>2. ~Arrive(r) /\ ~CheckNode(r) /\ ~ForceDelete(r)
            /\ ~CheckHostQueue(r) /\ ~Launch(r)
        BY <1>3, <3>1 DEF Arrive, CheckNode, ForceDelete, CheckHostQueue, Launch
      <3>3. Again(r) # "delete"
        BY DEF Again
      <3>4. ~Lookup(r) /\ ~Send(r)
        BY <1>3, <2>1 DEF Lookup, Send, SetRequest, RequestLocals
      <3>5. ~LookupInfo(r)
        BY <1>3, <2>1, <3>1 DEF LookupInfo, SetRequest, RequestLocals
      <3>6. ~Select(r)
        BY <1>3, <2>1, <3>1, <3>3 DEF Select, SetRequest, RequestLocals
      <3>7. ~ForceShutdown(r)
        BY <1>3, <2>1, <3>3 DEF ForceShutdown, SetRequest, RequestLocals
      <3>8. QED
        BY <2>5, <3>2, <3>4, <3>5, <3>6, <3>7 DEF RequestStep
    <2>6. CASE UNCHANGED req \/ JobExpire(r)
      BY <2>2, <2>6 DEF JobExpire
    <2>7. QED
      BY <2>2, <2>3, <2>4, <2>5, <2>6, WorkersKeepRequests DEF Next, Rest, vars
  <1>4. QED
    BY <1>2, <1>3 DEF SweepsExposed

-----------------------------------------------------------------------------
(* Only its holder gives up the lock of an unexposed device: a sweep names *)
(* what it deletes first, and the other deletions are of locks one holds.  *)
LEMMA LockKept ==
  ASSUME LockInv, [Next]_vars, NEW n \in Nodes, NEW h \in Hosts,
         h \notin exposed', host_to_node_map[h] = n
  PROVE  \/ host_to_node_map'[h] = n
         \/ RemoveCommit(n) /\ cur[n].host = h
         \/ AddForkFails(n) /\ cur[n].host = h
         \/ CleanupMaps(n)
  <1>1. TypeInv /\ SweepsExposed /\ (\A m \in Nodes : LocksOf(m)) /\ n # None
    BY PoolAssumption DEF LockInv, LocksHeld
  <1>2. h \notin exposed
    BY <1>1, GhostType
  <1>3. host_to_node_map \in [Hosts -> Nodes \cup {None}]
    BY <1>1 DEF TypeInv, TypeOK, RedisTypeOK
  <1>4. ASSUME NEW m \in Nodes, ListenRegister(m) PROVE host_to_node_map'[h] = n
    <2>1. nkeys[m] \subseteq exposed
      BY <1>1, <1>4 DEF SweepsExposed, ListenRegister
    <2>2. QED
      BY <1>2, <1>4, <2>1, UnlockEffect DEF ListenRegister
  <1>5. ASSUME NEW r \in Requests, ForceDelete(r) PROVE host_to_node_map'[h] = n
    <2>1. req[r].keys \subseteq exposed
      BY <1>1, <1>5 DEF SweepsExposed, ForceDelete
    <2>2. QED
      BY <1>2, <1>5, <2>1, UnlockEffect DEF ForceDelete
  <1>6. ASSUME NEW m \in Nodes, AddLock(m) PROVE host_to_node_map'[h] = n
    BY <1>1, <1>3, <1>6 DEF AddLock, LockFree
  <1>7. ASSUME NEW m \in Nodes, RemoveCommit(m)
        PROVE  host_to_node_map'[h] = n \/ (m = n /\ cur[n].host = h)
    <2>1. CASE cur[m].host = h
      <3>1. host_to_node_map[h] = m
        BY <1>1, <1>2, <1>7, <2>1 DEF LocksOf, RemoveCommit
      <3>2. QED
        BY <2>1, <3>1
    <2>2. CASE cur[m].host # h
      BY <1>7, <2>2, UnlockEffect DEF RemoveCommit
    <2>3. QED
      BY <2>1, <2>2
  <1>8. ASSUME NEW m \in Nodes, AddForkFails(m)
        PROVE  host_to_node_map'[h] = n \/ (m = n /\ cur[n].host = h)
    <2>1. CASE cur[m].host = h
      <3>1. host_to_node_map[h] = m
        BY <1>1, <1>2, <1>8, <2>1 DEF LocksOf, AddForkFails
      <3>2. QED
        BY <2>1, <3>1
    <2>2. CASE cur[m].host # h
      BY <1>8, <2>2, UnlockEffect DEF AddForkFails
    <2>3. QED
      BY <2>1, <2>2
  <1>9. ASSUME NEW m \in Nodes, CleanupMaps(m)
        PROVE  host_to_node_map'[h] = n \/ m = n
    <2> DEFINE keys == {pid_to_host_map[m][p] : p \in Tracked(m)}
    <2>1. CASE h \in keys
      <3>1. PICK p \in Pids : pid_to_host_map[m][p] = h
        BY <2>1 DEF Tracked
      <3>2. npc[m] \in InLoop
        BY <1>9 DEF CleanupMaps, InLoop
      <3>3. host_to_node_map[h] = m
        BY <1>1, <1>2, <3>1, <3>2 DEF LocksOf
      <3>4. QED
        BY <3>3
    <2>2. CASE h \notin keys
      <3>1. host_to_node_map' = Unlock(keys)
        BY <1>9 DEF CleanupMaps
      <3> HIDE DEF keys
      <3>2. QED
        BY <2>2, <3>1, UnlockEffect
    <2>3. QED
      BY <2>1, <2>2
  <1>10. CASE UNCHANGED host_to_node_map
    BY <1>10
  <1>11. QED
    BY <1>4, <1>5, <1>6, <1>7, <1>8, <1>9, <1>10, LockWriters

(* How a node worker comes to rely on a lock.                              *)
LEMMA RelianceFlow ==
  ASSUME TypeInv, NEW n \in Nodes, NodeStep(n) \/ NodeFault(n)
  PROVE  /\ npc'[n] \in {"fork", "track"} =>
              \/ AddLock(n)
              \/ npc[n] \in {"fork", "track"} /\ cur'[n].host = cur[n].host
         /\ npc'[n] = "rcommit" =>
              \/ RemoveTake(n)
              \/ npc[n] = "rcommit" /\ UNCHANGED <<cur, pid_to_host_map>>
         /\ npc'[n] \in InLoop => npc[n] \in InLoop \/ ListenBirth(n)
  <1>1. npc \in [Nodes -> NodePCs] /\ cur \in [Nodes -> NodeLocals]
    BY DEF TypeInv, TypeOK, NodeTypeOK
  <1>2. CASE ListenScan(n) \/ ListenReap(n) \/ ListenRegister(n) \/ ListenBirth(n)
    BY <1>1, <1>2 DEF ListenScan, ListenReap, ListenRegister, ListenBirth, InLoop
  <1>3. CASE AddAlreadyPinned(n) \/ AddNodeMissing(n) \/ AddPreempted(n) \/ AddRead(n)
    BY <1>1, <1>3 DEF AddAlreadyPinned, AddNodeMissing, AddPreempted, AddRead,
       local, Pop, InLoop
  <1>4. CASE AddLock(n) \/ AddTrack(n) \/ AddCommit(n) \/ AddForkFails(n)
    BY <1>1, <1>4 DEF AddLock, AddTrack, AddCommit, AddForkFails, InLoop
  <1>5. CASE AddFork(n)
    <2>1. PICK p : cur' = [cur EXCEPT ![n].pid = p]
      BY <1>5 DEF AddFork
    <2>2. cur'[n].host = cur[n].host
      BY <1>1, <2>1 DEF NodeLocals
    <2>3. npc[n] = "fork" /\ npc'[n] = "track"
      BY <1>1, <1>5 DEF AddFork
    <2>4. QED
      BY <2>2, <2>3 DEF InLoop
  <1>6. CASE RemoveTake(n) \/ RemoveCommit(n)
    BY <1>1, <1>6 DEF RemoveTake, RemoveCommit, Pop, InLoop
  <1>7. CASE CleanupMaps(n) \/ CleanupWorkers(n)
    BY <1>1, <1>7 DEF CleanupMaps, CleanupWorkers, InLoop
  <1>8. CASE NodeExit(n) \/ NodeCrash(n)
    BY <1>1, <1>8 DEF NodeExit, NodeCrash, ProcessGone, InLoop
  <1>9. CASE NodeHeartbeat(n) \/ NodeExpire(n) \/ NodeLate(n) \/ NodeSignal(n) \/ NodeSignalEarly(n)
    BY <1>1, <1>9 DEF NodeHeartbeat, NodeExpire, NodeLate, NodeSignal, NodeSignalEarly, local, InLoop
  <1>10. QED
    BY <1>2, <1>3, <1>4, <1>5, <1>6, <1>7, <1>8, <1>9 DEF NodeStep, NodeFault

LEMMA LocksNext == LockInv /\ [Next]_vars => LocksHeld'
  <1> SUFFICES ASSUME LockInv, [Next]_vars, NEW n \in Nodes PROVE LocksOf(n)'
    BY DEF LocksHeld
  <1>1. TypeInv /\ FreshOf(n) /\ UniqueOf(n) /\ LocksOf(n)
    BY DEF LockInv, FreshPids, UniquePids, LocksHeld
  <1>2. /\ npc \in [Nodes -> NodePCs] /\ cur \in [Nodes -> NodeLocals]
        /\ pid_to_host_map \in [Nodes -> [Pids -> Hosts \cup {None}]]
        /\ host_to_node_map \in [Hosts -> Nodes \cup {None}]
    BY <1>1 DEF TypeInv, TypeOK, NodeTypeOK, RedisTypeOK
  <1>3. exposed \subseteq exposed' /\ exposed' \subseteq Hosts
    BY <1>1, GhostType
  <1>4. TypeInv'
    BY <1>1, TypeNext
  <1>5. /\ RemoveCommit(n) => npc[n] = "rcommit" /\ npc'[n] = "idle"
        /\ AddForkFails(n) => npc[n] = "fork" /\ npc'[n] = "idle"
        /\ CleanupMaps(n) => npc[n] = "idle" /\ npc'[n] = "cleaned"
    BY <1>2 DEF RemoveCommit, AddForkFails, CleanupMaps
  <1>6. ASSUME npc'[n] \in {"fork", "track"}, cur'[n].host \notin exposed'
        PROVE  host_to_node_map'[cur'[n].host] = n
    <2>1. cur'[n].host \in Hosts
      BY <1>4, <1>6 DEF TypeInv, NodeShape, Adding
    <2>2. CASE npc[n] \in {"fork", "track"} /\ cur'[n].host = cur[n].host
      <3>1. host_to_node_map[cur[n].host] = n
        BY <1>1, <1>3, <1>6, <2>2 DEF LocksOf
      <3>2. QED
        BY <1>5, <1>6, <2>1, <2>2, <3>1, LockKept
    <2>3. CASE AddLock(n)
      BY <1>2, <1>6, <2>1, <2>3 DEF AddLock, LockFree
    <2>4. QED
      BY <1>1, <1>6, <2>2, <2>3, Actor, RelianceFlow
  <1>7. ASSUME npc'[n] = "rcommit", cur'[n].host \notin exposed'
        PROVE  /\ host_to_node_map'[cur'[n].host] = n
               /\ \A p \in Pids : pid_to_host_map'[n][p] # cur'[n].host
    <2>1. cur'[n].host \in Hosts /\ None \notin Hosts
      BY <1>4, <1>7, PoolAssumption DEF TypeInv, NodeShape
    <2>2. CASE npc[n] = "rcommit" /\ UNCHANGED <<cur[n], pid_to_host_map[n]>>
      <3>1. /\ host_to_node_map[cur[n].host] = n
            /\ \A p \in Pids : pid_to_host_map[n][p] # cur[n].host
        BY <1>1, <1>3, <1>7, <2>2 DEF LocksOf
      <3>2. host_to_node_map'[cur'[n].host] = n
        BY <1>5, <1>7, <2>1, <2>2, <3>1, LockKept
      <3>3. QED
        BY <2>2, <3>1, <3>2
    <2>3. CASE RemoveTake(n)
      <3> DEFINE j == Head(nodeq[n])
      <3>1. npc[n] = "idle" /\ npc[n] \in InLoop
        BY <2>3 DEF RemoveTake, Pop, InLoop
      <3>2. /\ pid_to_host_map[n][j.pid] # None
            /\ cur'[n].host = j.host
            /\ pid_to_host_map' = [pid_to_host_map EXCEPT ![n][j.pid] = None]
            /\ host_to_node_map' = host_to_node_map
        BY <1>2, <1>7, <2>3, <3>1 DEF RemoveTake
      <3>3. j.pid \in Pids
        BY <1>1, <2>3, TrackedRemove
      <3>4. pid_to_host_map[n][j.pid] = j.host
        BY <1>7, <2>3, <3>2 DEF RemoveTake
      <3> HIDE DEF j
      <3>5. host_to_node_map[j.host] = n
        BY <1>1, <1>3, <1>7, <2>1, <3>1, <3>2, <3>3, <3>4 DEF LocksOf
      <3>6. ASSUME NEW p \in Pids PROVE pid_to_host_map'[n][p] # j.host
        BY <1>1, <1>2, <2>1, <3>2, <3>3, <3>4 DEF UniqueOf
      <3>7. QED
        BY <3>2, <3>5, <3>6
    <2>4. QED
      BY <1>1, <1>7, <2>2, <2>3, Actor, RelianceFlow
  <1>8. ASSUME NEW p \in Pids, npc'[n] \in InLoop,
               pid_to_host_map'[n][p] \in Hosts \ exposed'
        PROVE  host_to_node_map'[pid_to_host_map'[n][p]] = n
    <2> DEFINE h == pid_to_host_map'[n][p]
    <2>1. h \in Hosts /\ h \notin exposed /\ h \notin exposed' /\ h # None
      BY <1>3, <1>8, PoolAssumption
    <2>2. CASE AddTrack(n) /\ p = cur[n].pid
      <3>1. /\ npc[n] = "track" /\ h = cur[n].host
            /\ host_to_node_map' = host_to_node_map
        BY <1>2, <2>2 DEF AddTrack, redis
      <3>2. QED
        BY <1>1, <2>1, <3>1 DEF LocksOf
    <2>3. CASE pid_to_host_map[n][p] = h
      <3>1. npc[n] \in InLoop
        <4>1. ~ListenBirth(n)
          BY <1>1, <2>1, <2>3 DEF ListenBirth, FreshOf, Starting
        <4>2. QED
          BY <1>1, <1>8, <4>1, Actor, RelianceFlow
      <3>2. host_to_node_map[h] = n
        BY <1>1, <2>1, <2>3, <3>1 DEF LocksOf
      <3>3. ~(RemoveCommit(n) /\ cur[n].host = h)
        BY <1>1, <1>5, <2>1, <2>3 DEF LocksOf
      <3>4. ~(AddForkFails(n) /\ cur[n].host = h)
        BY <1>1, <1>5, <2>3 DEF UniqueOf, Adding
      <3>5. ~CleanupMaps(n)
        BY <1>5, <1>8 DEF InLoop
      <3> HIDE DEF h
      <3>6. host_to_node_map'[h] = n
        BY <2>1, <3>2, <3>3, <3>4, <3>5, LockKept
      <3>7. QED
        BY <3>6 DEF h
    <2>4. AddTrack(n) /\ p # cur[n].pid => pid_to_host_map[n][p] = h
      BY <1>2 DEF AddTrack
    <2>5. RemoveTake(n) => pid_to_host_map[n][p] = h
      BY <1>2, <2>1 DEF RemoveTake
    <2>6. ~ProcessGone(n)
      BY <1>2, <2>1 DEF ProcessGone
    <2>7. QED
      BY <1>1, <2>2, <2>3, <2>4, <2>5, <2>6, Actor, PidMapWriters
  <1>9. QED
    BY <1>6, <1>7, <1>8 DEF LocksOf

LEMMA LockInit == Init => LockInv
  <1> SUFFICES ASSUME Init PROVE LockInv
    OBVIOUS
  <1>1. ASSUME NEW n \in Nodes
        PROVE  /\ npc[n] \in {"down", "idle"}
               /\ \A p \in Pids : pid_to_host_map[n][p] = None
    BY DEF Init
  <1>2. None \notin Hosts
    BY PoolAssumption
  <1>3. UniquePids
    BY <1>1 DEF UniquePids, UniqueOf, Adding
  <1>4. LocksHeld
    BY <1>1, <1>2 DEF LocksHeld, LocksOf
  <1>5. SweepsExposed
    BY <1>1 DEF SweepsExposed, Init
  <1>6. QED
    BY <1>3, <1>4, <1>5, TypeInit, CountInit DEF LockInv

LEMMA LockAlways == Spec => []LockInv
  <1>1. LockInv /\ [Next]_vars => LockInv'
    BY TypeNext, FreshNext, UniqueNext, SweepsNext, LocksNext DEF LockInv
  <1>2. QED
    BY <1>1, LockInit, PTL DEF Spec

(* A node that tracks a pinned worker holds the lock of its device, unless *)
(* a restart sweep, _force_delete_node or a stale remove job named it.     *)
THEOREM OwnerTheorem == Spec => []OwnerHoldsLock
  <1>1. LockInv => OwnerHoldsLock
    BY DEF LockInv, LocksHeld, LocksOf, OwnerHoldsLock
  <1>2. QED
    BY <1>1, LockAlways, PTL

(* For such a device no two nodes, and no two processes of one node, are   *)
(* tracked at the same time.                                               *)
THEOREM OneTrackerTheorem == Spec => []OneTrackerPerHost
  <1>1. LockInv => OneTrackerPerHost
    <2> SUFFICES ASSUME LockInv, NEW m \in Nodes, NEW n \in Nodes,
                        NEW p \in Pids, NEW q \in Pids,
                        npc[m] \in InLoop, npc[n] \in InLoop,
                        pid_to_host_map[m][p] \in Hosts \ exposed,
                        pid_to_host_map[m][p] = pid_to_host_map[n][q]
                 PROVE  m = n /\ p = q
      BY DEF OneTrackerPerHost
    <2>1. m = n
      BY DEF LockInv, LocksHeld, LocksOf
    <2>2. UniqueOf(n) /\ None \notin Hosts
      BY PoolAssumption DEF LockInv, UniquePids
    <2>3. QED
      BY <2>1, <2>2 DEF UniqueOf
  <1>2. QED
    BY <1>1, LockAlways, PTL
=============================================================================
