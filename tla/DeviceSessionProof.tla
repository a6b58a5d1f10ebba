------------------------- MODULE DeviceSessionProof -------------------------
(***************************************************************************)
(* Proofs about DeviceSession for any connection arguments, any number of  *)
(* jobs, any interval of deep checks and any number of broken connections. *)
(***************************************************************************)
EXTENDS DeviceSession, TLAPS

(* Where the main thread is on its way to a session, and where it has one. *)
Seeking == {"get", "stop", "join", "new"}
Holding == {"persist", "run", "busy", "close"}

(* The main thread has a job and no session yet, or a job and a session; a *)
(* slot is given up only on the way to a new session.                      *)
MainShape ==
  /\ main.pc \in Seeking \cup Holding => jobs \in Sids /\ main.args \in Args
  /\ main.pc \in Seeking => main.use = None
  /\ main.pc \in {"stop", "join"} => main.next = "new" /\ persisted_session # None
  /\ main.pc \in {"new", "persist"} => persisted_session = None
  /\ main.pc \in Holding => main.use \in Sids /\ main.use <= jobs
  /\ main.pc = "persist" => /\ main.args \in KeepArgs /\ main.use = jobs
                            /\ sess[main.use].args = main.args
  /\ main.pc = "close" => main.args \notin KeepArgs

(* The sessions still to be opened, with their monitors. *)
NextSid == IF main.pc \in Seeking THEN jobs ELSE jobs + 1

Unopened ==
  \A s \in Sids :
    /\ s >= NextSid => sess[s].st = "free" /\ persisted_session # s
    /\ s >= NextSid \/ (main.pc = "persist" /\ s = main.use) =>
         mon[s].pc = "none" /\ ~mon[s].told

(* The slot describes the session in it, and belongs to a thread. *)
SlotShape ==
  main.pc # "stopped" =>
    /\ persisted_session # None =>
         /\ persisted_conn_args \in KeepArgs
         /\ sess[persisted_session].args = persisted_conn_args
    /\ persisted_session = None =>
         persisted_conn_args = None /\ monitor_stop_event = None
    /\ monitor_thread = persisted_session

(* What the main thread does with sessions. *)
UseShape ==
  /\ main.pc \in {"run", "busy"} /\ main.args \in KeepArgs =>
       main.use = persisted_session
  /\ main.pc \in {"stop", "join"} => ~Active(persisted_session)
  /\ main.pc \in {"run", "busy", "close"} /\ driver = "netmiko"
       /\ main.args \notin KeepArgs => persisted_session = None

(* Who holds the lock. *)
LockShape ==
  /\ \A s \in Sids : mon[s].pc = "keep" => monitor_lock = s
  /\ driver = "netmiko" /\ main.pc = "busy" => monitor_lock = Main

(* The monitor of the persisted session has not been told to stop, unless  *)
(* the slot is being cleared or the process is about to end.               *)
Ending == sigterm \/ \E s \in Sids : mon[s].pc = "kill"

Watched ==
  persisted_session # None /\ main.pc \notin {"join", "stopped"} =>
    \/ Ending
    \/ /\ monitor_stop_event = "clear"
       /\ MonitorRuns(persisted_session)
       /\ ~mon[persisted_session].told

SessionInv ==
  /\ TypeOK /\ MainShape /\ Unopened /\ SlotShape /\ UseShape
  /\ SessionFitsJob /\ NoOrphanSession /\ LockShape /\ Watched

-----------------------------------------------------------------------------
(* The records, and what single writes do to them. *)
MonPCs == {"none", "top", "wait", "want", "keep", "kill", "dead"}
MonRec == [pc : MonPCs, told : BOOLEAN, deep : 0..DeepEvery - 1]
SessRec == [st : {"free", "open", "zombie", "lost", "closed"}, args : Args \cup {None}]
MainRec == [pc : {"idle", "get", "stop", "join", "new", "persist", "run",
                  "busy", "close", "stopped"},
            args : Args \cup {None}, use : Sids \cup {None}, next : {"idle", "new"}]

(* Waking the monitors that wait leaves all of them where they are. *)
LEMMA ToldKeeps ==
  ASSUME TypeOK
  PROVE  /\ Told \in [Sids -> MonRec]
         /\ \A s \in Sids : /\ Told[s].pc = mon[s].pc
                            /\ mon[s].pc # "wait" => Told[s].told = mon[s].told
  <1>1. ASSUME NEW s \in Sids
        PROVE  LET m == [mon[s] EXCEPT !.told = @ \/ mon[s].pc = "wait"]
               IN /\ m \in MonRec /\ m.pc = mon[s].pc
                  /\ mon[s].pc # "wait" => m.told = mon[s].told
    BY DEF TypeOK, MonRec, MonPCs
  <1>2. QED
    BY <1>1 DEF Told

(* The monitors as a function to records. *)
LEMMA MonTyped == SessionInv => mon \in [Sids -> MonRec]
  BY DEF SessionInv, TypeOK, MonRec, MonPCs

(* The monitor of s moves, and no other one does. *)
LEMMA MonMoves ==
  ASSUME SessionInv, NEW s \in Sids, NEW pc \in MonPCs,
         mon' = [mon EXCEPT ![s].pc = pc]
  PROVE  /\ mon' \in [Sids -> MonRec]
         /\ mon'[s].pc = pc /\ mon'[s].told = mon[s].told
         /\ \A t \in Sids \ {s} : mon'[t] = mon[t]
  <1>1. mon \in [Sids -> MonRec]
    BY MonTyped
  <1>2. [mon[s] EXCEPT !.pc = pc] \in MonRec
    BY <1>1 DEF MonRec
  <1>3. QED
    BY <1>1, <1>2 DEF MonRec

(* The monitor of s moves, and those that wait are told to stop. *)
LEMMA MonMovesTold ==
  ASSUME SessionInv, NEW s \in Sids, NEW pc \in MonPCs,
         mon' = [Told EXCEPT ![s].pc = pc]
  PROVE  /\ mon' \in [Sids -> MonRec]
         /\ mon'[s].pc = pc
         /\ \A t \in Sids \ {s} : /\ mon'[t].pc = mon[t].pc
                                  /\ mon[t].pc # "wait" => mon'[t].told = mon[t].told
  <1>1. Told \in [Sids -> MonRec]
    BY ToldKeeps DEF SessionInv
  <1>2. [Told[s] EXCEPT !.pc = pc] \in MonRec
    BY <1>1 DEF MonRec
  <1>3. /\ mon' \in [Sids -> MonRec] /\ mon'[s].pc = pc
        /\ \A t \in Sids \ {s} : mon'[t] = Told[t]
    BY <1>1, <1>2 DEF MonRec
  <1>4. QED
    BY <1>3, ToldKeeps DEF SessionInv

-----------------------------------------------------------------------------
(* The main thread.  A new job raises NextSid by one, and lowers it again   *)
(* by seeking a session.                                                    *)
LEMMA StartJobKeeps ==
  ASSUME SessionInv, StartJob
  PROVE  SessionInv'
  <1> USE SessionAssumption DEF SessionInv, Sids, Main, slot, monitoring
  <1>1. TypeOK'
    <2>1. main' \in MainRec
      BY DEF StartJob, TypeOK, IdleMain, MainRec
    <2>2. jobs' \in 0..MaxJobs
      BY DEF StartJob, TypeOK
    <2>3. QED
      BY <2>1, <2>2 DEF StartJob, TypeOK, MainRec
  <1>2. MainShape'
    BY DEF StartJob, IdleMain, TypeOK, MainShape, Seeking, Holding
  <1>3. Unopened'
    BY DEF StartJob, IdleMain, TypeOK, Unopened, NextSid, Seeking, Holding,
       MainShape
  <1>4. SlotShape' /\ UseShape' /\ SessionFitsJob' /\ NoOrphanSession'
        /\ LockShape' /\ Watched'
    BY DEF StartJob, IdleMain, TypeOK, SlotShape, UseShape, Active,
       SessionFitsJob, NoOrphanSession, LockShape, Watched, Ending,
       MonitorRuns, MainShape, Seeking, Holding
  <1>5. QED
    BY <1>1, <1>2, <1>3, <1>4

(* ArgsChanged compares with what the slot says of its session: the job     *)
(* gets one that fits.                                                      *)
LEMMA ReuseSessionKeeps ==
  ASSUME SessionInv, ReuseSession
  PROVE  SessionInv'
  <1> USE SessionAssumption DEF SessionInv, Sids, Main, slot, monitoring
  <1>1. TypeOK'
    BY DEF ReuseSession, TypeOK, MainShape, Seeking, Holding
  <1>2. MainShape'
    BY DEF ReuseSession, TypeOK, MainShape, Seeking, Holding, Unopened,
       NextSid
  <1>3. UseShape'
    BY DEF ReuseSession, TypeOK, UseShape, Active, MainShape, Seeking,
       Holding, ArgsChanged, SlotShape
  <1>4. SessionFitsJob'
    BY DEF ReuseSession, TypeOK, SessionFitsJob, MainShape, Seeking, Holding,
       ArgsChanged, SlotShape
  <1>5. Unopened' /\ SlotShape' /\ NoOrphanSession' /\ LockShape' /\ Watched'
    BY DEF ReuseSession, TypeOK, Unopened, NextSid, Seeking, Holding,
       SlotShape, NoOrphanSession, Active, LockShape, Watched, Ending,
       MonitorRuns, MainShape
  <1>6. QED
    BY <1>1, <1>2, <1>3, <1>4, <1>5

(* Nothing is persisted, and the main thread goes on to connect. *)
LEMMA NoSessionKeeps ==
  ASSUME SessionInv, NoSession
  PROVE  SessionInv'
  <1> USE SessionAssumption DEF SessionInv, Sids, Main, slot, monitoring
  <1>1. TypeOK' /\ MainShape' /\ Unopened' /\ SlotShape' /\ UseShape'
        /\ SessionFitsJob' /\ NoOrphanSession' /\ LockShape' /\ Watched'
    BY DEF NoSession, TypeOK, MainShape, Seeking, Holding, Unopened, NextSid,
       SlotShape, UseShape, Active, SessionFitsJob, NoOrphanSession,
       LockShape, Watched, Ending, MonitorRuns
  <1>2. QED
    BY <1>1

(* The session in the slot is closed before the slot is cleared. *)
LEMMA DropSessionKeeps ==
  ASSUME SessionInv, DropSession
  PROVE  SessionInv'
  <1> USE SessionAssumption DEF SessionInv, Sids, Main, slot, monitoring
  <1>1. TypeOK'
    <2>1. persisted_session \in Sids
      BY DEF TypeOK, DropSession, ArgsChanged
    <2>2. [sess[persisted_session] EXCEPT !.st = "closed"] \in SessRec
      <3>1. sess[persisted_session] \in SessRec
        BY <2>1 DEF TypeOK, SessRec
      <3>2. QED
        BY <3>1 DEF SessRec
    <2>3. QED
      BY <2>1, <2>2 DEF DropSession, Closed, TypeOK, SessRec
  <1>2. MainShape' /\ Unopened' /\ SlotShape' /\ UseShape' /\ SessionFitsJob'
        /\ NoOrphanSession' /\ LockShape' /\ Watched'
    BY DEF DropSession, Closed, ArgsChanged, TypeOK, MainShape, Seeking,
       Holding, Unopened, NextSid, SlotShape, UseShape, Active,
       SessionFitsJob, NoOrphanSession, LockShape, Watched, Ending,
       MonitorRuns
  <1>3. QED
    BY <1>1, <1>2

(* The session in the slot is not active: nothing is left behind. *)
LEMMA ForgetDeadSessionKeeps ==
  ASSUME SessionInv, ForgetDeadSession
  PROVE  SessionInv'
  <1> USE SessionAssumption DEF SessionInv, Sids, Main, slot, monitoring
  <1>1. TypeOK' /\ MainShape' /\ Unopened' /\ SlotShape' /\ UseShape'
        /\ SessionFitsJob' /\ NoOrphanSession' /\ LockShape' /\ Watched'
    BY DEF ForgetDeadSession, TypeOK, MainShape, Seeking, Holding, Unopened,
       NextSid, SlotShape, UseShape, Active, SessionFitsJob, NoOrphanSession,
       LockShape, Watched, Ending, MonitorRuns
  <1>2. QED
    BY <1>1

(* Telling the monitors changes nothing but what they have been told. *)
LEMMA StopMonitorKeeps ==
  ASSUME SessionInv, StopMonitor
  PROVE  SessionInv'
  <1> USE SessionAssumption DEF SessionInv, Sids, Main, slot, monitoring
  <1>1. mon' = mon \/ mon' = Told
    BY DEF StopMonitor
  <1>2. TypeOK'
    BY <1>1, ToldKeeps DEF StopMonitor, TypeOK, MonRec, MonPCs
  <1>3. Unopened'
    BY <1>1, ToldKeeps DEF StopMonitor, TypeOK, Unopened, NextSid, Seeking
  <1>4. LockShape' /\ Watched'
    BY <1>1, ToldKeeps DEF StopMonitor, TypeOK, LockShape, Watched
  <1>5. MainShape' /\ SlotShape' /\ UseShape' /\ SessionFitsJob'
        /\ NoOrphanSession'
    BY DEF StopMonitor, TypeOK, MainShape, Seeking, Holding, SlotShape,
       UseShape, Active, SessionFitsJob, NoOrphanSession
  <1>6. QED
    BY <1>2, <1>3, <1>4, <1>5

(* Slot, event and thread are cleared together, though the monitor may live *)
(* on.                                                                      *)
LEMMA ClearSessionKeeps ==
  ASSUME SessionInv, ClearSession
  PROVE  SessionInv'
  <1> USE SessionAssumption DEF SessionInv, Sids, Main, slot, monitoring
  <1>1. TypeOK' /\ MainShape'
    BY DEF ClearSession, ThreadAfterStop, TypeOK, MainShape, Seeking, Holding
  <1>2. Unopened' /\ SlotShape'
    BY DEF ClearSession, ThreadAfterStop, TypeOK, Unopened, NextSid, Seeking,
       Holding, SlotShape, MainShape
  <1>3. NoOrphanSession'
    BY DEF ClearSession, ThreadAfterStop, TypeOK, NoOrphanSession, Active,
       MainShape, Seeking, Holding, UseShape
  <1>4. UseShape' /\ SessionFitsJob' /\ LockShape' /\ Watched'
    BY DEF ClearSession, ThreadAfterStop, TypeOK, UseShape, Active,
       SessionFitsJob, LockShape, Watched, Ending, MonitorRuns, MainShape,
       Seeking, Holding
  <1>5. QED
    BY <1>1, <1>2, <1>3, <1>4

(* A job that cannot connect leaves the slot empty. *)
LEMMA ConnectFailsKeeps ==
  ASSUME SessionInv, ConnectFails
  PROVE  SessionInv'
  <1> USE SessionAssumption DEF SessionInv, Sids, Main, slot, monitoring
  <1>1. TypeOK' /\ MainShape' /\ Unopened' /\ SlotShape' /\ UseShape'
        /\ SessionFitsJob' /\ NoOrphanSession' /\ LockShape' /\ Watched'
    BY DEF ConnectFails, IdleMain, TypeOK, MainShape, Seeking, Holding,
       Unopened, NextSid, SlotShape, UseShape, Active, SessionFitsJob,
       NoOrphanSession, LockShape, Watched, Ending, MonitorRuns
  <1>2. QED
    BY <1>1

(* The new session is the first one not yet opened. *)
LEMMA ConnectKeeps ==
  ASSUME SessionInv, Connect
  PROVE  SessionInv'
  <1> USE SessionAssumption DEF SessionInv, Sids, Main, slot, monitoring
  <1>1. TypeOK'
    BY DEF Connect, TypeOK, MainShape, Seeking, Holding
  <1>2. MainShape'
    BY DEF Connect, TypeOK, MainShape, Seeking, Holding
  <1>3. Unopened'
    BY DEF Connect, TypeOK, Unopened, NextSid, Seeking, Holding, MainShape
  <1>4. SlotShape'
    BY DEF Connect, TypeOK, SlotShape, MainShape, Seeking, Holding
  <1>5. UseShape'
    BY DEF Connect, TypeOK, UseShape, Active, MainShape, Seeking, Holding
  <1>6. SessionFitsJob'
    BY DEF Connect, TypeOK, SessionFitsJob, MainShape, Seeking, Holding
  <1>7. NoOrphanSession'
    BY DEF Connect, TypeOK, NoOrphanSession, Active, MainShape, Seeking,
       Holding
  <1>8. LockShape' /\ Watched'
    BY DEF Connect, TypeOK, LockShape, Watched, Ending, MonitorRuns,
       MainShape, Seeking, Holding
  <1>9. QED
    BY <1>1, <1>2, <1>3, <1>4, <1>5, <1>6, <1>7, <1>8

(* The slot was empty, so the class knows of no monitor and starts one. *)
LEMMA PersistKeeps ==
  ASSUME SessionInv, Persist
  PROVE  SessionInv'
  <1> USE SessionAssumption DEF SessionInv, Sids, Main, slot, monitoring
  <1>1. monitor_thread = None
    BY DEF Persist, MainShape, SlotShape
  <1>2. /\ monitor_stop_event' = "clear" /\ monitor_thread' = main.use
        /\ mon' = [mon EXCEPT ![main.use].pc = "top"] /\ main.use \in Sids
    BY <1>1 DEF Persist, MainShape, Holding
  <1>3. /\ mon' \in [Sids -> MonRec]
        /\ mon'[main.use].pc = "top" /\ ~mon'[main.use].told
        /\ \A s \in Sids \ {main.use} : mon'[s] = mon[s]
    <2>1. ~mon[main.use].told
      BY <1>2 DEF Unopened, Persist
    <2>2. QED
      BY <1>2, <2>1, MonMoves DEF MonPCs
  <1>4. TypeOK'
    BY <1>2, <1>3 DEF Persist, TypeOK, MonRec, MonPCs, MainShape
  <1>5. Unopened'
    BY <1>2, <1>3 DEF Persist, TypeOK, Unopened, NextSid, Seeking, MainShape, Holding
  <1>6. SlotShape' /\ UseShape'
    BY <1>2 DEF Persist, TypeOK, SlotShape, UseShape, MainShape, Seeking, Holding, Active,
       SessionFitsJob
  <1>7. SessionFitsJob'
    BY DEF Persist, TypeOK, SessionFitsJob, MainShape, Seeking, Holding
  <1>8. LockShape' /\ Watched'
    BY <1>2, <1>3 DEF Persist, TypeOK, LockShape, Watched, MonitorRuns
  <1>9. MainShape' /\ NoOrphanSession'
    BY DEF Persist, TypeOK, MainShape, Seeking, Holding, NoOrphanSession,
       Active
  <1>10. QED
    BY <1>4, <1>5, <1>6, <1>7, <1>8, <1>9

(* A netmiko job takes the lock, so no monitor is in its keepalive. *)
LEMMA UseSessionKeeps ==
  ASSUME SessionInv, UseSession
  PROVE  SessionInv'
  <1> USE SessionAssumption DEF SessionInv, Sids, Main, slot, monitoring
  <1>1. TypeOK' /\ MainShape'
    BY DEF UseSession, JobLocks, TypeOK, MainShape, Seeking, Holding
  <1>2. LockShape'
    BY DEF UseSession, JobLocks, TypeOK, LockShape, MainShape, Seeking,
       Holding
  <1>3. Unopened' /\ SlotShape' /\ UseShape' /\ SessionFitsJob'
        /\ NoOrphanSession' /\ Watched'
    BY DEF UseSession, JobLocks, TypeOK, Unopened, NextSid, Seeking, Holding,
       SlotShape, UseShape, Active, SessionFitsJob, NoOrphanSession, Watched,
       Ending, MonitorRuns, MainShape
  <1>4. QED
    BY <1>1, <1>2, <1>3

(* A job with keepalive has used the persisted session, which stays. *)
LEMMA EndJobKeeps ==
  ASSUME SessionInv, EndJob
  PROVE  SessionInv'
  <1> USE SessionAssumption DEF SessionInv, Sids, Main, slot, monitoring
  <1>1. TypeOK'
    BY DEF EndJob, JobLocks, IdleMain, TypeOK, MainShape, Seeking, Holding
  <1>2. MainShape'
    BY DEF EndJob, JobLocks, IdleMain, TypeOK, MainShape, Seeking, Holding
  <1>3. Unopened'
    BY DEF EndJob, JobLocks, IdleMain, TypeOK, Unopened, NextSid, Seeking,
       Holding, MainShape
  <1>4. NoOrphanSession'
    BY DEF EndJob, JobLocks, IdleMain, TypeOK, NoOrphanSession, Active,
       MainShape, Seeking, Holding, UseShape
  <1>5. SlotShape' /\ UseShape' /\ SessionFitsJob' /\ LockShape' /\ Watched'
    BY DEF EndJob, JobLocks, IdleMain, TypeOK, SlotShape, UseShape, Active,
       SessionFitsJob, LockShape, Watched, Ending, MonitorRuns, MainShape,
       Seeking, Holding
  <1>6. QED
    BY <1>1, <1>2, <1>3, <1>4, <1>5

(* netmiko has nothing persisted when a job without keepalive ends. *)
LEMMA DisconnectKeeps ==
  ASSUME SessionInv, Disconnect
  PROVE  SessionInv'
  <1> USE SessionAssumption DEF SessionInv, Sids, Main, slot, monitoring
  <1>1. /\ main.use \in Sids /\ monitor_lock' = None /\ main' = IdleMain
    BY DEF Disconnect, UseShape, SlotShape, MainShape, Holding, TypeOK
  <1>2. TypeOK'
    <2>1. [sess[main.use] EXCEPT !.st = "closed"] \in SessRec
      BY <1>1 DEF TypeOK, SessRec
    <2>2. sess' \in [Sids -> SessRec] /\ main' \in MainRec
      BY <1>1, <2>1 DEF Disconnect, Closed, TypeOK, SessRec, MainRec, IdleMain
    <2>3. QED
      BY <1>1, <2>2 DEF Disconnect, TypeOK, SessRec, MainRec
  <1>3. Unopened'
    <2>1. /\ sess'[main.use].st = "closed" /\ jobs \in Sids
          /\ \A s \in Sids \ {main.use} : sess'[s] = sess[s]
      BY <1>1 DEF Disconnect, Closed, TypeOK, MainShape, Holding
    <2>2. main.use <= jobs /\ NextSid = jobs + 1 /\ NextSid' = jobs + 1
      BY <1>1 DEF Disconnect, MainShape, Holding, NextSid, Seeking, IdleMain
    <2>3. ASSUME NEW s \in Sids, s >= jobs + 1 PROVE s # main.use
      BY <1>1, <2>1, <2>2, <2>3
    <2>4. main'.pc # "persist"
      BY <1>1 DEF IdleMain
    <2>5. QED
      BY <2>1, <2>2, <2>3, <2>4 DEF Disconnect, Unopened
  <1>4. MainShape'
    BY <1>1 DEF Disconnect, Closed, IdleMain, TypeOK, MainShape, Seeking,
       Holding
  <1>5. UseShape'
    BY <1>1 DEF Disconnect, Closed, IdleMain, TypeOK, UseShape, Active,
       MainShape, Seeking, Holding
  <1>6. SlotShape' /\ SessionFitsJob' /\ NoOrphanSession' /\ LockShape'
        /\ Watched'
    BY DEF Disconnect, Closed, IdleMain, TypeOK, SlotShape, SessionFitsJob,
       NoOrphanSession, Active, LockShape, Watched, Ending, MonitorRuns,
       MainShape, Seeking, Holding
  <1>7. QED
    BY <1>2, <1>3, <1>4, <1>5, <1>6

(* The process ends with its sessions and threads. *)
LEMMA ExitKeeps ==
  ASSUME SessionInv, Exit
  PROVE  SessionInv'
  <1> USE SessionAssumption DEF SessionInv, Sids, Main, slot, monitoring
  <1>1. \A s \in Sids : mon'[s] = [mon[s] EXCEPT !.pc = IF @ = "none" THEN @ ELSE "dead"]
    BY DEF Exit
  <1>2. mon' \in [Sids -> MonRec]
    <2>1. ASSUME NEW s \in Sids
          PROVE  [mon[s] EXCEPT !.pc = IF @ = "none" THEN @ ELSE "dead"] \in MonRec
      BY DEF TypeOK, MonRec, MonPCs
    <2>2. QED
      BY <2>1 DEF Exit
  <1>3. sess' \in [Sids -> SessRec]
    <2>1. \A s \in Sids : [sess[s] EXCEPT !.st = "closed"] \in SessRec
      BY SMTT(30) DEF TypeOK, SessRec
    <2>2. QED
      BY <2>1 DEF Exit, TypeOK, SessRec
  <1>4. TypeOK'
    BY <1>2, <1>3 DEF Exit, TypeOK, MonRec, MonPCs, SessRec
  <1>5. Unopened'
    BY <1>1, SMTT(30) DEF Exit, TypeOK, MonRec, MonPCs, Unopened, NextSid, Seeking
  <1>6. MainShape' /\ SlotShape' /\ UseShape' /\ SessionFitsJob'
        /\ NoOrphanSession' /\ LockShape' /\ Watched'
    BY DEF Exit, TypeOK, MainShape, Seeking, Holding, SlotShape, UseShape,
       Active, SessionFitsJob, NoOrphanSession, LockShape, Watched, Ending,
       MonitorRuns
  <1>7. QED
    BY <1>4, <1>5, <1>6

-----------------------------------------------------------------------------
(* The monitors. *)

(* What a step of the monitor of s leaves to be shown: it touches no       *)
(* session and no slot, and it may tell the monitors that wait to stop.    *)
MonitorMoves(s) ==
  /\ UNCHANGED <<driver, sess, slot, monitor_thread, main, jobs, faults>>
  /\ mon[s].pc # "none" /\ mon'[s].pc # "none"
  /\ mon' \in [Sids -> MonRec]
  /\ \A t \in Sids \ {s} : /\ mon'[t].pc = mon[t].pc
                           /\ mon[t].pc # "wait" => mon'[t].told = mon[t].told
  /\ monitor_lock' \in Sids \cup {None, Main}
  /\ monitor_stop_event' \in {monitor_stop_event, "set"}
  /\ monitor_stop_event = None => monitor_stop_event' = None
  /\ sigterm' \in BOOLEAN

(* Such a step keeps the invariant if it keeps the lock and the watch. *)
LEMMA MonitorMovesKeep ==
  ASSUME NEW s \in Sids, SessionInv, MonitorMoves(s), LockShape', Watched'
  PROVE  SessionInv'
  <1> USE SessionAssumption DEF SessionInv, Sids, Main, slot, MonitorMoves
  <1>1. TypeOK'
    BY DEF TypeOK, MonRec, MonPCs
  <1>2. Unopened'
    BY DEF Unopened, NextSid
  <1>3. SlotShape'
    BY DEF SlotShape
  <1>4. /\ MainShape' /\ UseShape' /\ SessionFitsJob' /\ NoOrphanSession'
    BY DEF MainShape, UseShape, SessionFitsJob, NoOrphanSession, Active
  <1>5. QED
    BY <1>1, <1>2, <1>3, <1>4

(* A new round: the monitor of the slot finds its event clear. *)
LEMMA MonitorLoopKeeps ==
  ASSUME NEW s \in Sids, SessionInv, MonitorLoop(s)
  PROVE  SessionInv'
  <1> USE SessionAssumption DEF SessionInv, Main, slot, MonitorLoop
  <1>1. /\ mon' \in [Sids -> MonRec] /\ ~mon'[s].told
        /\ mon'[s].pc = IF monitor_stop_event = "clear" THEN "wait" ELSE "dead"
        /\ \A t \in Sids \ {s} : mon'[t] = mon[t]
    <2>1. [mon[s] EXCEPT !.pc = IF monitor_stop_event = "clear" THEN "wait" ELSE "dead",
                         !.told = FALSE] \in MonRec
      <3>1. mon[s] \in MonRec
        BY MonTyped
      <3>2. QED
        BY <3>1 DEF MonRec, MonPCs
    <2>2. QED
      BY <2>1 DEF TypeOK, MonRec, MonPCs
  <1>2. MonitorMoves(s)
    BY <1>1 DEF MonitorMoves, TypeOK
  <1>3. LockShape'
    BY <1>1 DEF LockShape
  <1>4. Watched'
    <2>1. Ending => Ending'
      BY <1>1 DEF Ending
    <2>2. QED
      BY <1>1, <2>1 DEF Watched, MonitorRuns, TypeOK
  <1>5. QED
    BY <1>2, <1>3, <1>4, MonitorMovesKeep

(* Only a monitor that has been told ends here. *)
LEMMA MonitorToldKeeps ==
  ASSUME NEW s \in Sids, SessionInv, MonitorTold(s)
  PROVE  SessionInv'
  <1> USE SessionAssumption DEF SessionInv, Main, slot, MonitorTold
  <1>1. /\ mon' \in [Sids -> MonRec] /\ mon'[s].told = mon[s].told
        /\ mon'[s].pc = "dead"
        /\ \A t \in Sids \ {s} : mon'[t] = mon[t]
    BY MonMoves DEF MonPCs
  <1>2. MonitorMoves(s)
    BY <1>1 DEF MonitorMoves, TypeOK
  <1>3. LockShape'
    BY <1>1 DEF LockShape
  <1>4. Watched'
    <2>1. Ending => Ending'
      BY <1>1 DEF Ending
    <2>2. QED
      BY <1>1, <2>1 DEF Watched, MonitorRuns, TypeOK
  <1>5. QED
    BY <1>2, <1>3, <1>4, MonitorMovesKeep

(* The monitor queues for the lock. *)
LEMMA MonitorDueKeeps ==
  ASSUME NEW s \in Sids, SessionInv, MonitorDue(s)
  PROVE  SessionInv'
  <1> USE SessionAssumption DEF SessionInv, Main, slot, MonitorDue
  <1>1. /\ mon' \in [Sids -> MonRec] /\ mon'[s].told = mon[s].told
        /\ mon'[s].pc = "want"
        /\ \A t \in Sids \ {s} : mon'[t] = mon[t]
    BY MonMoves DEF MonPCs
  <1>2. MonitorMoves(s)
    BY <1>1 DEF MonitorMoves, TypeOK
  <1>3. LockShape'
    BY <1>1 DEF LockShape
  <1>4. Watched'
    <2>1. Ending => Ending'
      BY <1>1 DEF Ending
    <2>2. QED
      BY <1>1, <2>1 DEF Watched, MonitorRuns, TypeOK
  <1>5. QED
    BY <1>2, <1>3, <1>4, MonitorMovesKeep

(* A monitor that finds its session dead is on its way to end the process. *)
LEMMA MonitorCheckKeeps ==
  ASSUME NEW s \in Sids, SessionInv, MonitorCheck(s)
  PROVE  SessionInv'
  <1> USE SessionAssumption DEF SessionInv, Main, slot, MonitorCheck
  <1>1. CASE monitor_stop_event # "clear"
    <2>1. /\ mon' \in [Sids -> MonRec] /\ mon'[s].told = mon[s].told
          /\ mon'[s].pc = "dead"
          /\ \A t \in Sids \ {s} : mon'[t] = mon[t]
      BY <1>1, MonMoves DEF MonPCs
    <2>2. MonitorMoves(s)
      BY <1>1, <2>1 DEF MonitorMoves, TypeOK
    <2>3. LockShape' /\ Watched'
      BY <1>1, <2>1 DEF LockShape, Watched, Ending
    <2>4. QED
      BY <2>2, <2>3, MonitorMovesKeep
  <1>2. CASE monitor_stop_event = "clear" /\ ~Active(s)
    <2>1. /\ mon' \in [Sids -> MonRec] /\ mon'[s].pc = "kill"
          /\ \A t \in Sids \ {s} :
               /\ mon'[t].pc = mon[t].pc
               /\ mon[t].pc # "wait" => mon'[t].told = mon[t].told
      BY <1>2, MonMovesTold DEF MonPCs
    <2>2. MonitorMoves(s)
      BY <1>2, <2>1 DEF MonitorMoves, TypeOK
    <2>3. LockShape' /\ Watched'
      BY <1>2, <2>1 DEF LockShape, Watched, Ending
    <2>4. QED
      BY <2>2, <2>3, MonitorMovesKeep
  <1>3. CASE monitor_stop_event = "clear" /\ Active(s)
    <2>1. /\ mon' \in [Sids -> MonRec] /\ mon'[s].told = mon[s].told
          /\ mon'[s].pc = "keep"
          /\ \A t \in Sids \ {s} : mon'[t] = mon[t]
      BY <1>3, MonMoves DEF MonPCs
    <2>2. MonitorMoves(s)
      BY <1>3, <2>1 DEF MonitorMoves, TypeOK
    <2>3. LockShape'
      BY <1>3, <2>1 DEF LockShape, Sids
    <2>4. Watched'
      BY <1>3, <2>1 DEF Watched, Ending, MonitorRuns, TypeOK
    <2>5. QED
      BY <2>2, <2>3, <2>4, MonitorMovesKeep
  <1>4. QED
    BY <1>1, <1>2, <1>3

(* A failed keepalive ends the process, unless the slot is gone already. *)
LEMMA MonitorKeepaliveKeeps ==
  ASSUME NEW s \in Sids, SessionInv, MonitorKeepalive(s)
  PROVE  SessionInv'
  <1> USE SessionAssumption DEF SessionInv, Main, slot, MonitorKeepalive
  <1>1. CASE KeepaliveFails(s)
    <2>1. /\ mon' \in [Sids -> MonRec]
          /\ mon'[s].pc = IF monitor_stop_event = None THEN "dead" ELSE "kill"
          /\ \A t \in Sids \ {s} :
               /\ mon'[t].pc = mon[t].pc
               /\ mon[t].pc # "wait" => mon'[t].told = mon[t].told
      BY <1>1, MonMovesTold DEF MonPCs
    <2>2. MonitorMoves(s)
      BY <1>1, <2>1 DEF MonitorMoves, TypeOK
    <2>3. LockShape'
      BY <1>1, <2>1 DEF LockShape, Sids
    <2>4. Watched'
      BY <1>1, <2>1 DEF Watched, Ending
    <2>5. QED
      BY <2>2, <2>3, <2>4, MonitorMovesKeep
  <1>2. CASE ~KeepaliveFails(s)
    <2>1. /\ mon' \in [Sids -> MonRec] /\ mon'[s].told = mon[s].told
          /\ mon'[s].pc = "top"
          /\ \A t \in Sids \ {s} : mon'[t] = mon[t]
      <3>1. NextDeep(mon[s].deep) \in 0..DeepEvery - 1
        <4>1. mon[s].deep + 1 \in Nat
          BY DEF TypeOK
        <4>2. QED
          BY <4>1 DEF NextDeep
      <3>2. [mon[s] EXCEPT !.pc = "top", !.deep = NextDeep(@)] \in MonRec
        <4>1. mon[s] \in MonRec
          BY MonTyped
        <4>2. QED
          BY <3>1, <4>1 DEF MonRec, MonPCs
      <3>3. QED
        BY <1>2, <3>2, MonTyped DEF MonRec
    <2>2. MonitorMoves(s)
      BY <1>2, <2>1 DEF MonitorMoves, TypeOK
    <2>3. LockShape'
      BY <1>2, <2>1 DEF LockShape, Sids
    <2>4. Watched'
      <3>1. Ending => Ending'
        BY <2>1 DEF Ending
      <3>2. QED
        BY <1>2, <2>1, <3>1 DEF Watched, MonitorRuns, TypeOK
    <2>5. QED
      BY <2>2, <2>3, <2>4, MonitorMovesKeep
  <1>3. QED
    BY <1>1, <1>2

(* From here on the process has been sent SIGTERM. *)
LEMMA MonitorSuicideKeeps ==
  ASSUME NEW s \in Sids, SessionInv, MonitorSuicide(s)
  PROVE  SessionInv'
  <1> USE SessionAssumption DEF SessionInv, Main, slot, MonitorSuicide
  <1>1. /\ mon' \in [Sids -> MonRec] /\ mon'[s].pc = "dead"
        /\ \A t \in Sids \ {s} : mon'[t] = mon[t]
    BY MonMoves DEF MonPCs
  <1>2. MonitorMoves(s)
    BY <1>1 DEF MonitorMoves, TypeOK
  <1>3. LockShape' /\ Watched'
    BY <1>1 DEF LockShape, Watched, Ending
  <1>4. QED
    BY <1>2, <1>3, MonitorMovesKeep

-----------------------------------------------------------------------------
(* The network: a session that goes bad changes nothing else. *)
LEMMA GoesBadKeeps ==
  ASSUME NEW s \in Sids, NEW st \in {"lost", "zombie"}, SessionInv, GoesBad(s, st)
  PROVE  SessionInv'
  <1> USE SessionAssumption DEF SessionInv, Sids, Main, slot, monitoring, GoesBad
  <1>1. /\ sess' \in [Sids -> SessRec]
        /\ sess'[s].st = st /\ sess'[s].args = sess[s].args
        /\ \A t \in Sids \ {s} : sess'[t] = sess[t]
    <2>1. [sess[s] EXCEPT !.st = st] \in SessRec
      BY DEF TypeOK, SessRec
    <2>2. QED
      BY <2>1 DEF TypeOK, SessRec
  <1>2. TypeOK'
    BY <1>1 DEF TypeOK, SessRec
  <1>3. MainShape' /\ Unopened'
    BY <1>1 DEF TypeOK, MainShape, Holding, Unopened, NextSid
  <1>4. SlotShape' /\ UseShape'
    BY <1>1 DEF TypeOK, SlotShape, UseShape, Active
  <1>5. SessionFitsJob' /\ NoOrphanSession'
    BY <1>1 DEF TypeOK, SessionFitsJob, MainShape, Holding, NoOrphanSession, Active
  <1>6. LockShape' /\ Watched'
    BY DEF LockShape, Watched, Ending, MonitorRuns
  <1>7. QED
    BY <1>2, <1>3, <1>4, <1>5, <1>6

-----------------------------------------------------------------------------
(* The session invariant holds in every reachable state. *)
LEMMA SessionInvariant == Spec => []SessionInv
  <1>1. Init => SessionInv
    <2> SUFFICES ASSUME Init PROVE SessionInv
      OBVIOUS
    <2> USE SessionAssumption DEF Init, IdleMain, NoMonitor, Sids, Main
    <2>1. TypeOK
      <3>1. /\ sess \in [Sids -> SessRec] /\ main \in MainRec
            /\ mon \in [Sids -> MonRec]
        BY DEF SessRec, MainRec, MonRec, MonPCs
      <3>2. driver \in Drivers /\ jobs \in 0..MaxJobs /\ faults \in 0..MaxFaults
        OBVIOUS
      <3>3. /\ persisted_session = None /\ persisted_conn_args = None
            /\ monitor_lock = None /\ monitor_stop_event = None
            /\ monitor_thread = None /\ sigterm = FALSE
        OBVIOUS
      <3> HIDE SessionAssumption DEF Init
      <3>4. QED
        BY <3>1, <3>2, <3>3 DEF TypeOK, SessRec, MainRec, MonRec, MonPCs
    <2>2. MainShape /\ Unopened /\ SlotShape /\ UseShape
      BY DEF MainShape, Unopened, NextSid, SlotShape, UseShape, Seeking, Holding
    <2>3. SessionFitsJob /\ NoOrphanSession /\ LockShape /\ Watched
      BY DEF SessionFitsJob, NoOrphanSession, Active, LockShape, Watched
    <2>4. QED
      BY <2>1, <2>2, <2>3 DEF SessionInv
  <1>2. SessionInv /\ [Next]_vars => SessionInv'
    <2> SUFFICES ASSUME SessionInv, [Next]_vars PROVE SessionInv'
      OBVIOUS
    <2>1. CASE StartJob
      BY <2>1, StartJobKeeps
    <2>2. CASE MainStep
      BY <2>2, ReuseSessionKeeps, NoSessionKeeps, DropSessionKeeps,
         ForgetDeadSessionKeeps, StopMonitorKeeps, ClearSessionKeeps,
         ConnectFailsKeeps, ConnectKeeps, PersistKeeps, UseSessionKeeps,
         EndJobKeeps, DisconnectKeeps, ExitKeeps DEF MainStep
    <2>3. ASSUME NEW s \in Sids, MonitorStep(s) PROVE SessionInv'
      BY <2>3, MonitorLoopKeeps, MonitorToldKeeps, MonitorDueKeeps,
         MonitorCheckKeeps, MonitorKeepaliveKeeps, MonitorSuicideKeeps
         DEF MonitorStep
    <2>4. ASSUME NEW s \in Sids, GoesBad(s, "lost") \/ GoesBad(s, "zombie")
          PROVE  SessionInv'
      BY <2>4, GoesBadKeeps
    <2>5. CASE UNCHANGED vars
      BY <2>5 DEF vars, slot, monitoring, SessionInv, TypeOK, MainShape,
         Unopened, NextSid, SlotShape, UseShape, SessionFitsJob,
         NoOrphanSession, Active, LockShape, Watched, Ending, MonitorRuns
    <2>6. QED
      BY <2>1, <2>2, <2>3, <2>4, <2>5 DEF Next
  <1>3. QED
    BY <1>1, <1>2, PTL DEF Spec

(* The class attributes, threads and sessions of the driver always have    *)
(* their types, the counter of deep checks included.                       *)
THEOREM SessionTypeCorrect == Spec => []TypeOK
  <1>1. SessionInv => TypeOK
    BY DEF SessionInv
  <1>2. QED
    BY <1>1, SessionInvariant, PTL

(* netmiko: no keepalive is ever written into a session that a job is      *)
(* using, because both hold the lock for it.                               *)
THEOREM ChannelsAreExclusive == Spec => []ChannelExclusive
  <1>1. SessionInv => ChannelExclusive
    BY SessionAssumption DEF SessionInv, LockShape, ChannelExclusive, Sids, Main
  <1>2. QED
    BY <1>1, SessionInvariant, PTL

(* A job runs on a session of its own device, with netmiko even of its own *)
(* connection arguments.                                                   *)
THEOREM SessionsFitJobs == Spec => []SessionFitsJob
  <1>1. SessionInv => SessionFitsJob
    BY DEF SessionInv
  <1>2. QED
    BY <1>1, SessionInvariant, PTL

(* connect() and disconnect() leave no open session behind on the device.  *)
THEOREM SessionsAreOwned == Spec => []NoOrphanSession
  <1>1. SessionInv => NoOrphanSession
    BY DEF SessionInv
  <1>2. QED
    BY <1>1, SessionInvariant, PTL

(* A session kept between two jobs has its monitor, or the process is      *)
(* about to end.                                                           *)
THEOREM KeptSessionsAreWatched == Spec => []PersistedIsWatched
  <1>1. SessionInv => PersistedIsWatched
    BY DEF SessionInv, Watched, Ending, PersistedIsWatched
  <1>2. QED
    BY <1>1, SessionInvariant, PTL
=============================================================================
