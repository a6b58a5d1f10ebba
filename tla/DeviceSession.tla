--------------------------- MODULE DeviceSession ---------------------------
(***************************************************************************)
(* The persistent device session of one process: the class attributes of   *)
(* ParamikoDriver and NetmikoDriver, the main thread that runs one job     *)
(* after the other (execute() in services/rpc.py) and the keepalive        *)
(* monitor threads, which share one lock and one stop event with it.       *)
(*                                                                         *)
(* The process is a pinned worker, or the controller, whose /device/test   *)
(* connects with paramiko through the same class attributes.  A monitor is *)
(* named by the session it was started for.  What a job does on its        *)
(* session is the subject of DeviceJob; here it only uses it for a while.  *)
(***************************************************************************)
EXTENDS Integers, FiniteSets

CONSTANTS
  Drivers,    \* drivers the process may be using
  Args,       \* connection arguments jobs arrive with
  KeepArgs,   \* the ones with a keepalive interval
  HostOf,     \* HostOf[a]: the device of a (a pinned worker has one)
  DeepEvery,  \* keepalives between two deep checks (deep_check_counter >= 5)
  MaxJobs,    \* bound on the jobs the process runs
  MaxFaults,  \* bound on the connections that go bad
  None        \* null marker

ASSUME SessionAssumption ==
  /\ Drivers \subseteq {"paramiko", "netmiko"}
  /\ KeepArgs \subseteq Args
  /\ DeepEvery \in Nat \ {0}
  /\ MaxJobs \in Nat /\ MaxFaults \in Nat
  /\ None \notin Args /\ None \notin 0..MaxJobs /\ None \notin {"clear", "set"}

Sids == 1..MaxJobs   \* a job opens at most one session
Main == 0            \* the main thread, as a holder of the lock

VARIABLES
  driver,                \* the driver class in use
  sess,                  \* the SSH sessions opened so far
  persisted_session,     \* cls.persisted_session
  persisted_conn_args,   \* cls.persisted_conn_args
  monitor_lock,          \* cls._monitor_lock: None, Main or a monitor
  monitor_stop_event,    \* cls._monitor_stop_event: None, "clear" or "set"
  monitor_thread,        \* cls._monitor_thread
  mon,                   \* the monitor threads
  main,                  \* the main thread: its place, its job and session
  jobs,                  \* jobs started so far
  sigterm,               \* the process has been sent SIGTERM
  faults                 \* connections gone bad so far

slot == <<persisted_session, persisted_conn_args>>
monitoring == <<monitor_lock, monitor_stop_event, monitor_thread, mon>>
vars == <<driver, sess, slot, monitoring, main, jobs, sigterm, faults>>

NoMonitor == [pc |-> "none", told |-> FALSE, deep |-> 0]
IdleMain == [pc |-> "idle", args |-> None, use |-> None, next |-> "idle"]

(* The class attributes, threads and sessions have their types; in        *)
(* particular the counter of deep checks stays below DeepEvery.            *)
TypeOK ==
  /\ driver \in Drivers
  /\ sess \in [Sids -> [st : {"free", "open", "zombie", "lost", "closed"},
                        args : Args \cup {None}]]
  /\ persisted_session \in Sids \cup {None}
  /\ persisted_conn_args \in KeepArgs \cup {None}
  /\ monitor_lock \in Sids \cup {None, Main}
  /\ monitor_stop_event \in {None, "clear", "set"}
  /\ monitor_thread \in Sids \cup {None}
  /\ mon \in [Sids -> [pc : {"none", "top", "wait", "want", "keep", "kill", "dead"},
                       told : BOOLEAN, deep : 0..DeepEvery - 1]]
  /\ main \in [pc : {"idle", "get", "stop", "join", "new", "persist", "run",
                     "busy", "close", "stopped"},
               args : Args \cup {None}, use : Sids \cup {None},
               next : {"idle", "new"}]
  /\ jobs \in 0..MaxJobs
  /\ sigterm \in BOOLEAN
  /\ faults \in 0..MaxFaults

Init ==
  /\ driver \in Drivers
  /\ sess = [s \in Sids |-> [st |-> "free", args |-> None]]
  /\ persisted_session = None
  /\ persisted_conn_args = None
  /\ monitor_lock = None
  /\ monitor_stop_event = None
  /\ monitor_thread = None
  /\ mon = [s \in Sids |-> NoMonitor]
  /\ main = IdleMain
  /\ jobs = 0
  /\ sigterm = FALSE
  /\ faults = 0

-----------------------------------------------------------------------------
(* Helpers. *)

(* transport.is_active(): a zombie answers TCP but runs nothing. *)
Active(s) == sess[s].st \in {"open", "zombie"}

MonitorRuns(s) == mon[s].pc \notin {"none", "dead"}

(* Setting the event wakes every monitor that waits on it. *)
Told == [s \in Sids |-> [mon[s] EXCEPT !.told = @ \/ mon[s].pc = "wait"]]

(* send() and config() of netmiko run under the lock, those of paramiko do *)
(* not.  Mutant: neither does.                                             *)
JobLocksNever == FALSE
JobLocks == driver = "netmiko"

(* session.close().  Mutant: the session is dropped without closing it. *)
Unclosed(s) == sess
Closed(s) == [sess EXCEPT ![s].st = "closed"]

(* deep_check_counter.  Mutant: it is not reset. *)
NextDeepNoReset(d) == d + 1
NextDeep(d) == (d + 1) % DeepEvery

(* cls._monitor_thread after a stop, joined or not.  Mutant: it is kept. *)
ThreadKept == monitor_thread
ThreadAfterStop == None

(* The connection arguments differ in what the driver compares.  Mutant:   *)
(* both drivers compare the host only.                                     *)
HostChanged(a) ==
  persisted_session # None /\ HostOf[persisted_conn_args] # HostOf[a]

ArgsChanged(a) ==
  /\ persisted_session # None
  /\ IF driver = "paramiko" THEN HostOf[persisted_conn_args] # HostOf[a]
                            ELSE persisted_conn_args # a

-----------------------------------------------------------------------------
(* The main thread: connect(), the job, disconnect(). *)

(* rq hands over the next job unless it has been told to stop. *)
StartJob ==
  /\ main.pc = "idle" /\ jobs < MaxJobs /\ ~sigterm
  /\ \E a \in Args : main' = [IdleMain EXCEPT !.pc = "get", !.args = a]
  /\ jobs' = jobs + 1
  /\ UNCHANGED <<driver, sess, slot, monitoring, sigterm, faults>>

(* The persisted session is handed out again; only paramiko looks whether  *)
(* it is still active.                                                     *)
ReuseSession ==
  /\ main.pc = "get" /\ persisted_session # None
  /\ ~ArgsChanged(main.args)
  /\ driver = "paramiko" => Active(persisted_session)
  /\ main' = [main EXCEPT !.pc = "run", !.use = persisted_session]
  /\ UNCHANGED <<driver, sess, slot, monitoring, jobs, sigterm, faults>>

NoSession ==
  /\ main.pc = "get" /\ persisted_session = None
  /\ main' = [main EXCEPT !.pc = "new"]
  /\ UNCHANGED <<driver, sess, slot, monitoring, jobs, sigterm, faults>>

(* New arguments: the old session is closed and cleared under the lock. *)
DropSession ==
  /\ main.pc = "get" /\ ArgsChanged(main.args)
  /\ monitor_lock = None
  /\ monitor_lock' = Main
  /\ sess' = Closed(persisted_session)
  /\ main' = [main EXCEPT !.pc = "stop", !.next = "new"]
  /\ UNCHANGED <<driver, slot, monitor_stop_event, monitor_thread, mon, jobs,
                 sigterm, faults>>

(* An inactive session is cleared without the lock. *)
ForgetDeadSession ==
  /\ main.pc = "get" /\ driver = "paramiko"
  /\ persisted_session # None
  /\ ~ArgsChanged(main.args) /\ ~Active(persisted_session)
  /\ main' = [main EXCEPT !.pc = "stop", !.next = "new"]
  /\ UNCHANGED <<driver, sess, slot, monitoring, jobs, sigterm, faults>>

(* _stop_monitor_thread: tell the monitor to stop ... *)
StopMonitor ==
  /\ main.pc = "stop"
  /\ monitor_stop_event' = IF monitor_stop_event = None THEN None ELSE "set"
  /\ mon' = IF monitor_stop_event = None THEN mon ELSE Told
  /\ main' = [main EXCEPT !.pc = "join"]
  /\ UNCHANGED <<driver, sess, slot, monitor_lock, monitor_thread, jobs,
                 sigterm, faults>>

(* join(timeout=5) gives up on a monitor that waits for the lock its       *)
(* caller holds, or that is in the middle of a slow keepalive.             *)
Joined ==
  monitor_thread # None =>
    \/ ~MonitorRuns(monitor_thread)
    \/ mon[monitor_thread].pc = "want" /\ monitor_lock # None
    \/ mon[monitor_thread].pc = "keep"

(* ... and forget it whether it has ended or not, then clear the slot. *)
ClearSession ==
  /\ main.pc = "join" /\ Joined
  /\ monitor_thread' = ThreadAfterStop
  /\ monitor_stop_event' = None
  /\ persisted_session' = None
  /\ persisted_conn_args' = None
  /\ monitor_lock' = IF monitor_lock = Main THEN None ELSE monitor_lock
  /\ main' = [main EXCEPT !.pc = main.next]
  /\ UNCHANGED <<driver, sess, mon, jobs, sigterm, faults>>

ConnectFails ==
  /\ main.pc = "new"
  /\ main' = IdleMain
  /\ UNCHANGED <<driver, sess, slot, monitoring, jobs, sigterm, faults>>

(* A new connection, direct or through the jump host. *)
Connect ==
  /\ main.pc = "new"
  /\ sess' = [sess EXCEPT ![jobs] = [st |-> "open", args |-> main.args]]
  /\ main' = [main EXCEPT !.use = jobs,
                          !.pc = IF main.args \in KeepArgs THEN "persist" ELSE "run"]
  /\ UNCHANGED <<driver, slot, monitoring, jobs, sigterm, faults>>

(* _set_persisted_session and _start_monitor_thread: no second monitor is  *)
(* started while the one the class knows of still runs.                    *)
Persist ==
  /\ main.pc = "persist"
  /\ persisted_session' = main.use
  /\ persisted_conn_args' = main.args
  /\ main' = [main EXCEPT !.pc = "run"]
  /\ IF monitor_thread # None /\ MonitorRuns(monitor_thread)
       THEN UNCHANGED <<monitor_stop_event, monitor_thread, mon>>
       ELSE /\ monitor_stop_event' = "clear"
            /\ monitor_thread' = main.use
            /\ mon' = [mon EXCEPT ![main.use].pc = "top"]
  /\ UNCHANGED <<driver, sess, monitor_lock, jobs, sigterm, faults>>

(* send() or config() begins, and ends. *)
UseSession ==
  /\ main.pc = "run"
  /\ JobLocks => monitor_lock = None
  /\ monitor_lock' = IF JobLocks THEN Main ELSE monitor_lock
  /\ main' = [main EXCEPT !.pc = "busy"]
  /\ UNCHANGED <<driver, sess, slot, monitor_stop_event, monitor_thread, mon,
                 jobs, sigterm, faults>>

EndJob ==
  /\ main.pc = "busy"
  /\ monitor_lock' = IF JobLocks THEN None ELSE monitor_lock
  /\ main' = IF main.args \in KeepArgs THEN IdleMain
                                       ELSE [main EXCEPT !.pc = "close"]
  /\ UNCHANGED <<driver, sess, slot, monitor_stop_event, monitor_thread, mon,
                 jobs, sigterm, faults>>

(* disconnect() of a job without keepalive closes what it used, a reused   *)
(* persisted session included.  paramiko leaves the slot as it is; netmiko *)
(* clears it, and with nothing persisted its assertion fails, which        *)
(* execute() swallows.                                                     *)
Disconnect ==
  /\ main.pc = "close" /\ monitor_lock = None
  /\ sess' = Closed(main.use)
  /\ LET clears == driver = "netmiko" /\ persisted_conn_args # None
     IN /\ monitor_lock' = IF clears THEN Main ELSE None
        /\ main' = IF clears THEN [main EXCEPT !.pc = "stop", !.next = "idle"]
                             ELSE IdleMain
  /\ UNCHANGED <<driver, slot, monitor_stop_event, monitor_thread, mon, jobs,
                 sigterm, faults>>

(* SIGTERM ends an rq worker between two jobs; its threads and sockets go. *)
Exit ==
  /\ main.pc = "idle" /\ sigterm
  /\ main' = [main EXCEPT !.pc = "stopped"]
  /\ sess' = [s \in Sids |-> IF sess[s].st = "free" THEN sess[s]
                             ELSE [sess[s] EXCEPT !.st = "closed"]]
  /\ mon' = [s \in Sids |-> [mon[s] EXCEPT !.pc = IF @ = "none" THEN @ ELSE "dead"]]
  /\ persisted_session' = None
  /\ UNCHANGED <<driver, persisted_conn_args, monitor_lock, monitor_stop_event,
                 monitor_thread, jobs, sigterm, faults>>

-----------------------------------------------------------------------------
(* The monitor of session s. *)

(* The loop condition reads the class attribute: a monitor whose event is  *)
(* gone dies of the exception, one whose event is set just ends.           *)
MonitorLoop(s) ==
  /\ mon[s].pc = "top"
  /\ mon' = [mon EXCEPT ![s].pc = IF monitor_stop_event = "clear" THEN "wait" ELSE "dead",
                        ![s].told = FALSE]
  /\ UNCHANGED <<driver, sess, slot, monitor_lock, monitor_stop_event,
                 monitor_thread, main, jobs, sigterm, faults>>

MonitorTold(s) ==
  /\ mon[s].pc = "wait" /\ mon[s].told
  /\ mon' = [mon EXCEPT ![s].pc = "dead"]
  /\ UNCHANGED <<driver, sess, slot, monitor_lock, monitor_stop_event,
                 monitor_thread, main, jobs, sigterm, faults>>

(* The keepalive interval is over. *)
MonitorDue(s) ==
  /\ mon[s].pc = "wait" /\ ~mon[s].told
  /\ mon' = [mon EXCEPT ![s].pc = "want"]
  /\ UNCHANGED <<driver, sess, slot, monitor_lock, monitor_stop_event,
                 monitor_thread, main, jobs, sigterm, faults>>

(* With the lock: the double check, and the health of the own session. *)
MonitorCheck(s) ==
  /\ mon[s].pc = "want" /\ monitor_lock = None
  /\ \/ /\ monitor_stop_event # "clear"
        /\ mon' = [mon EXCEPT ![s].pc = "dead"]
        /\ UNCHANGED <<monitor_lock, monitor_stop_event>>
     \/ /\ monitor_stop_event = "clear" /\ ~Active(s)
        /\ monitor_stop_event' = "set"
        /\ mon' = [Told EXCEPT ![s].pc = "kill"]
        /\ UNCHANGED monitor_lock
     \/ /\ monitor_stop_event = "clear" /\ Active(s)
        /\ monitor_lock' = s
        /\ mon' = [mon EXCEPT ![s].pc = "keep"]
        /\ UNCHANGED monitor_stop_event
  /\ UNCHANGED <<driver, sess, slot, monitor_thread, main, jobs, sigterm, faults>>

(* The keepalive request, and paramiko's deep check once in a while.       *)
(* netmiko writes and drains whatever has come, it waits for no answer.    *)
(* Mutant: no deep check.                                                  *)
FailsShallow(s) == ~Active(s)

KeepaliveFails(s) ==
  \/ ~Active(s)
  \/ driver = "paramiko" /\ sess[s].st = "zombie" /\ mon[s].deep = DeepEvery - 1

MonitorKeepalive(s) ==
  /\ mon[s].pc = "keep"
  /\ monitor_lock' = None
  /\ \/ /\ KeepaliveFails(s)
        /\ monitor_stop_event' = IF monitor_stop_event = None THEN None ELSE "set"
        /\ mon' = [Told EXCEPT ![s].pc = IF monitor_stop_event = None THEN "dead" ELSE "kill"]
     \/ /\ ~KeepaliveFails(s)
        /\ mon' = [mon EXCEPT ![s].pc = "top", ![s].deep = NextDeep(@)]
        /\ UNCHANGED monitor_stop_event
  /\ UNCHANGED <<driver, sess, slot, monitor_thread, main, jobs, sigterm, faults>>

(* os.kill(os.getpid(), SIGTERM), whatever process this is. *)
MonitorSuicide(s) ==
  /\ mon[s].pc = "kill"
  /\ mon' = [mon EXCEPT ![s].pc = "dead"]
  /\ sigterm' = TRUE
  /\ UNCHANGED <<driver, sess, slot, monitor_lock, monitor_stop_event,
                 monitor_thread, main, jobs, faults>>

-----------------------------------------------------------------------------
(* The network. *)

(* The connection breaks, or the device stops serving it.                  *)
GoesBad(s, st) ==
  /\ sess[s].st = "open" /\ faults < MaxFaults
  /\ sess' = [sess EXCEPT ![s].st = st]
  /\ faults' = faults + 1
  /\ UNCHANGED <<driver, slot, monitoring, main, jobs, sigterm>>

MainStep ==
  \/ ReuseSession \/ NoSession \/ DropSession \/ ForgetDeadSession
  \/ StopMonitor \/ ClearSession
  \/ ConnectFails \/ Connect \/ Persist
  \/ UseSession \/ EndJob \/ Disconnect
  \/ Exit

MonitorStep(s) ==
  \/ MonitorLoop(s) \/ MonitorTold(s) \/ MonitorDue(s)
  \/ MonitorCheck(s) \/ MonitorKeepalive(s) \/ MonitorSuicide(s)

Next ==
  \/ StartJob
  \/ MainStep
  \/ \E s \in Sids : MonitorStep(s) \/ GoesBad(s, "lost") \/ GoesBad(s, "zombie")

Spec == Init /\ [][Next]_vars

(* Threads that can run do run; jobs need not arrive and connections need  *)
(* not break.                                                              *)
FairSpec ==
  /\ Spec
  /\ WF_vars(MainStep)
  /\ \A s \in Sids : WF_vars(MonitorStep(s))

-----------------------------------------------------------------------------
(* Properties. *)

(* "BaseConnection is not concurrency safe, we have to use a lock": no     *)
(* netmiko monitor writes its keepalive into a session a job is using.     *)
ChannelExclusive ==
  driver = "netmiko" =>
    \A s \in Sids : ~(main.pc = "busy" /\ main.use = s /\ mon[s].pc = "keep")

(* A job runs on a session opened for its own device, with netmiko even    *)
(* for its own connection arguments, however sessions were kept, dropped   *)
(* and replaced before it.                                                 *)
SessionFitsJob ==
  main.pc \in {"run", "busy"} =>
    IF driver = "paramiko" THEN HostOf[sess[main.use].args] = HostOf[main.args]
                           ELSE sess[main.use].args = main.args

(* A session that is open is either the persisted one or the one the       *)
(* running job uses: none is left behind on the device.                    *)
NoOrphanSession ==
  \A s \in Sids : Active(s) =>
    s = persisted_session \/ (main.pc # "idle" /\ s = main.use)

(* Between two jobs a persisted session has a monitor of its own, or the   *)
(* process is about to end: stopping and starting monitors never leaves a  *)
(* kept session without keepalive.                                         *)
PersistedIsWatched ==
  main.pc = "idle" /\ persisted_session # None =>
    \/ MonitorRuns(persisted_session)
    \/ sigterm
    \/ \E s \in Sids : mon[s].pc = "kill"

(* The session is dead in a way the driver can tell: netmiko does not      *)
(* notice that a device has stopped serving the connection.                *)
KnownDead(s) ==
  sess[s].st \in IF driver = "paramiko" THEN {"lost", "zombie", "closed"}
                                        ELSE {"lost", "closed"}

(* A persisted session that died is not kept: it is replaced by the next   *)
(* job or takes the worker with it.  The exception is a netmiko session    *)
(* the device no longer serves: its monitor never finds out, and it stays  *)
(* in the slot until a job comes with other connection arguments.          *)
DeadSessionGone ==
  \A s \in Sids : (persisted_session = s /\ KnownDead(s)) ~> persisted_session # s
=============================================================================
