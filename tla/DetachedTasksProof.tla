------------------------- MODULE DetachedTasksProof -------------------------
(***************************************************************************)
(* Proofs about DetachedTasks for any number of tasks, API calls and       *)
(* supervisors, and any limits on logs, the queue and faults.              *)
(***************************************************************************)
EXTENDS DetachedTasks, SequenceTheorems, TLAPS

(* What a job says: whom it is about, and whom it answers. *)
JobOK(j) ==
  /\ j.op # "scan" => j.task \in Tasks
  /\ j.op = "launch" \/ j.hook => j.call = None

(* The call that waits for job j, if any, is about the same task.          *)
Serves(a, j) ==
  j.call # None =>
    /\ a[j.call].pc # "new"
    /\ a[j.call].op = (IF j.op = "scan" THEN "discover" ELSE j.op)
    /\ j.op # "scan" => a[j.call].task = j.task

(* The stages of the worker go with the operations of its job. *)
QueryStages == {"query", "check", "read", "size", "exists", "register"}
HookStages == {"hook", "sync", "syncing"}

WorkOK(l) ==
  l.pc # "idle" =>
    /\ l.job \in Job /\ JobOK(l.job)
    /\ l.pc \in {"launch", "started", "launched"} => l.job.op = "launch"
    /\ l.pc \in QueryStages => l.job.op = "query"
    /\ l.pc \in HookStages => l.job.op \in {"launch", "query"} /\ l.job.hook
    /\ l.pc = "kill" => l.job.op = "kill"
    /\ l.pc = "scan" => l.job.op = "scan"

(* The stages of a call. *)
CallOK(l, res) ==
  /\ l.pc = "new" => res = None
  /\ l.pc = "wait" => l.op \in {"query", "kill", "discover"}
  /\ l.pc = "write" => l.op = "query" /\ res \in Result /\ res.kind = "log"
  /\ l.pc = "each" => l.op \in {"clear", "discover"}
  /\ l.pc # "new" /\ l.op \in {"query", "kill"} => l.task \in Tasks
  /\ l.pc # "new" => l.op \in Ops

ShapeInv ==
  /\ TypeOK
  /\ \A k \in DOMAIN hostq : JobOK(hostq[k]) /\ Serves(api, hostq[k])
  /\ WorkOK(wk)
  /\ wk.pc # "idle" => Serves(api, wk.job)
  /\ \A c \in Calls : CallOK(api[c], result[c])
  /\ \A s \in Supervisors, t \in Tasks : t \in sup[s].todo => sup[s].snap[t] \in Record

-----------------------------------------------------------------------------
(* A launch that is still to come.  HostQ is first in, first out: it is in *)
(* front of every other job of its task.                                   *)
Awaited(t) ==
  \/ launch[t] = "new"
  \/ \E k \in DOMAIN hostq : hostq[k].op = "launch" /\ hostq[k].task = t
  \/ wk.pc = "launch" /\ wk.job.task = t

OrderInv ==
  /\ \A k, l \in DOMAIN hostq :
       hostq[l].op = "launch" /\ hostq[k].task = hostq[l].task => l <= k
  /\ wk.pc # "idle" =>
       \A k \in DOMAIN hostq : hostq[k].op = "launch" => hostq[k].task # wk.job.task

(* Nothing is known of a task before it is dispatched. *)
NewInv ==
  \A t \in Tasks :
    launch[t] = "new" =>
      /\ registry[t] = None
      /\ \A k \in DOMAIN hostq : hostq[k].task # t
      /\ wk.pc # "idle" => wk.job.task # t
      /\ \A s \in Supervisors : t \notin sup[s].todo
      /\ \A c \in Calls :
           api[c].pc \in {"wait", "write"} /\ api[c].op # "discover" => api[c].task # t
      /\ \A c \in Calls : t \notin api[c].todo

ProcInv ==
  \A t \in Tasks :
    /\ Awaited(t) => remote[t].proc = "none"
    /\ remote[t].proc = "running" => remote[t].files

(* The process has been there and does not run, and so it will be. *)
Gone(t) == ~Awaited(t) /\ ~Running(t)

(* The worker has looked whether the process runs. *)
Informed == {"launched", "read", "size", "exists", "register"} \cup HookStages

(* Whoever holds or writes that a task is over has seen it over. *)
GoneInv ==
  /\ \A t \in Tasks : registry[t] # None /\ registry[t].status = "completed" => Gone(t)
  /\ wk.pc \in Informed /\ ~wk.run => Gone(wk.job.task)
  /\ \A c \in Calls :
       result[c] # None =>
         /\ api[c].op = "query" /\ result[c].kind = "log" /\ ~result[c].run =>
              Gone(api[c].task)
         /\ api[c].op = "kill" /\ result[c].kind = "killed" => Gone(api[c].task)

(* A record that is old, or was old when the supervisor listed it. *)
AgeInv ==
  /\ \A t \in Tasks : registry[t] # None /\ registry[t].old => Gone(t)
  /\ \A s \in Supervisors, t \in Tasks :
       t \in sup[s].todo /\ sup[s].snap[t].old => Gone(t)

(* Whatever was announced to be over is over. *)
AnnouncedInv == \A t \in announced : Gone(t)

-----------------------------------------------------------------------------
(* Who writes what. *)

(* Writers of the registry. *)
LEMMA RegistryWriters ==
  ASSUME [Next]_vars
  PROVE  \/ UNCHANGED registry
         \/ \E t \in Tasks : LaunchRegister(t) \/ RecordAges(t)
         \/ WorkLaunchRegister \/ WorkRegister \/ HookRegister
         \/ \E c \in Calls : QueryWrite(c) \/ KillDone(c)
         \/ \E c \in Calls, t \in Tasks : ClearOne(c, t) \/ DiscoverWrite(c, t)
         \/ \E s \in Supervisors, t \in Tasks : Purge(s, t)
  BY ZenonT(40)
  DEF Next, vars, host, supervision, history, LaunchDispatch, ProcWrites, ProcEnds,
     WorkStep, WorkTake, WorkLaunch, WorkLaunchCheck, WorkQuery, WorkCheck, WorkRead,
     WorkSize, WorkExists, HookSend, HookGet, WorkKill, WorkScan, WorkFails, CallStarts,
     CallTask, CallDiscover, CallClear, CallStep, CallFails, QueryDone, DiscoverList,
     EachDone, SupervisorStep, Acquire, CheckDone, TriggerPush, NothingDue,
     TriggerPushFails, LockExpires, IntervalPasses

(* Writers of HostQ. *)
LEMMA QueueWriters ==
  ASSUME [Next]_vars
  PROVE  \/ UNCHANGED hostq
         \/ \E t \in Tasks : LaunchDispatch(t)
         \/ WorkTake
         \/ \E c \in Calls, op \in Op, t \in Tasks : CallTask(c, op, t)
         \/ \E c \in Calls : CallDiscover(c)
         \/ \E s \in Supervisors, t \in Tasks : TriggerPush(s, t)
  BY ZenonT(40)
  DEF Next, vars, host, supervision, history, LaunchRegister, ProcWrites, ProcEnds,
     WorkStep, WorkLaunch, WorkLaunchCheck, WorkLaunchRegister, WorkQuery, WorkCheck,
     WorkRead, WorkSize, WorkExists, WorkRegister, HookSend, HookGet, HookRegister,
     WorkKill, WorkScan, WorkFails, CallStarts, CallClear, CallStep, CallFails,
     QueryDone, QueryWrite, KillDone, ClearOne, DiscoverList, DiscoverWrite, EachDone,
     SupervisorStep, Acquire, CheckDone, Purge, NothingDue, TriggerPushFails,
     LockExpires, RecordAges, IntervalPasses

(* Writers of the host. *)
LEMMA RemoteWriters ==
  ASSUME [Next]_vars
  PROVE  \/ UNCHANGED remote
         \/ \E t \in Tasks : ProcWrites(t) \/ ProcEnds(t)
         \/ WorkLaunch \/ WorkKill
  BY ZenonT(40)
  DEF Next, vars, host, supervision, history, LaunchDispatch, LaunchRegister,
     WorkStep, WorkTake, WorkLaunchCheck, WorkLaunchRegister, WorkQuery, WorkCheck,
     WorkRead, WorkSize, WorkExists, WorkRegister, HookSend, HookGet, HookRegister,
     WorkScan, WorkFails, CallStarts, CallTask, CallDiscover, CallClear, CallStep,
     CallFails, QueryDone, QueryWrite, KillDone, ClearOne, DiscoverList, DiscoverWrite,
     EachDone, SupervisorStep, Acquire, CheckDone, Purge, TriggerPush, NothingDue,
     TriggerPushFails, LockExpires, RecordAges, IntervalPasses

(* The worker writes its locals and the results. *)
LEMMA WorkerWriters ==
  ASSUME [Next]_vars
  PROVE  UNCHANGED <<wk, result>> \/ WorkStep \/ WorkFails
  BY ZenonT(40)
  DEF Next, vars, host, supervision, history, LaunchDispatch, LaunchRegister,
     ProcWrites, ProcEnds, CallStarts, CallTask, CallDiscover, CallClear, CallStep,
     CallFails, QueryDone, QueryWrite, KillDone, ClearOne, DiscoverList, DiscoverWrite,
     EachDone, SupervisorStep, Acquire, CheckDone, Purge, TriggerPush, NothingDue,
     TriggerPushFails, LockExpires, RecordAges, IntervalPasses

(* Calls write their locals. *)
LEMMA CallWriters ==
  ASSUME [Next]_vars
  PROVE  UNCHANGED api \/ \E c \in Calls : CallStarts(c) \/ CallStep(c)
  BY ZenonT(40)
  DEF Next, vars, host, supervision, history, LaunchDispatch, LaunchRegister,
     ProcWrites, ProcEnds, WorkStep, WorkTake, WorkLaunch, WorkLaunchCheck,
     WorkLaunchRegister, WorkQuery, WorkCheck, WorkRead, WorkSize, WorkExists,
     WorkRegister, HookSend, HookGet, HookRegister, WorkKill, WorkScan, WorkFails,
     SupervisorStep, Acquire, CheckDone, Purge, TriggerPush, NothingDue,
     TriggerPushFails, LockExpires, RecordAges, IntervalPasses

(* Launching threads write how far they are. *)
LEMMA LaunchWriters ==
  ASSUME [Next]_vars
  PROVE  UNCHANGED launch \/ \E t \in Tasks : LaunchDispatch(t) \/ LaunchRegister(t)
  BY ZenonT(40)
  DEF Next, vars, host, supervision, history, ProcWrites, ProcEnds, WorkStep,
     WorkTake, WorkLaunch, WorkLaunchCheck, WorkLaunchRegister, WorkQuery, WorkCheck,
     WorkRead, WorkSize, WorkExists, WorkRegister, HookSend, HookGet, HookRegister,
     WorkKill, WorkScan, WorkFails, CallStarts, CallTask, CallDiscover, CallClear,
     CallStep, CallFails, QueryDone, QueryWrite, KillDone, ClearOne, DiscoverList,
     DiscoverWrite, EachDone, SupervisorStep, Acquire, CheckDone, Purge, TriggerPush,
     NothingDue, TriggerPushFails, LockExpires, RecordAges, IntervalPasses

(* Supervisors write their locals. *)
LEMMA SupervisorWriters ==
  ASSUME [Next]_vars
  PROVE  \/ UNCHANGED sup
         \/ \E s \in Supervisors : SupervisorStep(s)
         \/ \E s \in Supervisors, t \in Tasks : TriggerPushFails(s, t)
  BY ZenonT(40)
  DEF Next, vars, host, supervision, history, LaunchDispatch, LaunchRegister,
     ProcWrites, ProcEnds, WorkStep, WorkTake, WorkLaunch, WorkLaunchCheck,
     WorkLaunchRegister, WorkQuery, WorkCheck, WorkRead, WorkSize, WorkExists,
     WorkRegister, HookSend, HookGet, HookRegister, WorkKill, WorkScan, WorkFails,
     CallStarts, CallTask, CallDiscover, CallClear, CallStep, CallFails, QueryDone,
     QueryWrite, KillDone, ClearOne, DiscoverList, DiscoverWrite, EachDone, LockExpires,
     RecordAges, IntervalPasses

(* Writers of the lock. *)
LEMMA LockWriters ==
  ASSUME [Next]_vars
  PROVE  UNCHANGED lock \/ LockExpires \/ \E s \in Supervisors : Acquire(s)
  BY ZenonT(40)
  DEF Next, vars, host, supervision, history, LaunchDispatch, LaunchRegister,
     ProcWrites, ProcEnds, WorkStep, WorkTake, WorkLaunch, WorkLaunchCheck,
     WorkLaunchRegister, WorkQuery, WorkCheck, WorkRead, WorkSize, WorkExists,
     WorkRegister, HookSend, HookGet, HookRegister, WorkKill, WorkScan, WorkFails,
     CallStarts, CallTask, CallDiscover, CallClear, CallStep, CallFails, QueryDone,
     QueryWrite, KillDone, ClearOne, DiscoverList, DiscoverWrite, EachDone,
     SupervisorStep, CheckDone, Purge, TriggerPush, NothingDue, TriggerPushFails,
     RecordAges, IntervalPasses

(* Writers of _last_dispatch. *)
LEMMA PushWriters ==
  ASSUME [Next]_vars
  PROVE  \/ UNCHANGED recent
         \/ \E s \in Supervisors, t \in Tasks :
              Purge(s, t) \/ TriggerPush(s, t) \/ IntervalPasses(s, t)
  BY ZenonT(40)
  DEF Next, vars, host, supervision, history, LaunchDispatch, LaunchRegister,
     ProcWrites, ProcEnds, WorkStep, WorkTake, WorkLaunch, WorkLaunchCheck,
     WorkLaunchRegister, WorkQuery, WorkCheck, WorkRead, WorkSize, WorkExists,
     WorkRegister, HookSend, HookGet, HookRegister, WorkKill, WorkScan, WorkFails,
     CallStarts, CallTask, CallDiscover, CallClear, CallStep, CallFails, QueryDone,
     QueryWrite, KillDone, ClearOne, DiscoverList, DiscoverWrite, EachDone,
     SupervisorStep, Acquire, CheckDone, NothingDue, TriggerPushFails, LockExpires,
     RecordAges

(* Only reading the log adds to what has been read. *)
LEMMA LogWriters ==
  ASSUME [Next]_vars
  PROVE  UNCHANGED readlog \/ WorkRead
  BY ZenonT(40)
  DEF Next, vars, host, supervision, history, LaunchDispatch, LaunchRegister,
     ProcWrites, ProcEnds, WorkStep, WorkTake, WorkLaunch, WorkLaunchCheck,
     WorkLaunchRegister, WorkQuery, WorkCheck, WorkSize, WorkExists, WorkRegister,
     HookSend, HookGet, HookRegister, WorkKill, WorkScan, WorkFails, CallStarts,
     CallTask, CallDiscover, CallClear, CallStep, CallFails, QueryDone, QueryWrite,
     KillDone, ClearOne, DiscoverList, DiscoverWrite, EachDone, SupervisorStep, Acquire,
     CheckDone, Purge, TriggerPush, NothingDue, TriggerPushFails, LockExpires,
     RecordAges, IntervalPasses

(* Only the callback announces. *)
LEMMA EventWriters ==
  ASSUME [Next]_vars
  PROVE  UNCHANGED announced \/ HookSend
  BY ZenonT(40)
  DEF Next, vars, host, supervision, history, LaunchDispatch, LaunchRegister,
     ProcWrites, ProcEnds, WorkStep, WorkTake, WorkLaunch, WorkLaunchCheck,
     WorkLaunchRegister, WorkQuery, WorkCheck, WorkRead, WorkSize, WorkExists,
     WorkRegister, HookGet, HookRegister, WorkKill, WorkScan, WorkFails, CallStarts,
     CallTask, CallDiscover, CallClear, CallStep, CallFails, QueryDone, QueryWrite,
     KillDone, ClearOne, DiscoverList, DiscoverWrite, EachDone, SupervisorStep, Acquire,
     CheckDone, Purge, TriggerPush, NothingDue, TriggerPushFails, LockExpires,
     RecordAges, IntervalPasses

(* Faults are counted. *)
LEMMA FaultWriters ==
  ASSUME [Next]_vars
  PROVE  \/ UNCHANGED faults \/ WorkFails
         \/ \E s \in Supervisors, t \in Tasks : TriggerPushFails(s, t)
  BY ZenonT(40)
  DEF Next, vars, host, supervision, history, LaunchDispatch, LaunchRegister,
     ProcWrites, ProcEnds, WorkStep, WorkTake, WorkLaunch, WorkLaunchCheck,
     WorkLaunchRegister, WorkQuery, WorkCheck, WorkRead, WorkSize, WorkExists,
     WorkRegister, HookSend, HookGet, HookRegister, WorkKill, WorkScan, CallStarts,
     CallTask, CallDiscover, CallClear, CallStep, CallFails, QueryDone, QueryWrite,
     KillDone, ClearOne, DiscoverList, DiscoverWrite, EachDone, SupervisorStep, Acquire,
     CheckDone, Purge, TriggerPush, NothingDue, LockExpires, RecordAges, IntervalPasses

-----------------------------------------------------------------------------
(* What the steps do. *)

(* The types as facts to cite. *)
LEMMA Typed ==
  ASSUME ShapeInv
  PROVE  /\ registry \in [Tasks -> Record \cup {None}]
         /\ hostq \in Seq(Job) /\ DOMAIN hostq = 1..Len(hostq) /\ Len(hostq) \in Nat
         /\ \A k \in DOMAIN hostq : hostq[k] \in Job
         /\ wk \in WorkerLocals
         /\ wk.pc # "idle" => wk.job \in Job
         /\ wk.pc \notin {"idle", "scan"} => wk.job.task \in Tasks
         /\ result \in [Calls -> Result \cup {None}]
         /\ api \in [Calls -> CallLocals]
         /\ sup \in [Supervisors -> SupervisorLocals]
         /\ launch \in [Tasks -> {"new", "dispatched", "done"}]
         /\ remote \in [Tasks -> [proc : {"none", "running", "loose", "ended"},
                                  files : BOOLEAN, size : Nat]]
  <1>1. TypeOK /\ WorkOK(wk)
    BY DEF ShapeInv
  <1>2. wk.pc \notin {"idle", "scan"} => wk.job.task \in Tasks
    <2>1. wk \in WorkerLocals
      BY <1>1 DEF TypeOK
    <2>2. wk.pc \notin {"idle", "scan"} => wk.job.op # "scan" /\ JobOK(wk.job)
      BY <1>1, <2>1 DEF WorkOK, WorkerLocals, QueryStages, HookStages
    <2>3. QED
      BY <2>2 DEF JobOK
  <1>3. wk.pc # "idle" => wk.job \in Job
    BY <1>1 DEF WorkOK
  <1>4. /\ hostq \in Seq(Job) /\ DOMAIN hostq = 1..Len(hostq) /\ Len(hostq) \in Nat
        /\ \A k \in DOMAIN hostq : hostq[k] \in Job
    BY <1>1, LenProperties DEF TypeOK
  <1>5. QED
    BY <1>1, <1>2, <1>3, <1>4 DEF TypeOK

(* A step of the worker within its job. *)
GoesOn ==
  /\ wk.pc \notin {"idle", "scan", "kill"} /\ wk'.pc \notin {"idle", "launch"}
  /\ wk' \in WorkerLocals /\ wk'.job = wk.job
  /\ WorkOK(wk')
  /\ UNCHANGED result
  /\ wk'.pc \in Informed /\ ~wk'.run =>
       \/ wk.pc \in Informed /\ ~wk.run
       \/ wk.pc \in {"started", "check"} /\ ~Running(wk.job.task) /\ UNCHANGED remote

(* The end of a job: what it reports is what the worker knows. *)
Reports(res) ==
  /\ wk.pc # "idle" /\ res \in Result
  /\ Finish(res)
  /\ res.kind = "log" => wk.pc \in Informed /\ (res.run <=> wk.run)
  /\ res.kind = "killed" => WorkKill

(* Results are results. *)
LEMMA Results ==
  ASSUME ShapeInv
  PROVE  /\ NoResult \in Result /\ NoResult.kind = "empty"
         /\ Answer \in Result /\ Answer.kind = "log" /\ Answer.run = wk.run
         /\ \A k \in {"failed", "killed", "scan"} :
              /\ [NoResult EXCEPT !.kind = k] \in Result
              /\ [NoResult EXCEPT !.kind = k].kind = k
         /\ \A a \in SUBSET Tasks :
              /\ [NoResult EXCEPT !.kind = "scan", !.active = a] \in Result
              /\ [NoResult EXCEPT !.kind = "scan", !.active = a].kind = "scan"
  <1>1. wk.run \in BOOLEAN /\ wk.next \in Nat
    BY Typed DEF WorkerLocals
  <1>2. QED
    BY <1>1 DEF NoResult, Answer, Result

(* The end of a job that runs its callback, or of one that does not. *)
LEMMA SucceedSteps ==
  ASSUME ShapeInv, wk.pc \in {"launched", "exists", "register"}, Succeed
  PROVE  GoesOn \/ \E res \in Result : Reports(res)
  <1>1. CASE wk.job.hook
    <2>1. wk' = [wk EXCEPT !.pc = "hook"] /\ UNCHANGED result
      BY <1>1 DEF Succeed, Step
    <2>2. /\ wk' \in WorkerLocals /\ wk'.pc = "hook" /\ wk'.job = wk.job
          /\ wk'.run = wk.run
      BY <2>1, Typed DEF WorkerLocals
    <2>3. wk.job \in Job /\ JobOK(wk.job) /\ wk.job.op \in {"launch", "query"}
      BY DEF ShapeInv, WorkOK, QueryStages
    <2>4. WorkOK(wk')
      BY <1>1, <2>2, <2>3 DEF WorkOK, QueryStages, HookStages
    <2>5. QED
      BY <2>1, <2>2, <2>4 DEF GoesOn, Informed
  <1>2. CASE ~wk.job.hook
    <2>1. Finish(Answer)
      BY <1>2 DEF Succeed
    <2>2. QED
      BY <2>1, Results DEF Reports, Informed
  <1>3. QED
    BY <1>1, <1>2

(* Every step of the worker is one of these, or takes a job. *)
LEMMA WorkerSteps ==
  ASSUME ShapeInv, WorkStep \/ WorkFails
  PROVE  WorkTake \/ GoesOn \/ \E res \in Result : Reports(res)
  <1> DEFINE Goal == GoesOn \/ \E res \in Result : Reports(res)
  <1>1. /\ wk \in WorkerLocals /\ WorkOK(wk)
        /\ registry \in [Tasks -> Record \cup {None}]
    BY Typed DEF ShapeInv
  <1>2. \A pc \in {"started", "size", "sync", "register", "syncing"} :
          /\ [wk EXCEPT !.pc = pc] \in WorkerLocals
          /\ [wk EXCEPT !.pc = pc].pc = pc /\ [wk EXCEPT !.pc = pc].job = wk.job
          /\ [wk EXCEPT !.pc = pc].run = wk.run
    BY <1>1 DEF WorkerLocals
  <1>3. ASSUME WorkLaunch PROVE Goal
    <2>1. CASE Step("started")
      BY <1>1, <1>2, <1>3, <2>1 DEF WorkLaunch, At, Step, GoesOn, WorkOK, Informed,
         QueryStages, HookStages
    <2>2. CASE wk' = [wk EXCEPT !.pc = "launched", !.run = TRUE]
      <3>1. /\ wk' \in WorkerLocals /\ wk'.pc = "launched" /\ wk'.job = wk.job /\ wk'.run
        BY <1>1, <2>2 DEF WorkerLocals
      <3>2. QED
        BY <1>1, <1>3, <3>1 DEF WorkLaunch, At, GoesOn, WorkOK, Informed, QueryStages,
           HookStages
    <2>3. QED
      BY <1>3, <2>1, <2>2 DEF WorkLaunch
  <1>4. ASSUME WorkLaunchCheck PROVE Goal
    <2>1. Running(wk.job.task) \in BOOLEAN
      BY DEF Running
    <2>2. /\ wk' \in WorkerLocals /\ wk'.pc = "launched" /\ wk'.job = wk.job
          /\ wk'.run = Running(wk.job.task)
      BY <1>1, <1>4, <2>1 DEF WorkLaunchCheck, WorkerLocals
    <2>3. QED
      BY <1>1, <1>4, <2>2 DEF WorkLaunchCheck, At, GoesOn, WorkOK, Informed, QueryStages,
         HookStages
  <1>5. ASSUME WorkLaunchRegister \/ WorkRegister PROVE Goal
    BY <1>5, SucceedSteps DEF WorkLaunchRegister, WorkRegister, At
  <1>6. ASSUME WorkQuery PROVE Goal
    <2> DEFINE m == registry[wk.job.task]
    <2>1. CASE Finish([NoResult EXCEPT !.kind = "failed"])
      BY <1>6, <2>1, Results DEF WorkQuery, At, Reports
    <2>2. CASE Finish(NoResult)
      BY <1>6, <2>2, Results DEF WorkQuery, At, Reports
    <2>3. CASE m # None /\ wk' = [wk EXCEPT !.pc = "check", !.off = m.last_offset]
               /\ UNCHANGED result
      <3>1. wk.job.task \in Tasks
        BY <1>6, Typed DEF WorkQuery, At
      <3>2. m.last_offset \in Nat
        BY <1>1, <2>3, <3>1 DEF Record
      <3>3. wk' \in WorkerLocals /\ wk'.pc = "check" /\ wk'.job = wk.job
        BY <1>1, <2>3, <3>2 DEF WorkerLocals
      <3>4. QED
        BY <1>1, <1>6, <2>3, <3>3 DEF WorkQuery, At, GoesOn, WorkOK, Informed, QueryStages,
           HookStages
    <2>4. QED
      BY <1>6, <2>1, <2>2, <2>3 DEF WorkQuery
  <1>7. ASSUME WorkCheck PROVE Goal
    <2>1. Running(wk.job.task) \in BOOLEAN
      BY DEF Running
    <2>2. /\ wk' \in WorkerLocals /\ wk'.pc = "read" /\ wk'.job = wk.job
          /\ wk'.run = Running(wk.job.task)
      BY <1>1, <1>7, <2>1 DEF WorkCheck, WorkerLocals
    <2>3. QED
      BY <1>1, <1>7, <2>2 DEF WorkCheck, At, GoesOn, WorkOK, Informed, QueryStages, HookStages
  <1>8. ASSUME WorkRead PROVE Goal
    BY <1>1, <1>2, <1>8 DEF WorkRead, At, Step, GoesOn, WorkOK, Informed, QueryStages,
       HookStages
  <1>9. ASSUME WorkSize PROVE Goal
    <2>1. remote[wk.job.task].size \in Nat
      BY <1>9, Typed DEF WorkSize, At
    <2>2. /\ wk' \in WorkerLocals /\ wk'.pc = "exists" /\ wk'.job = wk.job
          /\ wk'.run = wk.run
      BY <1>1, <1>9, <2>1 DEF WorkSize, WorkerLocals
    <2>3. QED
      BY <1>1, <1>9, <2>2 DEF WorkSize, At, GoesOn, WorkOK, Informed, QueryStages, HookStages
  <1>10. ASSUME WorkExists PROVE Goal
    <2>1. CASE Step("register") /\ UNCHANGED result
      BY <1>1, <1>2, <1>10, <2>1 DEF WorkExists, At, Step, GoesOn, WorkOK, Informed,
         QueryStages, HookStages
    <2>2. CASE Succeed
      BY <1>10, <2>2, SucceedSteps DEF WorkExists, At
    <2>3. QED
      BY <1>10, <2>1, <2>2 DEF WorkExists
  <1>11. ASSUME HookSend PROVE Goal
    <2>1. CASE Finish(Answer)
      BY <1>11, <2>1, Results DEF HookSend, At, Reports, Informed, HookStages
    <2>2. CASE Step("sync") /\ UNCHANGED result
      BY <1>1, <1>2, <1>11, <2>2 DEF HookSend, At, Step, GoesOn, WorkOK, Informed, QueryStages,
         HookStages
    <2>3. QED
      BY <1>11, <2>1, <2>2 DEF HookSend
  <1>12. ASSUME HookGet PROVE Goal
    <2> DEFINE m == registry[wk.job.task]
    <2>1. CASE Finish(Answer)
      BY <1>12, <2>1, Results DEF HookGet, At, Reports, Informed, HookStages
    <2>2. CASE wk.job.op = "query" /\ wk' = [wk EXCEPT !.pc = "syncing"] /\ UNCHANGED result
      BY <1>1, <1>2, <1>12, <2>2 DEF HookGet, At, GoesOn, WorkOK, Informed, QueryStages,
         HookStages
    <2>3. CASE /\ m # None /\ UNCHANGED result
               /\ wk' = [wk EXCEPT !.pc = "syncing", !.run = TRUE, !.next = m.last_offset]
      <3>1. wk.job.task \in Tasks
        BY <1>12, Typed DEF HookGet, At
      <3>2. m.last_offset \in Nat
        BY <1>1, <2>3, <3>1 DEF Record
      <3>3. wk' \in WorkerLocals /\ wk'.pc = "syncing" /\ wk'.job = wk.job /\ wk'.run
        BY <1>1, <2>3, <3>2 DEF WorkerLocals
      <3>4. QED
        BY <1>1, <1>12, <2>3, <3>3 DEF HookGet, At, GoesOn, WorkOK, Informed, QueryStages,
           HookStages
    <2>4. QED
      BY <1>12, <2>1, <2>2, <2>3 DEF HookGet
  <1>13. ASSUME HookRegister PROVE Goal
    BY <1>13, Results DEF HookRegister, At, Reports, Informed, HookStages
  <1>14. ASSUME WorkKill PROVE Goal
    <2>1. \/ Finish([NoResult EXCEPT !.kind = "failed"])
          \/ Finish([NoResult EXCEPT !.kind = "killed"])
      BY <1>14 DEF WorkKill
    <2>2. wk.pc # "idle"
      BY <1>14 DEF WorkKill, At
    <2>3. QED
      BY <1>14, <2>1, <2>2, Results DEF Reports
  <1>15. ASSUME WorkScan PROVE Goal
    <2>1. {t \in Tasks : Running(t)} \in SUBSET Tasks
      OBVIOUS
    <2>2. QED
      BY <1>15, <2>1, Results DEF WorkScan, At, Reports
  <1>16. ASSUME WorkFails PROVE Goal
    <2>1. CASE Finish([NoResult EXCEPT !.kind = "failed"])
      BY <1>16, <2>1, Results DEF WorkFails, At, Reports
    <2>2. ASSUME NEW seen \in SUBSET {t \in Tasks : Running(t)},
                 Finish([NoResult EXCEPT !.kind = "scan", !.active = seen])
          PROVE  Goal
      <3>1. seen \in SUBSET Tasks
        OBVIOUS
      <3>2. QED
        BY <1>16, <2>2, <3>1, Results DEF WorkFails, At, Reports
    <2>3. QED
      BY <1>16, <2>1, <2>2 DEF WorkFails
  <1>17. QED
    BY <1>3, <1>4, <1>5, <1>6, <1>7, <1>8, <1>9, <1>10, <1>11, <1>12, <1>13, <1>14, <1>15,
       <1>16 DEF WorkStep

(* A step of call c. *)
CallMoves(c) ==
  /\ api' \in [Calls -> CallLocals] /\ \A d \in Calls \ {c} : api'[d] = api[d]
  /\ api'[c].pc # "new" /\ UNCHANGED result
  /\ api[c].pc # "new" => api'[c].op = api[c].op /\ api'[c].task = api[c].task
  /\ CallOK(api'[c], result[c])
  /\ api'[c].todo \subseteq api[c].todo \cup Known
  /\ api'[c].pc \in {"wait", "write"} /\ api'[c].op # "discover" =>
       \/ api'[c].task \in Known
       \/ api[c].pc \in {"wait", "write"}

(* Every step of a call is such a step. *)
LEMMA CallSteps ==
  ASSUME ShapeInv, NEW c \in Calls, CallStarts(c) \/ CallStep(c)
  PROVE  CallMoves(c)
  <1> DEFINE l == api[c]
             zero == [t \in Tasks |-> 0]
  <1>1. /\ l \in CallLocals /\ CallOK(l, result[c]) /\ api \in [Calls -> CallLocals]
        /\ result[c] \in Result \cup {None}
    BY Typed DEF ShapeInv
  <1>2. ASSUME NEW a \in {"error", "running", "completed", "killed", "ok"}, Return(c, a),
               l.pc # "new", UNCHANGED result
        PROVE  CallMoves(c)
    <2>1. zero \in [Tasks -> Nat]
      OBVIOUS
    <2>2. /\ [l EXCEPT !.pc = "done", !.answer = a, !.offsets = zero] \in CallLocals
          /\ api' = [api EXCEPT ![c] = [l EXCEPT !.pc = "done", !.answer = a,
                                                  !.offsets = zero]]
      BY <1>1, <1>2, <2>1 DEF CallLocals, Return, SetCall
    <2>3. /\ api' \in [Calls -> CallLocals] /\ \A d \in Calls \ {c} : api'[d] = api[d]
          /\ api'[c].pc = "done" /\ api'[c].op = l.op /\ api'[c].task = l.task
          /\ api'[c].todo = l.todo
      BY <1>1, <2>2 DEF CallLocals
    <2>4. QED
      BY <1>1, <1>2, <2>3 DEF CallMoves, CallOK
  <1>3. ASSUME NEW op \in Op, NEW t \in Tasks, CallTask(c, op, t) PROVE CallMoves(c)
    <2> DEFINE ended == (remote[t].proc = "ended")
    <2>1. ended \in BOOLEAN /\ op \in Ops /\ op \in {"query", "kill"} /\ l.pc = "new"
      BY <1>3 DEF CallTask
    <2> DEFINE m == [l EXCEPT !.op = op, !.task = t, !.ended = ended]
    <2>2. m \in CallLocals
      BY <1>1, <2>1 DEF CallLocals
    <2>3. m.op = op /\ m.task = t /\ m.todo = l.todo
      BY <1>1 DEF CallLocals
    <2>4. \/ api' = [api EXCEPT ![c] = [m EXCEPT !.pc = "done", !.answer = "error"]]
          \/ registry[t] # None /\ api' = [api EXCEPT ![c] = [m EXCEPT !.pc = "wait"]]
      BY <1>3 DEF CallTask, SetCall
    <2>5. UNCHANGED result
      BY <1>3 DEF CallTask
    <2> HIDE DEF m, ended
    <2>6. /\ [m EXCEPT !.pc = "done", !.answer = "error"] \in CallLocals
          /\ [m EXCEPT !.pc = "wait"] \in CallLocals
      BY <2>2 DEF CallLocals
    <2>7. /\ api' \in [Calls -> CallLocals] /\ \A d \in Calls \ {c} : api'[d] = api[d]
          /\ api'[c].op = op /\ api'[c].task = t /\ api'[c].todo = l.todo
          /\ api'[c].pc = "done" \/ (api'[c].pc = "wait" /\ t \in Known)
      <3>1. ASSUME NEW n \in CallLocals, api' = [api EXCEPT ![c] = n]
            PROVE  /\ api' \in [Calls -> CallLocals] /\ \A d \in Calls \ {c} : api'[d] = api[d]
                   /\ api'[c] = n
        BY <1>1, <3>1
      <3>2. /\ [m EXCEPT !.pc = "done", !.answer = "error"].op = m.op
            /\ [m EXCEPT !.pc = "done", !.answer = "error"].task = m.task
            /\ [m EXCEPT !.pc = "done", !.answer = "error"].todo = m.todo
            /\ [m EXCEPT !.pc = "done", !.answer = "error"].pc = "done"
        BY <2>2 DEF CallLocals
      <3>3. /\ [m EXCEPT !.pc = "wait"].op = m.op /\ [m EXCEPT !.pc = "wait"].task = m.task
            /\ [m EXCEPT !.pc = "wait"].todo = m.todo /\ [m EXCEPT !.pc = "wait"].pc = "wait"
        BY <2>2 DEF CallLocals
      <3>4. CASE api' = [api EXCEPT ![c] = [m EXCEPT !.pc = "done", !.answer = "error"]]
        BY <2>3, <2>6, <3>1, <3>2, <3>4
      <3>5. CASE registry[t] # None /\ api' = [api EXCEPT ![c] = [m EXCEPT !.pc = "wait"]]
        BY <2>3, <2>6, <3>1, <3>3, <3>5 DEF Known
      <3>6. QED
        BY <2>4, <3>4, <3>5
    <2>8. QED
      BY <1>1, <2>1, <2>5, <2>7 DEF CallMoves, CallOK
  <1>4. ASSUME CallDiscover(c) PROVE CallMoves(c)
    <2>1. [l EXCEPT !.pc = "wait", !.op = "discover"] \in CallLocals
      BY <1>1 DEF CallLocals, Op
    <2>2. /\ api' \in [Calls -> CallLocals] /\ \A d \in Calls \ {c} : api'[d] = api[d]
          /\ api'[c].op = "discover" /\ api'[c].pc = "wait" /\ api'[c].todo = l.todo
      BY <1>1, <1>4, <2>1 DEF CallLocals, CallDiscover, SetCall
    <2>3. QED
      BY <1>1, <1>4, <2>2 DEF CallMoves, CallOK, CallDiscover
  <1>5. ASSUME CallClear(c) PROVE CallMoves(c)
    <2>1. [l EXCEPT !.pc = "each", !.op = "clear", !.todo = Known] \in CallLocals
      BY <1>1 DEF CallLocals, Op, Known
    <2>2. /\ api' \in [Calls -> CallLocals] /\ \A d \in Calls \ {c} : api'[d] = api[d]
          /\ api'[c].op = "clear" /\ api'[c].pc = "each" /\ api'[c].todo = Known
      BY <1>1, <1>5, <2>1 DEF CallLocals, CallClear, SetCall
    <2>3. QED
      BY <1>1, <1>5, <2>2 DEF CallMoves, CallOK, CallClear, host
  <1>6. ASSUME CallFails(c) PROVE CallMoves(c)
    BY <1>2, <1>6 DEF CallFails, host
  <1>7. \A b \in BOOLEAN : StatusOf(b) \in {"running", "completed"}
    BY DEF StatusOf
  <1>8. ASSUME QueryDone(c) PROVE CallMoves(c)
    <2>1. result[c] \in Result /\ result[c].run \in BOOLEAN
      BY <1>1, <1>8 DEF QueryDone, Result
    <2>2. CASE Return(c, StatusOf(result[c].run))
      BY <1>2, <1>7, <1>8, <2>1, <2>2 DEF QueryDone, host
    <2>3. CASE result[c].kind = "log" /\ SetCall(c, [api[c] EXCEPT !.pc = "write"])
      <3>1. [l EXCEPT !.pc = "write"] \in CallLocals
        BY <1>1 DEF CallLocals
      <3>2. /\ api' \in [Calls -> CallLocals] /\ \A d \in Calls \ {c} : api'[d] = api[d]
            /\ api'[c].op = l.op /\ api'[c].task = l.task /\ api'[c].pc = "write"
            /\ api'[c].todo = l.todo
        BY <1>1, <2>3, <3>1 DEF CallLocals, SetCall
      <3>3. QED
        BY <1>1, <1>8, <2>1, <2>3, <3>2 DEF CallMoves, CallOK, QueryDone, host
    <2>4. QED
      BY <1>8, <2>2, <2>3 DEF QueryDone
  <1>9. ASSUME QueryWrite(c) PROVE CallMoves(c)
    <2>1. result[c].run \in BOOLEAN
      BY <1>1, <1>9 DEF QueryWrite, CallOK, Result
    <2>2. QED
      BY <1>2, <1>7, <1>9, <2>1 DEF QueryWrite, host
  <1>10. ASSUME KillDone(c) \/ EachDone(c) PROVE CallMoves(c)
    BY <1>2, <1>10 DEF KillDone, EachDone, host
  <1>11. ASSUME NEW t \in Tasks, ClearOne(c, t) \/ DiscoverWrite(c, t) PROVE CallMoves(c)
    <2>1. [l EXCEPT !.todo = @ \ {t}] \in CallLocals
      BY <1>1 DEF CallLocals
    <2>2. /\ api' \in [Calls -> CallLocals] /\ \A d \in Calls \ {c} : api'[d] = api[d]
          /\ api'[c].op = l.op /\ api'[c].task = l.task /\ api'[c].pc = l.pc
          /\ api'[c].todo = l.todo \ {t} /\ l.pc = "each"
      <3>1. l.pc = "each" /\ api' = [api EXCEPT ![c] = [l EXCEPT !.todo = @ \ {t}]]
        BY <1>11 DEF SetCall, ClearOne, DiscoverWrite
      <3>2. QED
        BY <1>1, <2>1, <3>1 DEF CallLocals
    <2>3. QED
      BY <1>1, <1>11, <2>2 DEF CallMoves, CallOK, ClearOne, DiscoverWrite, host
  <1>12. ASSUME DiscoverList(c) PROVE CallMoves(c)
    <2> DEFINE miss == {t \in Known : registry[t].status = "running"
                                      /\ t \notin result[c].active}
    <2>1. miss \subseteq Known /\ miss \subseteq Tasks
      BY DEF Known
    <2>2. Offsets \in [Tasks -> Nat]
      BY Typed DEF Offsets, Known, Record
    <2>3. api' = [api EXCEPT ![c] = [l EXCEPT !.pc = "each", !.offsets = Offsets,
                                              !.todo = miss]]
      BY <1>12 DEF DiscoverList, SetCall
    <2> HIDE DEF miss
    <2>4. [l EXCEPT !.pc = "each", !.offsets = Offsets, !.todo = miss] \in CallLocals
      BY <1>1, <2>1, <2>2 DEF CallLocals
    <2>5. /\ api' \in [Calls -> CallLocals] /\ \A d \in Calls \ {c} : api'[d] = api[d]
          /\ api'[c].op = l.op /\ api'[c].task = l.task /\ api'[c].pc = "each"
          /\ api'[c].todo = miss
      BY <1>1, <2>3, <2>4 DEF CallLocals
    <2>6. QED
      BY <1>1, <1>12, <2>1, <2>5 DEF CallMoves, CallOK, DiscoverList, host
  <1>13. QED
    BY <1>3, <1>4, <1>5, <1>6, <1>8, <1>9, <1>10, <1>11, <1>12 DEF CallStarts, CallStep

(* What the supervisors have listed, they have listed from the registry.   *)
LEMMA SupervisorSteps ==
  ASSUME ShapeInv, [Next]_vars
  PROVE  /\ sup' \in [Supervisors -> SupervisorLocals]
         /\ \A s \in Supervisors, t \in Tasks :
              t \in sup'[s].todo =>
                \/ t \in sup[s].todo /\ sup'[s].snap[t] = sup[s].snap[t]
                \/ t \in Known /\ sup'[s].snap[t] = registry[t]
  <1> DEFINE Goal == /\ sup' \in [Supervisors -> SupervisorLocals]
                     /\ \A s \in Supervisors, t \in Tasks :
                          t \in sup'[s].todo =>
                            \/ t \in sup[s].todo /\ sup'[s].snap[t] = sup[s].snap[t]
                            \/ t \in Known /\ sup'[s].snap[t] = registry[t]
  <1>1. sup \in [Supervisors -> SupervisorLocals] /\ registry \in [Tasks -> Record \cup {None}]
    BY Typed
  <1>2. CASE UNCHANGED sup
    BY <1>1, <1>2
  <1>3. ASSUME NEW s \in Supervisors, Acquire(s) PROVE Goal
    <2> DEFINE r == [pc |-> "check", todo |-> Known, snap |-> registry]
    <2>1. r \in SupervisorLocals
      BY <1>1 DEF SupervisorLocals, Known
    <2>2. r.todo = Known /\ r.snap = registry
      OBVIOUS
    <2>3. sup' = [sup EXCEPT ![s] = r]
      BY <1>3 DEF Acquire
    <2> HIDE DEF r
    <2>4. QED
      BY <1>1, <2>1, <2>2, <2>3
  <1>4. ASSUME NEW s \in Supervisors, CheckDone(s) PROVE Goal
    <2>1. IdleSupervisor \in SupervisorLocals /\ IdleSupervisor.todo = {}
      BY DEF IdleSupervisor, SupervisorLocals
    <2>2. QED
      BY <1>1, <1>4, <2>1 DEF CheckDone
  <1>5. ASSUME NEW s \in Supervisors, NEW t \in Tasks, Visited(s, t) PROVE Goal
    <2> DEFINE r == [sup[s] EXCEPT !.todo = @ \ {t}, !.snap[t] = None]
    <2>1. sup[s] \in SupervisorLocals
      BY <1>1
    <2>2. /\ r \in SupervisorLocals /\ r.todo = sup[s].todo \ {t}
          /\ \A u \in Tasks \ {t} : r.snap[u] = sup[s].snap[u]
      BY <2>1 DEF SupervisorLocals
    <2>3. sup' = [sup EXCEPT ![s] = r]
      BY <1>5 DEF Visited
    <2> HIDE DEF r
    <2>4. QED
      BY <1>1, <2>2, <2>3
  <1>6. QED
    BY <1>2, <1>3, <1>4, <1>5, SupervisorWriters DEF SupervisorStep, Purge, TriggerPush,
       NothingDue, TriggerPushFails

(* A record is written anew, and by whom. *)
Writes(t, st) ==
  /\ \/ launch[t] = "dispatched"
     \/ wk.pc # "idle" /\ wk.job.task = t
     \/ \E c \in Calls : api[c].pc = "write" /\ api[c].op = "query" /\ api[c].task = t
     \/ \E c \in Calls : t \in api[c].todo
  /\ st = "completed" =>
       \/ wk.pc \in Informed /\ ~wk.run /\ wk.job.task = t
       \/ \E c \in Calls : /\ api[c].op = "query" /\ api[c].task = t
                           /\ result[c] \in Result /\ result[c].kind = "log" /\ ~result[c].run
       \/ "discover" \in Ops

(* A record is removed. *)
Removes(t) ==
  \/ \E c \in Calls : KillDone(c) /\ api[c].task = t
  \/ \E c \in Calls : ClearOne(c, t)
  \/ \E s \in Supervisors : Purge(s, t)

(* Every change of the registry is one of these, or the passing of time. *)
LEMMA RegistrySteps ==
  ASSUME ShapeInv, [Next]_vars
  PROVE  \/ UNCHANGED registry
         \/ \E t \in Tasks : RecordAges(t)
         \/ \E t \in Tasks : Removes(t) /\ registry' = Unregistered(t)
         \/ \E t \in Tasks, st \in Status, n \in Nat :
              Writes(t, st) /\ registry' = Registered(t, st, n)
  <1> DEFINE Goal == \/ \E t \in Tasks : Removes(t) /\ registry' = Unregistered(t)
                     \/ \E t \in Tasks, st \in Status, n \in Nat :
                          Writes(t, st) /\ registry' = Registered(t, st, n)
  <1>1. /\ wk \in WorkerLocals /\ wk.run \in BOOLEAN /\ wk.next \in Nat
        /\ api \in [Calls -> CallLocals]
        /\ \A c \in Calls : CallOK(api[c], result[c])
    BY Typed DEF WorkerLocals, ShapeInv
  <1>2. \A b \in BOOLEAN : /\ StatusOf(b) \in Status
                           /\ StatusOf(b) = "completed" => ~b
    BY DEF StatusOf, Status
  <1>3. ASSUME NEW t \in Tasks, LaunchRegister(t) PROVE Goal
    <2>1. Writes(t, "launching") /\ registry' = Registered(t, "launching", 0)
      BY <1>3 DEF LaunchRegister, Writes
    <2>2. "launching" \in Status /\ 0 \in Nat
      BY DEF Status
    <2>3. QED
      BY <2>1, <2>2
  <1>4. ASSUME WorkLaunchRegister \/ WorkRegister \/ HookRegister PROVE Goal
    <2>1. /\ wk.pc \in Informed /\ wk.job.task \in Tasks /\ wk.pc # "idle"
          /\ \/ registry' = Registered(wk.job.task, StatusOf(wk.run), 0)
             \/ registry' = Registered(wk.job.task, StatusOf(wk.run), wk.next)
      BY <1>4, Typed DEF WorkLaunchRegister, WorkRegister, HookRegister, At, Informed,
         HookStages
    <2>2. Writes(wk.job.task, StatusOf(wk.run))
      BY <1>1, <1>2, <2>1 DEF Writes
    <2>3. QED
      BY <1>1, <1>2, <2>1, <2>2
  <1>5. ASSUME NEW c \in Calls, QueryWrite(c) PROVE Goal
    <2>1. /\ api[c].pc = "write" /\ api[c].op = "query" /\ api[c].task \in Tasks
          /\ result[c] \in Result /\ result[c].kind = "log"
          /\ registry' = Registered(api[c].task, StatusOf(result[c].run), result[c].next)
      BY <1>1, <1>5 DEF QueryWrite, CallOK
    <2>2. result[c].run \in BOOLEAN /\ result[c].next \in Nat
      BY <2>1 DEF Result
    <2>3. Writes(api[c].task, StatusOf(result[c].run))
      BY <1>2, <2>1, <2>2 DEF Writes
    <2>4. QED
      BY <1>2, <2>1, <2>2, <2>3
  <1>6. ASSUME NEW c \in Calls, KillDone(c) PROVE Goal
    <2>1. api[c].task \in Tasks /\ registry' = Unregistered(api[c].task)
      BY <1>1, <1>6 DEF KillDone, CallOK
    <2>2. QED
      BY <1>6, <2>1 DEF Removes
  <1>7. ASSUME NEW c \in Calls, NEW t \in Tasks, ClearOne(c, t) PROVE Goal
    BY <1>7 DEF ClearOne, Removes
  <1>8. ASSUME NEW c \in Calls, NEW t \in Tasks, DiscoverWrite(c, t) PROVE Goal
    <2>1. /\ t \in api[c].todo /\ "discover" \in Ops
          /\ registry' = Registered(t, "completed", api[c].offsets[t])
      BY <1>1, <1>8 DEF DiscoverWrite, CallOK
    <2>2. api[c].offsets[t] \in Nat
      BY <1>1 DEF CallLocals
    <2>3. Writes(t, "completed") /\ "completed" \in Status
      BY <2>1 DEF Writes, Status
    <2>4. QED
      BY <2>1, <2>2, <2>3
  <1>9. ASSUME NEW s \in Supervisors, NEW t \in Tasks, Purge(s, t) PROVE Goal
    BY <1>9 DEF Purge, Removes
  <1>10. QED
    BY <1>3, <1>4, <1>5, <1>6, <1>7, <1>8, <1>9, RegistryWriters

(* A job that is enqueued: the launch, or one of a task that is known. *)
Adds(j) ==
  /\ j \in Job /\ JobOK(j) /\ Serves(api', j)
  /\ hostq' = Append(hostq, j)
  /\ j.op = "launch" => LaunchDispatch(j.task)
  /\ j.op \in {"query", "kill"} =>
       j.task \in Known \/ \E s \in Supervisors : j.task \in sup[s].todo
  /\ j.op = "scan" => j.task = None
  /\ UNCHANGED wk

(* Every change of HostQ adds such a job or takes the first. *)
LEMMA QueueSteps ==
  ASSUME ShapeInv, [Next]_vars
  PROVE  UNCHANGED hostq \/ WorkTake \/ \E j \in Job : Adds(j)
  <1> USE TaskAssumption
  <1> USE DEF Enqueue
  <1>1. ASSUME NEW t \in Tasks, LaunchDispatch(t) PROVE \E i \in Job : Adds(i)
    <2>1. Enqueue("launch", t, None, TRUE) /\ UNCHANGED wk
      BY <1>1 DEF LaunchDispatch
    <2> DEFINE i == [op |-> "launch", task |-> t, call |-> None, hook |-> TRUE]
    <2>2. i \in Job /\ i.op = "launch" /\ i.task = t /\ i.call = None
      BY DEF Job
    <2>3. hostq' = Append(hostq, i)
      BY <2>1
    <2> HIDE DEF i
    <2>4. QED
      BY <1>1, <2>1, <2>2, <2>3 DEF Adds, JobOK, Serves
  <1>2. ASSUME NEW c \in Calls, NEW op \in Op, NEW t \in Tasks, CallTask(c, op, t)
        PROVE  UNCHANGED hostq \/ \E i \in Job : Adds(i)
    <2>1. op \in {"query", "kill"} /\ UNCHANGED wk /\ api[c].pc = "new"
      BY <1>2 DEF CallTask
    <2>2. CASE registry[t] # None /\ Enqueue(op, t, c, FALSE)
      <3> DEFINE i == [op |-> op, task |-> t, call |-> c, hook |-> FALSE]
      <3>1. i \in Job /\ i.op = op /\ i.task = t /\ i.call = c /\ i.hook = FALSE
        BY <2>1 DEF Job
      <3>2. hostq' = Append(hostq, i)
        BY <2>2
      <3>3. api'[c].pc # "new" /\ api'[c].op = op /\ api'[c].task = t
        <4>1. CallMoves(c)
          BY <1>2, CallSteps DEF CallStarts
        <4>2. api[c] \in CallLocals /\ api \in [Calls -> CallLocals]
          BY Typed
        <4> DEFINE m == [api[c] EXCEPT !.op = op, !.task = t,
                                       !.ended = remote[t].proc = "ended"]
        <4>3. \/ api'[c] = [m EXCEPT !.pc = "done", !.answer = "error"]
              \/ api'[c] = [m EXCEPT !.pc = "wait"]
          BY <1>2, <4>2 DEF CallTask, SetCall
        <4>4. m \in CallLocals /\ m.op = op /\ m.task = t
          <5>1. (remote[t].proc = "ended") \in BOOLEAN
            OBVIOUS
          <5>2. QED
            BY <2>1, <4>2, <5>1 DEF CallLocals
        <4> HIDE DEF m
        <4>5. api'[c].op = m.op /\ api'[c].task = m.task
          BY <4>3, <4>4 DEF CallLocals
        <4>6. QED
          BY <4>1, <4>4, <4>5 DEF CallMoves
      <3> HIDE DEF i
      <3>4. t \in Known
        BY <2>2 DEF Known
      <3>5. QED
        BY <2>1, <3>1, <3>2, <3>3, <3>4 DEF Adds, JobOK, Serves
    <2>3. QED
      BY <1>2, <2>2 DEF CallTask
  <1>3. ASSUME NEW c \in Calls, CallDiscover(c) PROVE \E i \in Job : Adds(i)
    <2> DEFINE i == [op |-> "scan", task |-> None, call |-> c, hook |-> FALSE]
    <2>1. i \in Job /\ i.op = "scan" /\ i.task = None /\ i.call = c /\ i.hook = FALSE
      BY DEF Job
    <2>2. hostq' = Append(hostq, i) /\ UNCHANGED wk
      BY <1>3 DEF CallDiscover
    <2>3. api'[c].pc = "wait" /\ api'[c].op = "discover"
      BY <1>3, Typed DEF CallDiscover, SetCall, CallLocals
    <2> HIDE DEF i
    <2>4. QED
      BY <2>1, <2>2, <2>3 DEF Adds, JobOK, Serves
  <1>4. ASSUME NEW s \in Supervisors, NEW t \in Tasks, TriggerPush(s, t)
        PROVE  \E i \in Job : Adds(i)
    <2> DEFINE h == (t \in PushTasks \cap HookTasks)
               i == [op |-> "query", task |-> t, call |-> None, hook |-> h]
    <2>1. i \in Job /\ i.op = "query" /\ i.task = t /\ i.call = None
      BY DEF Job
    <2>2. hostq' = Append(hostq, i) /\ UNCHANGED wk /\ t \in sup[s].todo
      BY <1>4 DEF TriggerPush, Turn
    <2> HIDE DEF i
    <2>3. QED
      BY <2>1, <2>2 DEF Adds, JobOK, Serves
  <1>5. QED
    BY <1>1, <1>2, <1>3, <1>4, QueueWriters

-----------------------------------------------------------------------------
(* Types. *)

(* Adding to a queue, and taking from it. *)
LEMMA AppendProps ==
  ASSUME NEW S, NEW q \in Seq(S), NEW x \in S
  PROVE  /\ Append(q, x) \in Seq(S)
         /\ DOMAIN Append(q, x) = 1..Len(q) + 1 /\ DOMAIN q = 1..Len(q) /\ Len(q) \in Nat
         /\ \A k \in DOMAIN q : Append(q, x)[k] = q[k]
         /\ Append(q, x)[Len(q) + 1] = x
  BY AppendProperties, LenProperties

(* The rest of a queue. *)
LEMMA TailProps ==
  ASSUME NEW S, NEW q \in Seq(S), q # <<>>
  PROVE  /\ Tail(q) \in Seq(S) /\ Head(q) \in S
         /\ 1 \in DOMAIN q /\ Head(q) = q[1]
         /\ \A k \in DOMAIN Tail(q) :
              k \in Nat /\ k + 1 \in DOMAIN q /\ k + 1 # 1 /\ Tail(q)[k] = q[k + 1]
  BY HeadTailProperties, LenProperties

(* A worker that takes the first job. *)
LEMMA Taken ==
  ASSUME ShapeInv, WorkTake
  PROVE  /\ wk.pc = "idle" /\ hostq' \in Seq(Job)
         /\ 1 \in DOMAIN hostq /\ hostq[1] \in Job
         /\ wk' \in WorkerLocals /\ wk'.pc = hostq[1].op /\ wk'.job = hostq[1]
         /\ UNCHANGED result
         /\ \A k \in DOMAIN hostq' :
              k \in Nat /\ k + 1 \in DOMAIN hostq /\ k + 1 # 1 /\ hostq'[k] = hostq[k + 1]
  <1>1. /\ hostq' \in Seq(Job) /\ Head(hostq) \in Job
        /\ 1 \in DOMAIN hostq /\ Head(hostq) = hostq[1]
        /\ \A k \in DOMAIN hostq' :
              k \in Nat /\ k + 1 \in DOMAIN hostq /\ k + 1 # 1 /\ hostq'[k] = hostq[k + 1]
    BY Typed, TailProps DEF WorkTake
  <1>2. Head(hostq).op \in {"launch", "query", "kill", "scan"}
    BY <1>1 DEF Job
  <1>3. wk' = [IdleWorker EXCEPT !.pc = Head(hostq).op, !.job = Head(hostq)]
        /\ UNCHANGED result
        /\ wk.pc = "idle"
    BY DEF WorkTake, At
  <1>4. /\ wk' \in WorkerLocals /\ wk'.pc = Head(hostq).op /\ wk'.job = Head(hostq)
    BY <1>1, <1>2, <1>3 DEF IdleWorker, WorkerLocals
  <1>5. QED
    BY <1>1, <1>3, <1>4

(* The registry keeps its type. *)
LEMMA RegistryType ==
  ASSUME ShapeInv, [Next]_vars
  PROVE  registry' \in [Tasks -> Record \cup {None}]
  <1>1. registry \in [Tasks -> Record \cup {None}]
    BY Typed
  <1>2. ASSUME NEW t \in Tasks, RecordAges(t) PROVE registry' \in [Tasks -> Record \cup {None}]
    <2>1. registry[t] \in Record
      BY <1>1, <1>2 DEF RecordAges, Known
    <2>2. [registry[t] EXCEPT !.old = TRUE] \in Record
      BY <2>1 DEF Record
    <2>3. QED
      BY <1>1, <1>2, <2>2 DEF RecordAges
  <1>3. ASSUME NEW t \in Tasks, NEW st \in Status, NEW n \in Nat,
               registry' = Registered(t, st, n)
        PROVE  registry' \in [Tasks -> Record \cup {None}]
    BY <1>1, <1>3 DEF Registered, Record
  <1>4. QED
    BY <1>1, <1>2, <1>3, RegistrySteps DEF Unregistered

(* The host keeps its type. *)
LEMMA RemoteType ==
  ASSUME ShapeInv, [Next]_vars
  PROVE  remote' \in [Tasks -> [proc : {"none", "running", "loose", "ended"},
                                files : BOOLEAN, size : Nat]]
  <1> DEFINE R == [proc : {"none", "running", "loose", "ended"}, files : BOOLEAN, size : Nat]
  <1>1. remote \in [Tasks -> R]
    BY Typed
  <1>2. ASSUME NEW t \in Tasks, NEW r \in R, remote' = [remote EXCEPT ![t] = r]
        PROVE  remote' \in [Tasks -> R]
    BY <1>1, <1>2
  <1>3. ASSUME NEW t \in Tasks, ProcWrites(t) PROVE remote' \in [Tasks -> R]
    <2>1. [remote[t] EXCEPT !.size = @ + 1] \in R
      <3>1. remote[t].size + 1 \in Nat
        BY <1>1
      <3>2. QED
        BY <1>1, <3>1
    <2>2. QED
      BY <1>2, <1>3, <2>1 DEF ProcWrites
  <1>4. ASSUME NEW t \in Tasks, ProcEnds(t) PROVE remote' \in [Tasks -> R]
    <2>1. [remote[t] EXCEPT !.proc = "ended"] \in R
      BY <1>1
    <2>2. QED
      BY <1>2, <1>4, <2>1 DEF ProcEnds
  <1>5. ASSUME WorkLaunch PROVE remote' \in [Tasks -> R]
    <2>1. wk.job.task \in Tasks
      BY <1>5, Typed DEF WorkLaunch, At
    <2>2. [proc |-> "running", files |-> TRUE, size |-> 0] \in R
      OBVIOUS
    <2>3. QED
      BY <1>1, <1>2, <1>5, <2>1, <2>2 DEF WorkLaunch
  <1>6. ASSUME WorkKill PROVE remote' \in [Tasks -> R]
    <2> DEFINE t == wk.job.task
               P == {"none", "running", "loose", "ended"}
    <2>1. t \in Tasks
      BY <1>6, Typed DEF WorkKill, At
    <2>2. \/ UNCHANGED remote
          \/ \E p \in P :
               remote' = [remote EXCEPT ![t] = [proc |-> p, files |-> FALSE, size |-> 0]]
      <3>1. (IF Running(t) THEN {"ended", "loose"} ELSE {remote[t].proc}) \subseteq P
        BY <1>1, <2>1
      <3>2. QED
        BY <1>6, <3>1 DEF WorkKill
    <2> HIDE DEF t
    <2>3. \A p \in P : [proc |-> p, files |-> FALSE, size |-> 0] \in R
      OBVIOUS
    <2>4. QED
      BY <1>1, <1>2, <2>1, <2>2, <2>3
  <1>7. QED
    BY <1>1, <1>3, <1>4, <1>5, <1>6, RemoteWriters

(* Calls keep to their jobs, and results to their calls. *)
LEMMA CallTypes ==
  ASSUME ShapeInv, [Next]_vars
  PROVE  /\ api' \in [Calls -> CallLocals] /\ result' \in [Calls -> Result \cup {None}]
         /\ \A c \in Calls : CallOK(api'[c], result'[c])
         /\ \A j \in Job : Serves(api, j) => Serves(api', j)
  <1>1. /\ api \in [Calls -> CallLocals] /\ result \in [Calls -> Result \cup {None}]
        /\ \A c \in Calls : CallOK(api[c], result[c])
    BY Typed DEF ShapeInv
  <1>2. CASE UNCHANGED api
    <2>1. ASSUME NEW res \in Result, Reports(res)
          PROVE  /\ result' \in [Calls -> Result \cup {None}]
                 /\ \A c \in Calls : result'[c] = result[c] \/ api[c].pc = "wait"
      BY <1>1, <2>1 DEF Reports, Finish
    <2>2. /\ result' \in [Calls -> Result \cup {None}]
          /\ \A c \in Calls : result'[c] = result[c] \/ api[c].pc = "wait"
      BY <1>1, <2>1, WorkerWriters, WorkerSteps, Taken DEF GoesOn
    <2>3. \A c \in Calls : CallOK(api[c], result'[c])
      BY <1>1, <2>2 DEF CallOK
    <2>4. QED
      BY <1>1, <1>2, <2>2, <2>3
  <1>3. ASSUME NEW c \in Calls, CallMoves(c)
        PROVE  /\ api' \in [Calls -> CallLocals] /\ result' \in [Calls -> Result \cup {None}]
               /\ \A d \in Calls : CallOK(api'[d], result'[d])
               /\ \A j \in Job : Serves(api, j) => Serves(api', j)
    <2>1. \A d \in Calls : CallOK(api'[d], result'[d])
      BY <1>1, <1>3 DEF CallMoves
    <2>2. ASSUME NEW j \in Job, Serves(api, j) PROVE Serves(api', j)
      <3>1. j.call \in Calls \cup {None}
        BY DEF Job
      <3>2. QED
        BY <1>3, <2>2, <3>1 DEF CallMoves, Serves
    <2>3. QED
      BY <1>1, <1>3, <2>1, <2>2 DEF CallMoves
  <1>4. QED
    BY <1>2, <1>3, CallWriters, CallSteps

(* HostQ and the worker keep to jobs as they should be. *)
LEMMA WorkTypes ==
  ASSUME ShapeInv, [Next]_vars
  PROVE  /\ hostq' \in Seq(Job) /\ wk' \in WorkerLocals /\ WorkOK(wk')
         /\ \A k \in DOMAIN hostq' : JobOK(hostq'[k]) /\ Serves(api', hostq'[k])
         /\ wk'.pc # "idle" => Serves(api', wk'.job)
  <1>1. /\ hostq \in Seq(Job) /\ wk \in WorkerLocals /\ WorkOK(wk)
        /\ \A k \in DOMAIN hostq : /\ hostq[k] \in Job /\ JobOK(hostq[k])
                                   /\ Serves(api, hostq[k]) /\ Serves(api', hostq[k])
        /\ wk.pc # "idle" => wk.job \in Job /\ Serves(api, wk.job) /\ Serves(api', wk.job)
    BY Typed, CallTypes DEF ShapeInv
  <1>2. CASE WorkTake
    <2>1. WorkOK(wk')
      <3>1. JobOK(hostq[1]) /\ hostq[1].op \in {"launch", "query", "kill", "scan"}
        BY <1>1, <1>2, Taken DEF Job
      <3>2. QED
        BY <1>2, <3>1, Taken DEF WorkOK, QueryStages, HookStages
    <2>2. QED
      BY <1>1, <1>2, <2>1, Taken
  <1>3. CASE ~WorkTake
    <2>1. /\ wk' \in WorkerLocals /\ WorkOK(wk')
          /\ wk'.pc # "idle" => wk.pc # "idle" /\ wk'.job = wk.job
      <3>1. IdleWorker \in WorkerLocals /\ WorkOK(IdleWorker) /\ IdleWorker.pc = "idle"
        BY DEF IdleWorker, WorkerLocals, WorkOK
      <3>2. ASSUME NEW res \in Result, Reports(res) PROVE wk' = IdleWorker
        BY <3>2 DEF Reports, Finish
      <3>3. QED
        BY <1>1, <1>3, <3>1, <3>2, WorkerWriters, WorkerSteps DEF GoesOn
    <2>2. ASSUME NEW j \in Job, Adds(j)
          PROVE  /\ hostq' \in Seq(Job)
                 /\ \A k \in DOMAIN hostq' : JobOK(hostq'[k]) /\ Serves(api', hostq'[k])
      <3>1. /\ hostq' \in Seq(Job) /\ JobOK(j) /\ Serves(api', j)
            /\ \A k \in DOMAIN hostq' : hostq'[k] = j
                                        \/ (k \in DOMAIN hostq /\ hostq'[k] = hostq[k])
        BY <1>1, <2>2, AppendProps DEF Adds
      <3>2. QED
        BY <1>1, <3>1
    <2>3. /\ hostq' \in Seq(Job)
          /\ \A k \in DOMAIN hostq' : JobOK(hostq'[k]) /\ Serves(api', hostq'[k])
      BY <1>1, <1>3, <2>2, QueueSteps
    <2>4. QED
      BY <1>1, <2>1, <2>3
  <1>4. QED
    BY <1>2, <1>3

(* The other variables keep their types. *)
LEMMA OtherTypes ==
  ASSUME ShapeInv, [Next]_vars
  PROVE  /\ launch' \in [Tasks -> {"new", "dispatched", "done"}]
         /\ lock' \in BOOLEAN /\ recent' \in [Supervisors -> SUBSET Tasks]
         /\ readlog' \in [Tasks -> SUBSET Nat]
         /\ announced' \in SUBSET Tasks /\ faults' \in Nat
  <1>1. TypeOK
    BY DEF ShapeInv
  <1>2. launch' \in [Tasks -> {"new", "dispatched", "done"}]
    BY <1>1, LaunchWriters DEF TypeOK, LaunchDispatch, LaunchRegister
  <1>3. lock' \in BOOLEAN
    BY <1>1, LockWriters DEF TypeOK, LockExpires, Acquire
  <1>4. recent' \in [Supervisors -> SUBSET Tasks]
    <2>1. recent \in [Supervisors -> SUBSET Tasks]
      BY <1>1 DEF TypeOK
    <2>2. QED
      BY <2>1, PushWriters DEF IntervalPasses, Purge, TriggerPush
  <1>5. readlog' \in [Tasks -> SUBSET Nat]
    <2>1. CASE WorkRead
      <3> DEFINE t == wk.job.task
                 start == IF wk.off > remote[t].size THEN 0 ELSE wk.off
      <3>1. t \in Tasks
        BY <2>1, Typed DEF WorkRead, At
      <3>2. wk.off \in Nat /\ remote[t].size \in Nat
        BY <3>1, Typed DEF WorkerLocals
      <3>3. start + 1 .. remote[t].size \in SUBSET Nat
        BY <3>2
      <3>4. readlog' = [readlog EXCEPT ![t] = @ \cup (start + 1 .. remote[t].size)]
        BY <2>1 DEF WorkRead
      <3> HIDE DEF start, t
      <3>5. QED
        BY <1>1, <3>1, <3>3, <3>4 DEF TypeOK
    <2>2. QED
      BY <1>1, <2>1, LogWriters DEF TypeOK
  <1>6. announced' \in SUBSET Tasks
    <2>1. CASE HookSend
      <3>1. wk.job.task \in Tasks
        BY <2>1, Typed DEF HookSend, At
      <3>2. QED
        BY <1>1, <2>1, <3>1 DEF TypeOK, HookSend
    <2>2. QED
      BY <1>1, <2>1, EventWriters DEF TypeOK
  <1>7. faults' \in Nat
    <2>1. UNCHANGED faults \/ Fault
      BY FaultWriters DEF WorkFails, TriggerPushFails
    <2>2. QED
      BY <1>1, <2>1 DEF TypeOK, Fault
  <1>8. QED
    BY <1>2, <1>3, <1>4, <1>5, <1>6, <1>7

(* ShapeInv is inductive. *)
LEMMA ShapeInvariant == Spec => []ShapeInv
  <1>1. Init => ShapeInv
    <2> SUFFICES ASSUME Init PROVE ShapeInv
      OBVIOUS
    <2> USE TaskAssumption DEF Init
    <2>1. IdleWorker \in WorkerLocals /\ IdleWorker.pc = "idle"
      BY DEF IdleWorker, WorkerLocals
    <2>2. IdleCall \in CallLocals /\ IdleCall.pc = "new" /\ IdleCall.op = None
      BY DEF IdleCall, CallLocals
    <2>3. IdleSupervisor \in SupervisorLocals /\ IdleSupervisor.todo = {}
      BY DEF IdleSupervisor, SupervisorLocals
    <2>4. [proc |-> "none", files |-> FALSE, size |-> 0] \in
            [proc : {"none", "running", "loose", "ended"}, files : BOOLEAN, size : Nat]
      OBVIOUS
    <2>5. hostq \in Seq(Job) /\ DOMAIN hostq = {} /\ lock \in BOOLEAN /\ faults \in Nat
      <3>1. hostq = <<>>
        OBVIOUS
      <3>2. <<>> \in Seq(Job) /\ DOMAIN <<>> = {}
        BY EmptySeq, LenProperties
      <3>3. lock = FALSE /\ faults = 0
        OBVIOUS
      <3>4. QED
        BY ONLY <3>1, <3>2, <3>3
    <2>6. TypeOK
      BY <2>1, <2>2, <2>3, <2>4, <2>5 DEF TypeOK
    <2>7. \A c \in Calls : CallOK(api[c], result[c])
      BY <2>2 DEF CallOK
    <2>8. QED
      BY <2>1, <2>3, <2>5, <2>6, <2>7 DEF ShapeInv, WorkOK
  <1>2. ShapeInv /\ [Next]_vars => ShapeInv'
    <2> SUFFICES ASSUME ShapeInv, [Next]_vars PROVE ShapeInv'
      OBVIOUS
    <2>1. TypeOK'
      BY RegistryType, RemoteType, CallTypes, WorkTypes, OtherTypes, SupervisorSteps DEF TypeOK
    <2>2. \A s \in Supervisors, t \in Tasks : t \in sup'[s].todo => sup'[s].snap[t] \in Record
      BY SupervisorSteps, Typed DEF ShapeInv, Known
    <2>3. QED
      BY <2>1, <2>2, CallTypes, WorkTypes DEF ShapeInv
  <1>3. QED
    BY <1>1, <1>2, PTL DEF Spec

-----------------------------------------------------------------------------
(* The order of HostQ. *)

LaunchInv == OrderInv /\ NewInv /\ ProcInv

(* A launching thread only goes forward. *)
LEMMA LaunchSteps ==
  ASSUME ShapeInv, [Next]_vars, NEW t \in Tasks
  PROVE  /\ launch'[t] = "new" => launch[t] = "new"
         /\ LaunchDispatch(t) => launch[t] = "new" /\ launch'[t] # "new"
  <1>1. launch \in [Tasks -> {"new", "dispatched", "done"}]
    BY Typed
  <1>2. QED
    BY <1>1, LaunchWriters DEF LaunchDispatch, LaunchRegister

(* What the worker is at after a step. *)
LEMMA WorkerAfter ==
  ASSUME ShapeInv, [Next]_vars
  PROVE  \/ WorkTake /\ wk'.job = hostq[1] /\ wk'.pc = hostq[1].op
         \/ UNCHANGED wk
         \/ wk.pc # "idle" /\ wk'.pc # "launch" /\ (wk'.pc # "idle" => wk'.job = wk.job)
  <1>1. ASSUME NEW res \in Result, Reports(res) PROVE wk.pc # "idle" /\ wk'.pc = "idle"
    BY <1>1 DEF Reports, Finish, IdleWorker
  <1>2. QED
    BY <1>1, WorkerWriters, WorkerSteps, Taken DEF GoesOn

(* What is in HostQ after a step, and where it was. *)
LEMMA QueueAfter ==
  ASSUME ShapeInv, [Next]_vars
  PROVE  \/ UNCHANGED hostq
         \/ /\ WorkTake /\ 1 \in DOMAIN hostq
            /\ \A k \in DOMAIN hostq' :
                 k \in Nat /\ k + 1 \in DOMAIN hostq /\ hostq'[k] = hostq[k + 1]
         \/ \E j \in Job :
              /\ Adds(j) /\ Len(hostq) + 1 \in DOMAIN hostq'
              /\ hostq'[Len(hostq) + 1] = j
              /\ \A k \in DOMAIN hostq' : \/ k = Len(hostq) + 1
                                          \/ /\ k \in DOMAIN hostq /\ hostq'[k] = hostq[k]
                                             /\ k <= Len(hostq)
  <1>1. ASSUME NEW j \in Job, Adds(j)
        PROVE  /\ Len(hostq) + 1 \in DOMAIN hostq' /\ hostq'[Len(hostq) + 1] = j
               /\ \A k \in DOMAIN hostq' : \/ k = Len(hostq) + 1
                                           \/ /\ k \in DOMAIN hostq /\ hostq'[k] = hostq[k]
                                              /\ k <= Len(hostq)
    <2>1. /\ hostq' = Append(hostq, j) /\ hostq \in Seq(Job)
      BY <1>1, Typed DEF Adds
    <2>2. QED
      BY <2>1, AppendProps
  <1>2. QED
    BY <1>1, QueueSteps, Taken

(* A launch that has come about does not come again. *)
LEMMA AwaitedSteps ==
  ASSUME ShapeInv, [Next]_vars, NEW t \in Tasks, Awaited(t)'
  PROVE  Awaited(t)
  <1>1. CASE launch'[t] = "new"
    BY <1>1, LaunchSteps DEF Awaited
  <1>2. ASSUME NEW k \in DOMAIN hostq', hostq'[k].op = "launch", hostq'[k].task = t
        PROVE  Awaited(t)
    <2>1. ASSUME NEW j \in Job, Adds(j), hostq'[k] = j PROVE Awaited(t)
      BY <1>2, <2>1, LaunchSteps DEF Adds, Awaited
    <2>2. QED
      BY <1>2, <2>1, QueueAfter DEF Awaited
  <1>3. CASE wk'.pc = "launch" /\ wk'.job.task = t
    BY <1>3, WorkerAfter, Taken DEF Awaited
  <1>4. QED
    BY <1>1, <1>2, <1>3 DEF Awaited

(* A process starts only in the launch that was awaited. *)
LEMMA RemoteSteps ==
  ASSUME ShapeInv, [Next]_vars, NEW t \in Tasks
  PROVE  \/ remote'[t].proc = remote[t].proc /\ (remote'[t].files <=> remote[t].files)
         \/ remote[t].proc # "none" /\ remote'[t].proc \in {"ended", "loose"}
         \/ remote'[t].proc = remote[t].proc /\ ~Running(t) /\ ~remote'[t].files
         \/ /\ WorkLaunch /\ wk.pc = "launch" /\ wk.job.task = t
            /\ remote'[t].proc = "running" /\ remote'[t].files
  <1> DEFINE Goal == \/ /\ remote'[t].proc = remote[t].proc
                        /\ remote'[t].files <=> remote[t].files
                     \/ remote[t].proc # "none" /\ remote'[t].proc \in {"ended", "loose"}
                     \/ remote'[t].proc = remote[t].proc /\ ~Running(t) /\ ~remote'[t].files
                     \/ /\ WorkLaunch /\ wk.pc = "launch" /\ wk.job.task = t
                        /\ remote'[t].proc = "running" /\ remote'[t].files
  <1>1. remote \in [Tasks -> [proc : {"none", "running", "loose", "ended"},
                              files : BOOLEAN, size : Nat]]
    BY Typed
  <1>2. ASSUME NEW u \in Tasks, ProcWrites(u) \/ ProcEnds(u) PROVE Goal
    BY <1>1, <1>2 DEF ProcWrites, ProcEnds
  <1>3. ASSUME WorkLaunch PROVE Goal
    <2>1. CASE UNCHANGED remote
      BY <2>1
    <2>2. CASE remote' = [remote EXCEPT ![wk.job.task] =
                            [proc |-> "running", files |-> TRUE, size |-> 0]]
      BY <1>1, <1>3, <2>2 DEF WorkLaunch, At
    <2>3. QED
      BY <1>3, <2>1, <2>2 DEF WorkLaunch
  <1>4. ASSUME WorkKill PROVE Goal
    <2> DEFINE u == wk.job.task
    <2>1. CASE UNCHANGED remote
      BY <2>1
    <2>2. ASSUME NEW p \in IF Running(u) THEN {"ended", "loose"} ELSE {remote[u].proc},
                 remote' = [remote EXCEPT ![u] = [proc |-> p, files |-> FALSE, size |-> 0]]
          PROVE  Goal
      <3> DEFINE r == [proc |-> p, files |-> FALSE, size |-> 0]
      <3>1. remote' = [remote EXCEPT ![u] = r]
        BY <2>2
      <3>2. ~r.files /\ r.proc = p
        OBVIOUS
      <3>3. Running(u) => p \in {"ended", "loose"}
        BY <2>2
      <3>4. ~Running(u) => p = remote[u].proc
        BY <2>2
      <3> HIDE DEF u, r
      <3>5. CASE u = t
        <4>1. remote'[t] = r
          BY <1>1, <3>1, <3>5
        <4>2. QED
          BY <3>2, <3>3, <3>4, <3>5, <4>1 DEF Running
      <3>6. CASE u # t
        <4>1. remote'[t] = remote[t]
          BY <1>1, <3>1, <3>6
        <4>2. QED
          BY <4>1
      <3>7. QED
        BY <3>5, <3>6
    <2>3. QED
      BY <1>4, <2>1, <2>2 DEF WorkKill
  <1>5. QED
    BY <1>2, <1>3, <1>4, RemoteWriters

(* A process that is gone stays gone. *)
LEMMA GoneSteps ==
  ASSUME ShapeInv, [Next]_vars, NEW t \in Tasks, Gone(t)
  PROVE  Gone(t)'
  <1>1. ~Awaited(t)'
    BY AwaitedSteps DEF Gone
  <1>2. ~Running(t)'
    <2>1. ~(wk.pc = "launch" /\ wk.job.task = t) /\ ~Running(t)
      BY DEF Gone, Awaited
    <2>2. QED
      BY <2>1, RemoteSteps DEF Running
  <1>3. QED
    BY <1>1, <1>2 DEF Gone

(* A launch is in front of every other job of its task. *)
LEMMA OrderKept ==
  ASSUME ShapeInv, LaunchInv, [Next]_vars
  PROVE  OrderInv'
  <1>1. DOMAIN hostq = 1..Len(hostq) /\ Len(hostq) \in Nat
    BY Typed
  <1>2. ASSUME NEW k \in DOMAIN hostq', NEW l \in DOMAIN hostq',
               hostq'[l].op = "launch", hostq'[k].task = hostq'[l].task
        PROVE  l <= k
    <2>1. CASE UNCHANGED hostq
      BY <1>2, <2>1 DEF LaunchInv, OrderInv
    <2>2. CASE /\ k \in Nat /\ k + 1 \in DOMAIN hostq /\ hostq'[k] = hostq[k + 1]
               /\ l \in Nat /\ l + 1 \in DOMAIN hostq /\ hostq'[l] = hostq[l + 1]
      <3>1. l + 1 <= k + 1
        BY <1>2, <2>2 DEF LaunchInv, OrderInv
      <3>2. QED
        BY <2>2, <3>1
    <2>3. ASSUME NEW j \in Job, Adds(j), hostq'[Len(hostq) + 1] = j,
                 \A i \in DOMAIN hostq' : \/ i = Len(hostq) + 1
                                          \/ /\ i \in DOMAIN hostq /\ hostq'[i] = hostq[i]
                                             /\ i <= Len(hostq)
          PROVE  l <= k
      <3>1. CASE l = Len(hostq) + 1
        <4>1. j.task \in Tasks /\ LaunchDispatch(j.task)
          BY <1>2, <2>3, <3>1 DEF Adds, JobOK
        <4>2. launch[j.task] = "new"
          BY <4>1, LaunchSteps
        <4>3. k \notin DOMAIN hostq \/ hostq'[k] # hostq[k]
          BY <1>2, <2>3, <3>1, <4>1, <4>2 DEF LaunchInv, NewInv
        <4>4. k = l
          BY <2>3, <3>1, <4>3
        <4>5. QED
          BY <1>1, <3>1, <4>4
      <3>2. CASE k = Len(hostq) + 1 /\ l # Len(hostq) + 1
        BY <1>1, <2>3, <3>2
      <3>3. CASE k # Len(hostq) + 1 /\ l # Len(hostq) + 1
        BY <1>2, <2>3, <3>3 DEF LaunchInv, OrderInv
      <3>4. QED
        BY <3>1, <3>2, <3>3
    <2>4. QED
      BY <2>1, <2>2, <2>3, QueueAfter
  <1>3. ASSUME wk'.pc # "idle", NEW k \in DOMAIN hostq', hostq'[k].op = "launch"
        PROVE  hostq'[k].task # wk'.job.task
    <2>1. CASE WorkTake
      <3>1. /\ wk'.job = hostq[1] /\ 1 \in DOMAIN hostq /\ k \in Nat /\ k + 1 \in DOMAIN hostq
            /\ hostq'[k] = hostq[k + 1] /\ k + 1 # 1
        BY <2>1, Taken
      <3>2. ~(k + 1 <= 1)
        BY <3>1
      <3>3. QED
        BY <1>3, <3>1, <3>2 DEF LaunchInv, OrderInv
    <2>2. CASE ~WorkTake
      <3>1. wk.pc # "idle" /\ wk'.job = wk.job
        BY <1>3, <2>2, WorkerAfter
      <3>2. ASSUME NEW j \in Job, Adds(j), hostq'[k] = j PROVE j.task # wk.job.task
        <4>1. j.task \in Tasks /\ LaunchDispatch(j.task)
          BY <1>3, <3>2 DEF Adds, JobOK
        <4>2. launch[j.task] = "new"
          BY <4>1, LaunchSteps
        <4>3. QED
          BY <3>1, <4>1, <4>2 DEF LaunchInv, NewInv
      <3>3. QED
        BY <1>3, <2>2, <3>1, <3>2, QueueAfter DEF LaunchInv, OrderInv
    <2>3. QED
      BY <2>1, <2>2
  <1>4. QED
    BY <1>2, <1>3 DEF OrderInv

(* Nothing is known of a task before it is dispatched. *)
LEMMA NewKept ==
  ASSUME ShapeInv, LaunchInv, [Next]_vars
  PROVE  NewInv'
  <1> SUFFICES ASSUME NEW t \in Tasks, launch'[t] = "new"
               PROVE  /\ registry'[t] = None
                      /\ \A k \in DOMAIN hostq' : hostq'[k].task # t
                      /\ wk'.pc # "idle" => wk'.job.task # t
                      /\ \A s \in Supervisors : t \notin sup'[s].todo
                      /\ \A c \in Calls :
                           /\ api'[c].pc \in {"wait", "write"} /\ api'[c].op # "discover" =>
                                api'[c].task # t
                           /\ t \notin api'[c].todo
    BY DEF NewInv
  <1> USE TaskAssumption
  <1>1. /\ launch[t] = "new" /\ registry[t] = None /\ ~LaunchDispatch(t) /\ t \notin Known
        /\ \A k \in DOMAIN hostq : hostq[k].task # t
        /\ wk.pc # "idle" => wk.job.task # t
        /\ \A s \in Supervisors : t \notin sup[s].todo
        /\ \A c \in Calls :
             /\ api[c].pc \in {"wait", "write"} /\ api[c].op # "discover" => api[c].task # t
             /\ t \notin api[c].todo
    BY LaunchSteps DEF LaunchInv, NewInv, Known
  <1>2. registry'[t] = None
    <2>1. registry \in [Tasks -> Record \cup {None}]
      BY Typed
    <2>2. ASSUME NEW u \in Tasks, RecordAges(u) PROVE registry'[t] = None
      BY <1>1, <2>1, <2>2 DEF RecordAges
    <2>3. ASSUME NEW u \in Tasks, registry' = Unregistered(u) PROVE registry'[t] = None
      BY <1>1, <2>1, <2>3 DEF Unregistered
    <2>4. ASSUME NEW u \in Tasks, NEW st \in Status, NEW n \in Nat, Writes(u, st),
                 registry' = Registered(u, st, n)
          PROVE  registry'[t] = None
      <3>1. u # t
        BY <1>1, <2>4 DEF Writes
      <3>2. QED
        BY <1>1, <2>1, <2>4, <3>1 DEF Registered
    <2>5. QED
      BY <1>1, <2>2, <2>3, <2>4, RegistrySteps
  <1>3. \A k \in DOMAIN hostq' : hostq'[k].task # t
    <2>1. ASSUME NEW j \in Job, Adds(j) PROVE j.task # t
      <3>1. j.op \in {"launch", "query", "kill", "scan"}
        BY DEF Job
      <3>2. QED
        BY <1>1, <2>1, <3>1 DEF Adds
    <2>2. QED
      BY <1>1, <2>1, QueueAfter
  <1>4. wk'.pc # "idle" => wk'.job.task # t
    BY <1>1, WorkerAfter, Taken
  <1>5. \A s \in Supervisors : t \notin sup'[s].todo
    BY <1>1, SupervisorSteps
  <1>6. ASSUME NEW c \in Calls
        PROVE  /\ api'[c].pc \in {"wait", "write"} /\ api'[c].op # "discover" =>
                    api'[c].task # t
               /\ t \notin api'[c].todo
    <2>1. ASSUME NEW d \in Calls, CallMoves(d) PROVE <1>6!2
      BY <1>1, <2>1 DEF CallMoves
    <2>2. QED
      BY <1>1, <2>1, CallWriters, CallSteps
  <1>7. QED
    BY <1>2, <1>3, <1>4, <1>5, <1>6

(* A process is not there before its launch, and its files while it runs. *)
LEMMA ProcKept ==
  ASSUME ShapeInv, LaunchInv, [Next]_vars
  PROVE  ProcInv'
  <1> SUFFICES ASSUME NEW t \in Tasks
               PROVE  /\ Awaited(t)' => remote'[t].proc = "none"
                      /\ remote'[t].proc = "running" => remote'[t].files
    BY DEF ProcInv
  <1>1. /\ Awaited(t) => remote[t].proc = "none"
        /\ remote[t].proc = "running" => remote[t].files
        /\ Awaited(t)' => Awaited(t)
    BY AwaitedSteps DEF LaunchInv, ProcInv
  <1>2. ASSUME WorkLaunch, wk.pc = "launch", wk.job.task = t PROVE ~Awaited(t)'
    <2>1. launch[t] # "new" /\ launch'[t] # "new"
      BY <1>2, LaunchSteps DEF LaunchInv, NewInv
    <2>2. UNCHANGED hostq
      BY <1>2 DEF WorkLaunch
    <2>3. wk'.pc \in {"started", "launched"}
      BY <1>2, Typed DEF WorkLaunch, Step, WorkerLocals
    <2>4. QED
      BY <1>2, <2>1, <2>2, <2>3 DEF Awaited, LaunchInv, OrderInv
  <1>3. QED
    BY <1>1, <1>2, RemoteSteps DEF Running

(* LaunchInv is inductive. *)
LEMMA LaunchInvariant == Spec => []LaunchInv
  <1>1. Init => LaunchInv
    <2> SUFFICES ASSUME Init PROVE LaunchInv
      OBVIOUS
    <2>1. /\ hostq = <<>> /\ wk.pc = "idle" /\ \A t \in Tasks : registry[t] = None
          /\ \A s \in Supervisors : sup[s].todo = {}
          /\ \A c \in Calls : api[c].pc = "new" /\ api[c].todo = {}
          /\ \A t \in Tasks : remote[t].proc = "none"
      BY DEF Init, IdleWorker, IdleSupervisor, IdleCall
    <2>2. DOMAIN hostq = {}
      BY <2>1
    <2>3. QED
      BY <2>1, <2>2 DEF LaunchInv, OrderInv, NewInv, ProcInv
  <1>2. ShapeInv /\ LaunchInv /\ [Next]_vars => LaunchInv'
    BY OrderKept, NewKept, ProcKept DEF LaunchInv
  <1>3. QED
    BY <1>1, <1>2, ShapeInvariant, PTL DEF Spec

-----------------------------------------------------------------------------
(* What is said to be over is over. *)

(* The launch of the task at hand is past. *)
LEMMA BusyIsLaunched ==
  ASSUME ShapeInv, LaunchInv, wk.pc \notin {"idle", "scan", "launch"}
  PROVE  wk.job.task \in Tasks /\ ~Awaited(wk.job.task)
  <1>1. wk.job.task \in Tasks
    BY Typed
  <1>2. QED
    BY <1>1 DEF LaunchInv, OrderInv, NewInv, Awaited

(* The record of a task that is not over does not become completed.        *)
LEMMA CompletedKept ==
  ASSUME ShapeInv, LaunchInv, GoneInv, [Next]_vars, "discover" \notin Ops,
         NEW t \in Tasks, registry'[t] # None, registry'[t].status = "completed"
  PROVE  Gone(t)'
  <1> SUFFICES Gone(t)
    BY GoneSteps
  <1>1. registry \in [Tasks -> Record \cup {None}]
    BY Typed
  <1>2. registry[t] # None /\ registry[t].status = "completed" => Gone(t)
    BY DEF GoneInv
  <1>3. ASSUME NEW u \in Tasks, RecordAges(u) PROVE Gone(t)
    <2>1. registry[u] \in Record /\ u \in Known
      BY <1>1, <1>3 DEF RecordAges, Known
    <2>2. registry' = [registry EXCEPT ![u] = [registry[u] EXCEPT !.old = TRUE]]
      BY <1>3 DEF RecordAges
    <2>3. [registry[u] EXCEPT !.old = TRUE].status = registry[u].status
      BY <2>1 DEF Record
    <2>4. CASE u = t
      BY <1>1, <1>2, <2>1, <2>2, <2>3, <2>4 DEF Known
    <2>5. CASE u # t
      BY <1>1, <1>2, <2>2, <2>5
    <2>6. QED
      BY <2>4, <2>5
  <1>4. ASSUME NEW u \in Tasks, registry' = Unregistered(u) PROVE Gone(t)
    BY <1>1, <1>2, <1>4 DEF Unregistered
  <1>5. ASSUME NEW u \in Tasks, NEW st \in Status, NEW n \in Nat, Writes(u, st),
               registry' = Registered(u, st, n)
        PROVE  Gone(t)
    <2>1. CASE u # t
      BY <1>1, <1>2, <1>5, <2>1 DEF Registered
    <2>2. CASE u = t
      <3>1. st = "completed"
        BY <1>1, <1>5, <2>2 DEF Registered
      <3>2. ASSUME NEW c \in Calls, result[c] \in Result PROVE result[c] # None
        BY <3>2, TaskAssumption
      <3>3. QED
        BY <1>5, <2>2, <3>1, <3>2 DEF Writes, GoneInv
    <2>3. QED
      BY <2>1, <2>2
  <1>6. QED
    BY <1>2, <1>3, <1>4, <1>5, RegistrySteps

(* What the worker has seen over is over. *)
LEMMA SeenKept ==
  ASSUME ShapeInv, LaunchInv, GoneInv, [Next]_vars, wk'.pc \in Informed, ~wk'.run,
         NEW t \in Tasks, wk'.job.task = t
  PROVE  Gone(t)'
  <1>1. CASE UNCHANGED wk
    BY <1>1, GoneSteps DEF GoneInv
  <1>2. CASE WorkTake
    <2>1. wk'.pc \in {"launch", "query", "kill", "scan"}
      BY <1>2, Taken DEF Job
    <2>2. QED
      BY <2>1 DEF Informed, HookStages
  <1>3. CASE GoesOn
    <2>1. wk.pc \in {"started", "check"} \cup Informed =>
            wk.pc \notin {"idle", "scan", "launch"}
      BY DEF Informed, HookStages
    <2>2. wk.job.task = t
      BY <1>3 DEF GoesOn
    <2>3. Gone(t) \/ (~Awaited(t) /\ ~Running(t))
      BY <1>3, <2>1, <2>2, BusyIsLaunched DEF GoesOn, GoneInv
    <2>4. QED
      BY <2>3, GoneSteps DEF Gone
  <1>4. ASSUME NEW res \in Result, Reports(res) PROVE FALSE
    BY <1>4 DEF Reports, Finish, IdleWorker, Informed, HookStages
  <1>5. QED
    BY <1>1, <1>2, <1>3, <1>4, WorkerWriters, WorkerSteps

(* What a call is told to be over is over. *)
LEMMA ToldKept ==
  ASSUME ShapeInv, LaunchInv, GoneInv, [Next]_vars, NEW c \in Calls, result'[c] # None,
         \/ api'[c].op = "query" /\ result'[c].kind = "log" /\ ~result'[c].run
         \/ api'[c].op = "kill" /\ result'[c].kind = "killed",
         NEW t \in Tasks, api'[c].task = t
  PROVE  Gone(t)'
  <1>1. api[c].pc = "new" => result[c] = None
    BY DEF ShapeInv, CallOK
  <1>2. ASSUME result'[c] = result[c] PROVE Gone(t)'
    <2>1. api[c].pc # "new"
      BY <1>1, <1>2
    <2>2. api'[c].op = api[c].op /\ api'[c].task = api[c].task
      <3>1. ASSUME NEW d \in Calls, CallMoves(d)
            PROVE  api'[c].op = api[c].op /\ api'[c].task = api[c].task
        BY <2>1, <3>1 DEF CallMoves
      <3>2. QED
        BY <3>1, CallWriters, CallSteps
    <2>3. Gone(t)
      BY <1>2, <2>2 DEF GoneInv
    <2>4. QED
      BY <2>3, GoneSteps
  <1>3. ASSUME NEW res \in Result, Reports(res), UNCHANGED api, result'[c] # result[c]
        PROVE  Gone(t)'
    <2>1. result'[c] = res /\ c = wk.job.call /\ wk.pc # "idle"
      BY <1>3 DEF Reports, Finish
    <2>2. wk.job.task = t
      <3>1. Serves(api, wk.job) /\ c # None
        BY <2>1, TaskAssumption DEF ShapeInv
      <3>2. QED
        BY <1>3, <2>1, <3>1 DEF Serves
    <2>3. CASE res.kind = "log" /\ ~res.run
      <3>1. Gone(t)
        BY <1>3, <2>2, <2>3 DEF Reports, GoneInv
      <3>2. QED
        BY <3>1, GoneSteps
    <2>4. CASE res.kind = "killed"
      <3>1. WorkKill /\ wk.pc = "kill"
        BY <1>3, <2>4 DEF Reports, WorkKill, At
      <3>2. ~Awaited(t)
        BY <2>2, <3>1, BusyIsLaunched
      <3>3. ~Awaited(t)'
        BY <3>2, AwaitedSteps
      <3>4. ~Finish([NoResult EXCEPT !.kind = "failed"])
        <4>1. ASSUME Finish([NoResult EXCEPT !.kind = "failed"])
              PROVE  result'[c] \in {[NoResult EXCEPT !.kind = "failed"], result[c]}
          BY <4>1 DEF Finish
        <4>2. [NoResult EXCEPT !.kind = "failed"].kind = "failed"
          BY Results
        <4>3. QED
          BY <1>3, <2>1, <2>4, <4>1, <4>2
      <3>5. ~remote'[t].files
        <4>1. PICK p : remote' = [remote EXCEPT ![wk.job.task] =
                                    [proc |-> p, files |-> FALSE, size |-> 0]]
          BY <3>1, <3>4 DEF WorkKill
        <4>2. DOMAIN remote = Tasks
          BY Typed
        <4>3. QED
          BY <2>2, <4>1, <4>2
      <3>6. QED
        BY <3>3, <3>5 DEF Gone, Running
    <2>5. QED
      BY <2>1, <2>3, <2>4
  <1>4. CASE UNCHANGED result
    BY <1>2, <1>4
  <1>5. CASE WorkTake \/ GoesOn
    BY <1>2, <1>5 DEF WorkTake, GoesOn
  <1>6. CASE WorkStep \/ WorkFails
    <2>1. UNCHANGED api
      BY <1>6 DEF WorkStep, WorkTake, WorkLaunch, WorkLaunchCheck, WorkLaunchRegister,
         WorkQuery, WorkCheck, WorkRead, WorkSize, WorkExists, WorkRegister, HookSend,
         HookGet, HookRegister, WorkKill, WorkScan, WorkFails
    <2>2. QED
      BY <1>2, <1>3, <1>5, <1>6, <2>1, WorkerSteps
  <1>7. QED
    BY <1>4, <1>6, WorkerWriters

(* GoneInv is inductive, unless somebody discovers tasks. *)
LEMMA GoneInvariant == ASSUME "discover" \notin Ops PROVE Spec => []GoneInv
  <1>1. Init => GoneInv
    BY DEF Init, GoneInv, IdleWorker, Informed, HookStages
  <1>2. ShapeInv /\ LaunchInv /\ GoneInv /\ [Next]_vars => GoneInv'
    <2> SUFFICES ASSUME ShapeInv, LaunchInv, GoneInv, [Next]_vars PROVE GoneInv'
      OBVIOUS
    <2>1. (\A t \in Tasks : registry[t] # None /\ registry[t].status = "completed" => Gone(t))'
      BY CompletedKept
    <2>2. (wk.pc \in Informed /\ ~wk.run => Gone(wk.job.task))'
      <3> SUFFICES ASSUME wk'.pc \in Informed, ~wk'.run PROVE Gone(wk.job.task)'
        OBVIOUS
      <3>1. wk'.job.task \in Tasks
        <4>1. wk'.pc \notin {"idle", "scan"}
          BY DEF Informed, HookStages
        <4>2. WorkOK(wk')
          BY WorkTypes
        <4>3. QED
          BY <4>1, <4>2 DEF WorkOK, JobOK, Informed, QueryStages, HookStages
      <3>2. PICK t \in Tasks : t = wk'.job.task
        BY <3>1
      <3>3. Gone(t)'
        BY <3>2, SeenKept
      <3>4. QED
        BY <3>2, <3>3 DEF Gone, Awaited, Running
    <2>3. ASSUME NEW c \in Calls, result'[c] # None,
                 \/ api'[c].op = "query" /\ result'[c].kind = "log" /\ ~result'[c].run
                 \/ api'[c].op = "kill" /\ result'[c].kind = "killed"
          PROVE  Gone(api[c].task)'
      <3>1. api'[c].task \in Tasks
        BY <2>3, CallTypes DEF CallOK
      <3>2. PICK t \in Tasks : t = api'[c].task
        BY <3>1
      <3>3. Gone(t)'
        BY <2>3, <3>2, ToldKept
      <3>4. QED
        BY <3>2, <3>3 DEF Gone, Awaited, Running
    <2>4. QED
      BY <2>1, <2>2, <2>3 DEF GoneInv
  <1>3. QED
    BY <1>1, <1>2, ShapeInvariant, LaunchInvariant, PTL DEF Spec

-----------------------------------------------------------------------------
(* Every record, queue and local variable of the detached-task services    *)
(* holds values of its type.                                               *)
THEOREM TasksTypeCorrect == Spec => []TypeOK
  <1>1. ShapeInv => TypeOK
    BY DEF ShapeInv
  <1>2. QED
    BY <1>1, ShapeInvariant, PTL

(* No writer of the registry, however late, calls a task completed whose   *)
(* process runs, as long as nobody calls discover_detached_tasks, which    *)
(* writes back what it had listed before.                                  *)
THEOREM CompletedTasksAreOver ==
  ASSUME "discover" \notin Ops PROVE Spec => []CompletedIsOver
  <1>1. GoneInv => CompletedIsOver
    BY DEF GoneInv, CompletedIsOver, Gone, Known
  <1>2. QED
    BY <1>1, GoneInvariant, PTL

-----------------------------------------------------------------------------
(* The registry as a view of the processes. *)

(* What a change of the registry makes of the age of a record. *)
LEMMA OldRecords ==
  ASSUME ShapeInv, [Next]_vars, NEW t \in Tasks, registry'[t] # None, registry'[t].old
  PROVE  /\ registry[t] # None
         /\ registry[t].old \/ registry[t].status \in Ages
  <1>1. registry \in [Tasks -> Record \cup {None}]
    BY Typed
  <1>2. ASSUME NEW u \in Tasks, RecordAges(u)
        PROVE  registry[t] # None /\ (registry[t].old \/ registry[t].status \in Ages)
    <2>1. CASE u = t
      BY <1>2, <2>1 DEF RecordAges, Known
    <2>2. CASE u # t
      BY <1>1, <1>2, <2>2 DEF RecordAges
    <2>3. QED
      BY <2>1, <2>2
  <1>3. ASSUME NEW u \in Tasks, registry' = Unregistered(u)
        PROVE  registry[t] # None /\ registry[t].old
    BY <1>1, <1>3 DEF Unregistered
  <1>4. ASSUME NEW u \in Tasks, NEW st \in Status, NEW n \in Nat,
               registry' = Registered(u, st, n)
        PROVE  registry[t] # None /\ registry[t].old
    BY <1>1, <1>4 DEF Registered
  <1>5. QED
    BY <1>2, <1>3, <1>4, RegistrySteps

(* Where only completed records age, what is old is over. *)
LEMMA AgeInvariant ==
  ASSUME "discover" \notin Ops, Ages \subseteq {"completed"}
  PROVE  Spec => []AgeInv
  <1>1. Init => AgeInv
    <2> SUFFICES ASSUME Init PROVE AgeInv
      OBVIOUS
    <2>1. /\ \A t \in Tasks : registry[t] = None
          /\ \A s \in Supervisors : sup[s].todo = {}
      BY DEF Init, IdleSupervisor
    <2>2. QED
      BY <2>1 DEF AgeInv
  <1>2. ShapeInv /\ GoneInv /\ AgeInv /\ [Next]_vars => AgeInv'
    <2> SUFFICES ASSUME ShapeInv, GoneInv, AgeInv, [Next]_vars PROVE AgeInv'
      OBVIOUS
    <2>1. ASSUME NEW t \in Tasks, registry'[t] # None, registry'[t].old PROVE Gone(t)'
      <3>1. Gone(t)
        BY <2>1, OldRecords DEF AgeInv, GoneInv
      <3>2. QED
        BY <3>1, GoneSteps
    <2>2. ASSUME NEW s \in Supervisors, NEW t \in Tasks, t \in sup'[s].todo,
                 sup'[s].snap[t].old
          PROVE  Gone(t)'
      <3>1. Gone(t)
        BY <2>2, SupervisorSteps DEF AgeInv, Known
      <3>2. QED
        BY <3>1, GoneSteps
    <2>3. QED
      BY <2>1, <2>2 DEF AgeInv
  <1>3. QED
    BY <1>1, <1>2, ShapeInvariant, GoneInvariant, PTL DEF Spec

(* The refinement mapping of Life. *)
LifeOf == [t \in Tasks |-> remote[t].proc]
ShownOf == [t \in Tasks |-> IF registry[t] = None THEN None ELSE registry[t].status]

(* A step on the host begins, cuts loose or ends one process, or none. *)
LEMMA LifeSteps ==
  ASSUME ShapeInv, LaunchInv, [Next]_vars
  PROVE  \/ UNCHANGED remote
         \/ UNCHANGED <<LifeOf, registry>>
         \/ \E t \in Tasks : /\ LifeOf[t] = "none" /\ UNCHANGED registry
                             /\ LifeOf' = [LifeOf EXCEPT ![t] = "running"]
         \/ \E t \in Tasks : /\ LifeOf[t] = "running" /\ UNCHANGED registry
                             /\ LifeOf' = [LifeOf EXCEPT ![t] = "loose"]
         \/ \E t \in Tasks : /\ LifeOf[t] \in {"running", "loose"} /\ UNCHANGED registry
                             /\ LifeOf' = [LifeOf EXCEPT ![t] = "ended"]
  <1>1. remote \in [Tasks -> [proc : {"none", "running", "loose", "ended"},
                              files : BOOLEAN, size : Nat]]
    BY Typed
  <1>2. ASSUME NEW t \in Tasks, ProcWrites(t) PROVE UNCHANGED <<LifeOf, registry>>
    <2>1. /\ UNCHANGED registry
          /\ remote' = [remote EXCEPT ![t] = [remote[t] EXCEPT !.size = @ + 1]]
      BY <1>2 DEF ProcWrites
    <2>2. [remote[t] EXCEPT !.size = @ + 1].proc = remote[t].proc
      BY <1>1
    <2>3. \A u \in Tasks : remote'[u].proc = remote[u].proc
      BY <1>1, <2>1, <2>2
    <2>4. QED
      BY <2>1, <2>3 DEF LifeOf
  <1>3. ASSUME NEW t \in Tasks, NEW p \in {"running", "loose", "ended"}, NEW r,
               r.proc = p, remote' = [remote EXCEPT ![t] = r]
        PROVE  LifeOf' = [LifeOf EXCEPT ![t] = p]
    <2>1. \A u \in Tasks : remote'[u] = IF u = t THEN r ELSE remote[u]
      BY <1>1, <1>3
    <2>2. \A u \in Tasks : remote'[u].proc = IF u = t THEN p ELSE remote[u].proc
      BY <1>3, <2>1
    <2>3. QED
      BY <2>2 DEF LifeOf
  <1>4. ASSUME NEW t \in Tasks, ProcEnds(t)
        PROVE  /\ LifeOf[t] \in {"running", "loose"} /\ UNCHANGED registry
               /\ LifeOf' = [LifeOf EXCEPT ![t] = "ended"]
    <2>1. /\ remote[t].proc \in {"running", "loose"} /\ UNCHANGED registry
          /\ remote' = [remote EXCEPT ![t] = [remote[t] EXCEPT !.proc = "ended"]]
      BY <1>4 DEF ProcEnds
    <2>2. [remote[t] EXCEPT !.proc = "ended"].proc = "ended"
      BY <1>1
    <2>3. QED
      BY <1>3, <2>1, <2>2 DEF LifeOf
  <1>5. ASSUME WorkLaunch, ~UNCHANGED remote
        PROVE  \E t \in Tasks : /\ LifeOf[t] = "none" /\ UNCHANGED registry
                                /\ LifeOf' = [LifeOf EXCEPT ![t] = "running"]
    <2> DEFINE t == wk.job.task
               r == [proc |-> "running", files |-> TRUE, size |-> 0]
    <2>1. wk.pc = "launch" /\ UNCHANGED registry /\ remote' = [remote EXCEPT ![t] = r]
      BY <1>5 DEF WorkLaunch, At
    <2>2. t \in Tasks
      BY <2>1, Typed
    <2>3. LifeOf[t] = "none"
      BY <2>1, <2>2 DEF LaunchInv, ProcInv, Awaited, LifeOf
    <2>4. r.proc = "running"
      OBVIOUS
    <2> HIDE DEF t, r
    <2>5. QED
      BY <1>3, <2>1, <2>2, <2>3, <2>4
  <1>6. ASSUME WorkKill, ~UNCHANGED remote
        PROVE  \/ UNCHANGED <<LifeOf, registry>>
               \/ \E t \in Tasks : /\ LifeOf[t] = "running" /\ UNCHANGED registry
                                   /\ \/ LifeOf' = [LifeOf EXCEPT ![t] = "ended"]
                                      \/ LifeOf' = [LifeOf EXCEPT ![t] = "loose"]
    <2> DEFINE t == wk.job.task
               r(p) == [proc |-> p, files |-> FALSE, size |-> 0]
    <2>1. PICK p \in IF Running(t) THEN {"ended", "loose"} ELSE {remote[t].proc} :
            remote' = [remote EXCEPT ![t] = r(p)]
      BY <1>6 DEF WorkKill
    <2>2. wk.pc = "kill" /\ UNCHANGED registry
      BY <1>6 DEF WorkKill, At
    <2>3. t \in Tasks
      BY <2>2, Typed
    <2>4. r(p).proc = p
      OBVIOUS
    <2>5. Running(t) => p \in {"ended", "loose"}
      BY <2>1
    <2>6. ~Running(t) => p = remote[t].proc
      BY <2>1
    <2> HIDE DEF t, r
    <2>7. CASE Running(t)
      <3>1. LifeOf[t] = "running"
        BY <2>3, <2>7 DEF Running, LifeOf
      <3>2. LifeOf' = [LifeOf EXCEPT ![t] = p]
        BY <1>3, <2>1, <2>3, <2>4, <2>5, <2>7
      <3>3. QED
        BY <2>2, <2>3, <2>5, <2>7, <3>1, <3>2
    <2>8. CASE ~Running(t)
      <3>1. \A u \in Tasks : remote'[u] = IF u = t THEN r(p) ELSE remote[u]
        BY <1>1, <2>1, <2>3
      <3>2. \A u \in Tasks : remote'[u].proc = remote[u].proc
        BY <2>4, <2>6, <2>8, <3>1
      <3>3. QED
        BY <2>2, <3>2 DEF LifeOf
    <2>9. QED
      BY <2>7, <2>8
  <1>7. QED
    BY <1>2, <1>4, <1>5, <1>6, RemoteWriters

(* A change of the registry shows the state of one task, or forgets it. *)
LEMMA ShownSteps ==
  ASSUME ShapeInv, LaunchInv, GoneInv, AgeInv, [Next]_vars, UNCHANGED remote,
         Ops \subseteq {"query", "kill"}
  PROVE  \/ UNCHANGED ShownOf
         \/ \E t \in Tasks : /\ LifeOf[t] # "running"
                             /\ ShownOf' = [ShownOf EXCEPT ![t] = None]
         \/ \E t \in Tasks, st \in Status : /\ st = "completed" => LifeOf[t] # "running"
                                            /\ ShownOf' = [ShownOf EXCEPT ![t] = st]
  <1> USE TaskAssumption
  <1>1. registry \in [Tasks -> Record \cup {None}]
    BY Typed
  <1>2. ASSUME NEW t \in Tasks, Gone(t) PROVE LifeOf[t] # "running"
    BY <1>2 DEF LaunchInv, ProcInv, Gone, Running, LifeOf
  <1>3. ASSUME NEW t \in Tasks, RecordAges(t) PROVE UNCHANGED ShownOf
    <2>1. /\ registry[t] \in Record /\ registry[t] # None
          /\ registry' = [registry EXCEPT ![t] = [registry[t] EXCEPT !.old = TRUE]]
      BY <1>1, <1>3 DEF RecordAges, Known
    <2>2. /\ [registry[t] EXCEPT !.old = TRUE].status = registry[t].status
          /\ [registry[t] EXCEPT !.old = TRUE] \in Record
      BY <2>1 DEF Record
    <2>3. \A u \in Tasks : u # t => registry'[u] = registry[u]
      BY <1>1, <2>1
    <2>4. registry'[t] # None /\ registry'[t].status = registry[t].status
      BY <1>1, <2>1, <2>2
    <2>5. QED
      BY <2>1, <2>3, <2>4 DEF ShownOf
  <1>4. ASSUME NEW t \in Tasks, Removes(t), registry' = Unregistered(t)
        PROVE  LifeOf[t] # "running" /\ ShownOf' = [ShownOf EXCEPT ![t] = None]
    <2>1. \A c \in Calls : ~ClearOne(c, t)
      BY DEF ClearOne, ShapeInv, CallOK
    <2>2. ASSUME NEW c \in Calls, KillDone(c), api[c].task = t PROVE Gone(t)
      BY <2>2 DEF KillDone, GoneInv
    <2>3. ASSUME NEW s \in Supervisors, Purge(s, t) PROVE Gone(t)
      BY <2>3 DEF Purge, Turn, Stale, AgeInv
    <2>4. Gone(t)
      BY <1>4, <2>1, <2>2, <2>3 DEF Removes
    <2>5. \A u \in Tasks : registry'[u] = IF u = t THEN None ELSE registry[u]
      BY <1>1, <1>4 DEF Unregistered
    <2>6. QED
      BY <1>2, <2>4, <2>5 DEF ShownOf
  <1>5. ASSUME NEW t \in Tasks, NEW st \in Status, NEW n \in Nat,
               registry' = Registered(t, st, n)
        PROVE  /\ st = "completed" => LifeOf[t] # "running"
               /\ ShownOf' = [ShownOf EXCEPT ![t] = st]
    <2> DEFINE r == [status |-> st, last_offset |-> n, old |-> FALSE]
    <2>1. r \in Record /\ r.status = st
      BY DEF Record
    <2>2. registry' = [registry EXCEPT ![t] = r]
      BY <1>5 DEF Registered
    <2> HIDE DEF r
    <2>3. r # None
      BY <2>1
    <2>4. \A u \in Tasks : registry'[u] = IF u = t THEN r ELSE registry[u]
      BY <1>1, <2>2
    <2>5. ASSUME st = "completed" PROVE LifeOf[t] # "running"
      <3>1. registry'[t] # None /\ registry'[t].status = "completed"
        BY <2>1, <2>3, <2>4, <2>5
      <3>2. "discover" \notin Ops
        OBVIOUS
      <3>3. Gone(t)'
        BY <3>1, <3>2, CompletedKept
      <3>4. ~Running(t)
        BY <3>3 DEF Gone, Running
      <3>5. QED
        BY <3>4 DEF LaunchInv, ProcInv, Running, LifeOf
    <2>6. ShownOf' = [ShownOf EXCEPT ![t] = st]
      BY <2>1, <2>3, <2>4 DEF ShownOf
    <2>7. QED
      BY <2>5, <2>6
  <1>6. CASE UNCHANGED registry
    BY <1>6 DEF ShownOf
  <1>7. QED
    BY <1>3, <1>4, <1>5, <1>6, RegistrySteps

(* With queries and kills only, and purges of completed records only, the  *)
(* registry implements TaskLife: it lags behind, but until a kill has been *)
(* carried out it never calls a live process completed nor forgets it.     *)
THEOREM RegistryImplementsView ==
  ASSUME Ops \subseteq {"query", "kill"}, Ages \subseteq {"completed"}
  PROVE  Spec => RegistryIsView
  <1> USE DEF Life!lifevars, Life!LifeInit, Life!LifeNext, Life!Begin, Life!CutLoose,
              Life!End, Life!Show, Life!Forget
  <1>1. Init => Life!LifeInit
    <2> SUFFICES ASSUME Init PROVE Life!LifeInit
      OBVIOUS
    <2>1. \A t \in Tasks : remote[t].proc = "none" /\ registry[t] = None
      BY DEF Init
    <2>2. QED
      BY <2>1
  <1>2. ShapeInv /\ LaunchInv /\ GoneInv /\ AgeInv /\ [Next]_vars
          => [Life!LifeNext]_(Life!lifevars)
    <2> SUFFICES ASSUME ShapeInv, LaunchInv, GoneInv, AgeInv, [Next]_vars
                 PROVE  [Life!LifeNext]_(Life!lifevars)
      OBVIOUS
    <2>1. CASE UNCHANGED remote
      <3>1. UNCHANGED LifeOf
        BY <2>1 DEF LifeOf
      <3>2. QED
        BY <2>1, <3>1, ShownSteps DEF LifeOf, ShownOf, Status
    <2>2. ASSUME UNCHANGED registry PROVE UNCHANGED ShownOf
      BY <2>2 DEF ShownOf
    <2>3. CASE UNCHANGED <<LifeOf, registry>>
      BY <2>2, <2>3 DEF LifeOf, ShownOf
    <2>4. ASSUME NEW t \in Tasks, UNCHANGED registry, LifeOf[t] = "none",
                 LifeOf' = [LifeOf EXCEPT ![t] = "running"]
          PROVE  Life!Begin(t)
      BY <2>2, <2>4 DEF LifeOf, ShownOf
    <2>5. ASSUME NEW t \in Tasks, UNCHANGED registry, LifeOf[t] = "running",
                 LifeOf' = [LifeOf EXCEPT ![t] = "loose"]
          PROVE  Life!CutLoose(t)
      BY <2>2, <2>5 DEF LifeOf, ShownOf
    <2>6. ASSUME NEW t \in Tasks, UNCHANGED registry, LifeOf[t] \in {"running", "loose"},
                 LifeOf' = [LifeOf EXCEPT ![t] = "ended"]
          PROVE  Life!End(t)
      BY <2>2, <2>6 DEF LifeOf, ShownOf
    <2>7. QED
      BY <2>1, <2>3, <2>4, <2>5, <2>6, LifeSteps
  <1>3. "discover" \notin Ops
    OBVIOUS
  <1>4. QED
    BY <1>1, <1>2, <1>3, ShapeInvariant, LaunchInvariant, GoneInvariant, AgeInvariant, PTL
    DEF Spec, RegistryIsView, Life!LifeSpec

-----------------------------------------------------------------------------
(* The event detached.completed is only sent of tasks that are over,       *)
(* however launches, queries, pushes and kills interleave.                 *)
THEOREM AnnouncedTasksAreOver ==
  ASSUME "discover" \notin Ops PROVE Spec => []AnnouncedIsOver
  <1>1. Init => AnnouncedInv
    BY DEF Init, AnnouncedInv
  <1>2. ShapeInv /\ GoneInv /\ AnnouncedInv /\ [Next]_vars => AnnouncedInv'
    <2> SUFFICES ASSUME ShapeInv, GoneInv, AnnouncedInv, [Next]_vars, NEW t \in announced'
                 PROVE  Gone(t)'
      BY DEF AnnouncedInv
    <2>1. t \in announced => t \in Tasks /\ Gone(t)
      BY DEF ShapeInv, TypeOK, AnnouncedInv
    <2>2. CASE HookSend /\ t \notin announced
      <3>1. wk.pc = "hook" /\ ~wk.run /\ t = wk.job.task
        BY <2>2 DEF HookSend, At
      <3>2. t \in Tasks
        BY <3>1, Typed
      <3>3. Gone(t)
        BY <3>1 DEF GoneInv, Informed, HookStages
      <3>4. QED
        BY <3>2, <3>3, GoneSteps
    <2>3. CASE t \in announced
      BY <2>1, <2>3, GoneSteps
    <2>4. QED
      BY <2>2, <2>3, EventWriters
  <1>3. ShapeInv /\ LaunchInv /\ AnnouncedInv => AnnouncedIsOver
    BY DEF ShapeInv, TypeOK, LaunchInv, ProcInv, AnnouncedInv, AnnouncedIsOver, Gone, Running
  <1>4. QED
    BY <1>1, <1>2, <1>3, ShapeInvariant, LaunchInvariant, GoneInvariant, PTL DEF Spec
=============================================================================
