-------------------------------- MODULE Jobs --------------------------------
(***************************************************************************)
(* Jobs from the request to the audit record: the manager, the FIFO        *)
(* workers with their callbacks, the deliveries of webhooks, the archiver  *)
(* and the supervisor's cleaning of the staging area together.             *)
(***************************************************************************)
EXTENDS WebhookDelivery, Archiver

Init ==
  /\ job = [j \in Jobs |-> NewJob]
  /\ queue = <<>>
  /\ run = [w \in Workers |-> Idle]
  /\ cancel = None
  /\ staged = [f \in Files |-> "none"]
  /\ timers = {}
  /\ hook = [e \in Jobs \X Events |-> [calls |-> 0, acked |-> FALSE]]
  /\ auditq = <<>>
  /\ arch = [a \in Archivers |-> ArchIdle]
  /\ made = <<>>
  /\ docs = {}
  /\ faults = 0

ManagerStep == \E j \in Jobs : Reject(j) \/ Submit(j)

WorkerStep(w) ==
  \/ Take(w) \/ Render(w) \/ Drive(w)
  \/ Cleanup(w) \/ SaveError(w) \/ Audit(w) \/ CallWebhook(w) \/ Finish(w)
  \/ DispatchWebhook(w)

FileStep == \E f \in Files : CleanupStaging(f)

Next ==
  \/ \E j \in Jobs : Receive(j) \/ Expire(j) \/ CancelLook(j)
  \/ CancelDo
  \/ ManagerStep
  \/ \E w \in Workers : WorkerStep(w) \/ CallbackTimesOut(w) \/ Crash(w)
  \/ \E t \in timers : TimerFires(t)
  \/ \E a \in Archivers : ArchStep(a) \/ FetchFails(a) \/ MongoFails(a)
  \/ FileStep

Spec == Init /\ [][Next]_vars

(* The threads and loops of the processes go on, and time passes.  Nothing *)
(* is assumed of clients.                                                  *)
FairSpec ==
  /\ Spec
  /\ WF_vars(ManagerStep) /\ WF_vars(FileStep)
  /\ \A w \in Workers : WF_vars(WorkerStep(w))
  /\ \A a \in Archivers : WF_vars(ArchStep(a))
  /\ WF_vars(\E t \in timers : TimerFires(t))

-----------------------------------------------------------------------------
(* Properties. *)

Retries == [kind : {"retry"}, job : HookJobs, ev : Events, attempt : 1..MaxRetries]
Entries == {Entry(j) : j \in Jobs} \cup Retries
Statuses == {"none", "received", "queued", "started"} \cup Over
Records == [job : Jobs, result : {"finished", "failed"}, st : Statuses]

(* The shape of jobs, queues, schedules and collections. *)
TypeOK ==
  /\ job \in [Jobs -> [st : Statuses, runs : Nat, hit : {"no", "late", "crash"},
                       reported : BOOLEAN, raced : BOOLEAN]]
  /\ queue \in Seq(Entries)
  /\ \A w \in Workers :
       /\ run[w].pc \in {"idle", "render", "drive", "cleanup", "meta", "audit", "hook",
                         "finish", "deliver"}
       /\ run[w].pc # "idle" => run[w].e \in Entries
  /\ cancel \in Jobs \cup {None}
  /\ staged \in [Files -> {"none", "there", "cleaned", "swept"}]
  /\ timers \subseteq Retries
  /\ hook \in [Jobs \X Events -> [calls : Nat, acked : BOOLEAN]]
  /\ auditq \in Seq(Records)
  /\ \A a \in Archivers :
       arch[a].pc \in {"idle", "insert", "count", "find", "delete"}
  /\ made \in Seq(Records) /\ docs \subseteq DOMAIN made
  /\ faults \in 0..MaxFaults

(* From the upload until its driver is done a job finds its file, unless a *)
(* job that names the same file came to its callback first: neither the    *)
(* supervisor nor the end of any other job takes it away.                  *)
InNeed(j) ==
  \/ job[j].st \in {"received", "queued"}
  \/ \E w \in Workers : run[w].pc \in {"render", "drive"} /\ J(w) = j

Sharer(j, k) ==
  k # j /\ FileOf[k] = FileOf[j] /\ job[k].st \notin {"none", "received", "queued", "rejected"}

StagedFilePresent ==
  \A j \in Uploads : InNeed(j) =>
    \/ Present(FileOf[j])
    \/ staged[FileOf[j]] = "cleaned" /\ \E k \in Jobs : Sharer(j, k)

(* A job reaches the driver at most once, and one that cancel_job has      *)
(* reported as cancelled does so only if a worker took it between the look *)
(* at its status and the cancellation.                                     *)
CancelledRanOnlyIfRaced ==
  \A j \in Jobs :
    /\ job[j].runs <= 1
    /\ job[j].reported /\ job[j].runs > 0 => job[j].raced

(* However deliveries fail, an event is sent max_retries + 1 times at most *)
(* and has one delivery under way at a time.                               *)
Pending(j, ev) ==
  Cardinality({t \in timers : t.job = j /\ t.ev = ev})
  + Cardinality({k \in DOMAIN queue : queue[k].kind = "retry" /\ queue[k].job = j /\ queue[k].ev = ev})
  + Cardinality({w \in Workers : At(w, "deliver") /\ J(w) = j /\ run[w].e.ev = ev})

RetriesBounded ==
  \A j \in Jobs, ev \in Events :
    /\ hook[<<j, ev>>].calls <= MaxRetries + 1
    /\ Pending(j, ev) <= 1

(* An acknowledged event is not sent again. *)
NoResendAfterAck ==
  [][\A e \in DOMAIN hook : hook[e].acked => hook'[e].calls = hook[e].calls]_vars

(* Unless its process died, the receiver has been told what is stored of a *)
(* job.  It has been told the opposite only when the success callback      *)
(* timed out after its request: then a failure is stored, and follows.     *)
AnnouncedIsOutcome ==
  \A j \in HookJobs :
    job[j].hit # "crash" =>
      /\ job[j].st = "finished" =>
           hook[<<j, "completed">>].calls > 0 /\ hook[<<j, "failed">>].calls = 0
      /\ job[j].st = "failed" =>
           /\ hook[<<j, "failed">>].calls > 0
           /\ hook[<<j, "completed">>].calls > 0 => job[j].hit = "late"

(* Pruning never costs one of the newest MaxDocs records.  One archiver:   *)
(* two that prune at the same time may remove too many.                    *)
NewestKept ==
  \A i \in DOMAIN made : i > Len(made) - MaxDocs => i \in docs

(* A staged file does not stay for ever, also when its request was         *)
(* refused, its job cancelled or expired, or its worker crashed.           *)
StagedGone == \A f \in Files : []<>~Present(f)

(* Every outcome gets into the audit collection, unless something crashed  *)
(* or expired or the database failed.  The status beside it need not be    *)
(* it: the archiver may read the job before rq has stored the outcome, or  *)
(* after it was cancelled, but never reads the opposite outcome.           *)
Recorded(j) ==
  \E i \in DOMAIN made :
    /\ made[i].job = j /\ made[i].result = job[j].st
    /\ made[i].st \in {job[j].st, "started", "canceled"}

OutcomeAudited ==
  []<>(faults > 0 \/ \A j \in Jobs : job[j].st \in {"finished", "failed"} => Recorded(j))

(* "Webhook callbacks with retry support": an event that was sent is in    *)
(* the end acknowledged or has used up its retries.                        *)
WebhookSettles ==
  \A j \in Jobs, ev \in Events :
    hook[<<j, ev>>].calls > 0 ~>
      hook[<<j, ev>>].acked \/ hook[<<j, ev>>].calls = MaxRetries + 1 \/ faults > 0
=============================================================================
