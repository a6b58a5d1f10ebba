------------------------------- MODULE JobRun -------------------------------
(***************************************************************************)
(* A job: staged and queued by the route and the manager, cancelled by     *)
(* cancel_job, executed by a FIFO worker, and followed by the callbacks in *)
(* the order of rpc_webhook_callback.                                      *)
(***************************************************************************)
EXTENDS JobState

Present(f) == staged[f] = "there"

(* The route writes the uploaded file before anything can be refused.  The *)
(* other requests name a file that is there, or not.                       *)
Receive(j) ==
  /\ job[j].st = "none"
  /\ job' = [job EXCEPT ![j].st = "received"]
  /\ staged' = [f \in Files |-> IF j \in Uploads /\ f = FileOf[j] THEN "there" ELSE staged[f]]
  /\ UNCHANGED <<queue, run, cancel, timers, hook, auditq, arch, made, docs, faults>>

(* Credentials, validation or the dispatch raise. *)
Reject(j) ==
  /\ job[j].st = "received"
  /\ job' = [job EXCEPT ![j].st = "rejected"]
  /\ UNCHANGED <<queue, run, cancel, staged, timers, hook, auditq, arch, made, docs, faults>>

Submit(j) ==
  /\ job[j].st = "received"
  /\ job' = [job EXCEPT ![j].st = "queued"]
  /\ queue' = Append(queue, Entry(j))
  /\ UNCHANGED <<run, cancel, staged, timers, hook, auditq, arch, made, docs, faults>>

(* Queue.remove of rq takes out the first occurrence. *)
WithoutJob(j) == RemoveFirst(queue, Entry(j))

(* The ttl of a waiting job runs out. *)
Expire(j) ==
  /\ job[j].st = "queued" /\ MayFail
  /\ faults' = faults + 1
  /\ job' = [job EXCEPT ![j].st = "expired"]
  /\ queue' = WithoutJob(j)
  /\ UNCHANGED <<run, cancel, staged, timers, hook, auditq, arch, made, docs>>

-----------------------------------------------------------------------------
(* cancel_job looks at the status, then cancels.  Mutant: it does not look *)
(* at the status.                                                          *)
AnyStatus(j) == job[j].st \notin {"none", "received"}
Cancellable(j) == job[j].st = "queued"

CancelLook(j) ==
  /\ cancel = None /\ Cancellable(j)
  /\ cancel' = j
  /\ UNCHANGED <<job, queue, run, staged, timers, hook, auditq, arch, made, docs, faults>>

(* job.cancel() of rq takes the job from the queue and sets the status,    *)
(* whatever the status is by then; it refuses a cancelled job, and an      *)
(* expired one is gone.                                                    *)
CancelDo ==
  /\ cancel # None
  /\ IF job[cancel].st \in {"canceled", "expired"} THEN UNCHANGED <<job, queue>>
     ELSE /\ job' = [job EXCEPT ![cancel].st = "canceled", ![cancel].reported = TRUE]
          /\ queue' = WithoutJob(cancel)
  /\ cancel' = None
  /\ UNCHANGED <<run, staged, timers, hook, auditq, arch, made, docs, faults>>

-----------------------------------------------------------------------------
(* A worker takes the next entry. *)
Take(w) ==
  /\ run[w].pc = "idle" /\ queue # <<>>
  /\ LET e == Head(queue)
     IN /\ run' = [run EXCEPT ![w] =
                     [Idle EXCEPT !.pc = IF e.kind = "exec" THEN "render" ELSE "deliver", !.e = e]]
        /\ job' = IF e.kind # "exec" THEN job
                  ELSE [job EXCEPT ![e.job].st = "started",
                                   ![e.job].raced = cancel = e.job]
  /\ queue' = Tail(queue)
  /\ UNCHANGED <<cancel, staged, timers, hook, auditq, arch, made, docs, faults>>

At(w, pc) == run[w].pc = pc
Goto(w, pc) == run' = [run EXCEPT ![w].pc = pc]
Ends(w, ok) == run' = [run EXCEPT ![w].pc = "cleanup", ![w].ok = ok]
J(w) == run[w].e.job

(* execute(): an error in rendering, or in setting up the driver, raises.  *)
Render(w) ==
  /\ At(w, "render")
  /\ Goto(w, "drive") \/ Ends(w, FALSE)
  /\ UNCHANGED <<job, queue, cancel, staged, timers, hook, auditq, arch, made, docs, faults>>

(* The driver connects, sends and disconnects; its exceptions become a     *)
(* result with exit status 1.  An error in parsing the output raises.      *)
Drive(w) ==
  /\ At(w, "drive")
  /\ job' = [job EXCEPT ![J(w)].runs = @ + 1]
  /\ Ends(w, TRUE) \/ Ends(w, FALSE)
  /\ UNCHANGED <<queue, cancel, staged, timers, hook, auditq, arch, made, docs, faults>>

(* rpc_cleanup_handler removes the file the job names, whoever else names  *)
(* it.                                                                     *)
FileGone(j) ==
  [f \in Files |-> IF f = FileOf[j] /\ Present(f) THEN "cleaned" ELSE staged[f]]

Cleanup(w) ==
  /\ At(w, "cleanup")
  /\ staged' = FileGone(J(w))
  /\ Goto(w, IF run[w].ok THEN "audit" ELSE "meta")
  /\ UNCHANGED <<job, queue, cancel, timers, hook, auditq, arch, made, docs, faults>>

(* rpc_exception_callback saves the error and enqueues an audit record;    *)
(* rpc_webhook_callback enqueues one for every outcome.                    *)
(* Mutant: only failures are recorded.                                     *)
Outcome(ok) == IF ok THEN "finished" ELSE "failed"
FailuresOnly(w) ==
  IF run[w].ok THEN auditq ELSE Append(auditq, Record(J(w), Outcome(run[w].ok)))
WithAudit(w) == Append(auditq, Record(J(w), Outcome(run[w].ok)))

SaveError(w) ==
  /\ At(w, "meta")
  /\ auditq' = WithAudit(w)
  /\ Goto(w, "audit")
  /\ UNCHANGED <<job, queue, cancel, staged, timers, hook, arch, made, docs, faults>>

(* Mutant: one webhook per job. *)
OncePerJob(w) == J(w) \in HookJobs /\ \A ev \in Events : hook[<<J(w), ev>>].calls = 0
Announces(w) == J(w) \in HookJobs

Audit(w) ==
  /\ At(w, "audit")
  /\ auditq' = WithAudit(w)
  /\ Goto(w, IF Announces(w) THEN "hook" ELSE "finish")
  /\ UNCHANGED <<job, queue, cancel, staged, timers, hook, arch, made, docs, faults>>

(* rq stores the outcome after the callback. *)
Finish(w) ==
  /\ At(w, "finish")
  /\ job' = [job EXCEPT ![J(w)].st = Outcome(run[w].ok)]
  /\ run' = [run EXCEPT ![w] = Idle]
  /\ UNCHANGED <<queue, cancel, staged, timers, hook, auditq, arch, made, docs, faults>>

(* The timeout of the success callback strikes after the webhook was sent, *)
(* while download URLs are made up: rq runs the failure callback.          *)
CallbackTimesOut(w) ==
  /\ At(w, "finish") /\ run[w].ok /\ MayFail
  /\ faults' = faults + 1
  /\ job' = [job EXCEPT ![J(w)].hit = "late"]
  /\ Ends(w, FALSE)
  /\ UNCHANGED <<queue, cancel, staged, timers, hook, auditq, arch, made, docs>>

(* The forked process dies: the worker marks the job as failed, and no     *)
(* callback runs.                                                          *)
Crash(w) ==
  /\ ~At(w, "idle") /\ MayFail
  /\ faults' = faults + 1
  /\ job' = IF run[w].e.kind # "exec" THEN job
            ELSE [job EXCEPT ![J(w)].st = "failed", ![J(w)].hit = "crash"]
  /\ run' = [run EXCEPT ![w] = Idle]
  /\ UNCHANGED <<queue, cancel, staged, timers, hook, auditq, arch, made, docs>>

-----------------------------------------------------------------------------
(* The supervisor's _cleanup_staging removes files older than the          *)
(* retention (24 h).  That is longer than ttl and timeout together (their  *)
(* defaults and the 3600 s of a transfer), so the job that brought the     *)
(* file is over.  Mutants: plain files are passed over; the age is not     *)
(* compared.                                                               *)
DirectoriesOnly(f) == FALSE
AnyAge(f) == Present(f)
PastRetention(f) ==
  /\ Present(f)
  /\ \A j \in Uploads : FileOf[j] = f =>
       job[j].st \in Over /\ \A w \in Workers : ~At(w, "idle") => J(w) # j

CleanupStaging(f) ==
  /\ PastRetention(f)
  /\ staged' = [staged EXCEPT ![f] = "swept"]
  /\ UNCHANGED <<job, queue, run, cancel, timers, hook, auditq, arch, made, docs, faults>>
=============================================================================
