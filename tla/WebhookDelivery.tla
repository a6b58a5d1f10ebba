-------------------------- MODULE WebhookDelivery --------------------------
(***************************************************************************)
(* The delivery of a webhook: the call of the plugin from the callback     *)
(* (_dispatch_webhook_with_retry), and its repetition by jobs of their own *)
(* (dispatch_webhook) through rq's schedule.                               *)
(***************************************************************************)
EXTENDS JobRun

(* The three ways a request ends: acknowledged, processed by the receiver  *)
(* without the sender knowing, and lost.                                   *)
Outcomes == {"ack", "unheard", "lost"}

Called(j, ev, o) ==
  [hook EXCEPT ![<<j, ev>>] = [calls |-> @.calls + 1, acked |-> @.acked \/ o = "ack"]]

(* Mutant: the schedule is written whatever the outcome. *)
WithinLimit(attempt) == attempt <= MaxRetries
EveryTime(o) == TRUE
NeedsRetry(o) == o # "ack"

(* What a failed delivery adds to the schedule. *)
Rescheduled(j, ev, attempt, o) ==
  IF NeedsRetry(o) /\ WithinLimit(attempt) THEN timers \cup {Retry(j, ev, attempt)} ELSE timers

(* The first delivery, from the callback of the job. *)
CallWebhook(w) ==
  /\ At(w, "hook")
  /\ LET ev == IF run[w].ok THEN "completed" ELSE "failed"
     IN \E o \in Outcomes :
          /\ hook' = Called(J(w), ev, o)
          /\ timers' = Rescheduled(J(w), ev, 1, o)
  /\ Goto(w, "finish")
  /\ UNCHANGED <<job, queue, cancel, staged, auditq, arch, made, docs, faults>>

(* rq's scheduler moves a due entry to the queue.  It runs only in a       *)
(* worker started with_scheduler.                                          *)
TimerFires(t) ==
  /\ SchedulerRuns /\ t \in timers
  /\ timers' = timers \ {t}
  /\ queue' = Append(queue, t)
  /\ UNCHANGED <<job, run, cancel, staged, hook, auditq, arch, made, docs, faults>>

(* Mutant: the attempt is not counted up. *)
SameAttempt(e) == e.attempt
NextAttempt(e) == e.attempt + 1

(* dispatch_webhook *)
DispatchWebhook(w) ==
  /\ At(w, "deliver")
  /\ LET e == run[w].e
     IN \E o \in Outcomes :
          /\ hook' = Called(e.job, e.ev, o)
          /\ timers' = Rescheduled(e.job, e.ev, NextAttempt(e), o)
  /\ run' = [run EXCEPT ![w] = Idle]
  /\ UNCHANGED <<job, queue, cancel, staged, auditq, arch, made, docs, faults>>
=============================================================================
