------------------------------ MODULE JobState ------------------------------
(***************************************************************************)
(* What a job leaves in Redis, in the staging directory, at the receiver   *)
(* of its webhook and in MongoDB on its way from the request to the audit  *)
(* record.                                                                 *)
(***************************************************************************)
EXTENDS Integers, Sequences, FiniteSets, SequencesExt

CONSTANTS
  Jobs,           \* requests, each leading to at most one job
  HookJobs,       \* the jobs with a webhook
  Files,          \* names in the staging directory
  FileOf,         \* per job: the file its staged_file_id names, or None; the
                  \* jobs of a bulk request name the same one
  Uploads,        \* the jobs whose request brings the file
  Workers,        \* FIFO workers, one per node, on the same queue
  Archivers,      \* archiver workers on AuditLogQ
  MaxRetries,     \* webhook.max_retries
  SchedulerRuns,  \* some worker moves due entries of the schedule to the queue
  MaxDocs,        \* mongodb.max_documents
  BatchSize,      \* PRUNE_BATCH_SIZE
  MaxFaults,      \* bound on crashes, timeouts and database errors
  None            \* null marker

ASSUME JobAssumption ==
  /\ HookJobs \subseteq Jobs /\ Uploads \subseteq Jobs
  /\ FileOf \in [Jobs -> Files \cup {None}]
  /\ \A i, j \in Uploads : FileOf[i] \in Files /\ (FileOf[i] = FileOf[j] => i = j)
  /\ MaxRetries \in Nat /\ SchedulerRuns \in BOOLEAN
  /\ MaxDocs \in Nat \ {0} /\ BatchSize \in Nat \ {0} /\ MaxFaults \in Nat
  /\ None \notin Jobs /\ None \notin Files

VARIABLES
  job,     \* per job: status in Redis, and what became of it
  queue,   \* FifoQ
  run,     \* what each worker is at
  cancel,  \* a cancel_job call under way
  staged,  \* per file: not written yet, there, removed by a callback, or
           \* swept by the supervisor
  timers,  \* scheduled retries
  hook,    \* per job and event: requests sent, and whether one was acknowledged
  auditq,  \* AuditLogQ
  arch,    \* what each archiver is at
  made,    \* every audit record ever inserted, oldest first
  docs,    \* the audit collection: which of them are still there
  faults   \* crashes, timeouts and database errors so far

vars == <<job, queue, run, cancel, staged, timers, hook, auditq, arch, made, docs, faults>>

(* The event types of a job that is not detached. *)
Events == {"completed", "failed"}

NewJob == [st |-> "none",        \* status
           runs |-> 0,           \* how often the driver was called
           hit |-> "no",         \* "late": the success callback timed out,
                                 \* "crash": the process died
           reported |-> FALSE,   \* cancel_job said that it is cancelled
           raced |-> FALSE]      \* a worker took it while cancel_job looked

Idle == [pc |-> "idle", e |-> None, ok |-> FALSE]
ArchIdle == [pc |-> "idle", rec |-> None, n |-> 0, ids |-> {}]

(* An audit record: the result comes from the callback, the status is read *)
(* by the archiver.                                                        *)
Record(j, result) == [job |-> j, result |-> result, st |-> "none"]

(* Entries of FifoQ: a job, or one more delivery of its webhook. *)
Entry(j) == [kind |-> "exec", job |-> j, ev |-> "completed", attempt |-> 0]
Retry(j, ev, attempt) == [kind |-> "retry", job |-> j, ev |-> ev, attempt |-> attempt]

(* "expired": Redis has forgotten the job. *)
Over == {"rejected", "expired", "canceled", "finished", "failed"}

MayFail == faults < MaxFaults
=============================================================================
