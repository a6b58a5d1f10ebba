------------------------------ MODULE Archiver ------------------------------
(***************************************************************************)
(* The archiver: process_audit_log turns entries of AuditLogQ into records *)
(* in MongoDB, and _prune_collection_by_count keeps their number down.     *)
(***************************************************************************)
EXTENDS JobState

ArchAt(a, pc) == arch[a].pc = pc

(* The archiver takes an entry and fetches its job, whose status goes into *)
(* the record: "started" if rq has not stored the outcome yet.             *)
ArchTake(a) ==
  /\ ArchAt(a, "idle") /\ auditq # <<>>
  /\ auditq' = Tail(auditq)
  /\ LET r == Head(auditq)
     IN arch' = [arch EXCEPT ![a] = [ArchIdle EXCEPT !.pc = "insert",
                                                    !.rec = [r EXCEPT !.st = job[r.job].st]]]
  /\ UNCHANGED <<job, queue, run, cancel, staged, timers, hook, made, docs, faults>>

(* The job's result_ttl has run out: Job.fetch raises, and no record is    *)
(* made.                                                                   *)
FetchFails(a) ==
  /\ ArchAt(a, "idle") /\ auditq # <<>> /\ MayFail
  /\ faults' = faults + 1
  /\ auditq' = Tail(auditq)
  /\ UNCHANGED <<job, queue, run, cancel, staged, timers, hook, arch, made, docs>>

(* insert_one; the unique index on job_id refuses a second record. *)
Duplicate(j) == \E d \in docs : made[d].job = j

ArchInsert(a) ==
  /\ ArchAt(a, "insert")
  /\ LET r == arch[a].rec
     IN IF Duplicate(r.job)
          THEN /\ arch' = [arch EXCEPT ![a] = ArchIdle]
               /\ UNCHANGED <<made, docs>>
          ELSE /\ made' = Append(made, r)
               /\ docs' = docs \cup {Len(made) + 1}
               /\ arch' = [arch EXCEPT ![a].pc = "count"]
  /\ UNCHANGED <<job, queue, run, cancel, staged, timers, hook, auditq, faults>>

(* Mutant: the count is compared as if the new record were not in it. *)
OverageOffByOne(n) == n + 1 - MaxDocs
Overage(n) == n - MaxDocs

MinOf(m, n) == IF m < n THEN m ELSE n

ArchCount(a) ==
  /\ ArchAt(a, "count")
  /\ LET over == Overage(Cardinality(docs))
     IN arch' = [arch EXCEPT ![a] =
                   IF over <= 0 THEN ArchIdle
                   ELSE [@ EXCEPT !.pc = "find", !.n = MinOf(over, BatchSize)]]
  /\ UNCHANGED <<job, queue, run, cancel, staged, timers, hook, auditq, made, docs, faults>>

(* The oldest n records. *)
Oldest(n) == {d \in docs : Cardinality({k \in docs : k < d}) < n}

ArchFind(a) ==
  /\ ArchAt(a, "find")
  /\ arch' = [arch EXCEPT ![a].pc = "delete", ![a].ids = Oldest(arch[a].n)]
  /\ UNCHANGED <<job, queue, run, cancel, staged, timers, hook, auditq, made, docs, faults>>

ArchDelete(a) ==
  /\ ArchAt(a, "delete")
  /\ docs' = docs \ arch[a].ids
  /\ arch' = [arch EXCEPT ![a] = ArchIdle]
  /\ UNCHANGED <<job, queue, run, cancel, staged, timers, hook, auditq, made, faults>>

(* An error of the database: the rest of the entry is given up. *)
MongoFails(a) ==
  /\ ~ArchAt(a, "idle") /\ MayFail
  /\ faults' = faults + 1
  /\ arch' = [arch EXCEPT ![a] = ArchIdle]
  /\ UNCHANGED <<job, queue, run, cancel, staged, timers, hook, auditq, made, docs>>

ArchStep(a) ==
  \/ ArchTake(a) \/ ArchInsert(a) \/ ArchCount(a) \/ ArchFind(a) \/ ArchDelete(a)
=============================================================================
