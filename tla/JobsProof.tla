----------------------------- MODULE JobsProof -----------------------------
(***************************************************************************)
(* Proofs about Jobs for any set of jobs, any number of FIFO workers and   *)
(* archivers, and any limits on retries, records and faults.               *)
(***************************************************************************)
EXTENDS Jobs, FiniteSetTheorems, SequenceTheorems, TLAPS

RunPCs == {"idle", "render", "drive", "cleanup", "meta", "audit", "hook", "finish",
           "deliver"}
RunRec == [pc : RunPCs, e : Entries \cup {None}, ok : BOOLEAN]
ArchRec == [pc : {"idle", "insert", "count", "find", "delete"},
            rec : Records \cup {None}, n : Nat, ids : SUBSET Nat]
Stages == {"none", "there", "cleaned", "swept"}

(* Worker w executes a job, or runs the callbacks of one. *)
Busy(w) == run[w].pc \notin {"idle", "deliver"}

EventOf(ok) == IF ok THEN "completed" ELSE "failed"

(* What TypeOK leaves out of workers and archivers. *)
EntryOK(r) ==
  /\ r.pc # "idle" => r.e \in Entries
  /\ r.pc \notin {"idle", "deliver"} => r.e.kind = "exec"
  /\ r.pc = "deliver" => r.e.kind = "retry"
  /\ r.pc = "hook" => r.e.job \in HookJobs
  /\ r.pc = "meta" => ~r.ok

TypeInv ==
  /\ TypeOK
  /\ run \in [Workers -> RunRec]
  /\ arch \in [Archivers -> ArchRec]
  /\ \A w \in Workers : EntryOK(run[w])
  /\ \A a \in Archivers : arch[a].pc # "idle" => arch[a].rec \in Records

(* A job waits in one place of the queue, or is in the hands of one worker. *)
PlaceInv ==
  /\ \A k \in DOMAIN queue :
       queue[k].kind = "exec" => job[queue[k].job].st = "queued"
  /\ \A k, l \in DOMAIN queue :
       /\ queue[k].kind = "exec" /\ queue[l].kind = "exec"
       /\ queue[k].job = queue[l].job
       => k = l
  /\ \A w \in Workers : Busy(w) => job[J(w)].st \in {"started", "canceled"}
  /\ \A w, v \in Workers : Busy(w) /\ Busy(v) /\ J(w) = J(v) => w = v

(* The file of a job in need of it is there, or fell to a job that names   *)
(* the same one and has been taken.                                        *)
Early == {"none", "received", "queued", "rejected"}
FileInv == StagedFilePresent

(* A job has not run before a worker drives it; a cancellation that hits a *)
(* job in the hands of a worker is one that raced.                         *)
CancelOK(j, r) ==
  /\ r.pc \in {"render", "drive"} => j.runs = 0
  /\ r.pc \notin {"idle", "deliver"} /\ j.reported => j.raced

CancelInv ==
  /\ CancelledRanOnlyIfRaced
  /\ \A j \in Jobs :
       /\ job[j].st \in {"none", "received", "queued"} =>
            job[j].runs = 0 /\ ~job[j].reported
       /\ cancel = j => job[j].st \in {"queued", "expired"} \/ job[j].raced
  /\ \A w \in Workers : CancelOK(job[J(w)], run[w])

(* A delivery that is under way has been sent as often as it says, without *)
(* an answer.                                                              *)
InTimers(j, ev) == \E t \in timers : t.job = j /\ t.ev = ev
InQueue(j, ev) ==
  \E k \in DOMAIN queue : queue[k].kind = "retry" /\ queue[k].job = j /\ queue[k].ev = ev
InHand(j, ev) ==
  \E w \in Workers : run[w].pc = "deliver" /\ J(w) = j /\ run[w].e.ev = ev

Counted(h, e) ==
  h[<<e.job, e.ev>>].calls = e.attempt /\ ~h[<<e.job, e.ev>>].acked

CountInv ==
  /\ \A t \in timers : Counted(hook, t)
  /\ \A k \in DOMAIN queue : queue[k].kind = "retry" => Counted(hook, queue[k])
  /\ \A w \in Workers : run[w].pc = "deliver" => Counted(hook, run[w].e)
  /\ \A e \in Jobs \X Events :
       hook[e].calls <= MaxRetries + 1 /\ (hook[e].acked => hook[e].calls > 0)

(* One delivery of an event at a time. *)
SingleInv ==
  /\ \A k, l \in DOMAIN queue :
       /\ queue[k].kind = "retry" /\ queue[l].kind = "retry"
       /\ queue[k].job = queue[l].job /\ queue[k].ev = queue[l].ev
       => k = l
  /\ \A w, v \in Workers :
       /\ run[w].pc = "deliver" /\ run[v].pc = "deliver"
       /\ J(w) = J(v) /\ run[w].e.ev = run[v].e.ev
       => w = v
  /\ \A j \in Jobs, ev \in Events :
       /\ ~(InTimers(j, ev) /\ InQueue(j, ev))
       /\ ~(InTimers(j, ev) /\ InHand(j, ev))
       /\ ~(InQueue(j, ev) /\ InHand(j, ev))

(* The first delivery is the first. *)
Silent(h, j) == \A ev \in Events : h[<<j, ev>>].calls = 0

FirstOK(h, r) ==
  /\ r.pc \in {"render", "drive"} => Silent(h, r.e.job)
  /\ r.pc \in {"cleanup", "meta", "audit", "hook"} =>
       h[<<r.e.job, EventOf(r.ok)>>].calls = 0
  /\ r.pc \notin {"idle", "deliver"} /\ r.ok => h[<<r.e.job, "failed">>].calls = 0

FirstInv ==
  /\ \A j \in Jobs : job[j].st \in {"none", "received", "queued"} => Silent(hook, j)
  /\ \A w \in Workers : FirstOK(hook, run[w])

(* What has been announced when the outcome is stored: the outcome, and    *)
(* its opposite only by a success callback that timed out.                 *)
Announced(h, j, ok, hit) ==
  /\ h[<<j, EventOf(ok)>>].calls > 0
  /\ ok => h[<<j, "failed">>].calls = 0
  /\ ~ok /\ hit # "late" => h[<<j, "completed">>].calls = 0

OutcomeOK(h, hit, r) ==
  r.pc \notin {"idle", "deliver"} =>
    /\ r.pc \in {"render", "drive"} => hit = "no"
    /\ hit # "crash" /\ r.e.job \in HookJobs =>
         /\ r.pc = "finish" => Announced(h, r.e.job, r.ok, hit)
         /\ r.pc # "finish" => IF hit = "no" THEN Silent(h, r.e.job) ELSE ~r.ok

OutcomeInv ==
  /\ \A j \in Jobs : job[j].st \in {"none", "received", "queued"} => job[j].hit = "no"
  /\ \A j \in HookJobs :
       job[j].hit # "crash" =>
         /\ job[j].st = "finished" => Announced(hook, j, TRUE, job[j].hit)
         /\ job[j].st = "failed" => Announced(hook, j, FALSE, job[j].hit)
  /\ \A w \in Workers : OutcomeOK(hook, job[J(w)].hit, run[w])

(* One archiver: what it is about to delete leaves the newest records. *)
ArchiveInv ==
  /\ NewestKept
  /\ \A a \in Archivers :
       /\ arch[a].pc = "find" => arch[a].n <= Cardinality(docs) - MaxDocs
       /\ arch[a].pc = "delete" =>
            \A i \in DOMAIN made : i > Len(made) - MaxDocs => i \notin arch[a].ids

-----------------------------------------------------------------------------
(* Removing from the queue. *)

(* A sequence without its i-th element. *)
LEMMA RemoveAtProps ==
  ASSUME NEW S, NEW q \in Seq(S), NEW i \in 1..Len(q)
  PROVE  /\ RemoveAt(q, i) \in Seq(S)
         /\ Len(RemoveAt(q, i)) = Len(q) - 1
         /\ \A k \in 1..Len(q) - 1 :
              RemoveAt(q, i)[k] = IF k < i THEN q[k] ELSE q[k + 1]
  <1> DEFINE a == SubSeq(q, 1, i - 1)
             b == SubSeq(q, i + 1, Len(q))
  <1>1. /\ a \in Seq(S) /\ Len(a) = i - 1
        /\ \A k \in 1..i - 1 : a[k] = q[k]
    BY SubSeqProperties
  <1>2. /\ b \in Seq(S) /\ Len(b) = Len(q) - i
        /\ \A k \in 1..Len(q) - i : b[k] = q[i + k]
    BY SubSeqProperties
  <1>3. RemoveAt(q, i) = a \o b
    BY DEF RemoveAt
  <1> HIDE DEF a, b
  <1>4. /\ a \o b \in Seq(S) /\ Len(a \o b) = Len(a) + Len(b)
        /\ \A k \in 1..Len(a) + Len(b) :
             (a \o b)[k] = IF k <= Len(a) THEN a[k] ELSE b[k - Len(a)]
    BY <1>1, <1>2, ConcatProperties
  <1>5. ASSUME NEW k \in 1..Len(q) - 1
        PROVE  (a \o b)[k] = IF k < i THEN q[k] ELSE q[k + 1]
    <2>1. Len(q) \in Nat /\ k \in Int /\ i \in Int
      BY LenProperties
    <2>2. k < i => (a \o b)[k] = q[k]
      BY <1>1, <1>2, <1>4, <2>1
    <2>3. ASSUME ~(k < i) PROVE (a \o b)[k] = q[k + 1]
      <3>1. k - Len(a) \in 1..Len(q) - i /\ i + (k - Len(a)) = k + 1
        BY <1>1, <2>1, <2>3
      <3>2. (a \o b)[k] = b[k - Len(a)]
        <4>1. k \in 1..Len(a) + Len(b) /\ ~(k <= Len(a))
          BY <1>1, <1>2, <2>1, <2>3
        <4>2. QED
          BY <1>4, <4>1
      <3>3. b[k - Len(a)] = q[i + (k - Len(a))]
        BY <1>2, <3>1
      <3>4. QED
        BY <3>1, <3>2, <3>3
    <2>4. QED
      BY <2>2, <2>3
  <1>6. QED
    BY <1>1, <1>2, <1>3, <1>4, <1>5

(* A queue without j is the queue with the entry of j taken out. *)
LEMMA WithoutJobProps ==
  ASSUME TypeOK, NEW j \in Jobs,
         \A k, l \in DOMAIN queue : queue[k] = Entry(j) /\ queue[l] = Entry(j) => k = l
  PROVE  /\ WithoutJob(j) \in Seq(Entries)
         /\ \E f \in [DOMAIN WithoutJob(j) -> DOMAIN queue] :
              /\ \A k \in DOMAIN WithoutJob(j) :
                   WithoutJob(j)[k] = queue[f[k]] /\ queue[f[k]] # Entry(j)
              /\ \A k, l \in DOMAIN WithoutJob(j) : f[k] = f[l] => k = l
  <1>1. CASE \E i \in 1..Len(queue) : queue[i] = Entry(j)
    <2> DEFINE I == {i \in 1..Len(queue) : queue[i] = Entry(j)}
    <2>1. PICK i \in 1..Len(queue) : queue[i] = Entry(j)
      BY <1>1
    <2>2. I = {i}
      BY <2>1 DEF TypeOK
    <2>3. Min({i}) = i
      BY <2>1 DEF Min
    <2>4. SelectInSeq(queue, LAMBDA v : v = Entry(j)) = Min(I)
      BY <2>2 DEF SelectInSeq
    <2>5. WithoutJob(j) = RemoveAt(queue, i)
      BY <2>1, <2>2, <2>3, <2>4 DEF WithoutJob, RemoveFirst
    <2> DEFINE r == RemoveAt(queue, i)
               f == [k \in 1..Len(queue) - 1 |-> IF k < i THEN k ELSE k + 1]
    <2>6. /\ r \in Seq(Entries) /\ DOMAIN r = 1..Len(queue) - 1
          /\ \A k \in 1..Len(queue) - 1 : r[k] = queue[f[k]]
      BY RemoveAtProps, LenProperties DEF TypeOK
    <2>7. /\ f \in [1..Len(queue) - 1 -> DOMAIN queue]
          /\ \A k \in 1..Len(queue) - 1 : f[k] # i
          /\ \A k, l \in 1..Len(queue) - 1 : f[k] = f[l] => k = l
      BY <2>1 DEF TypeOK
    <2> HIDE DEF r, f
    <2>8. ASSUME NEW k \in 1..Len(queue) - 1 PROVE queue[f[k]] # Entry(j)
      <3>1. i \in DOMAIN queue
        BY <2>1, LenProperties DEF TypeOK
      <3>2. f[k] \in DOMAIN queue /\ f[k] # i
        BY <2>7
      <3>3. QED
        BY <2>1, <3>1, <3>2
    <2>9. QED
      BY <2>5, <2>6, <2>7, <2>8 DEF r
  <1>2. CASE ~\E i \in 1..Len(queue) : queue[i] = Entry(j)
    <2>1. WithoutJob(j) = queue
      BY <1>2 DEF WithoutJob, RemoveFirst
    <2> DEFINE f == [k \in DOMAIN queue |-> k]
    <2>2. f \in [DOMAIN queue -> DOMAIN queue]
      OBVIOUS
    <2>3. \A k \in DOMAIN queue : f[k] = k
      OBVIOUS
    <2> HIDE DEF f
    <2>4. queue \in Seq(Entries) /\ DOMAIN queue = 1..Len(queue)
      BY LenProperties DEF TypeOK
    <2>5. QED
      BY <1>2, <2>1, <2>2, <2>3, <2>4
  <1>3. QED
    BY <1>1, <1>2

(* The same for the other changes of a queue. *)
LEMMA AppendProps ==
  ASSUME NEW S, NEW q \in Seq(S), NEW x \in S
  PROVE  /\ Append(q, x) \in Seq(S)
         /\ DOMAIN Append(q, x) = 1..Len(q) + 1 /\ DOMAIN q = 1..Len(q) /\ Len(q) \in Nat
         /\ \A k \in DOMAIN q : Append(q, x)[k] = q[k]
         /\ Append(q, x)[Len(q) + 1] = x
  BY AppendProperties, LenProperties

(* A sequence without its first element. *)
LEMMA TailProps ==
  ASSUME NEW S, NEW q \in Seq(S), q # <<>>
  PROVE  /\ Tail(q) \in Seq(S) /\ Head(q) \in S
         /\ 1 \in DOMAIN q /\ Head(q) = q[1]
         /\ \A k \in DOMAIN Tail(q) :
              k \in Nat /\ k + 1 \in DOMAIN q /\ k + 1 # 1 /\ Tail(q)[k] = q[k + 1]
  BY HeadTailProperties, LenProperties

(* Entries of the two kinds. *)
LEMMA EntryKinds ==
  ASSUME NEW e \in Entries
  PROVE  /\ e.kind \in {"exec", "retry"} /\ e.job \in Jobs /\ e.ev \in Events
         /\ e.kind = "exec" <=> e = Entry(e.job)
         /\ e.kind = "retry" <=> e \in Retries
         /\ e \in Retries => e.attempt \in 1..MaxRetries /\ e.job \in HookJobs
  BY JobAssumption DEF Entries, Retries, Entry, Events

-----------------------------------------------------------------------------
(* The steps. *)
JobRec == [st : Statuses, runs : Nat, hit : {"no", "late", "crash"},
           reported : BOOLEAN, raced : BOOLEAN]

JobInv ==
  /\ TypeInv /\ PlaceInv /\ FileInv /\ CancelInv
  /\ CountInv /\ SingleInv /\ FirstInv /\ OutcomeInv

(* One job, and one worker, change to what is given. *)
JobTo(j, st, runs, hit, reported, raced) ==
  /\ job' \in [Jobs -> JobRec]
  /\ job'[j].st = st /\ job'[j].runs = runs /\ job'[j].hit = hit
  /\ job'[j].reported = reported /\ job'[j].raced = raced
  /\ \A i \in Jobs \ {j} : job'[i] = job[i]

RunTo(w, pc, e, ok) ==
  /\ run' \in [Workers -> RunRec]
  /\ run'[w].pc = pc /\ run'[w].e = e /\ run'[w].ok = ok
  /\ \A v \in Workers \ {w} : run'[v] = run[v]

(* The types as facts to cite. *)
LEMMA Typed ==
  ASSUME JobInv
  PROVE  /\ job \in [Jobs -> JobRec]
         /\ queue \in Seq(Entries) /\ DOMAIN queue = 1..Len(queue)
         /\ \A k \in DOMAIN queue : queue[k] \in Entries
         /\ run \in [Workers -> RunRec]
         /\ \A w \in Workers : run[w].pc # "idle" => run[w].e \in Entries
         /\ \A w \in Workers : Busy(w) => run[w].e.kind = "exec"
         /\ \A w \in Workers : run[w].pc = "deliver" => run[w].e \in Retries
         /\ timers \subseteq Retries
         /\ hook \in [Jobs \X Events -> [calls : Nat, acked : BOOLEAN]]
  <1>1. /\ job \in [Jobs -> JobRec] /\ queue \in Seq(Entries)
        /\ timers \subseteq Retries
        /\ hook \in [Jobs \X Events -> [calls : Nat, acked : BOOLEAN]]
        /\ run \in [Workers -> RunRec]
        /\ \A w \in Workers : run[w].pc # "idle" => run[w].e \in Entries
        /\ \A w \in Workers : Busy(w) => run[w].e.kind = "exec"
    BY DEF JobInv, TypeInv, TypeOK, JobRec, EntryOK, Busy
  <1>2. \A w \in Workers : run[w].pc = "deliver" => run[w].e \in Retries
    BY <1>1, EntryKinds DEF JobInv, TypeInv, EntryOK
  <1>3. /\ DOMAIN queue = 1..Len(queue)
        /\ \A k \in DOMAIN queue : queue[k] \in Entries
    BY <1>1, LenProperties
  <1>4. QED
    BY <1>1, <1>2, <1>3

(* Entries and the workers that hold one are about jobs. *)
LEMMA InJobs ==
  ASSUME JobInv
  PROVE  /\ \A w \in Workers : run[w].pc # "idle" => J(w) \in Jobs
         /\ \A w \in Workers : Busy(w) => J(w) \in Jobs
         /\ \A k \in DOMAIN queue : queue[k].job \in Jobs
  BY Typed, EntryKinds DEF J, Busy

(* The queue keeps some of its entries, in different places. *)
Shrinks(f) ==
  /\ queue' \in Seq(Entries)
  /\ \A k \in DOMAIN queue' : f[k] \in DOMAIN queue /\ queue'[k] = queue[f[k]]
  /\ \A k, l \in DOMAIN queue' : f[k] = f[l] => k = l

(* Taking a job from the queue moves the other entries up. *)
LEMMA QueueWithout ==
  ASSUME JobInv, NEW j \in Jobs, queue' = WithoutJob(j)
  PROVE  \E f : /\ Shrinks(f)
                /\ \A k \in DOMAIN queue' : queue'[k].kind = "exec" => queue'[k].job # j
  <1>1. TypeOK
    BY DEF JobInv, TypeInv
  <1>2. Entry(j).kind = "exec" /\ Entry(j).job = j
    BY DEF Entry
  <1>3. \A k, l \in DOMAIN queue : queue[k] = Entry(j) /\ queue[l] = Entry(j) => k = l
    BY <1>2 DEF JobInv, PlaceInv
  <1>4. PICK f \in [DOMAIN queue' -> DOMAIN queue] :
               /\ \A k \in DOMAIN queue' : queue'[k] = queue[f[k]] /\ queue[f[k]] # Entry(j)
               /\ \A k, l \in DOMAIN queue' : f[k] = f[l] => k = l
    BY <1>1, <1>3, WithoutJobProps
  <1>5. queue' \in Seq(Entries)
    BY <1>1, <1>3, WithoutJobProps
  <1>6. \A k \in DOMAIN queue' : queue'[k].kind = "exec" => queue'[k].job # j
    BY <1>4, Typed, EntryKinds
  <1>7. QED
    BY <1>4, <1>5, <1>6 DEF Shrinks

(* Taking the next entry moves the other entries up. *)
LEMMA QueueTail ==
  ASSUME JobInv, queue # <<>>, queue' = Tail(queue)
  PROVE  /\ Head(queue) \in Entries
         /\ 1 \in DOMAIN queue /\ Head(queue) = queue[1]
         /\ \E f : Shrinks(f) /\ \A k \in DOMAIN queue' : f[k] # 1
  <1>1. /\ queue' \in Seq(Entries) /\ Head(queue) \in Entries
        /\ 1 \in DOMAIN queue /\ Head(queue) = queue[1]
        /\ \A k \in DOMAIN queue' :
             k \in Nat /\ k + 1 \in DOMAIN queue /\ k + 1 # 1 /\ queue'[k] = queue[k + 1]
    BY Typed, TailProps
  <1> DEFINE f == [k \in DOMAIN queue' |-> k + 1]
  <1>2. Shrinks(f) /\ \A k \in DOMAIN queue' : f[k] # 1
    BY <1>1 DEF Shrinks
  <1>3. QED
    BY <1>1, <1>2

(* What a worker does next. *)
LEMMA WorkerMoves ==
  ASSUME JobInv, NEW w \in Workers, run[w].pc # "idle"
  PROVE  /\ \A pc \in RunPCs : Goto(w, pc) => RunTo(w, pc, run[w].e, run[w].ok)
         /\ \A ok \in BOOLEAN : Ends(w, ok) => RunTo(w, "cleanup", run[w].e, ok)
         /\ run' = [run EXCEPT ![w] = Idle] => RunTo(w, "idle", None, FALSE)
  <1>1. run \in [Workers -> RunRec] /\ run[w] \in RunRec
    BY Typed
  <1>2. ASSUME NEW pc \in RunPCs, Goto(w, pc) PROVE RunTo(w, pc, run[w].e, run[w].ok)
    <2>1. [run[w] EXCEPT !.pc = pc] \in RunRec
      BY <1>1 DEF RunRec
    <2>2. QED
      BY <1>1, <1>2, <2>1 DEF RunRec, Goto, RunTo
  <1>3. ASSUME NEW ok \in BOOLEAN, Ends(w, ok) PROVE RunTo(w, "cleanup", run[w].e, ok)
    <2>1. [run[w] EXCEPT !.pc = "cleanup", !.ok = ok] \in RunRec
      BY <1>1 DEF RunRec, RunPCs
    <2>2. QED
      BY <1>1, <1>3, <2>1 DEF RunRec, Ends, RunTo
  <1>4. ASSUME run' = [run EXCEPT ![w] = Idle] PROVE RunTo(w, "idle", None, FALSE)
    <2>1. Idle \in RunRec
      BY DEF RunRec, RunPCs, Idle
    <2>2. QED
      BY <1>1, <1>4, <2>1 DEF Idle, RunTo
  <1>5. QED
    BY <1>2, <1>3, <1>4

(* Types are kept by a step that leaves the archive alone and gives the    *)
(* other variables values of their types.                                  *)
LEMMA TypeKeeps ==
  ASSUME JobInv, UNCHANGED <<arch, made, docs>>,
         job' \in [Jobs -> JobRec], queue' \in Seq(Entries),
         run' \in [Workers -> RunRec], \A w \in Workers : EntryOK(run'[w]),
         cancel' \in Jobs \cup {None}, staged' \in [Files -> Stages],
         timers' \subseteq Retries,
         hook' \in [Jobs \X Events -> [calls : Nat, acked : BOOLEAN]],
         auditq' \in Seq(Records), faults' \in 0..MaxFaults
  PROVE  TypeInv'
  <1>1. \A w \in Workers : /\ run'[w].pc \in RunPCs
                           /\ run'[w].pc # "idle" => run'[w].e \in Entries
    BY DEF RunRec, EntryOK
  <1>2. TypeOK'
    BY <1>1 DEF JobInv, TypeInv, TypeOK, JobRec, RunPCs, Stages
  <1>3. QED
    BY <1>2 DEF JobInv, TypeInv

(* A step that leaves the staging area alone, puts no job in need of its   *)
(* file and takes back no job that has been taken.                         *)
LEMMA FileKeeps ==
  ASSUME JobInv, staged' = staged, \A j \in Uploads : InNeed(j)' => InNeed(j),
         \A k \in Jobs : job[k].st \notin Early => job'[k].st \notin Early
  PROVE  FileInv'
  <1>1. \A j, k \in Jobs : Sharer(j, k) => Sharer(j, k)'
    BY DEF Sharer, Early
  <1>2. Uploads \subseteq Jobs
    BY JobAssumption
  <1> SUFFICES ASSUME NEW j \in Uploads, InNeed(j)'
               PROVE  \/ Present(FileOf[j])'
                      \/ staged'[FileOf[j]] = "cleaned" /\ \E k \in Jobs : Sharer(j, k)'
    BY DEF FileInv, StagedFilePresent
  <1>3. \/ Present(FileOf[j])
        \/ staged[FileOf[j]] = "cleaned" /\ \E k \in Jobs : Sharer(j, k)
    BY DEF JobInv, FileInv, StagedFilePresent
  <1>4. QED
    BY <1>1, <1>2, <1>3 DEF Present

(* A step of the manager sends nothing and stores no outcome. *)
LEMMA OutcomeKeeps ==
  ASSUME JobInv, UNCHANGED <<hook, run>>,
         \A i \in Jobs :
           /\ job'[i].hit = job[i].hit
           /\ job'[i].st \in {"none", "received", "queued"} =>
                job[i].st \in {"none", "received", "queued"}
           /\ job'[i].st \in {"finished", "failed"} => job'[i].st = job[i].st
  PROVE  OutcomeInv'
  <1> USE JobAssumption DEF JobInv
  <1>1. ASSUME NEW w \in Workers PROVE OutcomeOK(hook', job'[J(w)'].hit, run'[w])
    <2>1. CASE Busy(w)
      BY <2>1, InJobs DEF OutcomeInv, J
    <2>2. CASE ~Busy(w)
      BY <2>2 DEF Busy, OutcomeOK
    <2>3. QED
      BY <2>1, <2>2
  <1>2. ASSUME NEW i \in HookJobs, job'[i].hit # "crash"
        PROVE  /\ job'[i].st = "finished" => Announced(hook', i, TRUE, job'[i].hit)
               /\ job'[i].st = "failed" => Announced(hook', i, FALSE, job'[i].hit)
    BY <1>2 DEF OutcomeInv
  <1>3. \A i \in Jobs : job'[i].st \in {"none", "received", "queued"} => job'[i].hit = "no"
    BY DEF OutcomeInv
  <1>4. QED
    BY <1>1, <1>2, <1>3 DEF OutcomeInv

(* The manager. *)
LEMMA ReceiveKeeps ==
  ASSUME JobInv, NEW j \in Jobs, Receive(j)
  PROVE  JobInv'
  <1> USE JobAssumption DEF JobInv
  <1>1. JobTo(j, "received", job[j].runs, job[j].hit, job[j].reported, job[j].raced)
    <2>1. [job[j] EXCEPT !.st = "received"] \in JobRec
      <3>1. job[j] \in JobRec
        BY Typed
      <3>2. QED
        BY <3>1 DEF JobRec, Statuses, Over
    <2>2. QED
      BY <2>1, Typed DEF Receive, JobTo, JobRec
  <1>2. /\ staged' \in [Files -> Stages]
        /\ \A i \in Uploads :
             staged'[FileOf[i]] = IF i = j THEN "there" ELSE staged[FileOf[i]]
    BY DEF Receive, TypeInv, TypeOK, Stages
  <1>3. \A w \in Workers : Busy(w) => J(w) # j
    BY DEF PlaceInv, Receive
  <1>4. FileInv'
    <2> SUFFICES ASSUME NEW i \in Uploads, InNeed(i)', i # j
                 PROVE  \/ Present(FileOf[i])'
                        \/ staged'[FileOf[i]] = "cleaned" /\ \E k \in Jobs : Sharer(i, k)'
      BY <1>2 DEF FileInv, StagedFilePresent, Present
    <2>1. InNeed(i) /\ staged'[FileOf[i]] = staged[FileOf[i]]
      BY <1>1, <1>2 DEF InNeed, Receive, JobTo, J
    <2>2. \/ Present(FileOf[i])
          \/ staged[FileOf[i]] = "cleaned" /\ \E k \in Jobs : Sharer(i, k)
      BY <2>1 DEF FileInv, StagedFilePresent
    <2>3. \A k \in Jobs : Sharer(i, k) => Sharer(i, k)'
      BY <1>1 DEF Sharer, Receive, JobTo
    <2>4. QED
      BY <2>1, <2>2, <2>3 DEF Present
  <1>5. TypeInv'
    BY <1>1, <1>2, <1>3, TypeKeeps, Typed DEF Receive, TypeInv, TypeOK, JobTo
  <1>6. CancelInv'
    BY <1>1, <1>2, <1>3, InJobs DEF Receive, CancelInv,
       CancelledRanOnlyIfRaced, J, JobTo, CancelOK, Busy
  <1>7. OutcomeInv'
    BY <1>1, OutcomeKeeps DEF Receive, JobTo
  <1>8. PlaceInv'
    BY <1>1, <1>2, <1>3, InJobs DEF Receive, PlaceInv, Busy, J, JobTo
  <1>9. CountInv'
    BY <1>1, <1>2, <1>3, InJobs DEF Receive, CountInv, JobTo
  <1>10. SingleInv'
    BY <1>1, <1>2, <1>3, InJobs DEF Receive, SingleInv, InTimers, InQueue,
       InHand, J, JobTo
  <1>11. FirstInv'
    BY <1>1, <1>2, <1>3, InJobs DEF Receive, FirstInv, JobTo
  <1>12. QED
    BY <1>4, <1>5, <1>6, <1>7, <1>8, <1>9, <1>10, <1>11

(* A refused request leaves its file, and no entry. *)
LEMMA RejectKeeps ==
  ASSUME JobInv, NEW j \in Jobs, Reject(j)
  PROVE  JobInv'
  <1> USE JobAssumption DEF JobInv
  <1>1. JobTo(j, "rejected", job[j].runs, job[j].hit, job[j].reported, job[j].raced)
    <2>1. [job[j] EXCEPT !.st = "rejected"] \in JobRec
      <3>1. job[j] \in JobRec
        BY Typed
      <3>2. QED
        BY <3>1 DEF JobRec, Statuses, Over
    <2>2. QED
      BY <2>1, Typed DEF Reject, JobTo, JobRec
  <1>2. TypeInv'
    BY <1>1, TypeKeeps, Typed DEF Reject, TypeInv, TypeOK, JobTo, Stages
  <1>3. CancelInv'
    BY <1>1, InJobs DEF Reject, CancelInv, CancelledRanOnlyIfRaced, J, JobTo,
       CancelOK
  <1>4. OutcomeInv'
    BY <1>1, OutcomeKeeps DEF Reject, JobTo
  <1>5. PlaceInv'
    BY <1>1, InJobs DEF Reject, PlaceInv, Busy, J, JobTo
  <1>6. FileInv'
    BY <1>1, FileKeeps DEF Reject, InNeed, J, JobTo, Early
  <1>7. CountInv'
    BY <1>1, InJobs DEF Reject, CountInv, JobTo
  <1>8. SingleInv'
    BY <1>1, InJobs DEF Reject, SingleInv, InTimers, InQueue, InHand, J, JobTo
  <1>9. FirstInv'
    BY <1>1, InJobs DEF Reject, FirstInv, JobTo
  <1>10. QED
    BY <1>2, <1>3, <1>4, <1>5, <1>6, <1>7, <1>8, <1>9

(* A new entry is the only one of its job. *)
LEMMA SubmitKeeps ==
  ASSUME JobInv, NEW j \in Jobs, Submit(j)
  PROVE  JobInv'
  <1> USE JobAssumption DEF JobInv
  <1>1. JobTo(j, "queued", job[j].runs, job[j].hit, job[j].reported, job[j].raced)
    <2>1. [job[j] EXCEPT !.st = "queued"] \in JobRec
      <3>1. job[j] \in JobRec
        BY Typed
      <3>2. QED
        BY <3>1 DEF JobRec, Statuses, Over
    <2>2. QED
      BY <2>1, Typed DEF Submit, JobTo, JobRec
  <1>2. /\ Entry(j) \in Entries /\ Entry(j).kind = "exec" /\ Entry(j).job = j
    BY DEF Entries, Entry
  <1>3. /\ queue' \in Seq(Entries) /\ DOMAIN queue' = 1..Len(queue) + 1
        /\ DOMAIN queue = 1..Len(queue) /\ Len(queue) \in Nat
        /\ \A k \in DOMAIN queue : queue'[k] = queue[k]
        /\ queue'[Len(queue) + 1] = Entry(j)
    BY <1>2, AppendProps DEF Submit, TypeInv, TypeOK
  <1>4. TypeInv'
    BY <1>1, <1>2, <1>3, TypeKeeps, Typed DEF Submit, TypeInv, TypeOK, JobTo, Stages
  <1>5. CancelInv'
    BY <1>1, <1>2, <1>3, InJobs DEF Submit, CancelInv,
       CancelledRanOnlyIfRaced, J, JobTo, CancelOK
  <1>6. CountInv'
    BY <1>1, <1>2, <1>3, InJobs DEF Submit, CountInv
  <1>7. OutcomeInv'
    BY <1>1, OutcomeKeeps DEF Submit, JobTo
  <1>8. PlaceInv'
    BY <1>1, <1>2, <1>3, InJobs DEF Submit, PlaceInv, Busy, J, JobTo
  <1>9. FileInv'
    BY <1>1, FileKeeps DEF Submit, InNeed, J, JobTo, Early
  <1>10. SingleInv'
    <2>1. \A k \in DOMAIN queue' : queue'[k].kind = "retry" =>
                                     k \in DOMAIN queue /\ queue'[k] = queue[k]
      BY <1>2, <1>3
    <2>2. UNCHANGED <<timers, run>>
      BY DEF Submit
    <2>3. \A i \in Jobs, x \in Events : InQueue(i, x)' => InQueue(i, x)
      BY <2>1 DEF InQueue
    <2>4. QED
      BY <2>1, <2>2, <2>3 DEF SingleInv, InTimers, InHand, J
  <1>11. FirstInv'
    BY <1>1, <1>2, <1>3, InJobs DEF Submit, FirstInv, JobTo
  <1>12. QED
    BY <1>4, <1>5, <1>6, <1>7, <1>8, <1>9, <1>10, <1>11

(* An expired job has no entry left. *)
LEMMA ExpireKeeps ==
  ASSUME JobInv, NEW j \in Jobs, Expire(j)
  PROVE  JobInv'
  <1> USE JobAssumption DEF JobInv
  <1>1. JobTo(j, "expired", job[j].runs, job[j].hit, job[j].reported, job[j].raced)
    <2>1. [job[j] EXCEPT !.st = "expired"] \in JobRec
      <3>1. job[j] \in JobRec
        BY Typed
      <3>2. QED
        BY <3>1 DEF JobRec, Statuses, Over
    <2>2. QED
      BY <2>1, Typed DEF Expire, JobTo, JobRec
  <1>2. PICK f : /\ Shrinks(f)
                 /\ \A k \in DOMAIN queue' : queue'[k].kind = "exec" => queue'[k].job # j
    BY QueueWithout DEF Expire
  <1>3. TypeInv'
    <2>1. faults' \in 0..MaxFaults
      BY DEF Expire, MayFail, TypeInv, TypeOK
    <2>2. QED
      BY <1>1, <1>2, <2>1, TypeKeeps, Typed DEF Expire, TypeInv, TypeOK, JobTo, Shrinks,
         Stages
  <1>4. CancelInv'
    BY <1>1, <1>2, InJobs DEF Expire, CancelInv, CancelledRanOnlyIfRaced, J,
       JobTo, CancelOK
  <1>5. OutcomeInv'
    BY <1>1, OutcomeKeeps DEF Expire, JobTo
  <1>6. PlaceInv'
    BY <1>1, <1>2, InJobs DEF Expire, PlaceInv, Busy, J, JobTo, Shrinks
  <1>7. FileInv'
    BY <1>1, FileKeeps DEF Expire, InNeed, J, JobTo, Early
  <1>8. CountInv'
    BY <1>1, <1>2, InJobs DEF Expire, CountInv, JobTo, Shrinks
  <1>9. SingleInv'
    BY <1>1, <1>2, InJobs DEF Expire, SingleInv, InTimers, InQueue, InHand, J,
       JobTo, Shrinks
  <1>10. FirstInv'
    BY <1>1, <1>2, InJobs DEF Expire, FirstInv, JobTo, Shrinks
  <1>11. QED
    BY <1>3, <1>4, <1>5, <1>6, <1>7, <1>8, <1>9, <1>10

(* cancel_job looks at a job that is still queued. *)
LEMMA CancelLookKeeps ==
  ASSUME JobInv, NEW j \in Jobs, CancelLook(j)
  PROVE  JobInv'
  <1> USE JobAssumption DEF JobInv
  <1>1. TypeInv'
    BY TypeKeeps, Typed DEF CancelLook, TypeInv, TypeOK
  <1>2. CancelInv'
    BY DEF CancelLook, CancelInv, CancelledRanOnlyIfRaced, J, Cancellable
  <1>3. PlaceInv' /\ FirstInv' /\ OutcomeInv'
    BY DEF CancelLook, PlaceInv, Busy, J, FirstInv, OutcomeInv
  <1>6. FileInv'
    BY FileKeeps DEF CancelLook, InNeed, J
  <1>4. CountInv' /\ SingleInv'
    BY DEF CancelLook, J, CountInv, SingleInv, InTimers, InQueue, InHand
  <1>5. QED
    BY <1>1, <1>2, <1>3, <1>4, <1>6

(* cancel_job acts, on a job that may have been taken meanwhile. *)
LEMMA CancelDoKeeps ==
  ASSUME JobInv, CancelDo
  PROVE  JobInv'
  <1> USE JobAssumption DEF JobInv
  <1> DEFINE j == cancel
  <1>1. j \in Jobs /\ cancel' = None /\ cancel' \notin Jobs
    BY DEF CancelDo, TypeInv, TypeOK
  <1>2. CASE UNCHANGED <<job, queue>>
    <2>1. CancelInv'
      BY <1>1, <1>2 DEF CancelDo, CancelInv, CancelledRanOnlyIfRaced, Busy, J
    <2>2. TypeInv'
      BY <1>1, <1>2, Typed, TypeKeeps DEF CancelDo, TypeInv, TypeOK
    <2>3. PlaceInv' /\ FirstInv' /\ OutcomeInv'
      BY <1>2 DEF CancelDo, Busy, J, PlaceInv, FirstInv, OutcomeInv
    <2>6. FileInv'
      BY <1>2, FileKeeps DEF CancelDo, InNeed, J
    <2>4. CountInv' /\ SingleInv'
      BY <1>2 DEF CancelDo, J, CountInv, SingleInv, InTimers, InQueue, InHand
    <2>5. QED
      BY <2>1, <2>2, <2>3, <2>4, <2>6
  <1>3. CASE /\ job' = [job EXCEPT ![j].st = "canceled", ![j].reported = TRUE]
             /\ queue' = WithoutJob(j)
             /\ job[j].st \notin {"canceled", "expired"}
    <2> HIDE DEF j
    <2>1. JobTo(j, "canceled", job[j].runs, job[j].hit, TRUE, job[j].raced)
      <3>1. job[j] \in JobRec
        BY <1>1, Typed
      <3>2. [job[j] EXCEPT !.st = "canceled", !.reported = TRUE] \in JobRec
        BY <3>1 DEF JobRec, Statuses, Over
      <3>3. QED
        BY <1>1, <1>3, <3>2, Typed DEF JobTo, JobRec
    <2>2. PICK f : /\ Shrinks(f)
                   /\ \A k \in DOMAIN queue' : queue'[k].kind = "exec" => queue'[k].job # j
      BY <1>1, <1>3, QueueWithout
    <2>3. TypeInv'
      BY <1>1, <1>3, <2>1, <2>2, Typed, TypeKeeps DEF CancelDo, TypeInv,
         TypeOK, JobTo, Shrinks, Stages, j
    <2>4. PlaceInv'
      <3>1. run' = run
        BY DEF CancelDo
      <3>2. ASSUME NEW k \in DOMAIN queue', queue'[k].kind = "exec"
            PROVE  job'[queue'[k].job].st = "queued"
        BY <2>1, <2>2, <3>2, InJobs DEF PlaceInv, JobTo, Shrinks
      <3>3. ASSUME NEW k \in DOMAIN queue', NEW l \in DOMAIN queue',
                   queue'[k].kind = "exec", queue'[l].kind = "exec",
                   queue'[k].job = queue'[l].job
            PROVE  k = l
        BY <2>2, <3>3 DEF PlaceInv, Shrinks
      <3>4. \A w \in Workers : Busy(w) => job'[J(w)].st \in {"started", "canceled"}
        BY <2>1, InJobs DEF PlaceInv, JobTo
      <3>5. QED
        BY <3>1, <3>2, <3>3, <3>4 DEF PlaceInv, Busy, J
    <2>5. FileInv'
      BY <1>1, <2>1, FileKeeps DEF CancelDo, InNeed, J, JobTo, Early
    <2>6. CancelInv'
      <3>1. /\ job[j].st \in {"none", "received", "queued"} => job[j].runs = 0
            /\ job[j].st = "queued" \/ job[j].raced
        BY <1>1, <1>3 DEF CancelInv, j
      <3>2. CancelledRanOnlyIfRaced'
        BY <1>1, <2>1, <3>1 DEF CancelInv, CancelledRanOnlyIfRaced, JobTo
      <3>3. ASSUME NEW i \in Jobs
            PROVE  job'[i].st \in {"none", "received", "queued"} =>
                     job'[i].runs = 0 /\ ~job'[i].reported
        BY <1>1, <2>1 DEF CancelInv, JobTo
      <3>4. run' = run
        BY DEF CancelDo
      <3>5. ASSUME NEW w \in Workers PROVE CancelOK(job'[J(w)], run[w])
        <4>1. CASE ~Busy(w)
          BY <4>1 DEF CancelOK, Busy
        <4>2. CASE Busy(w) /\ J(w) = j
          BY <1>1, <2>1, <3>1, <4>2 DEF CancelInv, CancelOK, JobTo, PlaceInv
        <4>3. CASE Busy(w) /\ J(w) # j
          BY <2>1, <4>3, InJobs DEF CancelInv, CancelOK, JobTo
        <4>4. QED
          BY <4>1, <4>2, <4>3
      <3>6. QED
        BY <1>1, <3>2, <3>3, <3>4, <3>5 DEF CancelInv, J
    <2>7. CountInv'
      BY <1>1, <1>3, <2>1, <2>2, InJobs DEF CancelDo, CountInv, JobTo,
         Shrinks, j
    <2>8. SingleInv'
      <3>1. run' = run /\ timers' = timers
        BY DEF CancelDo
      <3>2. \A i \in Jobs, ev \in Events : InQueue(i, ev)' => InQueue(i, ev)
        BY <2>2 DEF InQueue, Shrinks
      <3>3. ASSUME NEW k \in DOMAIN queue', NEW l \in DOMAIN queue',
                   queue'[k].kind = "retry", queue'[l].kind = "retry",
                   queue'[k].job = queue'[l].job, queue'[k].ev = queue'[l].ev
            PROVE  k = l
        <4>1. f[k] = f[l]
          BY <2>2, <3>3 DEF SingleInv, Shrinks
        <4>2. QED
          BY <2>2, <4>1 DEF Shrinks
      <3>4. QED
        BY <3>1, <3>2, <3>3 DEF SingleInv, InTimers, InHand, J
    <2>9. FirstInv'
      BY <1>1, <1>3, <2>1, <2>2, InJobs DEF CancelDo, FirstInv, JobTo,
         Shrinks, j
    <2>10. OutcomeInv'
      BY <1>1, <2>1, OutcomeKeeps DEF CancelDo, JobTo
    <2>11. QED
      BY <2>3, <2>4, <2>5, <2>6, <2>7, <2>8, <2>9, <2>10
  <1>4. QED
    BY <1>2, <1>3 DEF CancelDo

-----------------------------------------------------------------------------
(* The FIFO worker. *)

(* What a step of worker w on its own job leaves to be shown. *)
WorksOn(w) ==
  /\ Busy(w) /\ run'[w].pc # "deliver"
  /\ UNCHANGED <<queue, cancel, timers, hook, arch, made, docs>>
  /\ job' \in [Jobs -> JobRec] /\ \A i \in Jobs \ {J(w)} : job'[i] = job[i]
  /\ run' \in [Workers -> RunRec] /\ \A v \in Workers \ {w} : run'[v] = run[v]
  /\ run'[w].pc # "idle" => run'[w].e = run[w].e /\ job'[J(w)].st = job[J(w)].st
  /\ job'[J(w)].st \notin Early
  /\ staged' \in [Files -> Stages]
  /\ \A f \in Files :
       \/ staged'[f] = staged[f]
       \/ f = FileOf[J(w)] /\ staged'[f] = "cleaned" /\ run'[w].pc \notin {"render", "drive"}
  /\ run'[w].pc \in {"render", "drive"} => run[w].pc \in {"render", "drive"}
  /\ auditq' \in Seq(Records) /\ faults' \in 0..MaxFaults

(* ... and of the job itself. *)
WorkOK(w) ==
  /\ EntryOK(run'[w])
  /\ job'[J(w)].runs <= 1 /\ (job'[J(w)].raced <=> job[J(w)].raced)
  /\ job'[J(w)].reported /\ job'[J(w)].runs > 0 => job'[J(w)].raced
  /\ CancelOK(job'[J(w)], run'[w])
  /\ FirstOK(hook, run'[w])
  /\ OutcomeOK(hook, job'[J(w)].hit, run'[w])
  /\ J(w) \in HookJobs /\ job'[J(w)].hit # "crash" =>
       /\ job'[J(w)].st = "finished" => Announced(hook, J(w), TRUE, job'[J(w)].hit)
       /\ job'[J(w)].st = "failed" => Announced(hook, J(w), FALSE, job'[J(w)].hit)

(* Such a step keeps everything: no other worker is at the same job. *)
LEMMA WorksOnKeeps ==
  ASSUME JobInv, NEW w \in Workers, WorksOn(w), WorkOK(w)
  PROVE  JobInv'
  <1> USE JobAssumption DEF JobInv, WorksOn, Early
  <1>1. /\ J(w) \in Jobs
        /\ \A v \in Workers \ {w} : Busy(v) => J(v) # J(w)
        /\ \A v \in Workers : Busy(v) => J(v) \in Jobs
        /\ job[J(w)].st \in {"started", "canceled"}
    BY InJobs DEF PlaceInv
  <1>2. TypeInv'
    BY Typed, TypeKeeps DEF TypeInv, TypeOK, WorkOK
  <1>3. PlaceInv'
    <2>1. ASSUME NEW k \in DOMAIN queue, queue[k].kind = "exec"
          PROVE  job'[queue[k].job].st = "queued"
      BY <1>1, <2>1, InJobs DEF PlaceInv
    <2>2. ASSUME NEW v \in Workers, Busy(v)'
          PROVE  job'[J(v)'].st \in {"started", "canceled"}
      BY <1>1, <2>2 DEF PlaceInv, Busy, J
    <2>3. ASSUME NEW u \in Workers, NEW v \in Workers, Busy(u)', Busy(v)', J(u)' = J(v)'
          PROVE  u = v
      BY <1>1, <2>3 DEF PlaceInv, Busy, J
    <2>4. QED
      BY <2>1, <2>2, <2>3 DEF PlaceInv
  <1>4. FileInv'
    <2> SUFFICES ASSUME NEW j \in Uploads, InNeed(j)'
                 PROVE  \/ Present(FileOf[j])'
                        \/ staged'[FileOf[j]] = "cleaned" /\ \E k \in Jobs : Sharer(j, k)'
      BY DEF FileInv, StagedFilePresent
    <2>1. /\ InNeed(j)
          /\ J(w) = j => run'[w].pc \in {"render", "drive"}
      BY <1>1 DEF InNeed, Busy, J
    <2>2. \/ Present(FileOf[j])
          \/ staged[FileOf[j]] = "cleaned" /\ \E k \in Jobs : Sharer(j, k)
      BY <2>1 DEF FileInv, StagedFilePresent
    <2>3. \A k \in Jobs : Sharer(j, k) => Sharer(j, k)'
      BY <1>1 DEF Sharer
    <2>4. CASE staged'[FileOf[j]] = staged[FileOf[j]]
      BY <2>2, <2>3, <2>4 DEF Present
    <2>5. CASE FileOf[j] = FileOf[J(w)] /\ staged'[FileOf[j]] = "cleaned" /\ J(w) # j
      BY <1>1, <2>5 DEF Sharer
    <2>6. QED
      BY <2>1, <2>4, <2>5
  <1>5. CancelInv'
    <2>1. CancelledRanOnlyIfRaced'
      BY <1>1 DEF CancelInv, CancelledRanOnlyIfRaced, WorkOK
    <2>2. ASSUME NEW j \in Jobs
          PROVE  /\ job'[j].st \in {"none", "received", "queued"} =>
                      job'[j].runs = 0 /\ ~job'[j].reported
                 /\ cancel = j => job'[j].st \in {"queued", "expired"} \/ job'[j].raced
      BY <1>1 DEF CancelInv, WorkOK
    <2>3. ASSUME NEW v \in Workers PROVE CancelOK(job'[J(v)'], run'[v])
      <3>1. CASE v = w
        BY <3>1 DEF WorkOK, CancelOK, J
      <3>2. CASE v # w
        BY <1>1, <3>2 DEF CancelInv, CancelOK, Busy, J
      <3>3. QED
        BY <3>1, <3>2
    <2>4. QED
      BY <2>1, <2>2, <2>3 DEF CancelInv
  <1>6. CountInv' /\ SingleInv'
    <2>1. \A v \in Workers : /\ run'[v].pc = "deliver" <=> run[v].pc = "deliver"
                             /\ run[v].pc = "deliver" => run'[v] = run[v]
      BY DEF Busy
    <2>2. QED
      BY <2>1 DEF CountInv, SingleInv, InTimers, InQueue, InHand, J
  <1>7. FirstInv'
    BY <1>1 DEF FirstInv, WorkOK
  <1>8. OutcomeInv'
    <2>1. ASSUME NEW j \in HookJobs, job'[j].hit # "crash"
          PROVE  /\ job'[j].st = "finished" => Announced(hook, j, TRUE, job'[j].hit)
                 /\ job'[j].st = "failed" => Announced(hook, j, FALSE, job'[j].hit)
      <3>1. CASE j = J(w)
        BY <2>1, <3>1 DEF WorkOK
      <3>2. CASE j # J(w)
        <4>1. job'[j] = job[j]
          BY <1>1, <3>2
        <4>2. QED
          BY <2>1, <4>1 DEF OutcomeInv
      <3>3. QED
        BY <3>1, <3>2
    <2>4. \A j \in Jobs : job'[j].st \in {"none", "received", "queued"} => job'[j].hit = "no"
      BY <1>1 DEF OutcomeInv
    <2>2. ASSUME NEW v \in Workers PROVE OutcomeOK(hook, job'[J(v)'].hit, run'[v])
      <3>1. CASE v = w
        BY <3>1 DEF WorkOK, OutcomeOK, J
      <3>2. CASE v # w
        BY <1>1, <3>2 DEF OutcomeInv, OutcomeOK, Busy, J
      <3>3. QED
        BY <3>1, <3>2
    <2>3. QED
      BY <2>1, <2>2, <2>4 DEF OutcomeInv
  <1>9. QED
    BY <1>2, <1>3, <1>4, <1>5, <1>6, <1>7, <1>8

(* Rendering: the job has not been driven, and nothing was announced. *)
LEMMA RenderKeeps ==
  ASSUME JobInv, NEW w \in Workers, Render(w)
  PROVE  JobInv'
  <1> USE JobAssumption DEF JobInv, Render
  <1>1. /\ run[w].pc = "render" /\ J(w) \in Jobs /\ run[w] \in RunRec
        /\ run[w].e \in Entries /\ run[w].e.kind = "exec"
    BY Typed, InJobs DEF At, Busy
  <1>2. PICK pc \in {"drive", "cleanup"}, ok \in BOOLEAN : RunTo(w, pc, run[w].e, ok)
    BY <1>1, WorkerMoves DEF RunPCs, RunRec
  <1>3. WorksOn(w)
    BY <1>1, <1>2, Typed DEF WorksOn, RunTo, Busy, TypeInv, TypeOK, PlaceInv, Early, Stages
  <1>4. WorkOK(w)
    <2>1. EntryOK(run'[w]) /\ CancelOK(job'[J(w)], run'[w])
      BY <1>1, <1>2 DEF EntryOK, CancelOK, CancelInv, RunTo
    <2>2. FirstOK(hook, run'[w]) /\ OutcomeOK(hook, job'[J(w)].hit, run'[w])
      BY <1>1, <1>2 DEF FirstOK, OutcomeOK, FirstInv, OutcomeInv, RunTo, J, Silent,
         Events, EventOf
    <2>3. QED
      BY <1>1, <2>1, <2>2 DEF WorkOK, CancelInv, CancelledRanOnlyIfRaced, OutcomeInv
  <1>5. QED
    BY <1>3, <1>4, WorksOnKeeps

(* The driver runs: no other worker has the job, and it has not run yet. *)
LEMMA DriveKeeps ==
  ASSUME JobInv, NEW w \in Workers, Drive(w)
  PROVE  JobInv'
  <1> USE JobAssumption DEF JobInv, Drive
  <1>1. /\ run[w].pc = "drive" /\ J(w) \in Jobs /\ run[w] \in RunRec
        /\ run[w].e \in Entries /\ run[w].e.kind = "exec"
        /\ job[J(w)].st \in {"started", "canceled"}
    BY Typed, InJobs DEF At, Busy, PlaceInv
  <1>2. PICK ok \in BOOLEAN : RunTo(w, "cleanup", run[w].e, ok)
    BY <1>1, WorkerMoves
  <1>3. JobTo(J(w), job[J(w)].st, job[J(w)].runs + 1, job[J(w)].hit, job[J(w)].reported,
              job[J(w)].raced)
    <2>1. job[J(w)] \in JobRec
      BY <1>1, Typed
    <2>2. [job[J(w)] EXCEPT !.runs = @ + 1] \in JobRec
      BY <2>1 DEF JobRec
    <2>3. QED
      BY <1>1, <2>2, Typed DEF JobTo, JobRec
  <1>4. WorksOn(w)
    BY <1>1, <1>2, <1>3, Typed DEF WorksOn, RunTo, JobTo, Busy, TypeInv, TypeOK, Early,
       Stages
  <1>5. WorkOK(w)
    <2>1. EntryOK(run'[w]) /\ CancelOK(job'[J(w)], run'[w])
      BY <1>1, <1>2, <1>3 DEF EntryOK, CancelOK, CancelInv, RunTo, JobTo
    <2>2. Silent(hook, J(w))
      BY <1>1 DEF FirstInv, FirstOK, J
    <2>3. FirstOK(hook, run'[w])
      BY <1>1, <1>2, <2>2 DEF FirstOK, RunTo, J, Silent, Events, EventOf
    <2>4. OutcomeOK(hook, job'[J(w)].hit, run'[w])
      <3>1. job'[J(w)].hit = "no"
        BY <1>1, <1>3 DEF OutcomeInv, OutcomeOK, JobTo
      <3>2. QED
        BY <1>2, <2>2, <3>1 DEF OutcomeOK, RunTo, J
    <2>5. job[J(w)].runs = 0 /\ (job[J(w)].reported => job[J(w)].raced)
      BY <1>1 DEF CancelInv, CancelOK
    <2>6. job'[J(w)].runs = 1
      BY <1>3, <2>5 DEF JobTo
    <2>7. /\ job'[J(w)].reported => job'[J(w)].raced
          /\ (job'[J(w)].raced <=> job[J(w)].raced)
          /\ job'[J(w)].st \notin {"finished", "failed"}
      BY <1>1, <1>3, <2>5 DEF JobTo
    <2> HIDE DEF JobInv, Drive
    <2>8. job'[J(w)].runs <= 1
      BY <2>6
    <2>9. job'[J(w)].reported /\ job'[J(w)].runs > 0 => job'[J(w)].raced
      BY <2>7
    <2>10. J(w) \in HookJobs /\ job'[J(w)].hit # "crash" =>
             /\ job'[J(w)].st = "finished" => Announced(hook, J(w), TRUE, job'[J(w)].hit)
             /\ job'[J(w)].st = "failed" => Announced(hook, J(w), FALSE, job'[J(w)].hit)
      BY <2>7
    <2>11. QED
      BY <2>1, <2>3, <2>4, <2>7, <2>8, <2>9, <2>10 DEF WorkOK
  <1>6. QED
    BY <1>4, <1>5, WorksOnKeeps

(* The file goes, and the callbacks begin. *)
LEMMA CleanupKeeps ==
  ASSUME JobInv, NEW w \in Workers, Cleanup(w)
  PROVE  JobInv'
  <1> USE JobAssumption DEF JobInv, Cleanup
  <1>1. /\ run[w].pc = "cleanup" /\ J(w) \in Jobs /\ run[w] \in RunRec
        /\ run[w].e \in Entries /\ run[w].e.kind = "exec"
    BY Typed, InJobs DEF At, Busy
  <1>2. PICK pc \in {"audit", "meta"} :
          RunTo(w, pc, run[w].e, run[w].ok) /\ (pc = "meta" => ~run[w].ok)
    BY <1>1, WorkerMoves DEF RunPCs
  <1>3. WorksOn(w)
    BY <1>1, <1>2, Typed DEF WorksOn, RunTo, Busy, TypeInv, TypeOK, PlaceInv, Early, Stages, FileGone
  <1>4. WorkOK(w)
    <2>1. EntryOK(run'[w]) /\ CancelOK(job'[J(w)], run'[w])
      BY <1>1, <1>2 DEF EntryOK, CancelOK, CancelInv, RunTo
    <2>2. FirstOK(hook, run'[w]) /\ OutcomeOK(hook, job'[J(w)].hit, run'[w])
      BY <1>1, <1>2 DEF FirstOK, OutcomeOK, FirstInv, OutcomeInv, RunTo, J
    <2>3. QED
      BY <1>1, <2>1, <2>2 DEF WorkOK, CancelInv, CancelledRanOnlyIfRaced, OutcomeInv
  <1>5. QED
    BY <1>3, <1>4, WorksOnKeeps

(* What a callback adds to AuditLogQ. *)
LEMMA AuditEntry ==
  ASSUME JobInv, NEW w \in Workers, J(w) \in Jobs
  PROVE  WithAudit(w) \in Seq(Records)
  <1>1. Record(J(w), Outcome(run[w].ok)) \in Records
    BY DEF Record, Records, Outcome, Statuses
  <1>2. QED
    BY <1>1, AppendProps DEF WithAudit, JobInv, TypeInv, TypeOK

(* The error is saved, with an audit record of its own. *)
LEMMA SaveErrorKeeps ==
  ASSUME JobInv, NEW w \in Workers, SaveError(w)
  PROVE  JobInv'
  <1> USE JobAssumption DEF JobInv, SaveError
  <1>1. /\ run[w].pc = "meta" /\ J(w) \in Jobs /\ run[w] \in RunRec
        /\ run[w].e \in Entries /\ run[w].e.kind = "exec"
    BY Typed, InJobs DEF At, Busy
  <1>2. RunTo(w, "audit", run[w].e, run[w].ok) /\ auditq' \in Seq(Records)
    BY <1>1, WorkerMoves, AuditEntry DEF RunPCs
  <1>3. WorksOn(w)
    BY <1>1, <1>2, Typed DEF WorksOn, RunTo, Busy, TypeInv, TypeOK, PlaceInv, Early, Stages
  <1>4. WorkOK(w)
    <2>1. EntryOK(run'[w]) /\ CancelOK(job'[J(w)], run'[w])
      BY <1>1, <1>2 DEF EntryOK, CancelOK, CancelInv, RunTo
    <2>2. FirstOK(hook, run'[w]) /\ OutcomeOK(hook, job'[J(w)].hit, run'[w])
      BY <1>1, <1>2 DEF FirstOK, OutcomeOK, FirstInv, OutcomeInv, RunTo, J
    <2>3. QED
      BY <1>1, <2>1, <2>2 DEF WorkOK, CancelInv, CancelledRanOnlyIfRaced, OutcomeInv
  <1>5. QED
    BY <1>3, <1>4, WorksOnKeeps

(* The audit record; only jobs with a webhook go on to call it. *)
LEMMA AuditKeeps ==
  ASSUME JobInv, NEW w \in Workers, Audit(w)
  PROVE  JobInv'
  <1> USE JobAssumption DEF JobInv, Audit
  <1>1. /\ run[w].pc = "audit" /\ J(w) \in Jobs /\ run[w] \in RunRec
        /\ run[w].e \in Entries /\ run[w].e.kind = "exec"
    BY Typed, InJobs DEF At, Busy
  <1>2. PICK pc \in {"hook", "finish"} :
          /\ RunTo(w, pc, run[w].e, run[w].ok)
          /\ pc = "hook" <=> J(w) \in HookJobs
    BY <1>1, WorkerMoves DEF RunPCs, Announces
  <1>3. auditq' \in Seq(Records)
    BY <1>1, AuditEntry
  <1>4. WorksOn(w)
    BY <1>1, <1>2, <1>3, Typed DEF WorksOn, RunTo, Busy, TypeInv, TypeOK, PlaceInv, Early, Stages
  <1>5. WorkOK(w)
    <2>1. EntryOK(run'[w]) /\ CancelOK(job'[J(w)], run'[w])
      BY <1>1, <1>2 DEF EntryOK, CancelOK, CancelInv, RunTo, J
    <2>2. FirstOK(hook, run'[w])
      BY <1>1, <1>2 DEF FirstOK, FirstInv, RunTo, J
    <2>3. OutcomeOK(hook, job'[J(w)].hit, run'[w])
      BY <1>1, <1>2 DEF OutcomeOK, OutcomeInv, RunTo, J
    <2>4. QED
      BY <1>1, <2>1, <2>2, <2>3 DEF WorkOK, CancelInv, CancelledRanOnlyIfRaced, OutcomeInv
  <1>6. QED
    BY <1>4, <1>5, WorksOnKeeps

(* The outcome is stored as it was announced. *)
LEMMA FinishKeeps ==
  ASSUME JobInv, NEW w \in Workers, Finish(w)
  PROVE  JobInv'
  <1> USE JobAssumption DEF JobInv, Finish
  <1>1. /\ run[w].pc = "finish" /\ J(w) \in Jobs /\ run[w].ok \in BOOLEAN
        /\ Outcome(run[w].ok) \in {"finished", "failed"}
    BY Typed, InJobs DEF At, RunRec, Outcome
  <1>2. RunTo(w, "idle", None, FALSE)
    BY <1>1, WorkerMoves
  <1>3. JobTo(J(w), Outcome(run[w].ok), job[J(w)].runs, job[J(w)].hit,
              job[J(w)].reported, job[J(w)].raced)
    <2>1. job[J(w)] \in JobRec
      BY <1>1, Typed
    <2>2. [job[J(w)] EXCEPT !.st = Outcome(run[w].ok)] \in JobRec
      BY <1>1, <2>1 DEF JobRec, Statuses, Over
    <2>3. QED
      BY <1>1, <2>2, Typed DEF JobTo, JobRec
  <1>4. WorksOn(w)
    BY <1>1, <1>2, <1>3, Typed DEF WorksOn, RunTo, JobTo, Busy, TypeInv, TypeOK, Early,
       Stages
  <1>5. WorkOK(w)
    <2>1. EntryOK(run'[w]) /\ CancelOK(job'[J(w)], run'[w]) /\ FirstOK(hook, run'[w])
          /\ OutcomeOK(hook, job'[J(w)].hit, run'[w])
      BY <1>2 DEF EntryOK, CancelOK, FirstOK, OutcomeOK, RunTo
    <2>2. J(w) \in HookJobs /\ job[J(w)].hit # "crash" =>
            Announced(hook, J(w), run[w].ok, job[J(w)].hit)
      BY <1>1 DEF OutcomeInv, OutcomeOK, J
    <2>3. /\ Outcome(run[w].ok) = "finished" => run[w].ok = TRUE
          /\ Outcome(run[w].ok) = "failed" => run[w].ok = FALSE
      BY <1>1 DEF Outcome
    <2>4. QED
      BY <1>1, <1>3, <2>1, <2>2, <2>3 DEF WorkOK, JobTo, CancelInv, CancelledRanOnlyIfRaced
  <1>6. QED
    BY <1>4, <1>5, WorksOnKeeps

(* The failure callback follows a success callback that called "completed"; *)
(* "failed" has not been sent.                                             *)
LEMMA CallbackTimesOutKeeps ==
  ASSUME JobInv, NEW w \in Workers, CallbackTimesOut(w)
  PROVE  JobInv'
  <1> USE JobAssumption DEF JobInv, CallbackTimesOut
  <1>1. /\ run[w].pc = "finish" /\ J(w) \in Jobs /\ run[w].ok
        /\ run[w].e \in Entries /\ run[w].e.kind = "exec"
        /\ job[J(w)].st \in {"started", "canceled"}
    BY Typed, InJobs DEF At, Busy, PlaceInv
  <1>2. RunTo(w, "cleanup", run[w].e, FALSE) /\ faults' \in 0..MaxFaults
    <2>1. faults' \in 0..MaxFaults
      BY DEF MayFail, TypeInv, TypeOK
    <2>2. QED
      BY <1>1, <2>1, WorkerMoves
  <1>3. JobTo(J(w), job[J(w)].st, job[J(w)].runs, "late", job[J(w)].reported,
              job[J(w)].raced)
    <2>1. job[J(w)] \in JobRec
      BY <1>1, Typed
    <2>2. [job[J(w)] EXCEPT !.hit = "late"] \in JobRec
      BY <2>1 DEF JobRec
    <2>3. QED
      BY <1>1, <2>2, Typed DEF JobTo, JobRec
  <1>4. WorksOn(w)
    BY <1>1, <1>2, <1>3, Typed DEF WorksOn, RunTo, JobTo, Busy, TypeInv, TypeOK, Early,
       Stages
  <1>5. WorkOK(w)
    <2>1. EntryOK(run'[w]) /\ CancelOK(job'[J(w)], run'[w])
      BY <1>1, <1>2, <1>3 DEF EntryOK, CancelOK, CancelInv, RunTo, JobTo
    <2>2. hook[<<J(w), "failed">>].calls = 0
      BY <1>1 DEF FirstInv, FirstOK, J
    <2>3. FirstOK(hook, run'[w])
      BY <1>2, <2>2 DEF FirstOK, EventOf, RunTo, J
    <2>4. OutcomeOK(hook, job'[J(w)].hit, run'[w])
      BY <1>2, <1>3 DEF OutcomeOK, JobTo, RunTo
    <2>5. QED
      BY <1>1, <1>3, <2>1, <2>3, <2>4 DEF WorkOK, JobTo, CancelInv, CancelledRanOnlyIfRaced
  <1>6. QED
    BY <1>4, <1>5, WorksOnKeeps

(* A crash: of the job, which nothing is announced of any more, or of a    *)
(* delivery.                                                               *)
LEMMA CrashKeeps ==
  ASSUME JobInv, NEW w \in Workers, Crash(w)
  PROVE  JobInv'
  <1> USE JobAssumption DEF JobInv, Crash
  <1>1. /\ run[w].pc # "idle" /\ J(w) \in Jobs /\ run[w].e \in Entries
        /\ job[J(w)] \in JobRec
    BY Typed, InJobs DEF At
  <1>2. RunTo(w, "idle", None, FALSE)
    BY <1>1, WorkerMoves
  <1>3. faults' \in 0..MaxFaults
    BY DEF MayFail, TypeInv, TypeOK
  <1>4. CASE run[w].e.kind = "exec"
    <2>1. Busy(w)
      BY <1>1, <1>4 DEF Busy, TypeInv, EntryOK
    <2>2. JobTo(J(w), "failed", job[J(w)].runs, "crash", job[J(w)].reported, job[J(w)].raced)
      <3>1. [job[J(w)] EXCEPT !.st = "failed", !.hit = "crash"] \in JobRec
        BY <1>1 DEF JobRec, Statuses, Over
      <3>2. QED
        BY <1>1, <1>4, <3>1, Typed DEF JobTo, JobRec
    <2>3. WorksOn(w)
      BY <1>1, <1>2, <1>3, <2>1, <2>2, Typed DEF WorksOn, RunTo, JobTo, TypeInv, TypeOK, Early,
         Stages
    <2>4. WorkOK(w)
      <3>1. EntryOK(run'[w]) /\ CancelOK(job'[J(w)], run'[w]) /\ FirstOK(hook, run'[w])
            /\ OutcomeOK(hook, job'[J(w)].hit, run'[w])
        BY <1>2 DEF EntryOK, CancelOK, FirstOK, OutcomeOK, RunTo
      <3>2. QED
        BY <1>1, <2>2, <3>1 DEF WorkOK, JobTo, CancelInv, CancelledRanOnlyIfRaced
    <2>5. QED
      BY <2>3, <2>4, WorksOnKeeps
  <1>5. CASE run[w].e.kind # "exec"
    <2>1. run[w].pc = "deliver"
      BY <1>1, <1>5, Typed DEF Busy
    <2>2. job' = job
      BY <1>5
    <2>4. \A v \in Workers : run'[v].pc # "idle" => v # w /\ run'[v] = run[v]
      BY <1>2 DEF RunTo
    <2>5. TypeInv'
      <3>1. EntryOK(run'[w])
        BY <1>2 DEF EntryOK, RunTo
      <3>2. \A v \in Workers : EntryOK(run'[v])
        BY <1>2, <3>1 DEF RunTo, TypeInv
      <3>3. QED
        BY <1>2, <1>3, <2>2, <3>2, Typed, TypeKeeps DEF RunTo, TypeInv, TypeOK, Stages
    <2>12. UNCHANGED <<queue, cancel, staged, timers, hook>>
      OBVIOUS
    <2> HIDE DEF Crash
    <2>3. FileInv'
      BY <2>2, <2>4, <2>12, FileKeeps DEF InNeed, J
    <2>6. PlaceInv'
      BY <2>2, <2>4, <2>12, InJobs DEF PlaceInv, Busy, J
    <2>7. CancelInv'
      <3>1. \A v \in Workers : CancelOK(job'[J(v)'], run'[v])
        BY <2>2, <2>4, InJobs DEF CancelInv, CancelOK, J
      <3>2. QED
        BY <2>2, <2>12, <3>1 DEF CancelInv, CancelledRanOnlyIfRaced
    <2>8. CountInv' /\ SingleInv'
      BY <2>12, <2>4 DEF CountInv, SingleInv, InTimers, InQueue, InHand, J
    <2>9. FirstInv'
      <3>1. \A v \in Workers : FirstOK(hook, run'[v])
        BY <2>4 DEF FirstInv, FirstOK
      <3>2. QED
        BY <2>2, <2>12, <3>1 DEF FirstInv
    <2>10. OutcomeInv'
      <3>1. \A v \in Workers : OutcomeOK(hook, job'[J(v)'].hit, run'[v])
        BY <2>2, <2>4, InJobs DEF OutcomeInv, OutcomeOK, J
      <3>2. QED
        BY <2>2, <2>12, <3>1 DEF OutcomeInv
    <2>11. QED
      BY <2>3, <2>5, <2>6, <2>7, <2>8, <2>9, <2>10
  <1>6. QED
    BY <1>4, <1>5

(* A worker takes the first entry: a job, which it alone will have, or the *)
(* only delivery of an event.                                              *)
LEMMA TakeKeeps ==
  ASSUME JobInv, NEW w \in Workers, Take(w)
  PROVE  JobInv'
  <1> USE JobAssumption DEF JobInv
  <1> DEFINE e == Head(queue)
  <1>1. /\ e \in Entries /\ 1 \in DOMAIN queue /\ e = queue[1] /\ e.job \in Jobs
        /\ e.kind \in {"exec", "retry"}
    BY QueueTail, EntryKinds DEF Take
  <1>2. PICK f : Shrinks(f) /\ \A k \in DOMAIN queue' : f[k] # 1
    BY QueueTail DEF Take
  <1>3. /\ run[w].pc = "idle"
        /\ RunTo(w, IF e.kind = "exec" THEN "render" ELSE "deliver", e, FALSE)
    <2> DEFINE r == [Idle EXCEPT !.pc = IF e.kind = "exec" THEN "render" ELSE "deliver",
                                 !.e = e]
    <2>1. /\ r \in RunRec /\ r.e = e /\ r.ok = FALSE
          /\ r.pc = IF e.kind = "exec" THEN "render" ELSE "deliver"
      BY <1>1 DEF Idle, RunRec, RunPCs
    <2>2. run' = [run EXCEPT ![w] = r] /\ run[w].pc = "idle"
      BY DEF Take
    <2> HIDE DEF r
    <2>3. QED
      BY <2>1, <2>2, Typed DEF RunTo
  <1>4. IF e.kind = "exec"
          THEN JobTo(e.job, "started", job[e.job].runs, job[e.job].hit,
                     job[e.job].reported, cancel = e.job)
          ELSE UNCHANGED job
    <2>1. CASE e.kind = "exec"
      <3>1. job[e.job] \in JobRec
        BY <1>1, Typed
      <3>2. [job[e.job] EXCEPT !.st = "started", !.raced = (cancel = e.job)] \in JobRec
        BY <3>1 DEF JobRec, Statuses
      <3>3. QED
        BY <1>1, <2>1, <3>2, Typed DEF Take, JobTo, JobRec
    <2>2. CASE e.kind # "exec"
      BY <2>2 DEF Take
    <2>3. QED
      BY <2>1, <2>2
  <1>5. UNCHANGED <<cancel, staged, timers, hook, auditq, arch, made, docs, faults>>
    BY DEF Take
  <1> HIDE DEF e
  <1>6. TypeInv'
    <2>1. EntryOK(run'[w])
      BY <1>1, <1>3 DEF EntryOK, RunTo
    <2>2. \A v \in Workers : EntryOK(run'[v])
      BY <1>3, <2>1 DEF RunTo, TypeInv
    <2>3. job' \in [Jobs -> JobRec]
      BY <1>4, Typed DEF JobTo
    <2>4. QED
      BY <1>2, <1>3, <1>5, <2>2, <2>3, Typed, TypeKeeps DEF Shrinks, RunTo, TypeInv, TypeOK,
         Stages
  <1>7. CASE e.kind = "exec"
    <2> USE <1>1, <1>2, <1>3, <1>4, <1>5, <1>7 DEF RunTo, JobTo, Shrinks
    <2>1. /\ job[e.job].st = "queued"
          /\ \A k \in DOMAIN queue' : queue'[k].kind = "exec" => queue'[k].job # e.job
          /\ \A v \in Workers : Busy(v) => J(v) # e.job
      BY DEF PlaceInv
    <2>2. PlaceInv'
      <3>1. ASSUME NEW k \in DOMAIN queue', queue'[k].kind = "exec"
            PROVE  job'[queue'[k].job].st = "queued"
        BY <2>1, <3>1, InJobs DEF PlaceInv
      <3>2. ASSUME NEW k \in DOMAIN queue', NEW l \in DOMAIN queue',
                   queue'[k].kind = "exec", queue'[l].kind = "exec",
                   queue'[k].job = queue'[l].job
            PROVE  k = l
        BY <3>2 DEF PlaceInv
      <3>3. ASSUME NEW v \in Workers, Busy(v)'
            PROVE  job'[J(v)'].st \in {"started", "canceled"}
        BY <2>1, <3>3, InJobs DEF PlaceInv, Busy, J
      <3>4. ASSUME NEW u \in Workers, NEW v \in Workers, Busy(u)', Busy(v)', J(u)' = J(v)'
            PROVE  u = v
        BY <2>1, <3>4 DEF PlaceInv, Busy, J
      <3>5. QED
        BY ONLY <3>1, <3>2, <3>3, <3>4 DEF PlaceInv
    <2>3. FileInv'
      BY <2>1, FileKeeps DEF InNeed, J, Early
    <2>4. CancelInv'
      <3>1. ASSUME NEW v \in Workers \ {w} PROVE CancelOK(job'[J(v)'], run'[v])
        BY <2>1, InJobs DEF CancelInv, CancelOK, Busy, J
      <3>2. CancelOK(job'[J(w)'], run'[w])
        BY <2>1 DEF CancelInv, CancelOK, J
      <3>3. CancelledRanOnlyIfRaced'
        BY <2>1 DEF CancelInv, CancelledRanOnlyIfRaced
      <3>4. ASSUME NEW j \in Jobs
            PROVE  /\ job'[j].st \in {"none", "received", "queued"} =>
                        job'[j].runs = 0 /\ ~job'[j].reported
                   /\ cancel = j => job'[j].st \in {"queued", "expired"} \/ job'[j].raced
        BY <2>1 DEF CancelInv
      <3>5. QED
        BY <3>1, <3>2, <3>3, <3>4 DEF CancelInv
    <2>5. CountInv' /\ SingleInv'
      <3>1. CountInv'
        BY DEF CountInv
      <3>2. SingleInv'
        BY DEF SingleInv, InTimers, InQueue, InHand, J
      <3>3. QED
        BY <3>1, <3>2
    <2>6. FirstInv'
      <3>1. Silent(hook, e.job)
        BY <2>1 DEF FirstInv
      <3>2. FirstOK(hook, run'[w])
        BY <3>1 DEF FirstOK
      <3>3. \A v \in Workers : FirstOK(hook, run'[v])
        BY <3>2 DEF FirstInv
      <3>4. QED
        BY <3>3 DEF FirstInv
    <2>7. OutcomeInv'
      <3>1. OutcomeOK(hook, job'[J(w)'].hit, run'[w])
        BY <2>1 DEF FirstInv, OutcomeInv, OutcomeOK, J
      <3>2. ASSUME NEW v \in Workers \ {w} PROVE OutcomeOK(hook, job'[J(v)'].hit, run'[v])
        <4>1. run'[v] = run[v] /\ J(v)' = J(v) /\ OutcomeOK(hook, job[J(v)].hit, run[v])
          BY DEF OutcomeInv, J
        <4>2. CASE Busy(v)
          <5>1. job'[J(v)] = job[J(v)]
            BY <2>1, <4>2, InJobs
          <5>2. QED
            BY ONLY <4>1, <5>1
        <4>3. CASE ~Busy(v)
          BY ONLY <4>1, <4>3 DEF Busy, OutcomeOK
        <4>4. QED
          BY <4>2, <4>3
      <3>3. ASSUME NEW i \in HookJobs, job'[i].hit # "crash"
            PROVE  /\ job'[i].st = "finished" => Announced(hook, i, TRUE, job'[i].hit)
                   /\ job'[i].st = "failed" => Announced(hook, i, FALSE, job'[i].hit)
        <4>1. CASE i = e.job
          BY <4>1
        <4>2. CASE i # e.job
          BY <3>3, <4>2 DEF OutcomeInv
        <4>3. QED
          BY <4>1, <4>2
      <3>4. \A v \in Workers : OutcomeOK(hook, job'[J(v)'].hit, run'[v])
        BY <3>1, <3>2
      <3>5. hook' = hook
        OBVIOUS
      <3>7. \A i \in Jobs : job'[i].st \in {"none", "received", "queued"} => job'[i].hit = "no"
        BY DEF OutcomeInv
      <3>6. QED
        BY ONLY <3>3, <3>4, <3>5, <3>7 DEF OutcomeInv
    <2>8. QED
      BY <1>6, <2>2, <2>3, <2>4, <2>5, <2>6, <2>7
  <1>8. CASE e.kind = "retry"
    <2> USE <1>1, <1>2, <1>3, <1>4, <1>5, <1>8 DEF RunTo, Shrinks
    <2>1. PlaceInv'
      BY DEF PlaceInv, Busy, J
    <2>7. FileInv'
      BY FileKeeps DEF InNeed, J
    <2>2. CancelInv'
      BY DEF CancelInv, CancelledRanOnlyIfRaced, CancelOK, J
    <2>3. CountInv'
      BY DEF CountInv
    <2>4. SingleInv'
      <3>1. InQueue(e.job, e.ev) /\ ~InTimers(e.job, e.ev) /\ ~InHand(e.job, e.ev)
        BY EntryKinds DEF InQueue, SingleInv
      <3>2. \A j \in Jobs, ev \in Events :
              /\ InQueue(j, ev)' => InQueue(j, ev) /\ ~(j = e.job /\ ev = e.ev)
              /\ InTimers(j, ev)' <=> InTimers(j, ev)
              /\ InHand(j, ev)' => InHand(j, ev) \/ (j = e.job /\ ev = e.ev)
        BY DEF InQueue, InTimers, InHand, SingleInv, J
      <3>3. \A v \in Workers : run[v].pc = "deliver" => ~(J(v) = e.job /\ run[v].e.ev = e.ev)
        BY <3>1 DEF InHand
      <3>4. ASSUME NEW u \in Workers, NEW v \in Workers,
                   run'[u].pc = "deliver", run'[v].pc = "deliver",
                   J(u)' = J(v)', run'[u].e.ev = run'[v].e.ev
            PROVE  u = v
        BY <3>3, <3>4 DEF SingleInv, J
      <3>5. ASSUME NEW k \in DOMAIN queue', NEW l \in DOMAIN queue',
                   queue'[k].kind = "retry", queue'[l].kind = "retry",
                   queue'[k].job = queue'[l].job, queue'[k].ev = queue'[l].ev
            PROVE  k = l
        BY <3>5 DEF SingleInv
      <3>6. QED
        BY <3>1, <3>2, <3>4, <3>5 DEF SingleInv
    <2>5. FirstInv' /\ OutcomeInv'
      <3>1. FirstOK(hook, run'[w]) /\ OutcomeOK(hook, job'[J(w)'].hit, run'[w])
        BY DEF FirstOK, OutcomeOK
      <3>2. ASSUME NEW v \in Workers
            PROVE  FirstOK(hook, run'[v]) /\ OutcomeOK(hook, job'[J(v)'].hit, run'[v])
        BY <3>1 DEF FirstInv, OutcomeInv, J
      <3>3. QED
        BY <3>2 DEF FirstInv, OutcomeInv
    <2>6. QED
      BY <1>6, <2>1, <2>2, <2>3, <2>4, <2>5, <2>7
  <1>9. QED
    BY <1>1, <1>7, <1>8

-----------------------------------------------------------------------------
(* Deliveries. *)

(* One more request is counted, and a retry scheduled or not. *)
Sends(j, ev, n, o) ==
  /\ hook' \in [Jobs \X Events -> [calls : Nat, acked : BOOLEAN]]
  /\ hook'[<<j, ev>>].calls = n
  /\ hook'[<<j, ev>>].acked <=> o = "ack"
  /\ \A x \in (Jobs \X Events) \ {<<j, ev>>} : hook'[x] = hook[x]
  /\ \/ timers' = timers
     \/ o # "ack" /\ n <= MaxRetries /\ timers' = timers \cup {Retry(j, ev, n)}

(* Called and Rescheduled do just that for an event not acknowledged. *)
LEMMA CalledSends ==
  ASSUME JobInv, NEW j \in Jobs, NEW ev \in Events, NEW o \in Outcomes, NEW n \in Nat,
         hook' = Called(j, ev, o), timers' = Rescheduled(j, ev, n + 1, o),
         hook[<<j, ev>>].calls = n, ~hook[<<j, ev>>].acked
  PROVE  Sends(j, ev, n + 1, o)
  <1> DEFINE a == (o = "ack")
  <1>1. <<j, ev>> \in Jobs \X Events /\ a \in BOOLEAN
    OBVIOUS
  <1>2. hook' = [hook EXCEPT ![<<j, ev>>] = [calls |-> n + 1, acked |-> a]]
    <2>1. (hook[<<j, ev>>].acked \/ o = "ack") = (o = "ack")
      OBVIOUS
    <2>2. QED
      BY <2>1 DEF Called
  <1>3. a <=> o = "ack"
    OBVIOUS
  <1> HIDE DEF a
  <1>4. /\ hook' \in [Jobs \X Events -> [calls : Nat, acked : BOOLEAN]]
        /\ hook'[<<j, ev>>].calls = n + 1 /\ hook'[<<j, ev>>].acked = a
        /\ \A x \in (Jobs \X Events) \ {<<j, ev>>} : hook'[x] = hook[x]
    <2>1. [calls |-> n + 1, acked |-> a] \in [calls : Nat, acked : BOOLEAN]
      <3>1. \A m \in Nat : m + 1 \in Nat
        OBVIOUS
      <3>2. n + 1 \in Nat
        BY <3>1, Zenon
      <3>3. QED
        BY <1>1, <3>2, Zenon
    <2>2. hook \in [Jobs \X Events -> [calls : Nat, acked : BOOLEAN]]
      BY Typed
    <2> DEFINE c == [calls |-> n + 1, acked |-> a]
    <2>3. c.calls = n + 1 /\ c.acked = a
      OBVIOUS
    <2> HIDE DEF c
    <2>4. hook' = [hook EXCEPT ![<<j, ev>>] = c]
      BY <1>2 DEF c
    <2>5. QED
      BY <1>1, <2>1, <2>2, <2>3, <2>4 DEF c
  <1>5. \/ timers' = timers
        \/ o # "ack" /\ n + 1 <= MaxRetries /\ timers' = timers \cup {Retry(j, ev, n + 1)}
    BY DEF Rescheduled, NeedsRetry, WithinLimit
  <1>6. QED
    BY <1>3, <1>4, <1>5 DEF Sends

(* A delivery is under way only of what has been sent, in one place each.  *)
LEMMA UnderWay ==
  ASSUME JobInv
  PROVE  /\ \A t \in timers : /\ t \in Retries /\ <<t.job, t.ev>> \in Jobs \X Events
                              /\ InTimers(t.job, t.ev) /\ hook[<<t.job, t.ev>>].calls > 0
         /\ \A k \in DOMAIN queue :
              queue[k].kind = "retry" =>
                /\ queue[k] \in Retries /\ <<queue[k].job, queue[k].ev>> \in Jobs \X Events
                /\ InQueue(queue[k].job, queue[k].ev)
                /\ hook[<<queue[k].job, queue[k].ev>>].calls > 0
         /\ \A w \in Workers :
              run[w].pc = "deliver" =>
                /\ run[w].e \in Retries /\ <<J(w), run[w].e.ev>> \in Jobs \X Events
                /\ InHand(J(w), run[w].e.ev) /\ hook[<<J(w), run[w].e.ev>>].calls > 0
  <1> USE JobAssumption DEF JobInv
  <1>1. ASSUME NEW r \in Retries, Counted(hook, r)
        PROVE  <<r.job, r.ev>> \in Jobs \X Events /\ hook[<<r.job, r.ev>>].calls > 0
    <2>1. r.job \in Jobs /\ r.ev \in Events /\ r.attempt > 0
      BY DEF Retries
    <2>2. QED
      BY <1>1, <2>1 DEF Counted
  <1>2. ASSUME NEW t \in timers
        PROVE  /\ t \in Retries /\ <<t.job, t.ev>> \in Jobs \X Events
               /\ InTimers(t.job, t.ev) /\ hook[<<t.job, t.ev>>].calls > 0
    BY <1>1, Typed DEF CountInv, InTimers
  <1>3. ASSUME NEW k \in DOMAIN queue, queue[k].kind = "retry"
        PROVE  /\ queue[k] \in Retries /\ <<queue[k].job, queue[k].ev>> \in Jobs \X Events
               /\ InQueue(queue[k].job, queue[k].ev)
               /\ hook[<<queue[k].job, queue[k].ev>>].calls > 0
    <2>1. queue[k] \in Retries /\ Counted(hook, queue[k])
      BY <1>3, Typed, EntryKinds DEF CountInv
    <2>2. QED
      BY <1>1, <1>3, <2>1 DEF InQueue
  <1>4. ASSUME NEW w \in Workers, run[w].pc = "deliver"
        PROVE  /\ run[w].e \in Retries /\ <<J(w), run[w].e.ev>> \in Jobs \X Events
               /\ InHand(J(w), run[w].e.ev) /\ hook[<<J(w), run[w].e.ev>>].calls > 0
    <2>1. run[w].e \in Retries /\ Counted(hook, run[w].e)
      BY <1>4, Typed DEF CountInv
    <2>2. QED
      BY <1>1, <1>4, <2>1 DEF InHand, J
  <1>5. QED
    BY <1>2, <1>3, <1>4

(* Sending keeps the count and the single delivery, if no other delivery   *)
(* of the event is under way and w ends its own.                           *)
LEMMA SendsKeep ==
  ASSUME JobInv, NEW w \in Workers, NEW j \in HookJobs, NEW ev \in Events,
         NEW n \in 1..MaxRetries + 1, NEW o \in Outcomes, Sends(j, ev, n, o),
         ~InTimers(j, ev), ~InQueue(j, ev), UNCHANGED queue,
         \A v \in Workers \ {w} : ~(run[v].pc = "deliver" /\ J(v) = j /\ run[v].e.ev = ev),
         run'[w].pc # "deliver", \A v \in Workers \ {w} : run'[v] = run[v]
  PROVE  CountInv' /\ SingleInv' /\ timers' \subseteq Retries
  <1> USE JobAssumption DEF JobInv
  <1> DEFINE r == Retry(j, ev, n)
  <1>1. /\ r.job = j /\ r.ev = ev /\ r.attempt = n
        /\ n <= MaxRetries => r \in Retries
    BY DEF Retry, Retries
  <1>2. <<j, ev>> \in Jobs \X Events
    OBVIOUS
  <1>3. \A t \in timers' : t \in timers \/ (t = r /\ o # "ack" /\ n <= MaxRetries)
    BY DEF Sends
  <1> HIDE DEF r
  <1>4. timers' \subseteq Retries
    BY <1>1, <1>3, Typed
  <1>5. ASSUME NEW x, Counted(hook, x), <<x.job, x.ev>> \in Jobs \X Events,
               ~(x.job = j /\ x.ev = ev)
        PROVE  Counted(hook', x)
    BY <1>5 DEF Counted, Sends
  <1>6. CountInv'
    <2>1. ASSUME NEW t \in timers' PROVE Counted(hook', t)
      <3>1. CASE t \in timers
        BY <1>5, <3>1, UnderWay DEF CountInv, InTimers
      <3>2. CASE t = r /\ o # "ack"
        BY <1>1, <3>2 DEF Counted, Sends
      <3>3. QED
        BY <1>3, <3>1, <3>2
    <2>2. ASSUME NEW k \in DOMAIN queue, queue[k].kind = "retry"
          PROVE  Counted(hook', queue[k])
      BY <1>5, <2>2, UnderWay DEF CountInv, InQueue
    <2>3. ASSUME NEW v \in Workers, run'[v].pc = "deliver" PROVE Counted(hook', run'[v].e)
      <3>1. /\ run'[v] = run[v] /\ Counted(hook, run[v].e)
            /\ ~(run[v].e.job = j /\ run[v].e.ev = ev)
        BY <2>3 DEF CountInv, J
      <3>2. <<run[v].e.job, run[v].e.ev>> \in Jobs \X Events
        BY <2>3, <3>1, UnderWay DEF J
      <3>3. QED
        BY <1>5, <3>1, <3>2
    <2>4. ASSUME NEW x \in Jobs \X Events
          PROVE  hook'[x].calls <= MaxRetries + 1 /\ (hook'[x].acked => hook'[x].calls > 0)
      <3>1. CASE x = <<j, ev>>
        <4>1. hook'[x].calls = n
          BY <3>1 DEF Sends
        <4>2. QED
          BY <4>1
      <3>2. CASE x # <<j, ev>>
        BY <3>2 DEF Sends, CountInv
      <3>3. QED
        BY <3>1, <3>2
    <2>5. QED
      BY <2>1, <2>2, <2>3, <2>4 DEF CountInv
  <1>7. SingleInv'
    <2>1. \A i \in Jobs, x \in Events :
            /\ InTimers(i, x)' => InTimers(i, x) \/ (i = j /\ x = ev)
            /\ InQueue(i, x)' => InQueue(i, x)
            /\ InHand(i, x)' => InHand(i, x) /\ ~(i = j /\ x = ev)
      BY <1>1, <1>3 DEF InTimers, InQueue, InHand, J
    <2>2. ASSUME NEW u \in Workers, NEW v \in Workers,
                 run'[u].pc = "deliver", run'[v].pc = "deliver",
                 J(u)' = J(v)', run'[u].e.ev = run'[v].e.ev
          PROVE  u = v
      BY <2>2 DEF SingleInv, J
    <2>3. QED
      BY <2>1, <2>2 DEF SingleInv
  <1>8. QED
    BY <1>4, <1>6, <1>7

(* The first request of an event: none has been sent before. *)
LEMMA CallWebhookKeeps ==
  ASSUME JobInv, NEW w \in Workers, CallWebhook(w)
  PROVE  JobInv'
  <1> USE JobAssumption DEF JobInv
  <1> DEFINE j == J(w)
             ev == EventOf(run[w].ok)
  <1>1. /\ run[w].pc = "hook" /\ j \in HookJobs /\ run[w].ok \in BOOLEAN
        /\ run[w].e \in Entries /\ run[w].e.kind = "exec" /\ Busy(w)
        /\ job[j].st \in {"started", "canceled"}
    BY Typed, InJobs DEF CallWebhook, At, Busy, RunRec, TypeInv, EntryOK, PlaceInv, J
  <1>2. RunTo(w, "finish", run[w].e, run[w].ok)
    BY <1>1, WorkerMoves DEF CallWebhook, RunPCs
  <1>3. ev \in Events /\ hook[<<j, ev>>].calls = 0
    BY <1>1 DEF EventOf, Events, FirstInv, FirstOK, J
  <1>4. PICK o \in Outcomes : hook' = Called(j, ev, o) /\ timers' = Rescheduled(j, ev, 1, o)
    BY DEF CallWebhook, EventOf
  <1>5. UNCHANGED <<job, queue, cancel, staged, auditq, arch, made, docs, faults>>
    BY DEF CallWebhook
  <1>6. \A v \in Workers \ {w} : Busy(v) => J(v) # j
    BY <1>1 DEF PlaceInv
  <1>7. run[w].ok => hook[<<j, "failed">>].calls = 0
    BY <1>1 DEF FirstInv, FirstOK, J
  <1>8. job[j].hit # "crash" => IF job[j].hit = "no" THEN Silent(hook, j) ELSE ~run[w].ok
    BY <1>1 DEF OutcomeInv, OutcomeOK, J
  <1> HIDE DEF j, ev
  <1>9. Sends(j, ev, 1, o)
    <2>1. <<j, ev>> \in Jobs \X Events /\ j \in Jobs
      BY <1>1, <1>3
    <2>2. ~hook[<<j, ev>>].acked
      <3>1. hook[<<j, ev>>].acked => hook[<<j, ev>>].calls > 0
        BY <2>1 DEF CountInv
      <3>2. ~(0 > 0)
        OBVIOUS
      <3>3. QED
        BY <1>3, <3>1, <3>2, Zenon
    <2>3. 1 = 0 + 1 /\ 0 \in Nat
      OBVIOUS
    <2>4. QED
      BY <1>3, <1>4, <2>1, <2>2, <2>3, CalledSends
  <1>10. ~InTimers(j, ev) /\ ~InQueue(j, ev) /\ ~InHand(j, ev)
    <2>1. ~(hook[<<j, ev>>].calls > 0)
      BY <1>3
    <2>2. QED
      BY <2>1, UnderWay, Zenon DEF InTimers, InQueue, InHand
  <1>11. CountInv' /\ SingleInv' /\ timers' \subseteq Retries
    <2>1. 1 \in 1..MaxRetries + 1
      OBVIOUS
    <2>2. /\ run'[w].pc # "deliver" /\ \A v \in Workers \ {w} : run'[v] = run[v]
          /\ \A v \in Workers \ {w} : ~(run[v].pc = "deliver" /\ J(v) = j /\ run[v].e.ev = ev)
      BY <1>2, <1>10 DEF RunTo, InHand
    <2>3. QED
      BY <1>1, <1>3, <1>5, <1>9, <1>10, <2>1, <2>2, SendsKeep
  <1>12. TypeInv'
    <2>1. \A v \in Workers : EntryOK(run'[v])
      BY <1>1, <1>2 DEF RunTo, TypeInv, EntryOK
    <2>2. QED
      BY <1>2, <1>5, <1>9, <1>11, <2>1, Typed, TypeKeeps DEF RunTo, Sends, TypeInv, TypeOK,
         Stages
  <1>13. PlaceInv' /\ FileInv'
    <2>1. PlaceInv'
      BY <1>1, <1>2, <1>5 DEF RunTo, PlaceInv, Busy, J
    <2>2. FileInv'
      BY <1>2, <1>5, FileKeeps DEF RunTo, InNeed, J
    <2>3. QED
      BY <2>1, <2>2
  <1>14. CancelInv'
    <2>1. ASSUME NEW v \in Workers PROVE CancelOK(job[J(v)'], run'[v])
      BY <1>1, <1>2 DEF RunTo, CancelInv, CancelOK, J
    <2>2. QED
      BY <1>5, <2>1 DEF CancelInv, CancelledRanOnlyIfRaced
  <1>15. \A i \in Jobs \ {j} :
           /\ Silent(hook, i) => Silent(hook', i)
           /\ \A ok \in BOOLEAN : \A hit :
                Announced(hook, i, ok, hit) => Announced(hook', i, ok, hit)
    BY <1>9 DEF Sends, Silent, Announced, EventOf, Events
  <1>16. FirstInv'
    <2>1. ASSUME NEW i \in Jobs, job[i].st \in {"none", "received", "queued"}
          PROVE  Silent(hook', i)
      BY <1>1, <1>15, <2>1 DEF FirstInv
    <2>2. ASSUME NEW v \in Workers \ {w} PROVE FirstOK(hook', run'[v])
      <3>1. CASE Busy(v)
        <4>1. run'[v] = run[v] /\ FirstOK(hook, run[v]) /\ J(v) \in Jobs \ {j}
          BY <1>2, <1>6, <3>1, InJobs DEF RunTo, FirstInv
        <4>2. \A x \in Events : hook'[<<J(v), x>>] = hook[<<J(v), x>>]
          BY <1>9, <4>1 DEF Sends
        <4>3. EventOf(run[v].ok) \in Events /\ "failed" \in Events
          BY DEF EventOf, Events
        <4>4. QED
          BY <1>15, <4>1, <4>2, <4>3 DEF FirstOK, J
      <3>2. CASE ~Busy(v)
        BY <1>2, <3>2 DEF RunTo, FirstOK, Busy
      <3>3. QED
        BY <3>1, <3>2
    <2>3. FirstOK(hook', run'[w])
      <3>1. run[w].ok => hook'[<<j, "failed">>].calls = 0
        BY <1>1, <1>3, <1>7, <1>9 DEF Sends, EventOf, Events, ev
      <3>2. QED
        BY <1>2, <3>1 DEF RunTo, FirstOK, J, j
    <2>4. QED
      BY <1>5, <2>1, <2>2, <2>3 DEF FirstInv
  <1>17. OutcomeInv'
    <2>1. ASSUME NEW i \in HookJobs, job[i].hit # "crash"
          PROVE  /\ job[i].st = "finished" => Announced(hook', i, TRUE, job[i].hit)
                 /\ job[i].st = "failed" => Announced(hook', i, FALSE, job[i].hit)
      BY <1>1, <1>15, <2>1 DEF OutcomeInv
    <2>2. ASSUME NEW v \in Workers \ {w} PROVE OutcomeOK(hook', job[J(v)'].hit, run'[v])
      <3>1. CASE Busy(v)
        <4>1. /\ run'[v] = run[v] /\ OutcomeOK(hook, job[J(v)].hit, run[v])
              /\ J(v) \in Jobs \ {j} /\ run[v].ok \in BOOLEAN
          BY <1>2, <1>6, <3>1, InJobs, Typed DEF RunTo, OutcomeInv, RunRec
        <4>2. QED
          BY <1>15, <4>1 DEF OutcomeOK, J
      <3>2. CASE ~Busy(v)
        BY <1>2, <3>2 DEF RunTo, OutcomeOK, Busy
      <3>3. QED
        BY <3>1, <3>2
    <2>3. OutcomeOK(hook', job[J(w)'].hit, run'[w])
      <3>1. ASSUME job[j].hit # "crash" PROVE Announced(hook', j, run[w].ok, job[j].hit)
        <4>1. hook'[<<j, ev>>].calls > 0
          <5>1. hook'[<<j, ev>>].calls = 1
            BY <1>9 DEF Sends
          <5>2. QED
            BY <5>1
        <4>2. \A x \in Events \ {ev} : hook'[<<j, x>>] = hook[<<j, x>>]
          BY <1>1, <1>9 DEF Sends
        <4>3. run[w].ok => hook'[<<j, "failed">>].calls = 0
          BY <1>7, <4>2 DEF ev, EventOf, Events
        <4>4. ~run[w].ok /\ job[j].hit # "late" => hook'[<<j, "completed">>].calls = 0
          <5>1. ASSUME ~run[w].ok, job[j].hit # "late" PROVE hook[<<j, "completed">>].calls = 0
            <6>1. job[j].hit = "no"
              BY <1>1, <3>1, <5>1, Typed DEF JobRec
            <6>2. QED
              BY <1>8, <6>1 DEF Silent, Events
          <5>2. QED
            BY <4>2, <5>1 DEF ev, EventOf, Events
        <4>5. QED
          BY <4>1, <4>3, <4>4 DEF Announced, ev
      <3>2. QED
        BY <1>2, <3>1 DEF RunTo, OutcomeOK, J, j
    <2>4. QED
      BY <1>5, <2>1, <2>2, <2>3 DEF OutcomeInv
  <1>18. QED
    BY <1>11, <1>12, <1>13, <1>14, <1>16, <1>17

(* A due retry moves from the schedule to the queue. *)
LEMMA TimerFiresKeeps ==
  ASSUME JobInv, NEW t \in timers, TimerFires(t)
  PROVE  JobInv'
  <1> USE JobAssumption DEF JobInv
  <1>1. /\ t \in Retries /\ t \in Entries /\ t.kind = "retry"
        /\ InTimers(t.job, t.ev) /\ t.job \in Jobs /\ t.ev \in Events
        /\ ~InQueue(t.job, t.ev) /\ ~InHand(t.job, t.ev)
    BY UnderWay DEF Entries, Retries, SingleInv
  <1>2. /\ queue' \in Seq(Entries) /\ DOMAIN queue' = 1..Len(queue) + 1
        /\ DOMAIN queue = 1..Len(queue) /\ Len(queue) \in Nat
        /\ \A k \in DOMAIN queue : queue'[k] = queue[k]
        /\ queue'[Len(queue) + 1] = t
    BY <1>1, Typed, AppendProps DEF TimerFires
  <1>3. /\ UNCHANGED <<job, run, cancel, staged, hook, auditq, arch, made, docs, faults>>
        /\ timers' = timers \ {t}
    BY DEF TimerFires
  <1>4. \A k \in DOMAIN queue' : k \in DOMAIN queue \/ (k = Len(queue) + 1 /\ queue'[k] = t)
    BY <1>2
  <1>5. TypeInv'
    BY <1>2, <1>3, Typed, TypeKeeps DEF TypeInv, TypeOK
  <1>6. PlaceInv' /\ FileInv'
    <2>1. PlaceInv'
      BY <1>1, <1>2, <1>3, <1>4 DEF PlaceInv, Busy, J
    <2>2. FileInv'
      BY <1>3, FileKeeps DEF InNeed, J
    <2>3. QED
      BY <2>1, <2>2
  <1>7. CancelInv' /\ FirstInv' /\ OutcomeInv'
    BY <1>3 DEF CancelInv, CancelledRanOnlyIfRaced, FirstInv, OutcomeInv, J
  <1>8. CountInv'
    BY <1>2, <1>3, <1>4 DEF CountInv
  <1>9. SingleInv'
    <2>1. ASSUME NEW i \in Jobs, NEW x \in Events
          PROVE  /\ InTimers(i, x)' => InTimers(i, x) /\ ~(i = t.job /\ x = t.ev)
                 /\ InQueue(i, x)' => InQueue(i, x) \/ (i = t.job /\ x = t.ev)
                 /\ InHand(i, x)' <=> InHand(i, x)
      <3>1. ASSUME NEW u \in timers, u.job = t.job, u.ev = t.ev PROVE u = t
        <4>1. u \in Retries /\ u.attempt = t.attempt
          BY <3>1, UnderWay DEF CountInv, Counted
        <4>2. QED
          BY <1>1, <3>1, <4>1 DEF Retries
      <3>2. QED
        BY <1>2, <1>3, <1>4, <3>1 DEF InTimers, InQueue, InHand, J
    <2>2. ASSUME NEW k \in DOMAIN queue', NEW l \in DOMAIN queue',
                 queue'[k].kind = "retry", queue'[l].kind = "retry",
                 queue'[k].job = queue'[l].job, queue'[k].ev = queue'[l].ev
          PROVE  k = l
      <3>1. \A i \in DOMAIN queue : queue[i].kind = "retry" =>
                                      ~(queue[i].job = t.job /\ queue[i].ev = t.ev)
        BY <1>1 DEF InQueue
      <3>2. QED
        BY <1>2, <1>4, <2>2, <3>1 DEF SingleInv
    <2>3. QED
      BY <1>1, <1>3, <2>1, <2>2 DEF SingleInv, J
  <1>10. QED
    BY <1>5, <1>6, <1>7, <1>8, <1>9

(* One more request of an event that has been sent before: what is silent  *)
(* and what is announced stays so.                                         *)
LEMMA DispatchWebhookKeeps ==
  ASSUME JobInv, NEW w \in Workers, DispatchWebhook(w)
  PROVE  JobInv'
  <1> USE JobAssumption DEF JobInv
  <1> DEFINE e == run[w].e
  <1>1. /\ run[w].pc = "deliver" /\ e \in Retries /\ J(w) = e.job
        /\ e.job \in HookJobs /\ e.ev \in Events /\ e.attempt \in 1..MaxRetries
    BY UnderWay DEF DispatchWebhook, At, Retries, J
  <1>2. /\ hook[<<e.job, e.ev>>].calls = e.attempt /\ ~hook[<<e.job, e.ev>>].acked
        /\ <<e.job, e.ev>> \in Jobs \X Events
    BY <1>1 DEF CountInv, Counted
  <1>3. PICK o \in Outcomes : /\ hook' = Called(e.job, e.ev, o)
                              /\ timers' = Rescheduled(e.job, e.ev, e.attempt + 1, o)
    BY DEF DispatchWebhook, NextAttempt
  <1>4. RunTo(w, "idle", None, FALSE)
    BY <1>1, WorkerMoves DEF DispatchWebhook
  <1>5. UNCHANGED <<job, queue, cancel, staged, auditq, arch, made, docs, faults>>
    BY DEF DispatchWebhook
  <1>6. /\ ~InTimers(e.job, e.ev) /\ ~InQueue(e.job, e.ev)
        /\ \A v \in Workers \ {w} :
             ~(run[v].pc = "deliver" /\ J(v) = e.job /\ run[v].e.ev = e.ev)
    BY <1>1, UnderWay DEF SingleInv
  <1> HIDE DEF e
  <1>7. Sends(e.job, e.ev, e.attempt + 1, o)
    <2>1. e.attempt \in Nat /\ e.job \in Jobs
      BY <1>1
    <2>2. QED
      BY <1>1, <1>2, <1>3, <2>1, CalledSends
  <1>8. CountInv' /\ SingleInv' /\ timers' \subseteq Retries
    <2>1. e.attempt + 1 \in 1..MaxRetries + 1
      BY <1>1
    <2>2. run'[w].pc # "deliver" /\ \A v \in Workers \ {w} : run'[v] = run[v]
      BY <1>4 DEF RunTo
    <2>3. QED
      BY <1>1, <1>5, <1>6, <1>7, <2>1, <2>2, SendsKeep
  <1>9. \A v \in Workers : run'[v].pc # "idle" => v # w /\ run'[v] = run[v]
    BY <1>4 DEF RunTo
  <1>10. TypeInv'
    <2>1. \A v \in Workers : EntryOK(run'[v])
      BY <1>4 DEF RunTo, TypeInv, EntryOK
    <2>2. QED
      BY <1>4, <1>5, <1>7, <1>8, <2>1, Typed, TypeKeeps DEF RunTo, Sends, TypeInv, TypeOK,
         Stages
  <1>11. PlaceInv' /\ FileInv'
    <2>1. PlaceInv'
      BY <1>5, <1>9 DEF PlaceInv, Busy, J
    <2>2. FileInv'
      BY <1>5, <1>9, FileKeeps DEF InNeed, J
    <2>3. QED
      BY <2>1, <2>2
  <1>12. CancelInv'
    <2>1. ASSUME NEW v \in Workers PROVE CancelOK(job[J(v)'], run'[v])
      BY <1>9 DEF CancelInv, CancelOK, J
    <2>2. QED
      BY <1>5, <2>1 DEF CancelInv, CancelledRanOnlyIfRaced
  <1>13. \A x \in Jobs \X Events : /\ hook[x].calls = 0 => hook'[x].calls = 0
                                   /\ hook'[x].calls > 0 <=> hook[x].calls > 0
    <2>1. ASSUME NEW x \in Jobs \X Events
          PROVE  /\ hook[x].calls = 0 => hook'[x].calls = 0
                 /\ hook'[x].calls > 0 <=> hook[x].calls > 0
      <3>1. CASE x = <<e.job, e.ev>>
        <4>1. hook'[x].calls = e.attempt + 1 /\ hook[x].calls = e.attempt
          BY <1>2, <1>7, <3>1 DEF Sends
        <4>2. QED
          BY <1>1, <4>1
      <3>2. CASE x # <<e.job, e.ev>>
        BY <1>7, <3>2 DEF Sends
      <3>3. QED
        BY <3>1, <3>2
    <2>2. QED
      BY <2>1
  <1>14. \A i \in Jobs : /\ Silent(hook, i) => Silent(hook', i)
                         /\ \A ok, hit : Announced(hook, i, ok, hit) =>
                                           Announced(hook', i, ok, hit)
    BY <1>13 DEF Silent, Announced, EventOf, Events
  <1>15. FirstInv'
    <2>1. ASSUME NEW v \in Workers PROVE FirstOK(hook', run'[v])
      <3>1. CASE Busy(v)
        <4>1. run'[v] = run[v] /\ FirstOK(hook, run[v]) /\ J(v) \in Jobs
          BY <1>1, <1>4, <3>1, InJobs DEF RunTo, FirstInv, Busy
        <4>2. EventOf(run[v].ok) \in Events /\ "failed" \in Events
          BY DEF EventOf, Events
        <4>3. QED
          BY <1>13, <1>14, <4>1, <4>2 DEF FirstOK, J
      <3>2. CASE ~Busy(v)
        BY <1>1, <1>4, <3>2 DEF RunTo, FirstOK, Busy
      <3>3. QED
        BY <3>1, <3>2
    <2>2. QED
      BY <1>5, <1>14, <2>1 DEF FirstInv
  <1>16. OutcomeInv'
    <2>1. ASSUME NEW v \in Workers PROVE OutcomeOK(hook', job[J(v)'].hit, run'[v])
      <3>1. CASE Busy(v)
        <4>1. /\ run'[v] = run[v] /\ OutcomeOK(hook, job[J(v)].hit, run[v])
              /\ J(v) \in Jobs
          BY <1>1, <1>4, <3>1, InJobs DEF RunTo, OutcomeInv, Busy
        <4>2. QED
          BY <1>14, <4>1 DEF OutcomeOK, J
      <3>2. CASE ~Busy(v)
        BY <1>1, <1>4, <3>2 DEF RunTo, OutcomeOK, Busy
      <3>3. QED
        BY <3>1, <3>2
    <2>2. QED
      BY <1>5, <1>14, <2>1 DEF OutcomeInv
  <1>17. QED
    BY <1>8, <1>10, <1>11, <1>12, <1>15, <1>16

-----------------------------------------------------------------------------
(* The staging area: a swept file is that of a job that is over. *)
LEMMA FileStepKeeps ==
  ASSUME JobInv, FileStep
  PROVE  JobInv'
  <1> USE JobAssumption DEF JobInv
  <1>1. PICK f \in Files : CleanupStaging(f)
    BY DEF FileStep
  <1>2. /\ UNCHANGED <<job, queue, run, cancel, timers, hook, auditq, arch, made, docs, faults>>
        /\ staged' \in [Files -> Stages]
        /\ \A g \in Files \ {f} : staged'[g] = staged[g]
    BY <1>1 DEF CleanupStaging, TypeInv, TypeOK, Stages
  <1>3. TypeInv'
    BY <1>2, Typed, TypeKeeps DEF TypeInv, TypeOK
  <1>4. FileInv'
    <2> SUFFICES ASSUME NEW j \in Uploads, InNeed(j)'
                 PROVE  \/ Present(FileOf[j])'
                        \/ staged'[FileOf[j]] = "cleaned" /\ \E k \in Jobs : Sharer(j, k)'
      BY DEF FileInv, StagedFilePresent
    <2>1. InNeed(j)
      BY <1>2 DEF InNeed, J
    <2>2. FileOf[j] # f
      BY <1>1, <2>1 DEF CleanupStaging, PastRetention, InNeed, Over, At
    <2>3. staged'[FileOf[j]] = staged[FileOf[j]] /\ job' = job
      BY <1>2, <2>2
    <2>4. QED
      BY <2>1, <2>3 DEF FileInv, StagedFilePresent, Present, Sharer
  <1>5. PlaceInv' /\ CancelInv' /\ FirstInv' /\ OutcomeInv'
    BY <1>2 DEF PlaceInv, CancelInv, CancelledRanOnlyIfRaced, FirstInv, OutcomeInv, Busy, J
  <1>6. CountInv' /\ SingleInv'
    BY <1>2 DEF CountInv, SingleInv, InTimers, InQueue, InHand, J
  <1>7. QED
    BY <1>3, <1>4, <1>5, <1>6

(* The archiver touches nothing that the invariant speaks of but types. *)
LEMMA ArchiveKeeps ==
  ASSUME JobInv, TypeInv',
         UNCHANGED <<job, queue, run, cancel, staged, timers, hook>>
  PROVE  JobInv'
  <1>1. FileInv'
    BY FileKeeps DEF InNeed, J
  <1>2. QED
    BY <1>1 DEF JobInv, PlaceInv, CancelInv, CancelledRanOnlyIfRaced, CountInv, SingleInv,
       InTimers, InQueue, InHand, FirstInv, OutcomeInv, Busy, J

(* The records an archiver and the collection hold. *)
LEMMA ArchStepTypes ==
  ASSUME JobInv, NEW a \in Archivers, ArchStep(a) \/ FetchFails(a) \/ MongoFails(a)
  PROVE  /\ auditq' \in Seq(Records) /\ made' \in Seq(Records) /\ docs' \subseteq DOMAIN made'
         /\ arch' \in [Archivers -> ArchRec] /\ faults' \in 0..MaxFaults
         /\ \A b \in Archivers : arch'[b].pc # "idle" => arch'[b].rec \in Records
         /\ UNCHANGED <<job, queue, run, cancel, staged, timers, hook>>
  <1>1. /\ auditq \in Seq(Records) /\ made \in Seq(Records) /\ docs \subseteq DOMAIN made
        /\ arch \in [Archivers -> ArchRec] /\ faults \in 0..MaxFaults
    BY DEF JobInv, TypeInv, TypeOK
  <1>2. arch[a] \in ArchRec /\ ArchIdle \in ArchRec
    BY <1>1 DEF ArchRec, ArchIdle
  <1>3. DOMAIN made = 1..Len(made) /\ DOMAIN made \subseteq Nat /\ Len(made) \in Nat
    BY <1>1, LenProperties
  <1>4. ASSUME ArchTake(a)
        PROVE  /\ auditq' \in Seq(Records) /\ arch' \in [Archivers -> ArchRec]
               /\ arch'[a].rec \in Records
    <2> DEFINE h == Head(auditq)
               r == [h EXCEPT !.st = job[h.job].st]
               d == [ArchIdle EXCEPT !.pc = "insert", !.rec = r]
    <2>1. Tail(auditq) \in Seq(Records) /\ h \in Records
      BY <1>1, <1>4, TailProps DEF ArchTake
    <2>2. job[h.job].st \in Statuses
      BY <2>1, Typed DEF Records, JobRec
    <2>3. r \in Records
      BY <2>1, <2>2 DEF Records
    <2>4. auditq' = Tail(auditq) /\ arch' = [arch EXCEPT ![a] = d]
      BY <1>4 DEF ArchTake
    <2> HIDE DEF r
    <2>5. d \in ArchRec /\ d.rec = r
      BY <2>3 DEF ArchIdle, ArchRec
    <2> HIDE DEF d
    <2>6. QED
      BY <1>1, <2>1, <2>3, <2>4, <2>5
  <1>5. ASSUME ArchInsert(a)
        PROVE  /\ made' \in Seq(Records) /\ docs' \subseteq DOMAIN made'
               /\ arch' \in [Archivers -> ArchRec]
    <2>1. CASE Duplicate(arch[a].rec.job)
      BY <1>1, <1>2, <1>5, <2>1 DEF ArchInsert
    <2>2. CASE ~Duplicate(arch[a].rec.job)
      <3>1. arch[a].rec \in Records
        BY <1>5 DEF JobInv, TypeInv, ArchInsert, ArchAt
      <3>2. /\ made' \in Seq(Records) /\ DOMAIN made' = 1..Len(made) + 1
            /\ docs' = docs \cup {Len(made) + 1}
        <4>1. made' = Append(made, arch[a].rec) /\ docs' = docs \cup {Len(made) + 1}
          BY <1>5, <2>2 DEF ArchInsert
        <4>2. QED
          BY <1>1, <3>1, <4>1, AppendProps
      <3>3. [arch[a] EXCEPT !.pc = "count"] \in ArchRec
        BY <1>2 DEF ArchRec
      <3>4. arch' \in [Archivers -> ArchRec]
        BY <1>1, <1>5, <2>2, <3>3 DEF ArchInsert
      <3>5. QED
        BY <1>1, <1>3, <3>2, <3>4
    <2>3. QED
      BY <2>1, <2>2
  <1>6. ASSUME ArchCount(a) PROVE arch' \in [Archivers -> ArchRec]
    <2> DEFINE over == Overage(Cardinality(docs))
    <2>1. CASE over <= 0
      BY <1>1, <1>2, <1>6, <2>1 DEF ArchCount
    <2>2. CASE ~(over <= 0)
      <3>1. Cardinality(docs) \in Nat
        <4>1. IsFiniteSet(1..Len(made))
          BY <1>3, FS_Interval
        <4>2. IsFiniteSet(docs)
          BY <1>1, <1>3, <4>1, FS_Subset
        <4>3. QED
          BY <4>2, FS_CardinalityType
      <3>2. MinOf(over, BatchSize) \in Nat
        BY <2>2, <3>1, JobAssumption DEF MinOf, Overage
      <3>3. [arch[a] EXCEPT !.pc = "find", !.n = MinOf(over, BatchSize)] \in ArchRec
        BY <1>2, <3>2 DEF ArchRec
      <3>4. QED
        BY <1>1, <1>6, <2>2, <3>3 DEF ArchCount
    <2>3. QED
      BY <2>1, <2>2
  <1>7. ASSUME ArchFind(a) PROVE arch' \in [Archivers -> ArchRec]
    <2>1. Oldest(arch[a].n) \in SUBSET Nat
      BY <1>1, <1>3 DEF Oldest
    <2>2. [arch[a] EXCEPT !.pc = "delete", !.ids = Oldest(arch[a].n)] \in ArchRec
      BY <1>2, <2>1 DEF ArchRec
    <2>3. QED
      BY <1>1, <1>7, <2>2 DEF ArchFind
  <1>8. ASSUME ArchDelete(a)
        PROVE  docs' \subseteq DOMAIN made /\ arch' \in [Archivers -> ArchRec]
    BY <1>1, <1>2, <1>8 DEF ArchDelete
  <1>9. ASSUME MongoFails(a)
        PROVE  faults' \in 0..MaxFaults /\ arch' \in [Archivers -> ArchRec]
    BY <1>1, <1>2, <1>9, JobAssumption DEF MongoFails, MayFail
  <1>12. ASSUME FetchFails(a)
         PROVE  /\ faults' \in 0..MaxFaults /\ auditq' \in Seq(Records)
                /\ UNCHANGED <<arch, made, docs>>
    BY <1>1, <1>12, TailProps, JobAssumption DEF FetchFails, MayFail
  <1>10. \A b \in Archivers : arch'[b].pc # "idle" => arch'[b].rec \in Records
    <2>1. \/ ArchTake(a) \/ FetchFails(a)
          \/ arch'[a] = ArchIdle
          \/ arch'[a].rec = arch[a].rec /\ ~ArchAt(a, "idle")
      <3>1. ArchRec = [pc : {"idle", "insert", "count", "find", "delete"},
                       rec : Records \cup {None}, n : Nat, ids : SUBSET Nat]
        BY DEF ArchRec
      <3>2. CASE ArchInsert(a)
        BY <1>1, <1>2, <3>1, <3>2 DEF ArchInsert, ArchAt
      <3>3. CASE ArchCount(a)
        BY <1>1, <1>2, <3>1, <3>3 DEF ArchCount, ArchAt
      <3>4. CASE ArchFind(a)
        BY <1>1, <1>2, <3>1, <3>4 DEF ArchFind, ArchAt
      <3>5. CASE ArchDelete(a) \/ MongoFails(a)
        BY <1>1, <1>2, <3>5 DEF ArchDelete, MongoFails
      <3>6. QED
        BY <3>2, <3>3, <3>4, <3>5 DEF ArchStep
    <2>2. \A b \in Archivers \ {a} : arch'[b] = arch[b]
      BY <1>1 DEF ArchStep, ArchTake, ArchInsert, ArchCount, ArchFind, ArchDelete, MongoFails,
         FetchFails
    <2>3. QED
      BY <1>4, <1>12, <2>1, <2>2 DEF JobInv, TypeInv, ArchAt, ArchIdle
  <1>11. QED
    BY <1>1, <1>4, <1>5, <1>6, <1>7, <1>8, <1>9, <1>10, <1>12
       DEF ArchStep, ArchTake, ArchInsert, ArchCount, ArchFind, ArchDelete, MongoFails,
           FetchFails

(* ... and so nothing of the rest is lost in a step of the archiver. *)
LEMMA ArchStepKeeps ==
  ASSUME JobInv, NEW a \in Archivers, ArchStep(a) \/ FetchFails(a) \/ MongoFails(a)
  PROVE  JobInv'
  <1>1. /\ arch' \in [Archivers -> ArchRec]
        /\ UNCHANGED <<job, queue, run, cancel, staged, timers, hook>>
    BY ArchStepTypes
  <1>2. \A b \in Archivers : arch'[b].pc \in {"idle", "insert", "count", "find", "delete"}
    BY <1>1 DEF ArchRec
  <1>3. TypeOK'
    BY <1>1, <1>2, ArchStepTypes DEF JobInv, TypeInv, TypeOK
  <1>4. TypeInv'
    BY <1>1, <1>3, ArchStepTypes DEF JobInv, TypeInv
  <1>5. QED
    BY <1>1, <1>4, ArchiveKeeps

(* At first nothing has been received. *)
LEMMA JobInit == Init => JobInv
  <1> SUFFICES ASSUME Init PROVE JobInv
    OBVIOUS
  <1> USE JobAssumption DEF Init
  <1>1. /\ \A j \in Jobs : job[j] = NewJob
        /\ \A w \in Workers : run[w] = Idle
        /\ \A a \in Archivers : arch[a] = ArchIdle
        /\ \A e \in Jobs \X Events : hook[e].calls = 0 /\ hook[e].acked = FALSE
        /\ queue = <<>> /\ DOMAIN queue = {} /\ timers = {} /\ cancel = None
    OBVIOUS
  <1>2. TypeInv
    <2>1. Idle \in RunRec /\ Idle.pc = "idle"
      BY DEF Idle, RunRec, RunPCs
    <2>2. ArchIdle \in ArchRec /\ ArchIdle.pc = "idle"
      BY DEF ArchIdle, ArchRec
    <2>3. NewJob \in [st : Statuses, runs : Nat, hit : {"no", "late", "crash"},
                      reported : BOOLEAN, raced : BOOLEAN]
      BY DEF NewJob, Statuses
    <2>4. [calls |-> 0, acked |-> FALSE] \in [calls : Nat, acked : BOOLEAN]
      OBVIOUS
    <2>5. /\ queue \in Seq(Entries) /\ auditq \in Seq(Records) /\ made \in Seq(Records)
          /\ docs \subseteq DOMAIN made /\ faults \in 0..MaxFaults
      OBVIOUS
    <2>6. TypeOK
      BY <1>1, <2>1, <2>2, <2>3, <2>4, <2>5 DEF TypeOK
    <2>7. QED
      BY <2>1, <2>2, <2>6 DEF TypeInv, EntryOK
  <1>3. PlaceInv /\ FileInv
    BY <1>1 DEF PlaceInv, FileInv, StagedFilePresent, InNeed, Busy, Idle, NewJob
  <1>4. CancelInv
    BY <1>1 DEF CancelInv, CancelledRanOnlyIfRaced, CancelOK, Idle, NewJob
  <1>5. CountInv
    BY <1>1 DEF CountInv, Idle
  <1>6. SingleInv
    BY <1>1 DEF SingleInv, InTimers, InQueue, InHand, Idle
  <1>7. FirstInv /\ OutcomeInv
    BY <1>1 DEF FirstInv, FirstOK, Silent, OutcomeInv, OutcomeOK, Idle, NewJob
  <1>8. QED
    BY <1>2, <1>3, <1>4, <1>5, <1>6, <1>7 DEF JobInv

(* Doing nothing. *)
LEMMA JobStutter == JobInv /\ UNCHANGED vars => JobInv'
  <1> SUFFICES ASSUME JobInv, UNCHANGED vars PROVE JobInv'
    OBVIOUS
  <1>1. UNCHANGED <<job, queue, run, cancel, staged, timers, hook>>
    BY DEF vars
  <1>2. TypeInv'
    BY DEF vars, JobInv, TypeInv, TypeOK, EntryOK
  <1>3. QED
    BY <1>1, <1>2, ArchiveKeeps

(* JobInv is inductive. *)
LEMMA JobInvariant == Spec => []JobInv
  <1>1. JobInv /\ [Next]_vars => JobInv'
    <2> SUFFICES ASSUME JobInv, [Next]_vars PROVE JobInv'
      OBVIOUS
    <2>1. ASSUME NEW j \in Jobs, Receive(j) \/ Expire(j) \/ CancelLook(j) PROVE JobInv'
      BY <2>1, ReceiveKeeps, ExpireKeeps, CancelLookKeeps
    <2>2. CASE CancelDo
      BY <2>2, CancelDoKeeps
    <2>3. CASE ManagerStep
      BY <2>3, RejectKeeps, SubmitKeeps DEF ManagerStep
    <2>4. ASSUME NEW w \in Workers, WorkerStep(w) PROVE JobInv'
      BY <2>4, TakeKeeps, RenderKeeps, DriveKeeps, CleanupKeeps, SaveErrorKeeps, AuditKeeps,
         CallWebhookKeeps, FinishKeeps, DispatchWebhookKeeps DEF WorkerStep
    <2>5. ASSUME NEW w \in Workers, CallbackTimesOut(w) \/ Crash(w) PROVE JobInv'
      BY <2>5, CallbackTimesOutKeeps, CrashKeeps
    <2>6. ASSUME NEW t \in timers, TimerFires(t) PROVE JobInv'
      BY <2>6, TimerFiresKeeps
    <2>7. ASSUME NEW a \in Archivers, ArchStep(a) \/ FetchFails(a) \/ MongoFails(a)
          PROVE  JobInv'
      BY <2>7, ArchStepKeeps
    <2>8. CASE FileStep
      BY <2>8, FileStepKeeps
    <2>9. CASE UNCHANGED vars
      BY <2>9, JobStutter
    <2>10. QED
      BY <2>1, <2>2, <2>3, <2>4, <2>5, <2>6, <2>7, <2>8, <2>9 DEF Next
  <1>2. QED
    BY <1>1, JobInit, PTL DEF Spec

-----------------------------------------------------------------------------
(* The theorems. *)

(* Jobs, the queue, the schedule, the deliveries and the collection keep   *)
(* their shape.                                                            *)
THEOREM JobsTypeCorrect == Spec => []TypeOK
  <1>1. JobInv => TypeOK
    BY DEF JobInv, TypeInv
  <1>2. QED
    BY <1>1, JobInvariant, PTL

(* No pass of the supervisor's _cleanup_staging, and no callback of a job  *)
(* that names another file, takes the file of a job before its driver is   *)
(* done.  The callback of a job that names the same one can.               *)
THEOREM StagedFilesArePresent == Spec => []StagedFilePresent
  <1>1. JobInv => StagedFilePresent
    BY DEF JobInv, FileInv
  <1>2. QED
    BY <1>1, JobInvariant, PTL

(* A job reaches its driver once at most, and one that cancel_job reported *)
(* as cancelled only if a worker took it during that call.                 *)
THEOREM CancelledJobsRunOnlyIfRaced == Spec => []CancelledRanOnlyIfRaced
  <1>1. JobInv => CancelledRanOnlyIfRaced
    BY DEF JobInv, CancelInv
  <1>2. QED
    BY <1>1, JobInvariant, PTL

(* Unless its process died, the receiver of a webhook is told the outcome  *)
(* that rq stores, and the opposite only by a success callback that timed  *)
(* out after it: the failure is stored then, and announced as well.        *)
THEOREM AnnouncementsAreOutcomes == Spec => []AnnouncedIsOutcome
  <1>1. JobInv => AnnouncedIsOutcome
    <2> SUFFICES ASSUME JobInv, NEW j \in HookJobs, job[j].hit # "crash"
                 PROVE  /\ job[j].st = "finished" =>
                             hook[<<j, "completed">>].calls > 0 /\ hook[<<j, "failed">>].calls = 0
                        /\ job[j].st = "failed" =>
                             /\ hook[<<j, "failed">>].calls > 0
                             /\ hook[<<j, "completed">>].calls > 0 => job[j].hit = "late"
      BY DEF AnnouncedIsOutcome
    <2>1. /\ job[j].st = "finished" => Announced(hook, j, TRUE, job[j].hit)
          /\ job[j].st = "failed" => Announced(hook, j, FALSE, job[j].hit)
      BY DEF JobInv, OutcomeInv
    <2>2. QED
      BY <2>1 DEF Announced, EventOf
  <1>2. QED
    BY <1>1, JobInvariant, PTL

(* Sets of at most one element. *)
LEMMA AtMostOne ==
  ASSUME NEW S, \A x, y \in S : x = y
  PROVE  Cardinality(S) \in {0, 1} /\ (S = {} => Cardinality(S) = 0)
  <1>1. CASE S = {}
    BY <1>1, FS_EmptySet
  <1>2. CASE S # {}
    <2>1. PICK x : S = {x}
      BY <1>2
    <2>2. QED
      BY <1>2, <2>1, FS_Singleton
  <1>3. QED
    BY <1>1, <1>2

(* However requests are lost or unheard and workers crash, an event is     *)
(* sent max_retries + 1 times at most, and one delivery of it at most is   *)
(* scheduled, queued or in the hands of a worker.                          *)
THEOREM RetriesAreBounded == Spec => []RetriesBounded
  <1>1. JobInv => RetriesBounded
    <2> SUFFICES ASSUME JobInv, NEW j \in Jobs, NEW ev \in Events
                 PROVE  hook[<<j, ev>>].calls <= MaxRetries + 1 /\ Pending(j, ev) <= 1
      BY DEF RetriesBounded
    <2> DEFINE T == {t \in timers : t.job = j /\ t.ev = ev}
               Q == {k \in DOMAIN queue : /\ queue[k].kind = "retry"
                                          /\ queue[k].job = j /\ queue[k].ev = ev}
               H == {w \in Workers : At(w, "deliver") /\ J(w) = j /\ run[w].e.ev = ev}
    <2>1. hook[<<j, ev>>].calls <= MaxRetries + 1
      BY DEF JobInv, CountInv
    <2>2. \A x, y \in T : x = y
      <3> SUFFICES ASSUME NEW x \in T, NEW y \in T PROVE x = y
        OBVIOUS
      <3>1. x \in Retries /\ y \in Retries /\ x.attempt = y.attempt
        BY UnderWay DEF JobInv, CountInv, Counted
      <3>2. QED
        BY <3>1 DEF Retries
    <2>3. \A x, y \in Q : x = y
      BY DEF JobInv, SingleInv
    <2>4. \A x, y \in H : x = y
      BY DEF JobInv, SingleInv, At
    <2>5. (T = {} /\ Q = {}) \/ (T = {} /\ H = {}) \/ (Q = {} /\ H = {})
      <3>1. /\ T # {} => InTimers(j, ev)
            /\ Q # {} => InQueue(j, ev)
            /\ H # {} => InHand(j, ev)
        BY DEF InTimers, InQueue, InHand, At
      <3>2. QED
        BY <3>1 DEF JobInv, SingleInv
    <2>6. Pending(j, ev) = Cardinality(T) + Cardinality(Q) + Cardinality(H)
      BY DEF Pending
    <2> HIDE DEF T, Q, H
    <2>7. /\ Cardinality(T) \in {0, 1} /\ (T = {} => Cardinality(T) = 0)
          /\ Cardinality(Q) \in {0, 1} /\ (Q = {} => Cardinality(Q) = 0)
          /\ Cardinality(H) \in {0, 1} /\ (H = {} => Cardinality(H) = 0)
      BY <2>2, <2>3, <2>4, AtMostOne
    <2>8. QED
      BY <2>1, <2>5, <2>6, <2>7
  <1>2. QED
    BY <1>1, JobInvariant, PTL

(* An event that was acknowledged is not sent again: neither by the job's  *)
(* own callback, nor by a retry that was scheduled before the answer.      *)
THEOREM NoResends == Spec => NoResendAfterAck
  <1>1. JobInv /\ [Next]_vars =>
          [\A e \in DOMAIN hook : hook[e].acked => hook'[e].calls = hook[e].calls]_vars
    <2> SUFFICES ASSUME JobInv, Next, NEW e \in DOMAIN hook, hook[e].acked
                 PROVE  hook'[e].calls = hook[e].calls
      OBVIOUS
    <2>1. hook \in [Jobs \X Events -> [calls : Nat, acked : BOOLEAN]] /\ e \in Jobs \X Events
      BY Typed
    <2>2. ASSUME NEW w \in Workers, CallWebhook(w) PROVE hook'[e] = hook[e]
      <3> DEFINE ev == EventOf(run[w].ok)
      <3>1. hook[<<J(w), ev>>].calls = 0 /\ <<J(w), ev>> \in Jobs \X Events
        BY <2>2, InJobs DEF CallWebhook, At, EventOf, Events, JobInv, FirstInv, FirstOK, J
      <3>2. hook[e].calls > 0
        BY <2>1 DEF JobInv, CountInv
      <3>3. e # <<J(w), ev>>
        BY <3>1, <3>2
      <3>4. PICK o \in Outcomes : hook' = Called(J(w), ev, o)
        BY <2>2 DEF CallWebhook, EventOf
      <3>5. QED
        BY <2>1, <3>3, <3>4 DEF Called
    <2>3. ASSUME NEW w \in Workers, DispatchWebhook(w) PROVE hook'[e] = hook[e]
      <3>1. ~hook[<<run[w].e.job, run[w].e.ev>>].acked
        BY <2>3 DEF DispatchWebhook, At, JobInv, CountInv, Counted
      <3>2. e # <<run[w].e.job, run[w].e.ev>>
        BY <3>1
      <3>3. PICK o \in Outcomes : hook' = Called(run[w].e.job, run[w].e.ev, o)
        BY <2>3 DEF DispatchWebhook
      <3>4. QED
        BY <2>1, <3>2, <3>3 DEF Called
    <2>4. \/ hook' = hook
          \/ \E w \in Workers : CallWebhook(w) \/ DispatchWebhook(w)
      BY DEF Next, Receive, Expire, CancelLook, CancelDo, ManagerStep, Reject, Submit,
         WorkerStep, Take, Render, Drive, Cleanup, SaveError, Audit, Finish,
         CallbackTimesOut, Crash, TimerFires, ArchStep, ArchTake, ArchInsert, ArchCount,
         ArchFind, ArchDelete, FetchFails, MongoFails, FileStep, CleanupStaging
    <2>5. QED
      BY <2>2, <2>3, <2>4
  <1>2. QED
    BY <1>1, JobInvariant, PTL DEF Spec, NoResendAfterAck

-----------------------------------------------------------------------------
(* The archive, kept by one archiver. *)

(* The collection is finite. *)
LEMMA DocsFinite ==
  ASSUME JobInv
  PROVE  IsFiniteSet(docs) /\ Cardinality(docs) \in Nat
  <1>1. docs \subseteq 1..Len(made) /\ Len(made) \in Nat
    BY LenProperties DEF JobInv, TypeInv, TypeOK
  <1>2. IsFiniteSet(1..Len(made))
    BY <1>1, FS_Interval
  <1>3. IsFiniteSet(docs)
    BY <1>1, <1>2, FS_Subset
  <1>4. QED
    BY <1>3, FS_CardinalityType

(* What exceeds MaxDocs are never the newest records. *)
LEMMA OldestSpares ==
  ASSUME JobInv, NEW n \in Nat, n <= Cardinality(docs) - MaxDocs,
         NEW i \in DOMAIN made, i > Len(made) - MaxDocs
  PROVE  i \notin Oldest(n)
  <1> DEFINE A == {k \in docs : k < i}
             B == {k \in docs : k >= i}
  <1> USE JobAssumption
  <1>1. /\ docs \subseteq 1..Len(made) /\ Len(made) \in Nat /\ i \in 1..Len(made)
    BY LenProperties DEF JobInv, TypeInv, TypeOK
  <1>2. IsFiniteSet(docs) /\ docs \subseteq Int /\ i \in Int
    BY <1>1, DocsFinite
  <1>3. IsFiniteSet(A) /\ IsFiniteSet(B)
    BY <1>2, FS_Subset
  <1>4. Cardinality(B) <= Len(made) - i + 1
    <2>1. IsFiniteSet(i..Len(made)) /\ Cardinality(i..Len(made)) = Len(made) - i + 1
      <3>1. i \in Int /\ Len(made) \in Int /\ ~(i > Len(made))
        BY <1>1
      <3>2. /\ IsFiniteSet(i..Len(made))
            /\ Cardinality(i..Len(made)) = IF i > Len(made) THEN 0 ELSE Len(made) - i + 1
        BY <3>1, FS_Interval
      <3>3. QED
        BY ONLY <3>1, <3>2
    <2>2. ASSUME NEW k \in B PROVE k \in i..Len(made)
      BY <1>1
    <2> HIDE DEF B
    <2>3. QED
      BY <2>1, <2>2, FS_Subset
  <1>5. A \cup B = docs /\ A \cap B = {}
    <2>1. \A k \in docs : k \in Int
      BY <1>1
    <2>2. \A k \in docs : k < i <=> ~(k >= i)
      BY <1>2, <2>1
    <2>3. QED
      BY <2>2, Zenon
  <1> HIDE DEF A, B
  <1>6. Cardinality(docs) = Cardinality(A) + Cardinality(B) - Cardinality({})
    BY <1>3, <1>5, FS_Union
  <1>7. /\ Cardinality({}) = 0 /\ Cardinality(A) \in Nat /\ Cardinality(B) \in Nat
    BY <1>3, FS_EmptySet, FS_CardinalityType
  <1>8. ~(Cardinality(A) < n)
    BY <1>1, <1>4, <1>6, <1>7
  <1>9. QED
    BY <1>8 DEF Oldest, A

(* The steps of the only archiver. *)
LEMMA ArchiveInvKept ==
  ASSUME \A a, b \in Archivers : a = b, JobInv, JobInv', ArchiveInv, [Next]_vars
  PROVE  ArchiveInv'
  <1> USE JobAssumption
  <1>1. /\ arch \in [Archivers -> ArchRec] /\ docs \subseteq 1..Len(made)
        /\ made \in Seq(Records) /\ DOMAIN made = 1..Len(made) /\ Len(made) \in Nat
    <2>1. made \in Seq(Records) /\ docs \subseteq DOMAIN made /\ arch \in [Archivers -> ArchRec]
      BY DEF JobInv, TypeInv, TypeOK
    <2>2. QED
      BY <2>1, LenProperties
  <1>2. CASE UNCHANGED <<arch, made, docs>>
    BY <1>2 DEF ArchiveInv, NewestKept
  <1>3. ASSUME NEW a \in Archivers, ArchStep(a) \/ FetchFails(a) \/ MongoFails(a) PROVE ArchiveInv'
    <2>1. \A b \in Archivers : b = a
      OBVIOUS
    <2>2. /\ arch[a] \in ArchRec
          /\ ArchRec = [pc : {"idle", "insert", "count", "find", "delete"},
                        rec : Records \cup {None}, n : Nat, ids : SUBSET Nat]
      BY <1>1 DEF ArchRec
    <2>3. CASE ArchTake(a) \/ MongoFails(a)
      <3>1. UNCHANGED <<made, docs>> /\ arch'[a].pc \in {"idle", "insert"}
        <4>1. /\ ArchIdle.pc = "idle"
              /\ \A r : [ArchIdle EXCEPT !.pc = "insert", !.rec = r].pc = "insert"
          BY DEF ArchIdle
        <4>2. CASE ArchTake(a)
          BY <1>1, <4>1, <4>2 DEF ArchTake
        <4>3. CASE MongoFails(a)
          BY <1>1, <4>1, <4>3 DEF MongoFails
        <4>4. QED
          BY <2>3, <4>2, <4>3
      <3>2. QED
        BY <2>1, <3>1 DEF ArchiveInv, NewestKept
    <2>4. CASE ArchInsert(a)
      <3>1. arch'[a].pc \in {"idle", "count"}
        BY <1>1, <2>2, <2>4 DEF ArchInsert, ArchIdle
      <3>2. NewestKept'
        <4>1. CASE UNCHANGED <<made, docs>>
          BY <4>1 DEF ArchiveInv, NewestKept
        <4>2. CASE made' = Append(made, arch[a].rec) /\ docs' = docs \cup {Len(made) + 1}
          <5>1. arch[a].rec \in Records
            BY <2>4 DEF JobInv, TypeInv, ArchInsert, ArchAt
          <5>2. Len(made') = Len(made) + 1 /\ DOMAIN made' = 1..Len(made) + 1
            BY <1>1, <4>2, <5>1, AppendProperties, AppendProps
          <5>3. QED
            BY <1>1, <4>2, <5>2 DEF ArchiveInv, NewestKept
        <4>3. QED
          BY <2>4, <4>1, <4>2 DEF ArchInsert
      <3>3. QED
        BY <2>1, <3>1, <3>2 DEF ArchiveInv
    <2>5. CASE ArchCount(a)
      <3> DEFINE over == Overage(Cardinality(docs))
      <3>1. UNCHANGED <<made, docs>>
        BY <2>5 DEF ArchCount
      <3>2. CASE over <= 0
        <4>1. arch'[a].pc = "idle"
          BY <1>1, <2>5, <3>2 DEF ArchCount, ArchIdle
        <4>2. QED
          BY <2>1, <3>1, <4>1 DEF ArchiveInv, NewestKept
      <3>3. CASE ~(over <= 0)
        <4>1. arch'[a].pc = "find" /\ arch'[a].n = MinOf(over, BatchSize)
          BY <1>1, <2>2, <2>5, <3>3 DEF ArchCount
        <4>2. Cardinality(docs) \in Nat
          BY DocsFinite
        <4>3. arch'[a].n <= Cardinality(docs) - MaxDocs
          BY <4>1, <4>2 DEF MinOf, Overage
        <4>4. QED
          BY <2>1, <3>1, <4>1, <4>3 DEF ArchiveInv, NewestKept
      <3>4. QED
        BY <3>2, <3>3
    <2>6. CASE ArchFind(a)
      <3>1. /\ UNCHANGED <<made, docs>> /\ arch[a].pc = "find" /\ arch[a].n \in Nat
            /\ arch'[a].pc = "delete" /\ arch'[a].ids = Oldest(arch[a].n)
        BY <1>1, <2>2, <2>6 DEF ArchFind, ArchAt
      <3>2. ASSUME NEW i \in DOMAIN made, i > Len(made) - MaxDocs
            PROVE  i \notin Oldest(arch[a].n)
        BY <3>1, <3>2, OldestSpares DEF ArchiveInv
      <3>3. QED
        BY <2>1, <3>1, <3>2 DEF ArchiveInv, NewestKept
    <2>7. CASE ArchDelete(a)
      <3>1. /\ made' = made /\ docs' = docs \ arch[a].ids /\ arch[a].pc = "delete"
            /\ arch'[a].pc = "idle"
        BY <1>1, <2>7 DEF ArchDelete, ArchAt, ArchIdle
      <3>2. QED
        BY <2>1, <3>1 DEF ArchiveInv, NewestKept
    <2>9. CASE FetchFails(a)
      BY <2>9 DEF FetchFails, ArchiveInv, NewestKept
    <2>8. QED
      BY <1>3, <2>9, <2>3, <2>4, <2>5, <2>6, <2>7 DEF ArchStep
  <1>4. \/ UNCHANGED <<arch, made, docs>>
        \/ \E a \in Archivers : ArchStep(a) \/ FetchFails(a) \/ MongoFails(a)
    BY DEF vars, Next, Receive, Expire, CancelLook, CancelDo, ManagerStep, Reject, Submit,
       WorkerStep, Take, Render, Drive, Cleanup, SaveError, Audit, Finish, CallWebhook,
       DispatchWebhook, CallbackTimesOut, Crash, TimerFires, FileStep, CleanupStaging
  <1>5. QED
    BY <1>2, <1>3, <1>4

(* With one archiver, _prune_collection_by_count never deletes one of the  *)
(* newest MaxDocs records, wherever the database fails between its count,  *)
(* its find and its delete.  Two archivers that count before either        *)
(* deletes remove too much, so the hypothesis cannot be dropped.           *)
THEOREM NewestRecordsAreKept ==
  ASSUME \A a, b \in Archivers : a = b
  PROVE  Spec => []NewestKept
  <1>1. Init => ArchiveInv
    BY DEF Init, ArchiveInv, NewestKept, ArchIdle
  <1>2. JobInv /\ JobInv' /\ ArchiveInv /\ [Next]_vars => ArchiveInv'
    BY ArchiveInvKept
  <1>3. ArchiveInv => NewestKept
    BY DEF ArchiveInv
  <1>4. QED
    BY <1>1, <1>2, <1>3, JobInvariant, PTL DEF Spec
=============================================================================
