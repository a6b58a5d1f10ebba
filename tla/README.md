# TLA+ models of Linux-NetX

Linux-NetX runs commands on network devices and Linux hosts for API clients. An
HTTP controller accepts a request, puts a job on a Redis queue (rq), and a worker
process runs it through a driver plugin. For devices that must be spoken to
serially over one persistent connection the worker is *pinned*: one process per
device, forked and looked after by a *node worker* (one per container). Which node
owns which device, and how many pinned workers each node has, is kept in two Redis
hashes that controllers and node workers read and write without transactions.

This directory models that machinery. All line references are in `PROJECT.json`
("map").

## Inventory

| Component | State | Operations | Hard behaviour |
|---|---|---|---|
| Node worker `worker/node.py` | `_pid_to_host_map`, `signaled`; in Redis `host_to_node_map` (device locks), `node_info_map` (count, capacity) | `listen`, `add`, `remove`/`_remove`, `cleanup`, SIGCHLD/SIGTERM handlers | restarts that sweep the last incarnation's data; signals between any two instructions; jobs that outlive the process |
| Pinned worker `worker/pinned.py` | its rq registration, the job it runs | `listen` | dying, being told to stop, not being registered yet |
| Dispatcher `services/manager.py` | nothing but locals; optimistic reads of the hashes | `dispatch_rpc_job`, `_force_delete_node`, `_try_launch_pinned_worker`, `_send_job`, `cancel_job` | several controllers at once; heartbeats that are late; everything read may be stale when used |
| Bulk dispatch `services/manager.py`, `routes/device.py` | locals; one snapshot of both hashes per request | `execute_on_bulk_devices`, `dispatch_bulk_rpc_jobs` | nodes that die or fill up between snapshot and launch; part of a batch failing; one device listed twice |
| FIFO worker `worker/fifo.py`, `services/rpc.py` | the job it runs | `execute`, the success and failure callbacks | crashes, timeouts, jobs cancelled while they are taken |
| Staging `routes/storage.py`, `supervisor.py` | uploaded files | stage, remove after the job, sweep | files of jobs that never ran or never reached their callback |
| Schedulers `plugins/schedulers` | none | `node_select`, `batch_node_select` | capacity arithmetic, no candidates |
| Detached tasks `services/rediz.py`, `supervisor.py`, `rpc.py`, `manager.py` | a Redis hash of task records; a supervisor lock with a ttl | register, query, kill, discover, supervise | read-modify-write by worker, controller and supervisor; a lock that expires while its holder works |
| Webhooks and job callbacks `services/rpc.py` | retry counter | `dispatch_webhook`, success and failure callbacks | retries, one callback failing inside the other |
| Audit log and archiver `services/audit.py`, `worker/archiver.py` | Redis list, Mongo collections | push, archive, prune | lost or doubled records |
| Driver sessions `plugins/drivers` | the persisted connection, a monitor thread | connect, send, disconnect, keepalive | thread and job racing for one connection |
| File transfer `paramiko` | remote size, offset | upload, download with resume | interrupted transfer |
| Vault cache `plugins/credentials` | two cache levels | read secret | stale secrets |
| Native agent `linux_net_agent` | none between requests | run, list processes | timeouts, partial reads |
| Routes, CLI, configuration | none | translation | - |

What makes the core correct: a device is served by one process at a time; a node
never runs more pinned workers than `pinned_per_node`; a lock is never taken away
from a live owner by somebody who mistook it for dead; slots and locks come back
when a worker dies; a request ends, and a job that was accepted is run. Around it:
a batch accounts for every device; a job runs on a session of its own device that
nobody else writes to, reports what happened there, and announces and records its
outcome once; a file that was transferred equals its source.

## Modules

The pool of pinned workers:

* `PoolState` - constants, variables and the helpers all parts share: Redis
  hashes, rq queues and registrations, process locals.
* `NodeWorker` - `node.py`. One action per step another process can observe: a
  Redis pipeline or command, the fork, the write of the pid map.
  `ListenScan/Reap/Register/Birth` is `listen`; `Add*` is `add` with each of its
  returns and exceptions; `Sigchld` is `sigchld_handler` with `remove`;
  `RemoveTake/RemoveCommit` is `_remove`; `NodeSignal`, `NodeSignalEarly` are the
  SIGTERM handler with and without an rq worker to stop; `CleanupMaps/Workers`,
  `NodeExit` are the way out. `NodeCrash` kills the container.
* `PinnedWorker` - `pinned.py` under rq's `SimpleWorker`.
* `Dispatcher` - `dispatch_rpc_job` for the PINNED strategy, one action per Redis
  round trip, the forced delete of a node that looks dead included.
* `PinnedPool` - composes the three, with the properties.
* `PinnedPoolProof`, `PinnedPoolLockProof`, `PinnedPoolSerialProof` - the theorems
  about it.

Bulk requests:

* `Schedulers` - `batch_node_select` of the four plugins as operators: the set of
  assignments each may return for a snapshot.
* `BulkDispatch` - one bulk request: the route's expansion of the devices, the two
  snapshots, the scheduler, one launch per node, the pipeline of jobs, and every way
  one of these fails.
* `BulkDispatchProof` - the theorems about both.

Detached tasks:

* `TaskState`, `TaskWorker`, `TaskManager`, `Supervisor`, `DetachedTasks` - the
  registry of detached tasks and everybody who rewrites its records: the pinned
  worker (`manage_detached_task`, the detached branch of `execute`, the registry
  part of `rpc_webhook_callback`, with what the paramiko driver finds on the
  host), API threads (`execute_on_device`, query, kill, clear, discover) and the
  supervisors. One action per Redis or remote command whose result is used.
* `TaskLife` - what the registry promises: a lagging view of a task's life that
  never calls a live process completed and forgets only what does not run, until a
  kill has been carried out, which is not known to have ended the process.
* `DetachedTasksProof` - the theorems, the refinement of `TaskLife` included.

A job on its way:

* `JobState`, `JobRun` - the route that stages a file, submission, expiry,
  `cancel_job`, a FIFO worker that renders, drives and runs the callbacks in the
  order of `rpc_webhook_callback`, and the sweep of the staging directory.
* `WebhookDelivery` - the delivery of an event and its repetition through rq's
  schedule. `Archiver` - `process_audit_log` and `_prune_collection_by_count`.
* `Jobs` - composes them, with the properties. `JobsProof` - the theorems.

The drivers:

* `DeviceSession` - the class attributes both SSH drivers keep their persistent
  session in, the main thread (`connect`, a job, `disconnect`) and the keepalive
  monitors, which share a lock and a stop event with it. Where the drivers differ
  (locks, comparison of arguments, health checks) the variable `driver` decides.
* `DeviceState`, `DeviceLines`, `FileTransfer`, `DeviceJob` - what a job does on its
  session: commands, configuration with fail-fast, commit and save, scripts,
  interactive commands, uploads and downloads with resume, hash and execution after
  the upload.
* `DeviceSessionProof`, `DeviceJobProof` - the theorems.

`MCPinnedPool`, `MCBulkDispatch`, `MCDetachedTasks`, `MCJobs`, `MCDeviceSession` and
`MCDeviceJob` are the instances TLC runs. A definition whose comment says "Mutant"
is a deliberately wrong form of the one that follows it; no specification uses it.

### Abstractions

The pool. A job is its request; arguments, results and formatting are left
out. A registration with rq is "up" (fresh heartbeat), "late" or "none", which is
all `_check_worker_alive` distinguishes. The scheduler plugin is "some registered
node with room", which every plugin refines (they differ in which). A loop over
independent devices (sending shutdown commands, declaring workers dead) is one
step. Pids are handed out in increasing order and start again when the container
restarts. Redis itself does not fail.

`exposed` is bookkeeping: the devices whose lock somebody other than the tracking
node set out to delete - a restart sweep, `_force_delete_node`, or a remove job
that names another device than the one tracked under its pid. For those devices
exclusive ownership is not guaranteed by the code and not claimed by the model.

Bulk requests. The pool is what the dispatch sees of it: node infos, heartbeats and
locks, which change under it; a forced delete removes them, its shutdown commands
are left to `PinnedPool`. Weights and noise of the random plugins are a free choice.
The room of some nodes is the number of their free places, which is the sum the code
computes because no node is over its capacity. A sort is "the list that is sorted".

Detached tasks: all tasks are on one host, so their jobs pass through one pinned
worker, which is what the pool guarantees (`SerialPerHost`) and what
`infer_defaults` selects for `detach`. A record is its status, its offset and
whether it is older than the threshold at which the supervisor purges it; a push
interval is a set of tasks each supervisor dispatched recently, emptied when time
passes. A log is its length. Left out: an offset given by the client, log
rotation, the audit record that `register` enqueues. `kill_task` ignores the status
of kill, which it runs without the sudo the task may have been launched with, then
removes the pid file and reports success: a killed process has ended or is "loose",
that is, it runs where nobody looks for it any more. `readlog` and `announced` are
history.

Jobs. A delivery is acknowledged, processed without the sender hearing of it, or
lost. Jobs may name the same staged file, as those of a bulk request do; one of them
brings it, and the first callback of any removes it. A file is past its retention
only after the job that brought it is over: 24 h exceed ttl and timeout with their
defaults. An audit record is the result the callback passed on and the status the
archiver read. `runs`, `hit`, `reported` and `raced` are history: how often the
driver was called, whether the process died ("crash") or the success callback timed
out ("late"), and whether `cancel_job` reported the job cancelled and a worker had
taken it meanwhile.

Drivers. A session is open, answering but dead ("zombie"), lost or closed. A
command or configuration line is what it changes on the device; whether it fails,
and whether netmiko recognises the refusal (`unseen` remembers the lines where it
did not), is a free choice. The modes of a session are configuration and enable. A file is a sequence of chunks, a directory a sequence of files;
source and destination change sides with the direction. `foreign` marks
destinations that existed before and never came from this source.

External behaviour (rq, the operating system, Redis expiry, the SSH libraries) is
taken from how the
code uses it: a worker name is refused while it is registered; `SimpleWorker` runs
jobs in process and stops between jobs; a shutdown command reaches registered
workers only; `sys.exit` inside a job may or may not end the rq loop; rq installs
its own SIGTERM handler in `work()`, so the flag `signaled` may stay unset until
`cleanup`; multiprocessing joins children at exit; registrations without a process
age and expire; a queued job expires after its ttl; `enqueue_in` writes a schedule
that only a worker started with a scheduler reads; `job.cancel()` sets the status
whatever it is by then.

## Runs

| Run | Instance | Shows |
|---|---|---|
| `pool_locks` | 2 nodes, 1 device, 2 requests, cold start, all node and child faults, 1 fault, symmetric nodes | `TypeOK`, `OwnerHoldsLock`, `OneTrackerPerHost`, `NoLockStealing` |
| `pool_serial` | 2 nodes, 2 devices, 3 requests, child faults | `SerialPerHost`, `LiveChildTracked` |
| `pool_live` | 1 node, 2 devices, 2 requests, cold start, 1 fault, fair | `CountMatches`, `CapacityRespected`, `DispatchEnds`, `DeadChildForgotten` |
| `bulk` | 2 nodes of capacity 1 or 2, 3 devices, batches of three devices and with one listed twice, 4 plugins, 2 faults | `Accounted`, `QueuedIsLaunched`, `WithinSnapshot`, `NoFailureWithoutCause`, `LeastLoadedFirst` |
| `tasks_view` | 1 task with push and webhook, 2 calls (query, kill), 1 supervisor | `TypeOK`, `CompletedIsOver`, `AnnouncedIsOver`, `RegistryIsView` (refinement of `TaskLife`) |
| `tasks_forgotten` | 1 task, 1 call of any kind, 1 fault, fair | `EndedTaskForgotten` |
| `tasks_push` | 1 task with push and webhook, 2 supervisors whose lock may expire under them, no calls, fair | `CompletionAnnounced` |
| `jobs` | 2 jobs that name one staged file (one brings it, the other has a webhook), 1 worker, 1 archiver, 1 retry, a collection of 1 record, 1 fault, rq's scheduler running, fair | `StagedFilePresent`, `CancelledRanOnlyIfRaced`, `RetriesBounded`, `AnnouncedIsOutcome`, `NewestKept`, `NoResendAfterAck`, `StagedGone`, `OutcomeAudited` |
| `session` | both drivers, 3 jobs out of two kept and one unkept connection to 2 devices, deep check every 2nd time, 1 broken connection, fair | `TypeOK`, `ChannelExclusive`, `SessionFitsJob`, `NoOrphanSession`, `PersistedIsWatched`, `DeadSessionGone` |
| `device_job` | 2 jobs out of every kind of request, up to 3 lines, 2 files of 2 chunks in 2 versions, 1 fault, fair | `SuccessMeansApplied`, `EveryLineReported`, `SessionLeftInUserMode`, `TransferredIsEqual`, `JobEnds` |

The comment above each property says what it means and which code it is about.
`TypeOK` of `Jobs`, `DeviceJob` and `BulkDispatch` is not part of a run; it is proved.

Deadlock is checked in the runs about the pool and about detached tasks: in the pool
the disjunct `Rest` is enabled exactly in the states where it legitimately waits;
among detached tasks a supervisor can always take a step. In `jobs`, `session`,
`device_job` and `bulk` a bounded number of jobs or requests arrives and the system
rests when they are over, so there it is not; the liveness properties of the first
three say that they do get over.

Bounds. Two devices at capacity 1 make requests compete for a slot; two requests
for one device on two nodes make them compete for a lock; two pids let a device be
pinned, lost and pinned again; `MaxRetries` 1 gives the retry loop a first and a
last turn (the code's constant is 3; the proofs hold for any). A run allows one
fault, of any kind the run names and at any point; `bulk` allows two, so that a
second one meets a batch already damaged, and the proofs any number. Three devices on two
nodes of capacity 1 or 2 leave room short, exact or to spare and make a batch span
nodes. One detached task is
enough for the races over its record; two supervisors take turns and overlap; two calls let one rewrite what the other
removed; a log of one byte has a before and an after. Two jobs and a collection of
one record make the archiver prune; the second job's callbacks run beside the first
one's retries and the cancellation, and either may remove the file they share. Three jobs on one process let a
session be kept, dropped for other arguments and kept again while the first monitor
still lives. Two jobs on a device let the second resume what the first left behind;
three lines have a first, a middle and a last. Every bound is a constant in
the cfg.

Fairness (`FairSpec`): weak fairness of every process's own steps - the rq loops
block only on empty queues, controller threads run to completion, the kernel
delivers SIGCHLD, Redis expires keys. For detached tasks: the worker, the API
threads and the supervisors run, and time passes (the lock expires, intervals end,
records age). For jobs: routes go on, workers and archivers run,
files past their retention are swept, and due entries of the schedule are moved where a
scheduler runs. For sessions: the main thread and each monitor run when they are not
blocked on the lock. For a device job: the job goes on. Faults, the arrival of
requests and calls, and the end of a remote process are not forced.

### Disagreements

Runs that show a disagreement between the code and what it says of itself
(`findings` quotes the lines):

| Run | What happens |
|---|---|
| `pool_handover` | `SerialPerHost`: on shutdown locks are free before workers stop, so two nodes run jobs on one device |
| `webhook_retry` | `WebhookSettles`: a failed delivery is put into rq's schedule, which no worker reads because none is started with a scheduler; it is never sent again |

The run `jobs` sets `SchedulerRuns` to look at the retry logic behind the second one.

### Expectations that do not hold

These one would expect, and comments of the code state some of them. The modules
define the formulas; TLC refutes each one when it is added to the run named:

* `SentJobServed` in `pool_live` (without faults too): the loser of a race for the last
  slot leaves a job no worker ever takes. `manager.py:297`: "the job will timeout and be handled by the
  retry mechanism"; nothing retries it.
* `NodeInfoPresent` in `pool_locks`: `node_info` is visible before the NodeQ worker is
  registered, so a starting node can be force-deleted and run on without its entry.
  `node.py:158`: "Should never happen".
* `OffsetCovered` in `tasks_push`: bytes written between the read of a log and the
  stat that yields the next offset are in no increment.
* `AnswerCurrent` in `tasks_view`: a query of a completed task skips the device and
  answers "running".
* `FailFastByDefault` in `device_job`: without `driver_args` paramiko's `config` does not
  stop at a failed line. `paramiko/__init__.py:946`: "Stop if stop_on_error is true
  (default)".
* `TransferIsVerified` in `device_job`: `verify_file`, "Verify file integrity after
  transfer", on by default (`models/common.py:348`), is not read by the paramiko
  driver, so resuming onto a file that came from elsewhere, or is longer, succeeds.

### What the passing runs leave out

The same models show more behaviours the code does not rule out; they bound what
the passing runs can claim:

* a child that exits between the fork and the write of the pid map is reaped as an
  unknown pid and then recorded: `DeadChildForgotten` fails with fault "early";
* a SIGTERM before the rq loop sets `signaled` and stops nothing:
  `DeadChildForgotten` fails with fault "earlystop";
* a remove job left by a killed incarnation forgets the child that now has its
  pid: `LiveChildTracked` fails with fault "crash";
* a child that is not registered when `cleanup` lists the workers misses the
  command, and the node waits for it for ever;
* a discovery marks a task completed that was launched after its scan, or every
  task that runs if the host cannot be reached, since the scan's errors are
  swallowed: `CompletedIsOver` fails with operation "discover";
* a kill that had no effect is reported as a success, and the task is unregistered
  while its process runs: `RegistryIsView`, `CompletedIsOver` and `AnnouncedIsOver`
  promise nothing of a task that was killed;
* supervisors that take turns know only their own dispatches, and a lock that
  expires under its holder (`SlowCheck`) lets two work at once: both double query
  jobs, so that a task is pushed more than once per interval;
* if an API query sees the end of a task first, no `detached.completed` event is
  sent: `CompletionAnnounced` fails with operation "query";
* a clear, a kill or a purge between a writer's look-up and its write is undone,
  or removes a record that changed: `RegistryIsView` fails with "clear" and with
  launching records that age;
* a success callback that times out after the webhook was sent makes rq run the
  failure callback, which announces the opposite: `AnnouncedIsOutcome` allows both
  events then; a job whose process died is not announced at all;
* the archiver may read a job's status before rq has stored the outcome, and the
  unique index keeps that record: the status beside the result is then "started" for
  ever, or "canceled" (`OutcomeAudited` is about the result and rules out only the
  opposite status); a job whose `result_ttl` has run out by then leaves no record;
* two archivers that count before either deletes prune too much: `NewestKept` is
  about one;
* a bulk request shares one staged file among its jobs, and the first callback
  removes it under the others: `StagedFilePresent` names that exception. A ttl as long
  as the retention lets the sweep remove the file of a waiting job;
* a netmiko monitor that was given up after 5 s lives on with the stop event of the
  next session, and ends the process if its own session is gone;
* `/device/test` with keepalive keeps a session in the controller, whose monitor
  sends SIGTERM to the controller when it breaks;
* a paramiko job without keepalive closes the kept session it reused; paramiko
  compares only the host, so a session may be reused for another user:
  `SessionFitsJob` claims no more than that;
* netmiko's monitor writes its keepalive and waits for no answer, so a session that
  answers TCP but runs nothing stays in the slot until a job comes with other
  connection arguments: `DeadSessionGone` leaves it out;
* a line the device refuses in words that match none of netmiko's patterns is
  reported as success, as is everything `send` sends: `SuccessMeansApplied` leaves
  those lines out;
* netmiko commits after a failed line and its `send` never looks at what a command
  printed; an exception in commit or save leaves the reused session in configuration
  or enable mode, and a file transfer in enable mode: `SessionLeftInUserMode` leaves
  out jobs that raised, and transfers;
* `cleanup_after_exec` removes the file whatever the command's status was, and by the
  path as given, which misses a file uploaded into a directory;
* a bulk request does not look whether the node of an assigned device lives, as a
  single one does; a pipeline whose answer is lost is reported as failed though its
  jobs run; `least_load_random` leaves the smaller nodes of a load level unused, so
  `NoFailureWithoutCause` leaves it out; `greedy` does not use the fewest nodes.

The passing runs exclude exactly what leads to these: `pool_serial` has
no node restarts or stops, `pool_live` no signal during start-up and no child that
exits before it is recorded; `tasks_view` has no
discovery, no user who clears records and no launch that takes ten minutes,
`tasks_push` no query and no purge; the properties of the other runs name
their exceptions.

## Proofs

Every safety property of the passing runs is proved, for any values of the constants
that satisfy the named `ASSUME` of the component: the null marker is not a value,
limits are numbers, and what the data must be like (pids are a finite set of
numbers, capacity is at least 1, a request for commands or configuration has lines
and a transfer files, files are not empty). Where a theorem has a further hypothesis
it is named below; it is the one under which the property is meant and which the run
that checks it satisfies. TLC checked each inductive invariant on the instance of
the run before it was proved.

The pool of pinned workers, for any sets of nodes, devices, pids and requests:

* `TypeCorrect`: `TypeOK`. Inductive with two facts about shape: a child that
  exists has a device, and so has the NodeQ job being run (`TypeInv`).
* `CountTheorem`, `CapacityTheorem`: `CountMatches` and `CapacityRespected`.
  `CountMatches` alone is not inductive: `add` writes a count it computed before
  the fork. `CountInv` adds what the locals of `add` and `_remove` are worth at each
  step in terms of the number of tracked pids, and `FreshPids` that the pid about to
  be recorded is not recorded yet. A forced delete in between only removes the
  entry, which is why the count survives it.
* `LockStealingTheorem`: `NoLockStealing`. `hsetnx` is the only write that takes a lock.
* `OwnerTheorem`, `OneTrackerTheorem`: ownership of devices that are not exposed.
  `LockInv` carries the obligations between steps: who is between taking a lock and
  recording its child, who is between forgetting a child and freeing its lock, and
  that every sweep has named what it will delete. The main lemma is `LockKept`: only
  its holder frees the lock of an unexposed device.
* `LiveChildrenAreTracked`, `DevicesAreServedSerially`: `LiveChildTracked` and
  `SerialPerHost`, under `StayUp`: node workers are up and stay up, while pinned
  workers may be killed, quit, exit at once or fail to fork, and jobs may expire.
  `SerialInv`: then no controller ever deletes a node, so no device is exposed; a
  remove job is about a process that is gone, under the pid of its own device; and a
  process that runs is tracked or about to be. With `LockInv` two processes on one
  device would be tracked by two nodes, or twice by one. Without `StayUp` both fail
  (see `pool_handover`, and what fault "crash" does below it).

Bulk requests, for any nodes, devices and batches:

* What the schedulers return (`Selects`): a node or none for each host, within the
  room of every node; of every plugin but `least_load_random`, a node for each host;
  of the least_load plugins, less loaded nodes first. `Fill` is a recursive function;
  `ListsExist` shows that the recursion defines it and `FillEnds` what it computes,
  both by taking the least number of nodes at which the claim fails (`Least`). Its
  list is within the room of the nodes it has passed and, while hosts are left,
  takes all of it (`FillOK`); so with room for all it does not run short.
  `least_load_random` needs a count: the positions up to the room of the levels
  below a used node went to the best nodes of those levels (`LevelsServe`), each
  within its room (`Shares`), so none of that room is left.
* `DevicesAreAccounted`, `QueuedAreLaunched`, `BatchFitsSnapshot`,
  `FailuresHaveCauses`, `LessLoadedAreUsedUp`, `BulkTypeCorrect`. `BulkInv` says that a
  device listed twice is assigned both times or not at all, since both locks are
  read at once and their nodes at once (`ScanInv`); that a spawn job is the one of its
  group (`QueueInv`); that each group passed has its spawn job or its host failed
  (`LaunchInv`); that before the end only hosts without a worker have failed
  (`AnswerInv`); and that the nodes of the snapshot live until something happens
  (`CauseInv`).

Detached tasks, for any number of tasks, calls and supervisors:

* `TasksTypeCorrect`: `TypeOK`, for all operations and faults; `ShapeInv` adds that the
  stages of the worker and of the calls go with the operations of their jobs.
* `CompletedTasksAreOver`: `CompletedIsOver`, where nobody discovers. `LaunchInv` uses
  that HostQ is first in, first out: the launch of a task is in front of everything
  else about it (`OrderInv`), nothing is known of a task before (`NewInv`), and its
  process starts then and only then (`ProcInv`). So a process once seen over stays over,
  and whoever holds or writes "completed" has seen it (`GoneInv`).
* `RegistryImplementsView`: `RegistryIsView`, where users query and kill and only completed
  records grow old (`AgeInv`): every step is one of `TaskLife` or leaves the view alone.
* `AnnouncedTasksAreOver`: `AnnouncedIsOver`, where nobody discovers, for any number of
  supervisors and whatever ages: a query job that found the task over comes after its
  launch in HostQ, and what it found stays true (`AnnouncedInv`, from `GoneInv`).

Jobs, for any number of jobs, workers, archivers and retries:

* `JobsTypeCorrect`, `StagedFilesArePresent`, `CancelledJobsRunOnlyIfRaced`,
  `AnnouncementsAreOutcomes`, `RetriesAreBounded` and the action property
  `NoResendAfterAck` (`NoResends`), from `JobInv`. A job is in one place of the queue or in
  the hands of one worker (`PlaceInv`); the file a job brought is there until its own
  cleanup or that of a job that names it too and is past its own use of it
  (`FileInv`); a delivery under way has been sent as often as its counter
  says and was not acknowledged (`CountInv`), and there is one of each event
  (`SingleInv`), which is what makes the bound hold; until the callback nothing was
  announced (`FirstInv`), and after it the outcome, with the opposite only where the
  success callback timed out and the failure callback follows (`OutcomeInv`).
* `NewestRecordsAreKept`: `NewestKept`, for one archiver (`ArchiveInv`: what it has counted
  and listed for deletion leaves the newest records).

Sessions and device jobs, for any arguments, requests, files and lines:

* `SessionTypeCorrect`, `ChannelsAreExclusive`, `SessionsFitJobs`, `SessionsAreOwned`,
  `KeptSessionsAreWatched`, from `SessionInv`: what the slot, the stop event and the
  lock are worth at each step of the main thread and of the monitors; in particular
  the monitor of the session in the slot has not been told to stop unless the slot
  is being cleared or the process is about to end (`Watched`).
* `SuccessIsApplied`, `LinesAreReported`, `SessionsAreLeftInUserMode`,
  `TransfersAreComplete`, `DeviceTypeCorrect`, from `DeviceInv`. For lines: nothing on the
  device is from a later job (`PastInv`), until a line fails the results are those of
  the lines sent (`SentInv`), and then the rest is skipped (`ReportInv`) or in effect,
  unless it was refused unnoticed (`EffectInv`). For files: a destination that is not foreign holds the beginning of
  its source (`PartOf`), so that what was interrupted can be resumed.

Only model-checked: the liveness properties `DispatchEnds`, `DeadChildForgotten`,
`EndedTaskForgotten`, `CompletionAnnounced`, `StagedGone`, `OutcomeAudited`,
`DeadSessionGone` and `JobEnds`, which are outside the prover's reach, and the two
disagreements, which are counterexamples.

## Not modelled

* Credential plugins: a cache of secrets in front of Vault. Resolving may refuse a
  request (`Reject`); nothing else depends on it.
* The native agent: one request at a time, no state in between.
* CLI, dashboard, deployment, configuration, logging, observability: input and output.
* The napalm and pyeapi drivers, renderers and parsers: wrappers around libraries
  without kept sessions, text in and text out.
* Routes other than `/device/exec` and `/device/bulk`, and the detail of request
  validation: translation without state.
* Parts of modelled components: `process_detached_audit`, requests that switch auditing
  off (`audit_mode`), expiry by age in MongoDB, an
  archiver that ends because MongoDB is unreachable; the file lock that allows one
  FIFO worker per node; matching of prompts, sudo and environment wrapping, file
  permissions and the cleaning of old detached files on a device; directories of
  downloads in the staging sweep; Redis being unreachable, outside bulk dispatch.

## Plan

1. An abstract specification of the device locks and its refinement by the pool;
   that `Fill` fills in no other order than the sorted one (`greedy` uses the fullest
   nodes first); the progress of single requests as step-by-step facts (what each
   step of the dispatch leaves to do).
2. The remaining routes with state (`/device/test` from the controller's side,
   downloads from staging), the vault cache.
