# RekaKebijakan: verification development

RekaKebijakan takes a policy document through five stages: knowledge graph,
environment (personas and parameters), simulation, report, exploration. A user
creates a project, starts stages, edits what a stage produced, pauses, resumes
and cancels work, and runs variants of the simulation. The work of a stage is a
*job* in a PostgreSQL queue, executed by worker processes that may die, stall,
lose their lease, and be overtaken by another execution of the same job. The
simulation itself is played by the OASIS engine: child processes that write
logs, a graph memory at Zep that is built, written, read and deleted by several
threads, reports written by an agent, interviews carried by files.

The modules here model the parts of that system which are hard to test: what
several threads, processes and requests do to one piece of state, over crashes,
lost replies, timeouts and retries. Abstract modules say what a part promises;
TLC checks small instances; TLAPS proves the safety properties of the
application's queue, service, projects and direct bridge to OASIS, and of the
engine's graph, memory updater, interviews, preparations and reports, for every
value of the constants. Only the engine's runner is model-checked alone.

    tlc -config WorkflowFaults.cfg MCWorkflow      one run of TLC
    tlapm WorkflowProofs.tla                       the proofs of one module

`PROJECT.json` holds the same in a form for tools: components, runs, the lines
each definition models, the hazards with the properties that cover them, and
for each property a mutant of the code that it catches.

## 1. Inventory

Paths are below `src/backend/`. `app/` is the application, `engine/` stands
for `oasis_engine_runtime/`.

| component | state | operations | modelled in |
|---|---|---|---|
| Job queue (`app/repository.py` 1229-1264, 1294-1465; `app/database.py`) | tables `jobs`, `job_attempts`, the partial unique index `one_active_job_per_simulation` | insert, claim, renew, finish, fail, expire, recover, control | `JobQueue`, `JobContract` |
| Workflow service and worker (`app/service.py`, `worker.py`) | the snapshot (stages, revision, results), embedded threads | create, start, control, run_once, _execute, heartbeat, feedback, environment edits | `Workflow`; its OASIS branches in `OasisSync`, `OasisRun` |
| Scenario runs (`app/repository.py` 560-760, `app/api.py` 500-700) | `runs`, scenario revisions, custom personas | prepare, start, control, completion, reproduction, comparison | status of runs in `Workflow`; the rest is not |
| Project lifecycle and storage (`app/repository.py` 86-320, 1266-1292; `app/service.py` 101-229; `app/storage.py`) | `projects.status`, quota, idempotency keys, stored objects | create, duplicate, archive, restore, delete, purge; update | `ProjectLifecycle` |
| Direct OASIS bridge (`app/service.py` 565-1100, `app/oasis_direct.py`, `app/oasis_direct_bridge.py`, `engine/app/services/graph_builder.py`, `engine/scripts/run_parallel_simulation.py`) | the mapping row of a simulation, bridge processes, graphs and batches at Zep; a child, its logs, the rows of its actions, the ingestion checkpoint | reserve or resume a graph, create, add, process, poll; start or adopt a child, poll, ingest, stop | `OasisSync`, `OasisRun` |
| OASIS simulation runner (`engine/app/services/simulation_runner.py`, `engine/app/api/simulation.py`) | run states, processes, monitor threads, the finalization lock | start, restart, stop, monitor, shutdown | `SimulationRunner` |
| Zep graph memory updater (`engine/app/services/zep_graph_memory_updater.py`) | a queue, buffers per platform, a worker thread | add, batch, write, stop and drain, discard | `MemoryUpdater`, `GraphIngestion` |
| Engine tasks and projects (`engine/app/models/`, `engine/app/api/graph.py`, `engine/app/utils/zep_lifecycle.py`) | project files, the task table, the graph at Zep, leases of its users | build, reset, delete, claims by simulations and reports | `GraphLifecycle` |
| Interviews of agents (`engine/app/services/simulation_ipc.py`, `engine/scripts/run_parallel_simulation.py`, `app/oasis_direct.py`) | command and response files, `env_status.json` | interview, interview all, close; poll, serve, answer | `SimulationIPC` |
| Engine generators and report agent (`engine/app/services/`, `engine/app/api/report.py`, `simulation.py`) | `state.json`, profiles, configuration; the folder of a report | prepare an environment, check it; generate and delete reports | `EnvironmentPreparation`, `ReportAgent` |
| Event stream (`app/repository.py` 913-950, `app/api.py`, the web client's merge) | `workflow_events`, the reader's cursor | append, page, reconnect, merge | not modelled, section 8 |
| Accounts and sessions, providers, document extraction, quick demo, migrations, web application | — | — | not modelled, section 8 |

### How the parts interact

* A request (`api.py`) calls the service; the service reads the snapshot in one
  transaction and writes in others. `start()` alone is: read the snapshot,
  insert the job, mark the stage, spawn a thread. `control()` is: read the
  active jobs, update the job row, update the run, write the snapshot.
* A worker process (`worker.py`) loops over purge and `run_once`; `run_once`
  requeues expired jobs, claims one, starts a heartbeat thread, executes, then
  finishes or fails the job and touches run and stage. With `EMBEDDED_WORKER` a
  request's process spawns one thread per started job, and that thread calls
  `run_once` a single time.
* The queue's fence is the *execution token*, written on every claim; threads
  of one process share a worker id, so the lease owner alone is no fence. Job
  row, run row and snapshot are written in different transactions, with no lock
  over all three.
* For the environment stage the service starts a *bridge* process that talks to
  Zep and reports milestones by lines of its output; the service writes them to
  the mapping row, which is all that a later execution knows. For the
  simulation stage it starts a *child*, or adopts the one a dead worker left,
  and polls its log files.
* In the engine itself (its own HTTP server, used without the application as
  well) a request starts a child and a monitor thread, the monitor reads the
  log and feeds the updater of the graph memory, and a stop closes the updater
  and waits for the graph. Builds, updaters and reports meet on one graph; a
  report must not read while a simulation writes, and nobody may delete a graph
  in use.
* A child that has played its rounds stays and serves interviews, commands and
  answers being files in the folder of the simulation.

### What is hard, and what makes each part correct

* **Job queue.** Leases expire under live executions; rows are paused,
  resumed, requeued and claimed again while an old execution still holds its
  token. Correct: one active job per simulation; at most one execution whose
  fenced updates would match; a job completes once, through its last attempt.
* **Workflow service.** Crashes between any two transactions; edits while a job
  computes; reports of old executions. Correct: a completed job has its result
  in the snapshot; a result was computed on the revision its job was queued
  for; stages are delivered in order; a completed run has a result of its own;
  every job settles.
* **Project lifecycle.** Objects are outside the transaction; a purge lists
  projects in one transaction and deletes them in others. Correct: the quota on
  documents is never exceeded; one project per idempotency key; no step deletes
  a document of an active or archived project; the store holds nothing that
  belongs to nobody.
* **Evidence at Zep.** A reply may be lost with or without the effect of the
  call; a worker dies while its bridge goes on. Correct: a mapping called ready
  names a graph with all of its evidence, a graph never gets the evidence of
  two versions, an attempt hands its evidence over once.
* **A run of the simulation.** A worker dies and its child plays on; logs grow
  while they are read. Correct: the rows of a run are those of one child,
  without a gap; a published result is the whole log of a child that came to
  its own end, and is in the graph; one child at a time.
* **Runner and updater.** The monitor, the stop requests and a shutdown write
  one run state. Correct: one child; no terminal status before the updater is
  drained; no line of the log cut off; a stop leaves the barrier; nothing
  accepted is lost or written twice.
* **The graph of a project.** Check, deletion and claim are in different
  requests, and every call may fail after its effect. Correct: no graph in use
  is deleted or replaced; no graph is left without a reference; a build never
  saves over another; a report reads at rest.
* **Interviews.** Callers time out, files vanish or are half-written, either
  side is killed. Correct: a command is served at most once, by an environment
  that is not closed, for a caller that waits; no readable command waits for
  ever on a living environment.
* **Preparation and reports.** Several files and a task are saved one after
  another, each save may fail, and a forced request starts over. Correct: what
  counts as prepared or completed is whole and of one attempt; its task tells
  the same story; every preparation and every report ends.

## 2. The modules

| module | what it is |
|---|---|
| `JobQueue` | the two tables, one action per transaction of `repository.py` |
| `JobContract` | what a client of the queue may rely on: a job is started, ends once, and its attempts are bounded |
| `Workflow` | `service.py` and the worker; EXTENDS `JobQueue` and composes its actions with the snapshot, the runs, the requests and the program counters of the threads |
| `ProjectLifecycle` | creating, archiving, restoring, deleting and purging the projects of one user, and their objects |
| `OasisSync` | the environment stage: executions, bridges, Zep |
| `OasisRun` | the simulation stage: executions, children, logs, rows, ingestion |
| `SimulationRunner` | the engine's runner: requests, monitors, children |
| `MemoryUpdater` | the updater of the graph memory |
| `GraphIngestion` | what an updater promises the runner; `MemoryUpdater` implements it, `SimulationRunner` is written against it |
| `GraphLifecycle` | the graph of an engine project: builds, deletions, users |
| `SimulationIPC` | interviews by files |
| `EnvironmentPreparation` | profiles and configuration of a simulation, and the check that calls them prepared |
| `ReportAgent` | reports: endpoint, agent loop, files |
| `WorkflowProofs` | the proofs about `JobQueue`, its refinement of `JobContract`, and `Workflow` |
| `OasisRunProofs`, `SimulationRunnerProofs`, `SimulationIPCProofs`, `EnvironmentPreparationProofs`, `ReportAgentProofs` | the proofs about the module of that name |
| `ApplicationProofs` | the proofs about `ProjectLifecycle` and about `OasisSync` |
| `ZepGraphProofs` | the proofs about `GraphLifecycle`, and about `MemoryUpdater` with its refinement of `GraphIngestion` |
| `MC...` | model values, symmetry and functions for TLC, where a module needs some; the others are checked as they are |

Each module has one action per transaction, per section under a lock, or per
thing one thread does between two points another can see. Program counters of
threads are fields `pc`. A type invariant (`QueueTypeOK`, `WorkflowTypeOK`,
`LifecycleTypeOK`, `SyncTypeOK`, `RunTypeOK`, `RunnerTypeOK`, `UpdaterTypeOK`,
`GraphTypeOK`, `IpcTypeOK`, `PrepTypeOK`, `ReportTypeOK`) documents the state
of each; the runs list deeper properties, the type invariants were checked on
the same instances, and where there is a proof module they are proved. So were
the inductive invariants (`QueueInv`, `WorkflowInv`, `OrderInv`, `LifecycleInv`,
`GraphInv`, `IpcInv`, `UpdaterInv`, `SyncInv`, `ChildrenInv`, `RowsInv`,
`WholeInv`, `RangeInv`, `SectionsInv`, `TasksInv`, `GroundedInv`) before they were
proved.

### JobQueue

`jobs[j]` is the row (status, owner, token, attempt count, and two truth values
for the two timestamps that are compared with the clock), `attempts[j][n]` the
`n`-th row of `job_attempts`, `claim[e]` what thread `e` got from
`claim_next_job`. The `WHERE` clauses of the fenced updates are the operators
`Fenced` (owner and token: `fail_job`) and `HoldsLease` (and running:
`finish_job`, `renew_job_lease`). Every action is one database transaction, so
nothing interleaves inside one. `SKIP LOCKED` and the order by creation time
are abstracted to "any claimable row", since a locked older row may be passed
over. Time is nondeterministic: `LeaseExpires`, `BackoffElapses`. A uuid token is
the number of the claim: only equality of tokens of one job is ever asked.

What the model keeps because it is easy to lose: pausing or cancelling a row
changes its status only, so owner and token stay; `fail_job` does not look at the
status; the expiry scan leaves the attempt rows open; `fail_job`'s retry is
subject to the unique index, and the IntegrityError ends the execution.

### Workflow

Adds `stage`, `current`, `revision`, `graph` (the snapshot, to the extent the
control looks at it), `run` (status of scenario runs), `info[j]` (stage, run
and input revision of a job), `published[j]` (a history variable: the attempts
whose `_complete` committed), `work[e]` (where thread `e` is inside `run_once`,
`_execute` and the `except` branch), `req[c]` (where a request is inside
`start` or `control`), `spawned` (embedded threads not yet run).

One action per transaction: `Claims`, `SyncsRunning`, `Progresses`, `Works`
(reads snapshot and control state), `BuildsGraph`, `Renews`, `Validates`,
`ReadsAgain`, `ChecksResult`, `Publishes`, `Finishes`, `SyncsCompleted`, and on
the failing side `WorkFails`, `FindsItChanged`, `CannotFinish`, `Fails`,
`RetryConflicts`, `SyncsFailed`, `Reports`; `Abandons` is `_execute` returning
False. `StartReads`, `StartEnqueues`, `StartMarks` and `ControlReads`,
`ControlSets`, `ControlSyncsRun`, `ControlDisplays` are the requests.
`Heartbeats` is the heartbeat thread. `WorkerDies` and `RequestDies` cut any of
them at any point when `Faulty` is TRUE, and only then does a lease expire.
`Embedded` is the set of executors that are threads of the API: they run once
for a job that was started, the others poll.

What the provider or the OASIS engine does within a job is one step here that
ends in a result, in a retryable error or in a final one; `OasisSync` and
`OasisRun` are that step in detail.

### ProjectLifecycle

`project[p]` is the status of the row (absent before it is inserted, purged
after it is deleted), `due[p]` whether `delete_after` has passed, `busy` the
projects with an active job, `objects` the object store. `create[p]`,
`request[c]` and `purge[w]` say where each call of `create_project`, each other
request and each worker's `purge_due_projects` is. It is the world of one user,
whose row `create_project_bundle` locks.

* Create: `CreateBegins` (the early lookup of the key), `SavesDocument`, then
  `BundleCommits` or `BundleRefused` (one transaction), `CreateFails`, and the
  cleanup `UndoesDocument`, `UndoEnds`. `CreateDies` cuts it anywhere.
* `set_project_status`: `ChangeCounts` (the active jobs are counted) and
  `ChangeUpdates` (the row is updated) are two steps, for the transaction takes
  no lock before the update.
* `put_job`: `StartChecks` (the project is read, the simulation's row is locked)
  and `StartInserts`. `JobEnds` stands for what `JobQueue` models.
* Purge: `PurgeLists`, then for each project `PurgeLocks` (the row is locked and
  looked at again), `PurgeDeletes` for each object, `PurgeCommits` or
  `PurgeFails`. The row locks appear as guards: `Locked(p)` holds back an update
  or another purge, `Starting(p)` the deletion of a simulation.

A document weighs one unit; different weights of projects come from different
numbers of documents.

### OasisSync

`mapping` is the row of `oasis_runtime_mappings`, `exec[e]` an execution of
`_prepare_oasis_environment` with what it read and reserved, `bridge[e]` the
process it started with the milestones it reported and nobody has written yet
(`out`), `graphs` and `batches` what Zep holds. An execution `Looks` at the
mapping (up to date, resumable, or neither), `Reserves` a graph there or takes
the reserved one over, and `WritesMilestone` after milestone until the call
returns, times out or raises; then `PublishesGraph`, `Prepares`, `MarksReady`.
The bridge runs beside it: `CreatesGraph`, `SetsOntology`, `CreatesBatch`,
`AddsGroup`, `HandsOver`, `PollsBatch`. Each of its calls of Zep succeeds, fails
without effect, or fails after its effect. `WorkerDies` ends an execution and
leaves its bridge running.

### OasisRun

`exec[e]` is an execution of `_run_oasis_simulation` inside its polling loop
(control, clear, start or adopt, read, end, judge, append, decide, ingest,
finish), with its cursors and what it has read; `child[c]` and `log[c]` a child
and its two logs; `runtime` the file `direct_runtime.json`; `rows`, `memory`,
`checkpoint`, `mapping`, `result` what outlives the processes. An action of the
simulation is a record of the child that took it, the platform and its number.
A snapshot reads the new lines of a log and then looks for its end: two steps
(`ReadsLog`, `LooksForEnd`).

### SimulationRunner, MemoryUpdater, GraphIngestion

`status` is the run state; `process`, `watcher`, `updater`, `manual`, `flag`
are the class-level dictionaries of the runner, `lock` the finalization lock;
`request[c]` says where each start, stop or shutdown is, `monitor[g]` where the
monitor thread of the `g`-th run is. Stop takes the lock, sets the STOPPING
barrier, terminates the child, waits for the monitor outside the lock or
finishes itself, and drains; the monitor does the same at the natural end.
`Crash` ends the server: memory is gone, the child in its own session and the
files stay.

The updater is seen by the runner through `GraphIngestion`: a door, what was
accepted, and a stop that drains or raises. `MemoryUpdater` is the updater
itself: the worker that takes, buffers and sends payloads, and stop, which
joins the worker, drains the queue into the buffers, sends them platform by
platform and waits for the graph, each with a deadline. An activity is its
number; any prefix of a batch may be the next payload, since payloads are cut
by length. A write that fails may have reached the graph: it is recorded and
never repeated.

### GraphLifecycle

`project` is the project file, `build` the thread with the project object it
captured, `op` the request that holds the project's lock (build, reset,
deletion), `lookup` a `delete_graph` that has found its project and not locked
it yet, `cloud[g]` the graph at Zep, `sims[s]` a simulation with its updater,
`reports[r]` a report with its lease. `OpChecks` looks at the users under the
graph's lock and marks it as being deleted; `OpDeletes`, `OpSaves` follow; each
call of Zep and each save may fail, with or without effect where the code
cannot know. `Crash` loses tasks, leases and locks.

### SimulationIPC

`call[c]` is where a caller is, `command[c]` and `response[c]` its files
(absent, torn, whole), `older` the order of the commands, `env` the child: what
it listed, what it serves. The engine's callers check the environment first;
the application has a client of its own. The engine's
client opens its file and writes it (`OpensCommand`, `WritesCommand`); the file of
the application is in place at once (`Places`). `Lists` and `Picks` are two steps, because a file that goes
in between ends the loop.

### EnvironmentPreparation

`attempt[a]` is one request with its thread, `worker[i]` the future of one
profile in the pool, `state` the file `state.json`, `files` the profiles of
both platforms and the configuration, with the attempt that wrote them and the
agents they name. The numeric parts are computed: `ParseTimeConfig` and
`DefaultTimeConfig` with their divisions, `Due` and `Batch` over batches of
agents, `Posters`. `CheckReads` and `CheckWrites` are the status endpoint, which
corrects `state.json`.

### ReportAgent

`agent[r]` is the thread of a report with its loop (sections, iterations, tool
calls, conflicts), `disk[r]` its folder (meta, sections, assembled text,
progress), `task[r]` its task, `readers` the leases on the graph. One action
per kind of reply of the model: none, an answer, a tool call, a malformed call,
an answer together with a call; the bounds of the loop are the code's.

## 3. Constants, bounds and assumptions on timing

The constants of a module are listed with their meaning where it declares them,
and their assumptions are named there (`QueueAssumption`, `RunnerAssumption`,
...). Sets of jobs, threads, clients, projects, calls and so on are finite in the
instances and any in the proofs. Constants called `Max...` are of two kinds:
limits of the code (`MaxAttempts`, `MaxTools`, `MaxReflect`, `MaxTries`,
`MaxActive`, `MaxBytes`, and `BatchSize`, `Parallel`) and bounds of the model,
marked *bound* in the declaration, on what the code does without limit
(`MaxRevision`, `MaxStarts`, `MaxLines`, `MaxActivities`, `MaxGraphs`,
`MaxBuilds`, `MaxExecs`, `MaxEnvs`, `MaxCrashes`, `MaxAhead`, `MaxEntities`,
`MaxPosts`, `MaxSections`, `MaxRuns`, `Lines`).

Some constants are assumptions on timing or use that the code does not ensure.
With the value of the run the properties hold; with the other one TLC finds a
behaviour of the code that violates one, described in section 6.

| constant | in the run | meaning | otherwise |
|---|---|---|---|
| `AtomicRead` (`OasisRun`) | TRUE | no child logs between the two reads of one log file by a snapshot | `ResultIsWhole`, `IngestedBeforeResult` are violated |
| `Overlap` (`OasisRun`) | FALSE | an execution begins when the one before has ended or died | `RowsArePrefix`, `ResultIsWhole`, `IngestedBeforeResult` are violated |
| `Overlap` (`OasisSync`) | TRUE | executions may overlap: no assumption | |
| `Overlap` (`EnvironmentPreparation`) | FALSE | one preparation of a simulation at a time | files of two attempts are mixed: `PreparedIsWhole` |
| `AtomicCheck` (`EnvironmentPreparation`) | TRUE | a status check writes before a preparation it raced with resets the state | `PreparedIsWhole` is violated |
| `DeletesBusy` (`ReportAgent`) | FALSE | nobody deletes a report that is being written | `CompletedIsWhole` is violated |
| `PromptCleanup`, one client (`SimulationRunner`) | TRUE | the last statements of a monitor precede the publication of a later run; one request at a time beside the monitors | without either, `OneChild`, `TerminalMeansDrained`, `TailIngested` are violated (without the first, `TerminalMeansDrained` by three starts) |
| `Torn`, `Kills`, `Faults`, `Faulty` | TRUE, but for `WorkflowOrder` | faults happen | |

The workflow assumes that its project is not archived while a job runs
(section 8).

## 4. The runs

| run | question and answer | bounds, and why they suffice |
|---|---|---|
| `JobQueue` | Do the safety properties of the tables hold, and does the queue implement its contract? Yes. | two jobs of one simulation (a retry meets its successor), three threads of which two share a worker id (the token, not the owner, must fence), three attempts (first, repeated, last), all controls |
| `WorkflowFaults` | Under crashes and lost leases at every step: does a completed job have its result, computed on its input, and does every job settle? Yes. | one simulation job, two threads of one process (one overtakes the other), one request, two attempts, two edits. No controls: the unfixed behaviour of resumed jobs (section 6) would otherwise hide the rest of `EveryJobSettles` |
| `WorkflowOrder` | From a new project on, are results delivered in the order of the stages although edits lock stages again, and has a completed run its result? Yes. | three jobs (graph, environment, simulation), one embedded thread at a time, one run, all controls; 3.4 million states |
| `ProjectLifecycle` | Quota, idempotency, orphans, documents kept, under overlapping creates, changes, starts and purges, with crashes. They hold. | three calls, two with one key, of one, one and two documents under a quota of two and two active projects, so that each refusal happens; two other requests (one may count while the other changes); two purging workers |
| `MemoryUpdater` | Is anything accepted lost or written twice, does the updater implement its contract, does every stop end? No; yes; yes. | two platforms, batches of three, five activities: a full batch, a batch with a rest, and a rest that only stop sends; any number of stops |
| `SimulationRunner` | One child, no terminal status before the drain, no line cut off, every stop leaves the barrier. They hold, for one client beside the monitor. | two starts (a restart over a run), two lines (one may be left when the child ends), one crash, a disk that fails in the monitor |
| `GraphLifecycle` | Is a graph in use deleted or replaced, a graph left over, a build saved over, a report disturbed? No. | two simulations (the second writes elsewhere or not at all), one report, two graphs and builds (a reset between them), one crash |
| `OasisSync` | Evidence complete, of one version, handed over once per attempt, over lost replies and overlapping executions. They hold. | two executions (the second resumes what the first left), two calls of batch.add (one may be lost), three inputs (same evidence, new evidence, new revision only), one milestone not yet written |
| `OasisRun` | Rows of one child without a gap, whole results, ingested before they are published, one writer. They hold under the two assumptions above. | two executions, two runs (a child of another run may be left), two platforms (one may end first), one action each |
| `ReportAgent` | Completed reports whole and of one run, tasks that agree, reports that end. They hold. | two reports, two sections, two tool calls (both limits of the loop are met), one reflection, one crash, one rerun, writes that fail or tear |
| `SimulationIPC` | Commands served once, for a caller that waits, none stuck. They hold. | two interviews and one closing, two environments (files of the first are found by the second), kills of either side |
| `EnvironmentPreparation` | Prepared means whole, the numbers can be drawn from, every preparation settles. They hold. | two attempts (the second forced), three entities on a pool of two and batches of two (a full and a partial one), two tries, two posts, one crash |

`CHECK_DEADLOCK FALSE` is set in every run: jobs, starts, executions, calls are
finite in an instance, so it stops when all have ended.

### Fairness

Weak fairness, and of these only:

* `FairQueueSpec`, `FairWorkflowSpec`: the expiry scan and the claim
  (`worker.py` calls `run_once` in an endless loop, which scans before it
  claims; the fairness is that of the pool, no job is favoured); the next step
  of each thread and each request (provider calls have timeouts, database calls
  return); the passing of time;
* `FairUpdaterSpec`: the worker thread and the thread inside stop; nothing of
  the graph's processing, so the wait must end by its own deadline;
* `FairRunnerSpec`: the next step of each request and each monitor; a child may
  play for ever;
* `FairReportSpec`: the next step of each report thread; no reply of the model
  is assumed, so the loop must end by its own counters;
* `FairIpcSpec`: the environment's loop only; callers may stop at any point;
* `FairPrepSpec`: threads, pool workers, and a check that is about to write.

Users, edits, faults and Zep are not fair. Fairness of a thread's step is no
promise that it survives: a crash may be taken instead at any time. That
`EveryJobSettles` holds under unbounded crashes is due to the attempt count,
which is what the property is about.

## 5. What is proved

All theorems hold for every value of the constants that satisfies the
module's assumption; those that need one of the assumptions on timing of
section 3 as well state it as a hypothesis (`ASSUME Overlap = FALSE`,
`ASSUME Calm`), and no other theorem uses one.

* `WorkflowProofs`, of the queue: `QueueTypeCorrect`, `QueueInvHolds`, and from it
  `ExecutionsAreFenced` (`AtMostOneEntitled`), `OneActiveJob`, `CompletedOnce`,
  `SettledRowsStay`, `OutcomesStay`; `QueueImplementsContract`, the refinement of
  `JobContract`. Of the service: `WorkflowTypeCorrect`, `WorkflowInvHolds`, and
  from it `ResultsBeforeCompletion` (`CompletedMeansPublished`),
  `ComputedFromItsInput`, `RunsHaveResults`; `StagesInOrder` (`DeliveredInOrder`);
  `ServiceRunsOnTheQueue`: every behaviour of the service is one of the queue,
  hence every safety theorem of the queue holds of the service as well
  (`ServiceIsFenced` is the one that is spelled out).
* `ApplicationProofs`, of the projects: `LifecycleTypeCorrect`, `LifecycleInvHolds`, and
  from it `QuotaHolds` (`BytesWithinQuota`), `KeysAreUnique`
  (`OneProjectPerKey`), `OrphansAreOfDeadCalls` (`NoOrphans`) and
  `DocumentsAreKept` (`DocumentsStay`). That `Projects` and `Documents` are finite
  is used for the quota only, which counts.
* `ZepGraphProofs`, of the graph: `GraphInvHolds`, and from it `NoGraphIsOrphaned`
  (`NoOrphanGraph`), `BuildsOwnTheirProject`, `ReportsFindRest`
  (`ReportsReadAtRest`), `GraphsInUseStay` (`UsedGraphStays`).
  Of the updater: `UpdaterInvHolds`, and from it `NoActivityIsLost`
  (`NothingLost`), `EachIsWrittenOnceInOrder` (`WrittenOnceInOrder`), and
  `UpdaterImplementsIngestion`, the refinement of `GraphIngestion`.
* `SimulationIPCProofs`: `IpcInvHolds`, and from it `ServedOnce`
  (`ServesOnceThenCloses`) and `ServedIsAwaited` (`ServesTheWaiting`).
* `ApplicationProofs`, of the bridge: `SyncInvHolds`, and from it `ReadyIsCompleteHolds`
  (`ReadyIsComplete`), `OneEvidencePerGraphHolds` (`OneEvidencePerGraph`) and
  `OncePerAttemptHolds` (`OncePerAttempt`), for any number of overlapping
  executions, of calls of batch.add and of versions of the evidence.
* `SimulationRunnerProofs`: `RunnerTypesHold`, without a hypothesis. For one
  request at a time, and with `PromptCleanup = TRUE` (together `Calm`):
  `FlowInvHolds`, and from it `TerminalMeansDrainedHolds`
  (`TerminalMeansDrained`), `ChildInvHolds` and `OneChildHolds` (`OneChild`),
  `TailInvHolds` and `TailIngestedHolds` (`TailIngested`), for any number of
  starts, of lines of the log and of crashes.
* `OasisRunProofs`: `ChildrenInvHolds`, and from it `OneWriterHolds`
  (`OneWriter`), over any overlap of executions. With `Overlap = FALSE`:
  `RowsInvHolds`, and from it `RowsArePrefixHolds` (`RowsArePrefix`). With
  `AtomicRead = TRUE` besides: `WholeInvHolds`, and from it `ResultIsWholeHolds`
  (`ResultIsWhole`) and `IngestedBeforeResultHolds` (`IngestedBeforeResult`).
* `EnvironmentPreparationProofs`: `PrepTypesHold`; `RangeIsUsableHolds`
  (`RangeIsUsable`), over any overlap of preparations. With `Overlap = FALSE` and
  `AtomicCheck = TRUE`: `WholeInvHolds`, and from it `PreparedIsWholeHolds`
  (`PreparedIsWhole`).
* `ReportAgentProofs`: `ReportTypesHold`, `TaskHasReportHolds` (`TaskHasReport`)
  and `AnswersAreGroundedHolds` (`AnswersAreGrounded`, which no run lists). With
  `DeletesBusy = FALSE`: `SectionsInvHolds`, and from it `CompletedIsWholeHolds`
  (`CompletedIsWhole`).

The hypotheses are not for convenience: without any one of them TLC finds the
property violated (the table of section 3 says which), and section 6 says what
the code does there. With them, leases outlast their executions, no line is
logged between the two reads of a snapshot, preparations of one simulation come
one after the other, nobody deletes what is being written, and starts and stops
of one simulation come one after the other, each beside the monitors; crashes,
restarts and failures are as free as before.

**Why `QueueInv`.** Fencing alone is not inductive: that two threads cannot both
match a row after a claim needs every token held to be one already issued
(`claim[e].token <= jobs[j].token`) and tokens held to be pairwise different;
that a late `fail_job` cannot overwrite an outcome, although it does not ask for
an open attempt, needs that a row which was decided has no owner
(`LedgerIsComplete`), so nothing matches. `LedgerIsComplete` also ties token,
attempt count and the attempt rows: the `n`-th row carries token `n`, which
is what turns "closed by token" into "closed the last one".

**Why `WorkflowInv`.** `CompletedMeansPublished` needs that a thread at the point
of `finish_job` has published *the attempt the row counts*:
`ExecutionsMatchClaims` ties the thread's memory to its claim, `QueueInv` ties
the claim to the row. `ComputedOnItsInput` needs the order input <= base <=
revision along the execution (`RevisionsAreOrdered`): when the second read
finds the input revision again, the first read, in between, saw it too. That
argument rests on revisions never decreasing, which `Workflow`'s edits satisfy;
`update_project`, which writes the version of the project into it, is outside
this module (section 8).

**Why `OrderInv`.** That a stage is delivered only after the one before it is
decided long before it is published: when the stage is unlocked, its start
accepted, its job queued. The invariant says of each of these that the earlier
stage has delivered (`Founded`): of a stage that is not locked, of a request
between its check and its last write, of a job whatever its state. Since
nothing takes a delivery back, each step is left with what it creates.
An edit locks the stages after the one it edits, but a job queued before
keeps its foundation.

**Why `LifecycleInv`.** `DocumentsStay` needs that a worker which deletes objects
holds a project that waits for its deletion (`PurgeHoldsItsProject`), and that
no status change slips under its lock; for the cleanup of a refused call it
needs that a call which is not over has no row yet (`RowsComeLast`), which
is also why a commit cannot bring back a purged project. `OneProjectPerKey`
rests on the second look at the key under the user's lock; the quota on
documents on the fact that restoring or archiving moves a project within the
statuses that count.

**Why `GraphInv`.** That a graph in use is not deleted is decided long before
the deletion, under a lock that is no longer held: the invariant carries the
check forward (`CheckedGraphIsUnused`: between the check and the end of an
operation the graph has no user, because every claim looks at the mark the
check left), and ties the users to the reference (`WritersUseTheGraph`,
`ReadersUseTheGraph`). `NoOrphanGraph` needs that a build which has made a
graph still owns its project when it records it (`BuildOwnsProject`,
`BuildKnowsItsGraph`) and that the reference is dropped only after the graph is
gone (`DeletedBeforeSave`).

**Why `IpcInv`.** A command found by an environment says nothing about its
caller: `CommandsHaveCallers` ties each file to the state of the caller that
wrote it, `ServedIsOver` says that what was carried out is over for its caller
and its file gone or about to be removed, which is what keeps it from being
served again, and `ClosedForGood` that nothing follows a closing.

**Why `UpdaterInv`.** Order and uniqueness are one argument: everything accepted
stands in a line, by platform, from what was written over what a batch holds
and the buffers to the queue (`InLine`), so that a payload taken from the front
is new, and later than all that was written. During a flush the buffer still
holds what was sent: `Unwritten` cuts it, and `StopIsConsistent` says that the
cut is what stop holds, and that the worker is dead by then. The
refinement is then by kinds of steps: an accept, a closing, an attempt at a new
payload, an ingestion, the end, or nothing the contract sees.

**Why `SyncInv`.** That a row is ready says nothing inductive: what an execution
read from the row, was told by a bridge or holds from before is used much later,
when others have overwritten the row. The invariant says instead that whatever
anyone knows of a graph or a batch is true *of the evidence they know it for*:
the execution and the row (`ExecKnows`, `MappingKnows`), the bridge and every
message still in its pipe (`BridgeKnows`). What there is to know are three sets
(`ReservedFor`, `BatchesFor`, `Ingested`) which only grow, so that what one knew
stays true whatever the others do; each step is then left with what it
learns itself. Completeness needs no order between executions that add to
one batch: `AddedInStep` says that the groups a bridge has added are there, and
that there is nothing else if there are only as many; the count that
`_wait_for_batch` insists on does the rest. `AddedOnce` is for a batch that nobody
else took up.

**Why `ChildrenInv`, `RowsInv`, `WholeInv` (`OasisRun`).** That at most one child
lives is not about executions at all: any two may overlap, but each asks
`direct_runtime.json` first, and the child named there is the only one that
can be alive (`ChildrenInv`). `RowsArePrefix` needs what an execution holds in
memory: the rows it kept and those it has just got are what its child did up
to its cursors, and the rows of the run are those it kept (`Holds`). This is
where overlap matters: another execution would append to the same rows. For
`ResultIsWhole` the end of a log must mean that the cursor is there (`Sees`);
between the two reads of a snapshot that is so only if the child does not log
in between, which is `AtomicRead`. A checkpoint that says completed speaks for
one child that came to its own end and whose actions are at Zep (`Ingested`).

**Why `FlowInv`, `ChildInv`, `TailInv` (`SimulationRunner`).** Locks do not say
who may publish a status: the join of a stop is outside the lock, a failed start
drains without it, and a monitor cleans up without it. `FlowInv` says who is at
work instead: a monitor between its begin and its last drain is that of the
last run, registered, and the status is `running` or `stopping`; and a
request that starts, cleans the logs, finishes or releases has no such monitor
beside it. What ties the two is the wait of a stop: the monitor it found is
the one at work (`RequestIsAlone`), which fails as soon as a monitor of an
earlier run can take away the registration of a later one, or a second
request can come between -- the two halves of `Calm`. That an updater outlives no
terminal status then needs only that it is flagged, but between its creation
and the flag (`UpdaterIsOfTheRun`). `ChildInv` adds that a child which is alive
is about to be published or has a monitor that has not seen it exit, so that
every status published, every line written and every release finds the right
answer; `TailInv` that what the monitor has read, up to its position and
then up to where a reading stands, was handed to an updater that is open until the
barrier: the reading that follows the exit of the child reaches the end of
the log.

**Why `RangeInv` and `WholeInv` (`EnvironmentPreparation`).** That the range of
agents per hour can be drawn from is computed three steps before the
configuration is written: `Ranged` carries it there with the number of entities
it was made for, and says that the batches made so far cover exactly the first
agents, `batches * BatchSize` of them or all; the divisions of the fallback are
bounded for any number of agents. `WholeInv` says that whoever may still say
"prepared" -- the flag in `state.json`, a check about to write it, a thread that
remembers it from the beginning -- has good files behind it, and that a thread
which replaces files has first made all three forget.

**Why `SectionsInv`, `TasksInv`, `GroundedInv` (`ReportAgent`).** The place of the
thread says what the folder holds (`Sound`): before section `n` is saved, the
first `n - 1` sections and no other, all of the present run of the simulation --
the lease is why there is no other run -- so that the files found by their names
when the report is assembled are all and in order, by a lemma about
`Found` (`FoundInOrder`; that ranks below the size of a finite set are taken is
proved from cardinalities, not by induction). `TasksInv` adds that only a
deletion follows the save a completed task speaks of. `GroundedInv` says that no
answer is remembered before the loop of the section has accepted one.

**Layout.** Lemmas about effects give the fields of each step, so that later
steps need no updates of records; each step of the service is first shown to be
a step or a stutter of the queue, so `QueueInv` carries over; then one lemma per
part of an invariant, with one step per action that can disturb it, the others
being grouped by the variables they leave alone.

**Only model-checked.** Liveness (`EveryJobSettles`, `StopSettles`,
`StoppingEnds`, `EveryReportEnds`, `NoCommandIsStuck`, `PreparationSettles`):
fairness and ENABLED are beyond the proof system as used here. Every safety
property of the runs is a theorem.

## 6. Observations

What the code does that a reader might not expect. Each was met while writing
a module or in a trace of TLC; most are left out of the runs because each would
be a run of its own that checks one statement. Where a constant of section 3
switches the behaviour on, it is named.

### The queue and the service

* **A cancelled job can be revived.** `fail_job` (`app/repository.py:1428`) looks
  at owner and token, not at the status: a retryable failure of an execution that
  goes on after `control("cancel")` puts the row back to queued. The action
  `FailJob` does this; `JobContract` is stated so that it allows it.
* **A job paused during its last attempt and resumed is never claimed.** It is
  queued with `attempts = max_attempts`, and `repository.py:1358` claims only
  below that; the expiry scan looks at running rows. This is why
  `WorkflowFaults`, which checks `EveryJobSettles`, has no controls.
* **`start()` marks the stage after it has enqueued** (`app/service.py:401`): a
  worker may have claimed, and failed, the job before, and the stage is then
  shown as queued for ever.
* **Embedded workers do not retry**: the thread of `service.py:406` calls `run_once`
  once, so a job that is requeued waits for another start or a restart.
* **The revision is checked on an earlier read** (`service.py:572`) and the result
  is written without looking again: an edit between the two is overwritten by a
  result that did not see it. `ComputedOnItsInput` says what does hold.
* **The control of a run acts on the simulation's active job** (`app/api.py:634`)
  without comparing its run with the one of the address; a start that is refused
  (`api.py:545`) leaves its run queued, so the two may differ.
* **Reports of executions are not fenced**: `_progress`, `_retry` and `_fail`
  (`service.py:484`) write the snapshot whatever the token is. An overtaken
  execution overwrites what the newer one wrote; `_progress` overwrites a
  cancelled stage with running; a thread that claimed a job and slept through its
  lease writes running over the completed run of a later execution
  (`service.py:420`, `sync_run_status` is unconditional).
* **Dead-lettering touches the job row only** (`repository.py:1457`): stage and run of
  a job whose worker died for the last time stay running.

### Projects

* Jobs are counted before the status is updated (`repository.py:296`), and
  `put_job` may insert in between: a project can be archived, or wait for its
  deletion, with an active job.
* A purge that fails half-way has deleted objects of a project that still waits
  for its deletion: a user who restores it lacks documents.
* Restoring does not look at `max_active_projects`: archiving, creating and
  restoring exceeds it.
* `update_project` (`repository.py:271`) writes the project's version into
  `state.revision`; preparing a run (`repository.py:616`) appends the custom
  personas to a snapshot that already has those of the run before.
* An error raised although the bundle was committed (`service.py:223`) deletes
  the documents of a project that exists.

### Evidence at Zep

* A draft batch that is resumed after its adding was interrupted may never be
  handed over, and a failed batch is resumed on every attempt: the mapping then
  never becomes ready.
* A graph that was created while its reply was lost makes each later `create`
  with the same id fail.
* Some milestones clear the batch id, so a later execution makes a second batch
  of the same evidence (`service.py:698`; the docstring of
  `graph_builder.py:417-420` speaks of one). After an ambiguous create an old draft
  of the same operation is used again and its items are added once more.
* A stale execution overwrites the mapping of its successor; an attempt that
  cannot resume abandons the old graph at Zep; after a run the status in the
  mapping is running, completed or failed, and a later preparation, which finds
  it neither up to date nor resumable, makes a new graph.

### A run of the simulation

* **Lost lines** (`AtomicRead` FALSE): a snapshot reads the new lines of a log
  and then looks for its end (`app/oasis_direct.py:304-310`). Lines logged in between,
  followed by the end, are never read, and the published result lacks them.
* **A stale execution stops its successor's child** (`Overlap` TRUE): losing the
  token looks like a stop (`service.py:879-880`), and the child logs
  `simulation_end` on SIGTERM, so that a truncated run passes for a whole one.
* The child of a crashed attempt is adopted by whatever run comes next:
  `oasis_direct.py:209-210` compares neither run nor configuration. A retry after
  a completed ingestion keeps the checkpoint of the first attempt's actions. A
  database error leaves the child running.

### The runner of the engine

With more than one client TLC finds violations of `OneChild`, `TailIngested` and
`TerminalMeansDrained`, with `PromptCleanup` FALSE of `TerminalMeansDrained`:

* a stop or a clean of the logs accepted during STARTING lets the start go on and
  publish over it: two children (`simulation_runner.py:423-425`);
* a monitor whose save raises marks the run failed with its child alive (815-822,
  666);
* a second stop beside the first is taken for a retry of the finalization: it does
  not wait for the monitor (1015-1017), and the last lines are not read;
* the last statements of a monitor may remove the entries of the run that was
  published in the meantime (747-765, 560).

Further: `force` has no effect on a run that has started; after a crash the child
is an orphan, for `process_pid` is never used (300), and a restart without force
reads the old log from its beginning; a stale manual marker labels a natural end
STOPPED.

### The graph of a project

* Another simulation of the project may write while a report reads
  (`report.py:163-205` looks at its own simulation; `ReportsReadAtRest` is
  stated for that one).
* A deletion whose reply was lost leaves a project that points at a deleted graph;
  `delete_graph` finds its projects before it takes their locks (928); a build
  whose thread cannot start leaves its task pending (`graph.py:801-820`).

### Interviews

* A caller that times out removes its command file; if that falls between the
  listing and the question for the file's time, the exception ends the loop and
  closes the environment (`run_parallel_simulation.py:289-290`).
* The files of killed callers are carried out by a later environment; a stale
  closing closes it. A timeout of a closing is answered as success. A killed
  child leaves the status alive, so callers wait for their timeout.
* The application reads a half-written response as a failure
  (`oasis_direct.py:520-527`); `service.interview` enumerates a dictionary keyed
  `twitter_0`, so what it shows are the keys (`service.py:1264-1272`,
  `run_parallel_simulation.py:527-530`); the answer of an agent is its latest
  trace, which may be an older one.

### Preparation and reports

* Two overlapping preparations mix their files (`Overlap` TRUE); the status check
  is a read-modify-write of `state.json` (`simulation.py:312-359`) and can undo
  the reset of a preparation that has begun, so that half-rewritten files count
  as prepared (`AtomicCheck` FALSE).
* A simulation of one platform never counts as prepared; a torn `state.json` makes
  every later request fail; a crash leaves the status at preparing until the next
  request. `_parse_time_config` may give equal ends of the range, or a most of one
  more than there are agents, despite the comments at 622 and 631
  (`simulation_config_generator.py`); `RangeIsUsable` says what holds of the range.
* A report deleted while it is written is completed without its first sections
  (`DeletesBusy` TRUE; `report_agent.py:2042` against `report.py:563`). A completed
  report of an earlier run is returned after a rerun. A torn `meta.json` makes the
  requests of every simulation fail. Failures of the language model end in
  completed reports that hold the failure's text. A crash leaves a report pending.

## 7. What is left

In the order of its worth:

1. the composition of `OasisSync` and `OasisRun` with `Workflow`: that what a job
   publishes is what an execution brought home is at present by
   reading the two side by side;
2. the event stream: writers that take a sequence number and commit later, a
   reader with a cursor, the merge of the client;
3. scenario revisions, personas, reproduction and comparison;
4. sessions and the rate limiter.

## 8. What is not modelled, and why

* **Archiving during a run.** `Workflow` assumes that its project stays active,
  which the code does not ensure (section 6). `_mutate` then discards the result
  and the job still completes: `CompletedMeansPublished` is about jobs whose
  project is not archived meanwhile.
* **`update_project`, `duplicate_project`, scenario revisions**: one transaction
  each, apart from the control of jobs.
* **A commit whose acknowledgement is lost.** In `ProjectLifecycle` a bundle
  commits or the call sees an error, never both.
* **Projects without an owner** (guests) have no quota and no keys.
* **The event stream.** One table that is appended to and paged by number. The
  window is that a number may become visible after a larger one
  (`repository.py:919`); what the client makes of it is in the web application.
* **Accounts, sessions, the rate limiter**: check-then-act on single rows.
* **Providers, extraction, the searches of the graph, the ontology generator**
  are functions of their input; only how a call ends matters to the control.
* **Quick demo** writes a fixed bundle; no job runs. **Migrations** run before the
  program starts. **Web application**: rendering.
* **Wording, layout, logging, prompts** are left out everywhere.
