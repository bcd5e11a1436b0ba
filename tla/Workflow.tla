----------------------------- MODULE Workflow -----------------------------
(***************************************************************************)
(* WorkflowService of backend/app/service.py on top of the job queue: one  *)
(* simulation, the stages of its snapshot, its scenario runs, the threads  *)
(* that execute its jobs (run_once and _execute) and the requests that     *)
(* start stages and control them.                                          *)
(*                                                                         *)
(* Every step is one database transaction; between two of them any other   *)
(* thread, process or request may act.  The snapshot (simulations.state)   *)
(* is written by Repository.mutate under a row lock, but no write of an    *)
(* execution is conditional on its lease.                                  *)
(*                                                                         *)
(* The interaction stage is left out: no job runs it.                      *)
(***************************************************************************)
EXTENDS JobQueue

CONSTANTS
  Runs,         \* scenario run ids
  Clients,      \* API requests, each doing one thing at a time
  MaxRevision,  \* bound of the model on the snapshot's revision
  DoneAtStart,  \* stages completed before the behaviour starts, their jobs left out
  Embedded,     \* the executors that are threads of the API (settings.embedded_worker)
  Faulty,       \* processes may die or outlive their leases
  NoRun

ASSUME WorkflowAssumption ==
  /\ Cardinality(Simulations) = 1
  /\ MaxRevision \in Nat \ {0}
  /\ DoneAtStart \in 0..4
  /\ Embedded \subseteq Executors /\ Faulty \in BOOLEAN
  /\ NoRun \notin Runs

VARIABLES
  stage,      \* stage[s]: state["stages"][s]["status"]
  current,    \* state["current_stage"]
  revision,   \* state["revision"]
  graph,      \* what state["graph"] holds
  run,        \* run[r]: the status of scenario run r, "absent" before its insert
  info,       \* info[j]: stage, input_revision and run_id of job j
  published,  \* published[j]: the attempts that wrote a result of j into the snapshot
  work,       \* work[e]: how far thread e is in run_once
  req,        \* req[c]: how far request c is in start() or control()
  spawned     \* embedded threads that have not claimed their job yet

stateVars == <<stage, current, revision, graph>>
workflowVars == <<queueVars, stateVars, run, info, published, work, req, spawned>>

Stages == <<"graph", "environment", "simulation", "report">>
StageNames == {"graph", "environment", "simulation", "report"}
Following(s) == CASE s = "graph" -> "environment" [] s = "environment" -> "simulation"
                  [] s = "simulation" -> "report" [] s = "report" -> "interaction"
Derived == {"environment", "simulation", "report"}
DoneStages == {Stages[i] : i \in 1..DoneAtStart}

StageStatus == {"ready", "locked", "queued", "running", "paused", "completed",
                "failed", "cancelled"}
InProgress == {"queued", "running", "paused"}

WorkPC == {"idle", "claimed", "started", "working", "building", "built", "renewed",
           "validating", "same", "changed", "checked", "published", "finished",
           "failing", "failed", "reporting"}
NoWork == [pc |-> "idle", job |-> NoJob, attempt |-> 0, base |-> 0, retry |-> FALSE]
NoRequest == [pc |-> "idle", stage |-> "graph", rev |-> 0, job |-> NoJob,
              status |-> "paused", run |-> NoRun]
NoInfo == [stage |-> "graph", input |-> 0, run |-> NoRun]

Info == [stage: StageNames, input: 0..MaxRevision, run: Runs \cup {NoRun}]
Work == [pc: WorkPC, job: Jobs \cup {NoJob}, attempt: 0..MaxAttempts,
         base: 0..MaxRevision, retry: BOOLEAN]
RequestPC == {"idle", "starting", "enqueuing", "marking", "controlling", "syncing", "displaying"}
Request == [pc: RequestPC, stage: StageNames, rev: 0..MaxRevision, job: Jobs \cup {NoJob},
            status: {"paused", "queued", "cancelled"}, run: Runs \cup {NoRun}]

WorkflowTypeOK ==
  /\ QueueTypeOK
  /\ stage \in [StageNames -> StageStatus]
  /\ current \in StageNames \cup {"interaction"}
  /\ revision \in 1..MaxRevision
  /\ graph \in {"empty", "partial", "complete"}
  /\ run \in [Runs -> JobStatus \cup {"absent"}]
  /\ info \in [Jobs -> Info]
  /\ published \in [Jobs -> SUBSET AttemptNumbers]
  /\ work \in [Executors -> Work]
  /\ req \in [Clients -> Request]
  /\ spawned \subseteq Jobs

WorkflowInit ==
  /\ QueueInit
  /\ stage = [s \in StageNames |->
       IF s \in DoneStages THEN "completed"
       ELSE IF \A i \in 1..4 : Stages[i] = s => i = DoneAtStart + 1 THEN "ready" ELSE "locked"]
  /\ current = IF DoneAtStart = 4 THEN "interaction" ELSE Stages[DoneAtStart + 1]
  /\ revision = 1
  /\ graph = IF DoneAtStart > 0 THEN "complete" ELSE "empty"
  /\ run = [r \in Runs |-> "absent"]
  /\ info = [j \in Jobs |-> NoInfo]
  /\ published = [j \in Jobs |-> {}]
  /\ work = [e \in Executors |-> NoWork]
  /\ req = [c \in Clients |-> NoRequest]
  /\ spawned = {}

ProjectExists == DoneAtStart > 0 \/ \E j \in Jobs : jobs[j].status # "absent"

(* A result of the stage was written, by a job or before the behaviour.    *)
Delivered(s) ==
  s \in DoneStages \/ \E j \in Jobs : info[j].stage = s /\ published[j] # {}

Spawn(j) == spawned' = IF Embedded # {} THEN spawned \cup {j} ELSE spawned

(* create_project: one transaction inserts the project, its snapshot with  *)
(* the graph stage queued, and the graph job.                              *)
CreateProject(j) ==
  /\ ~ProjectExists
  /\ PutJob(j)
  /\ info' = [info EXCEPT ![j] = [stage |-> "graph", input |-> revision, run |-> NoRun]]
  /\ stage' = [stage EXCEPT !["graph"] = "queued"]
  /\ Spawn(j)
  /\ UNCHANGED <<current, revision, graph, run, published, work, req>>

-----------------------------------------------------------------------------
(* start(): read the snapshot, insert the job, mark the stage *)

(* prepare_scenario_run and prepare_reproduction, once there are personas: *)
(* the snapshot gets the environment of the run, a new revision, and the   *)
(* run is inserted; the request goes on to start the simulation stage.     *)
PrepareRun(c, r) ==
  /\ req[c].pc = "idle" /\ Delivered("environment")
  /\ run[r] = "absent"
  /\ revision < MaxRevision
  /\ run' = [run EXCEPT ![r] = "queued"]
  /\ revision' = revision + 1
  /\ req' = [req EXCEPT ![c] = [NoRequest EXCEPT !.pc = "starting",
                                                !.stage = "simulation", !.run = r]]
  /\ UNCHANGED <<queueVars, stage, current, graph, info, published, work, spawned>>

(* Mutant: locked stages start as well. *)
StartableThoughLocked(s) == stage[s] \notin InProgress

Startable(s) == stage[s] \notin InProgress \cup {"locked"}

StartReads(c, s) ==
  /\ ProjectExists
  /\ \/ req[c].pc = "idle"
     \/ req[c].pc = "starting" /\ s = "simulation"
  /\ Startable(s)
  /\ req' = [req EXCEPT ![c].pc = "enqueuing", ![c].stage = s, ![c].rev = revision]
  /\ UNCHANGED <<queueVars, stateVars, run, info, published, work, spawned>>

(* ValueError: the stage is locked or in progress; a prepared run stays.   *)
StartRefused(c) ==
  /\ req[c].pc = "starting"
  /\ ~Startable("simulation")
  /\ req' = [req EXCEPT ![c] = NoRequest]
  /\ UNCHANGED <<queueVars, stateVars, run, info, published, work, spawned>>

StartEnqueues(c, j) ==
  /\ req[c].pc = "enqueuing"
  /\ PutJob(j)
  /\ info' = [info EXCEPT ![j] =
       [stage |-> req[c].stage, input |-> req[c].rev, run |-> req[c].run]]
  /\ req' = [req EXCEPT ![c].pc = "marking", ![c].job = j]
  /\ UNCHANGED <<stateVars, run, published, work, spawned>>

(* put_job returned False, after the ten short waits when there were any.  *)
StartConflicts(c) ==
  /\ req[c].pc = "enqueuing"
  /\ \E j \in Jobs : Active(j)
  /\ req' = [req EXCEPT ![c] = NoRequest]
  /\ UNCHANGED <<queueVars, stateVars, run, info, published, work, spawned>>

(* The snapshot is marked in a transaction of its own, after the job can   *)
(* already be claimed.                                                     *)
StartMarks(c) ==
  LET s == req[c].stage IN
  /\ req[c].pc = "marking"
  /\ stage' = [stage EXCEPT ![s] = "queued"]
  /\ current' = s
  /\ Spawn(req[c].job)
  /\ req' = [req EXCEPT ![c] = NoRequest]
  /\ UNCHANGED <<queueVars, revision, graph, run, info, published, work>>

-----------------------------------------------------------------------------
(* control(): pause, resume, cancel *)

(* The active job is read, whichever run it executes: control_scenario_run *)
(* looks the run up only to find the simulation.                           *)
ControlReads(c, status, r) ==
  /\ req[c].pc = "idle"
  /\ current = "simulation"
  /\ r # NoRun => run[r] # "absent"
  /\ \E j \in Jobs :
       /\ Active(j)
       /\ req' = [req EXCEPT ![c] = [NoRequest EXCEPT !.pc = "controlling", !.job = j,
                                                     !.status = status, !.run = r]]
  /\ UNCHANGED <<queueVars, stateVars, run, info, published, work, spawned>>

ControlSets(c) ==
  LET j == req[c].job IN
  /\ req[c].pc = "controlling"
  /\ SetJobStatus(j, req[c].status)
  /\ req' = [req EXCEPT ![c].pc = IF info[j].run = NoRun THEN "displaying" ELSE "syncing"]
  /\ UNCHANGED <<stateVars, run, info, published, work, spawned>>

ControlRefused(c) ==
  /\ req[c].pc = "controlling"
  /\ jobs[req[c].job].status \notin AllowedFrom(req[c].status)
  /\ req' = [req EXCEPT ![c] = NoRequest]
  /\ UNCHANGED <<queueVars, stateVars, run, info, published, work, spawned>>

ControlSyncsRun(c) ==
  /\ req[c].pc = "syncing"
  /\ run' = [run EXCEPT ![info[req[c].job].run] = req[c].status]
  /\ req' = [req EXCEPT ![c].pc = "displaying"]
  /\ UNCHANGED <<queueVars, stateVars, info, published, work, spawned>>

ControlDisplays(c) ==
  LET status == req[c].status IN
  /\ req[c].pc = "displaying"
  /\ stage' = [stage EXCEPT !["simulation"] = IF status = "queued" THEN "running" ELSE status]
  /\ IF status = "queued" THEN Spawn(req[c].job) ELSE UNCHANGED spawned
  /\ req' = [req EXCEPT ![c] = NoRequest]
  /\ UNCHANGED <<queueVars, current, revision, graph, run, info, published, work>>

-----------------------------------------------------------------------------
(* Edits of the snapshot *)

(* apply_graph_feedback: asks neither for a finished graph nor for an idle *)
(* simulation.                                                             *)
ApplyGraphFeedback ==
  /\ ProjectExists
  /\ revision < MaxRevision
  /\ revision' = revision + 1
  /\ stage' = [s \in StageNames |-> IF s = "environment" THEN "ready"
                                    ELSE IF s \in Derived THEN "locked" ELSE stage[s]]
  /\ UNCHANGED <<queueVars, current, graph, run, info, published, work, req, spawned>>

(* PATCH .../environment *)
UpdateEnvironment ==
  /\ ProjectExists
  /\ revision < MaxRevision
  /\ revision' = revision + 1
  /\ UNCHANGED <<queueVars, stage, current, graph, run, info, published, work, req, spawned>>

-----------------------------------------------------------------------------
(* run_once() and _execute() *)

StageOf(e) == info[work[e].job].stage
RunOf(e) == info[work[e].job].run
Goes(e, pc) == work' = [work EXCEPT ![e].pc = pc]
Shows(e, status) == stage' = [stage EXCEPT ![StageOf(e)] = status]

Claims(e, j) ==
  /\ work[e].pc = "idle"
  /\ e \in Embedded => j \in spawned
  /\ ClaimNextJob(e, j)
  /\ work' = [work EXCEPT ![e] = [NoWork EXCEPT !.pc = "claimed", !.job = j,
                                               !.attempt = jobs'[j].attempts]]
  /\ spawned' = IF e \in Embedded THEN spawned \ {j} ELSE spawned
  /\ UNCHANGED <<stateVars, run, info, published, req>>

(* An embedded thread that finds nothing to claim ends. *)
ThreadEnds(j) ==
  /\ j \in spawned /\ ~Claimable(j)
  /\ spawned' = spawned \ {j}
  /\ UNCHANGED <<queueVars, stateVars, run, info, published, work, req>>

SyncsRunning(e) ==
  /\ work[e].pc = "claimed" /\ RunOf(e) # NoRun
  /\ run' = [run EXCEPT ![RunOf(e)] = "running"]
  /\ Goes(e, "started")
  /\ UNCHANGED <<queueVars, stateVars, info, published, req, spawned>>

(* _progress, before the work. *)
Progresses(e) ==
  /\ \/ work[e].pc = "started"
     \/ work[e].pc = "claimed" /\ RunOf(e) = NoRun
  /\ Shows(e, "running")
  /\ Goes(e, "working")
  /\ UNCHANGED <<queueVars, current, revision, graph, run, info, published, req, spawned>>

(* An execution that ends without a word to the queue: _execute returned   *)
(* False.                                                                  *)
Abandons(e) ==
  /\ DropClaim(e)
  /\ work' = [work EXCEPT ![e] = NoWork]
  /\ UNCHANGED <<stateVars, run, info, published, req, spawned>>

(* The snapshot is read, then job_control_state asks for a running row of  *)
(* this token.                                                             *)
Controlled(e) == jobs[work[e].job].status # "running" \/ jobs[work[e].job].token # claim[e].token

Works(e) ==
  /\ work[e].pc = "working"
  /\ ~Controlled(e)
  /\ work' = [work EXCEPT ![e].pc = IF StageOf(e) = "graph" THEN "building" ELSE "built",
                          ![e].base = revision]
  /\ UNCHANGED <<queueVars, stateVars, run, info, published, req, spawned>>

StopsBeforeWork(e) ==
  /\ work[e].pc = "working"
  /\ Controlled(e)
  /\ Abandons(e)

(* The graph stage empties the graph and streams the new one into it.      *)
BuildsGraph(e) ==
  /\ work[e].pc = "building"
  /\ graph' = "partial"
  /\ Shows(e, "running")
  /\ Goes(e, "built")
  /\ UNCHANGED <<queueVars, current, revision, run, info, published, req, spawned>>

(* The lease is renewed before the result is published. *)
Renews(e) ==
  /\ work[e].pc = "built"
  /\ RenewJobLease(e)
  /\ Goes(e, "renewed")
  /\ UNCHANGED <<stateVars, run, info, published, req, spawned>>

LosesLease(e) ==
  /\ work[e].pc = "built"
  /\ ~HoldsLease(e, work[e].job)
  /\ Abandons(e)

Validates(e) ==
  /\ work[e].pc = "renewed"
  /\ Shows(e, "running")
  /\ Goes(e, "validating")
  /\ UNCHANGED <<queueVars, current, revision, graph, run, info, published, req, spawned>>

(* The snapshot is read once more, then the job's status, whoever holds it. *)
(* Mutant: no revision check. *)
UncheckedRevision(e) == revision >= info[work[e].job].input

Unchanged(e) == revision = info[work[e].job].input

ReadsAgain(e) ==
  /\ work[e].pc = "validating"
  /\ Goes(e, IF Unchanged(e) THEN "same" ELSE "changed")
  /\ UNCHANGED <<queueVars, stateVars, run, info, published, req, spawned>>

ChecksResult(e) ==
  /\ work[e].pc = "same"
  /\ jobs[work[e].job].status = "running"
  /\ Goes(e, "checked")
  /\ UNCHANGED <<queueVars, stateVars, run, info, published, req, spawned>>

StopsBeforePublishing(e) ==
  /\ work[e].pc \in {"same", "changed"}
  /\ jobs[work[e].job].status # "running"
  /\ Abandons(e)

(* What _execute and run_once raise, and whether run_once will retry it. *)
Raises(e, retryable) ==
  work' = [work EXCEPT ![e].pc = "failing",
                       ![e].retry = retryable /\ work[e].attempt < MaxAttempts]

FindsItChanged(e) ==
  /\ work[e].pc = "changed"
  /\ jobs[work[e].job].status = "running"
  /\ Raises(e, TRUE)
  /\ UNCHANGED <<queueVars, stateVars, run, info, published, req, spawned>>

(* The provider, the parsing of documents or the stopped OASIS run raise;  *)
(* so does the insert of citations after the result was published.         *)
WorkFails(e, retryable) ==
  /\ \/ work[e].pc \in {"working", "building", "built"}
     \/ work[e].pc = "published" /\ StageOf(e) \in {"graph", "report"}
  /\ Raises(e, retryable)
  /\ UNCHANGED <<queueVars, stateVars, run, info, published, req, spawned>>

(* _complete, with the run in the same transaction. *)
Publishes(e) ==
  LET s == StageOf(e) IN
  /\ work[e].pc = "checked"
  /\ stage' = [n \in StageNames |-> IF n = s THEN "completed"
                                    ELSE IF n = Following(s) THEN "ready" ELSE stage[n]]
  /\ current' = Following(s)
  /\ graph' = IF s = "graph" THEN "complete" ELSE graph
  /\ run' = IF RunOf(e) = NoRun THEN run ELSE [run EXCEPT ![RunOf(e)] = "completed"]
  /\ published' = [published EXCEPT ![work[e].job] = @ \cup {work[e].attempt}]
  /\ Goes(e, "published")
  /\ UNCHANGED <<queueVars, revision, info, req, spawned>>

(* Mutant: the job is closed before its result is written. *)
FinishesFirst(e) ==
  /\ work[e].pc = "checked"
  /\ FinishJob(e)
  /\ work' = [work EXCEPT ![e] = IF RunOf(e) = NoRun THEN NoWork ELSE [@ EXCEPT !.pc = "finished"]]
  /\ UNCHANGED <<stateVars, run, info, published, req, spawned>>

Finishes(e) ==
  /\ work[e].pc = "published"
  /\ FinishJob(e)
  /\ work' = [work EXCEPT ![e] = IF RunOf(e) = NoRun THEN NoWork ELSE [@ EXCEPT !.pc = "finished"]]
  /\ UNCHANGED <<stateVars, run, info, published, req, spawned>>

CannotFinish(e) ==
  /\ work[e].pc = "published"
  /\ ~HoldsLease(e, work[e].job)
  /\ Raises(e, TRUE)
  /\ UNCHANGED <<queueVars, stateVars, run, info, published, req, spawned>>

SyncsCompleted(e) ==
  /\ work[e].pc = "finished"
  /\ run' = [run EXCEPT ![RunOf(e)] = "completed"]
  /\ work' = [work EXCEPT ![e] = NoWork]
  /\ UNCHANGED <<queueVars, stateVars, info, published, req, spawned>>

(* The except branch: fail_job, whose answer is ignored, the run, the stage. *)
AfterFailing(e) ==
  Goes(e, IF RunOf(e) # NoRun /\ ~work[e].retry THEN "failed" ELSE "reporting")

Fails(e) ==
  /\ work[e].pc = "failing"
  /\ \/ FailJob(e, work[e].retry)
     \/ ~Fenced(e, work[e].job) /\ DropClaim(e)
  /\ AfterFailing(e)
  /\ UNCHANGED <<stateVars, run, info, published, req, spawned>>

(* fail_job raised: the simulation has another active job. *)
RetryConflicts(e) ==
  /\ work[e].pc = "failing" /\ work[e].retry
  /\ Fenced(e, work[e].job) /\ ~ActiveSlotFree(work[e].job)
  /\ Abandons(e)

SyncsFailed(e) ==
  /\ work[e].pc = "failed"
  /\ run' = [run EXCEPT ![RunOf(e)] = "failed"]
  /\ Goes(e, "reporting")
  /\ UNCHANGED <<queueVars, stateVars, info, published, req, spawned>>

(* _retry or _fail *)
Reports(e) ==
  /\ work[e].pc = "reporting"
  /\ Shows(e, IF work[e].retry THEN "queued" ELSE "failed")
  /\ work' = [work EXCEPT ![e] = NoWork]
  /\ UNCHANGED <<queueVars, current, revision, graph, run, info, published, req, spawned>>

-----------------------------------------------------------------------------
(* Background: the heartbeat, the expiry scan, time, and faults *)

Rest == <<stateVars, run, info, published, req, spawned>>

Heartbeats(e) ==
  /\ work[e].pc \notin {"idle", "claimed"}
  /\ RenewJobLease(e)
  /\ UNCHANGED <<work, Rest>>

Requeues == RequeueExpiredJobs /\ UNCHANGED <<work, Rest>>
TimePasses(j) ==
  /\ (Faulty /\ LeaseExpires(j)) \/ BackoffElapses(j)
  /\ UNCHANGED <<work, Rest>>

WorkerDies(e) ==
  /\ Faulty /\ work[e].pc # "idle"
  /\ IF claim[e] = NoClaim THEN UNCHANGED queueVars ELSE DropClaim(e)
  /\ work' = [work EXCEPT ![e] = NoWork]
  /\ UNCHANGED Rest

RequestDies(c) ==
  /\ Faulty /\ req[c].pc # "idle"
  /\ req' = [req EXCEPT ![c] = NoRequest]
  /\ UNCHANGED <<queueVars, stateVars, run, info, published, work, spawned>>

-----------------------------------------------------------------------------
RequestStep(c) ==
  \/ StartRefused(c) \/ StartConflicts(c) \/ StartMarks(c)
  \/ req[c].pc = "starting" /\ StartReads(c, "simulation")
  \/ \E j \in Jobs : StartEnqueues(c, j)
  \/ ControlSets(c) \/ ControlRefused(c) \/ ControlSyncsRun(c) \/ ControlDisplays(c)

WorkStep(e) ==
  \/ SyncsRunning(e) \/ Progresses(e) \/ Works(e) \/ StopsBeforeWork(e)
  \/ BuildsGraph(e) \/ Renews(e) \/ LosesLease(e) \/ Validates(e)
  \/ ReadsAgain(e) \/ ChecksResult(e) \/ StopsBeforePublishing(e) \/ FindsItChanged(e)
  \/ \E retryable \in BOOLEAN : WorkFails(e, retryable)
  \/ Publishes(e) \/ Finishes(e) \/ CannotFinish(e) \/ SyncsCompleted(e)
  \/ Fails(e) \/ RetryConflicts(e) \/ SyncsFailed(e) \/ Reports(e)

WorkflowNext ==
  \/ \E j \in Jobs : CreateProject(j)
  \/ \E c \in Clients, r \in Runs : PrepareRun(c, r)
  \/ \E c \in Clients, s \in StageNames : StartReads(c, s)
  \/ \E c \in Clients, status \in Controls, r \in Runs \cup {NoRun} : ControlReads(c, status, r)
  \/ \E c \in Clients : RequestStep(c)
  \/ ApplyGraphFeedback \/ UpdateEnvironment
  \/ \E e \in Executors, j \in Jobs : Claims(e, j)
  \/ \E j \in Jobs : ThreadEnds(j)
  \/ \E e \in Executors : WorkStep(e)
  \/ \E e \in Executors : Heartbeats(e)
  \/ Requeues
  \/ \E j \in Jobs : TimePasses(j)
  \/ \E e \in Executors : WorkerDies(e)
  \/ \E c \in Clients : RequestDies(c)

WorkflowSpec == WorkflowInit /\ [][WorkflowNext]_workflowVars

(* Fairness: threads and requests take their next step, the worker polls,  *)
(* time passes.  Users, edits and faults are not fair.                     *)
WorkflowFairness ==
  /\ WF_workflowVars(Requeues)
  /\ WF_workflowVars(\E e \in Executors, j \in Jobs : Claims(e, j))
  /\ \A e \in Executors : WF_workflowVars(WorkStep(e))
  /\ \A c \in Clients : WF_workflowVars(RequestStep(c))
  /\ \A j \in Jobs : WF_workflowVars(TimePasses(j))

FairWorkflowSpec == WorkflowSpec /\ WorkflowFairness

-----------------------------------------------------------------------------
(* Safety *)

(* A job is completed only after the attempt that completes it has written *)
(* its result: a crash, expiry or control between the two never loses one. *)
CompletedMeansPublished ==
  \A j \in Jobs : jobs[j].status = "completed" => jobs[j].attempts \in published[j]

(* A result that passed the revision check was computed on the revision    *)
(* its job was queued for, although the snapshot is read long before the   *)
(* check and edited in between.                                            *)
ComputedOnItsInput ==
  \A e \in Executors : work[e].pc \in {"checked", "published"} =>
    work[e].base = info[work[e].job].input

(* No simulation without an environment, no report without a simulation,   *)
(* whatever edits lock and requests start in between.                      *)
DeliveredInOrder ==
  /\ Delivered("simulation") => Delivered("environment")
  /\ Delivered("report") => Delivered("simulation")

(* A scenario run shows completed only when a job of its own published.    *)
CompletedRunHasResult ==
  \A r \in Runs : run[r] = "completed" =>
    \E j \in Jobs : info[j].run = r /\ published[j] # {}

(* Threads, requests and faults use the tables only as the queue allows    *)
(* it, so whatever holds of every behaviour of the queue holds here.       *)
RunsOnTheQueue == QueueSpec

(* The inductive invariant behind the properties above.  A thread that     *)
(* holds a job holds the claim of the attempt it remembers; the revisions  *)
(* a job, a request and an execution have read are ordered; what was       *)
(* published belongs to a job that exists.                                 *)
Holding == WorkPC \ {"idle", "finished", "failed", "reporting"}

ExecutionsMatchClaims ==
  \A e \in Executors : work[e].pc \in Holding =>
    /\ work[e].job \in Jobs
    /\ claim[e].job = work[e].job /\ claim[e].token = work[e].attempt

HavingRead == {"building", "built", "renewed", "validating", "same", "changed",
               "checked", "published"}

RevisionsAreOrdered ==
  /\ \A j \in Jobs : info[j].input <= revision
  /\ \A c \in Clients : req[c].rev <= revision
  /\ \A e \in Executors : work[e].pc \in HavingRead =>
       info[work[e].job].input <= work[e].base /\ work[e].base <= revision

ResultsBelongToJobs ==
  /\ \A j \in Jobs : published[j] # {} => jobs[j].status # "absent"
  /\ \A e \in Executors :
       /\ work[e].pc = "published" => work[e].attempt \in published[work[e].job]
       /\ work[e].pc = "finished" => work[e].job \in Jobs /\ published[work[e].job] # {}

RequestsKnowTheirJob ==
  \A c \in Clients :
    /\ req[c].pc \in {"marking", "controlling", "syncing", "displaying"} => req[c].job \in Jobs
    /\ req[c].pc \in {"controlling", "syncing", "displaying"} => req[c].status \in Controls

WorkflowInv ==
  /\ ExecutionsMatchClaims
  /\ RequestsKnowTheirJob
  /\ RevisionsAreOrdered
  /\ ResultsBelongToJobs
  /\ \A e \in Executors : work[e].pc = "same" => work[e].base = info[work[e].job].input
  /\ ComputedOnItsInput
  /\ CompletedMeansPublished
  /\ CompletedRunHasResult

(* What keeps the stages in order: a stage is unlocked, shown, queued, run *)
(* or controlled only once the stage before it has delivered.              *)
Founded(s) ==
  /\ s = "simulation" => Delivered("environment")
  /\ s = "report" => Delivered("simulation")

StagesAreFounded ==
  \A s \in StageNames : stage[s] # "locked" \/ current = s => Founded(s)

RequestsAreFounded ==
  \A c \in Clients, s \in StageNames :
    \/ req[c].pc \in {"enqueuing", "marking"} /\ req[c].stage = s
    \/ req[c].pc \in {"controlling", "syncing", "displaying"} /\ s = "simulation"
    => Founded(s)

JobsAreFounded ==
  \A j \in Jobs, s \in StageNames : info[j].stage = s => Founded(s)

BusyThreadsHaveAJob == \A e \in Executors : work[e].pc # "idle" => work[e].job \in Jobs

OrderInv ==
  StagesAreFounded /\ RequestsAreFounded /\ JobsAreFounded /\ BusyThreadsHaveAJob
=============================================================================
