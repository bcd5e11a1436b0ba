--------------------------- MODULE GraphLifecycle ---------------------------
(***************************************************************************)
(* The cloud graph of a project of the engine: who builds it, writes to    *)
(* it, reads it and deletes it (oasis_engine_runtime/app/api/graph.py,     *)
(* report.py and the start of simulation.py, utils/zep_lifecycle.py,       *)
(* models/task.py).                                                        *)
(*                                                                         *)
(* The graph is at Zep, its reference in the project file, and three kinds *)
(* of threads use it beside the requests: a build, the memory updaters of  *)
(* simulations, and reports.  Two locks order them: one per project for    *)
(* builds, resets and deletions, one per graph for whatever claims or      *)
(* deletes it.  Tasks, leases, updaters and locks live in memory and are   *)
(* lost in a crash; the project, the run states and the graph are not.     *)
(*                                                                         *)
(* One project.  A simulation is seen through what SimulationRunner        *)
(* promises: its status, and an updater that is gone when it is done.      *)
(***************************************************************************)
EXTENDS Naturals

CONSTANTS
  Sims,        \* the simulations of the project
  Reports,     \* the reports that may be generated at a time
  MaxGraphs,   \* bound: graphs created
  MaxBuilds,   \* bound: build tasks
  MaxCrashes   \* bound: crashes of the server

ASSUME GraphAssumption == MaxGraphs \in Nat /\ MaxBuilds \in Nat /\ MaxCrashes \in Nat

VARIABLES
  project,   \* the project file
  tasks,     \* the task table: the status of each build task
  builds,    \* the tasks created so far
  build,     \* the build thread, with the project object it captured
  cloud,     \* cloud[g]: what Zep holds of graph g
  generating, \* the request that made the project still generates its ontology
  made,      \* the graph identifiers handed out so far
  op,        \* the request that holds the project's lock
  lookup,    \* a graph that a delete_graph request has found referenced
  sims,      \* sims[s]: the run and the updater of simulation s
  reports,   \* reports[r]: the report thread and its lease
  crashes

graphVars == <<project, tasks, builds, build, cloud, generating, made, op, lookup,
               sims, reports, crashes>>

Graphs == 1..MaxGraphs
GraphIds == 0..MaxGraphs
Alive == {"empty", "loading", "loaded", "broken"}

Project == [status: {"created", "ontology_generated", "graph_building", "graph_completed",
                     "failed", "deleted"},
            ontology: BOOLEAN, graph: GraphIds, task: 0..MaxBuilds, batch: BOOLEAN]
Sim == [graph: GraphIds, status: {"none", "active", "done", "failed"},
        updater: {"none", "open", "closed"}, target: GraphIds, starting: BOOLEAN]

Fresh == [status |-> "created", ontology |-> FALSE, graph |-> 0, task |-> 0, batch |-> FALSE]
NoSim == [graph |-> 0, status |-> "none", updater |-> "none", target |-> 0, starting |-> FALSE]
NoBuild == [pc |-> "idle", project |-> Fresh]
NoOp == [kind |-> "none", pc |-> "idle", graph |-> 0]
NoReport == [graph |-> 0]

GraphTypeOK ==
  /\ project \in Project
  /\ tasks \in [1..MaxBuilds -> {"none", "pending", "processing", "completed", "failed"}]
  /\ builds \in 0..MaxBuilds
  /\ build \in [pc: {"idle", "begin", "create", "post", "submit", "wait", "publish", "fail"},
                project: Project]
  /\ cloud \in [Graphs -> {"none", "deleted"} \cup Alive]
  /\ generating \in BOOLEAN /\ made \in GraphIds
  /\ op \in [kind: {"none", "build", "reset", "project", "graph"},
             pc: {"idle", "check", "delete", "save"}, graph: GraphIds]
  /\ lookup \in GraphIds
  /\ sims \in [Sims -> Sim]
  /\ reports \in [Reports -> [graph: Graphs, sim: Sims] \cup {NoReport}]
  /\ crashes \in 0..MaxCrashes

GraphInit ==
  /\ project = Fresh /\ generating = TRUE
  /\ tasks = [n \in 1..MaxBuilds |-> "none"]
  /\ builds = 0 /\ build = NoBuild
  /\ cloud = [g \in Graphs |-> "none"] /\ made = 0
  /\ op = NoOp /\ lookup = 0
  /\ sims = [s \in Sims |-> NoSim]
  /\ reports = [r \in Reports |-> NoReport]
  /\ crashes = 0

-----------------------------------------------------------------------------
(* What the requests ask of each other *)

Exists == project.status # "deleted"

(* _project_has_active_build: a task of a server that crashed is gone.     *)
ActiveBuild ==
  /\ project.status = "graph_building" /\ project.task # 0
  /\ tasks[project.task] \in {"pending", "processing"}

(* The lock of the graph: held from the check for users over the deletion  *)
(* to its save, and by a start until it returns.                           *)
GraphFree(g) ==
  /\ ~(op.pc \in {"delete", "save"} /\ op.graph = g)
  /\ \A s \in Sims : ~(sims[s].starting /\ sims[s].target = g)

Readers(g) == {r \in Reports : reports[r].graph = g}

(* An updater that cannot be brought to its end is discarded with its      *)
(* graph, once its run has failed and its worker is gone.                  *)
Discardable(s) == sims[s].status = "failed" /\ sims[s].updater = "closed"

(* Mutant: only simulations count as users.                                *)
InUseBySimulation(g) ==
  \E s \in Sims :
    \/ sims[s].updater # "none" /\ sims[s].target = g /\ ~Discardable(s)
    \/ sims[s].graph = g /\ sims[s].status = "active"

(* _active_graph_consumers                                                 *)
InUse(g) ==
  \/ Readers(g) # {}
  \/ \E s \in Sims :
       \/ sims[s].updater # "none" /\ sims[s].target = g /\ ~Discardable(s)
       \/ sims[s].graph = g /\ sims[s].status = "active"

-----------------------------------------------------------------------------
(* Builds *)

(* The task is made, the project saved as building, the thread started.    *)
StartsBuild(p) ==
  LET claimed == [p EXCEPT !.status = "graph_building", !.task = builds + 1] IN
  /\ builds < MaxBuilds
  /\ builds' = builds + 1
  /\ tasks' = [tasks EXCEPT ![builds + 1] = "pending"]
  /\ project' = claimed
  /\ build' = [pc |-> "begin", project |-> claimed]

(* The batch of an interrupted build that Zep has accepted or finished.    *)
Resumable ==
  /\ project.graph # 0 /\ project.batch
  /\ cloud[project.graph] \in {"loading", "loaded"}

Failed == [project EXCEPT !.status = "failed"]
Cleared == [Fresh EXCEPT !.ontology = project.ontology,
                         !.status = IF project.ontology THEN "ontology_generated" ELSE "created"]

(* The request that makes a project saves it when its ontology is there,   *)
(* or as failed.                                                           *)
OntologyGenerated ==
  /\ generating /\ generating' = FALSE
  /\ IF ~Exists THEN UNCHANGED project
     ELSE \/ project' = [Fresh EXCEPT !.status = "ontology_generated", !.ontology = TRUE]
          \/ project' = [Fresh EXCEPT !.status = "failed"]
  /\ UNCHANGED <<tasks, builds, build, cloud, made, op, lookup, sims, reports, crashes>>

(* A build that was under way: its batch is continued, or it has failed ... *)
ContinuesBuild ==
  /\ project.status = "graph_building"
  /\ \/ Resumable /\ StartsBuild(project)
     \/ ~Resumable /\ project' = Failed /\ UNCHANGED <<tasks, builds, build>>
  /\ UNCHANGED op

(* ... and what has failed or is forced is built anew, without the graph.  *)
StartsOver(force) ==
  /\ \/ force /\ project.status = "graph_building" /\ project' = Failed
     \/ force /\ project.status = "graph_completed" /\ UNCHANGED project
     \/ project.status = "failed" /\ project.ontology /\ UNCHANGED project
  /\ op' = [kind |-> "build", pc |-> "check", graph |-> project.graph]
  /\ UNCHANGED <<tasks, builds, build>>

(* A completed graph is reused unless force is given.                      *)
BuildRequested(force) ==
  /\ op.pc = "idle" /\ Exists /\ ~ActiveBuild
  /\ \/ ~force /\ ContinuesBuild
     \/ StartsOver(force)
     \/ project.status = "ontology_generated" /\ StartsBuild(project) /\ UNCHANGED op
  /\ UNCHANGED <<cloud, made, lookup, sims, reports, generating, crashes>>

ResetRequested ==
  /\ op.pc = "idle" /\ Exists /\ ~ActiveBuild
  /\ op' = [kind |-> "reset", pc |-> "check", graph |-> project.graph]
  /\ UNCHANGED <<project, tasks, builds, build, cloud, made, lookup, sims, reports,
                 generating, crashes>>

DeleteProjectRequested ==
  /\ op.pc = "idle" /\ Exists /\ ~ActiveBuild
  /\ op' = [kind |-> "project", pc |-> "check", graph |-> project.graph]
  /\ UNCHANGED <<project, tasks, builds, build, cloud, made, lookup, sims, reports,
                 generating, crashes>>

(* delete_graph looks for the projects of a graph before it locks them ... *)
DeleteGraphRequested(g) ==
  /\ lookup = 0 /\ Exists /\ project.graph = g
  /\ lookup' = g
  /\ UNCHANGED <<project, tasks, builds, build, cloud, made, op, sims, reports,
                 generating, crashes>>

(* Mutant: ... and does not look again.                                    *)
DeleteGraphTrustsLookup ==
  /\ lookup # 0 /\ op.pc = "idle"
  /\ lookup' = 0
  /\ op' = [kind |-> "graph", pc |-> "check", graph |-> lookup]
  /\ UNCHANGED <<project, tasks, builds, build, cloud, made, sims, reports, generating,
                 crashes>>

(* ... and looks again under the locks.                                    *)
DeleteGraphLocks ==
  /\ lookup # 0 /\ op.pc = "idle"
  /\ lookup' = 0
  /\ op' = IF project.graph = lookup /\ ActiveBuild THEN op
           ELSE [kind |-> "graph", pc |-> "check", graph |-> lookup]
  /\ UNCHANGED <<project, tasks, builds, build, cloud, made, sims, reports, generating,
                 crashes>>

(* _delete_cloud_graph_if_present: who uses it, asked under its lock ...   *)
OpChecks ==
  /\ op.pc = "check"
  /\ IF op.graph = 0
       THEN op' = [op EXCEPT !.pc = "save"] /\ UNCHANGED sims
     ELSE /\ GraphFree(op.graph)
          /\ IF InUse(op.graph)
               THEN op' = NoOp /\ UNCHANGED sims
               ELSE /\ op' = [op EXCEPT !.pc = "delete"]
                    /\ sims' = [s \in Sims |->
                         IF sims[s].target = op.graph
                           THEN [sims[s] EXCEPT !.updater = "none", !.target = 0] ELSE sims[s]]
  /\ UNCHANGED <<project, tasks, builds, build, cloud, made, lookup, reports,
                 generating, crashes>>

(* ... then the deletion.  An error of it, which may come although the     *)
(* graph is gone, ends the request.                                        *)
OpDeletes ==
  /\ op.pc = "delete"
  /\ \/ cloud' = [cloud EXCEPT ![op.graph] = "deleted"] /\ op' = [op EXCEPT !.pc = "save"]
     \/ cloud' = [cloud EXCEPT ![op.graph] = "deleted"] /\ op' = NoOp
     \/ UNCHANGED cloud /\ op' = NoOp
  /\ UNCHANGED <<project, tasks, builds, build, made, lookup, sims, reports,
                 generating, crashes>>

(* Then the reference to it goes, with the project or without.             *)
OpSaves ==
  /\ op.pc = "save" /\ op' = NoOp
  /\ \/ op.kind = "build" /\ StartsBuild(Cleared)
     \/ /\ op.kind # "build"
        /\ project' = IF op.kind = "project" THEN [Cleared EXCEPT !.status = "deleted"]
                      ELSE IF op.kind = "reset" \/ project.graph = op.graph THEN Cleared
                      ELSE project
        /\ UNCHANGED <<tasks, builds, build>>
  /\ UNCHANGED <<cloud, made, lookup, sims, reports, generating, crashes>>

-----------------------------------------------------------------------------
(* build_task: the thread saves the project object it captured, whole *)

BuildSaves(p, pc) ==
  /\ project' = p
  /\ build' = [pc |-> pc, project |-> p]

BuildBegins ==
  /\ build.pc = "begin"
  /\ tasks' = [tasks EXCEPT ![build.project.task] = "processing"]
  /\ build' = [build EXCEPT !.pc = IF build.project.batch THEN "wait" ELSE "create"]
  /\ UNCHANGED <<project, builds, cloud, made, op, lookup, sims, reports, generating,
                 crashes>>

(* Mutant: the graph is created, then remembered.                          *)
BuildCreatesFirst ==
  /\ build.pc = "create" /\ made < MaxGraphs
  /\ made' = made + 1
  /\ cloud' = [cloud EXCEPT ![made + 1] = "empty"]
  /\ build' = [pc |-> "post", project |-> [build.project EXCEPT !.graph = made + 1]]
  /\ UNCHANGED <<project, tasks, builds, op, lookup, sims, reports, generating,
                 crashes>>

(* create_graph: the identifier is saved before the graph is made ...      *)
BuildRemembersGraph ==
  /\ build.pc = "create" /\ made < MaxGraphs
  /\ made' = made + 1
  /\ BuildSaves([build.project EXCEPT !.graph = made + 1], "post")
  /\ UNCHANGED <<tasks, builds, cloud, op, lookup, sims, reports, generating, crashes>>

(* ... and the call may fail with or without the graph being made.         *)
BuildPostsGraph ==
  LET g == build.project.graph IN
  /\ build.pc = "post"
  /\ \/ cloud' = [cloud EXCEPT ![g] = "empty"] /\ build' = [build EXCEPT !.pc = "submit"]
     \/ cloud' = [cloud EXCEPT ![g] = "empty"] /\ build' = [build EXCEPT !.pc = "fail"]
     \/ UNCHANGED cloud /\ build' = [build EXCEPT !.pc = "fail"]
  /\ UNCHANGED <<project, tasks, builds, made, op, lookup, sims, reports, generating,
                 crashes>>

(* set_ontology and add_text_batches: the batch is remembered, then filled *)
(* and handed over, or some call raises on the way.                        *)
BuildRemembersBatch ==
  /\ build.pc = "submit" /\ ~build.project.batch
  /\ \/ BuildSaves([build.project EXCEPT !.batch = TRUE], "submit")
     \/ build' = [build EXCEPT !.pc = "fail"] /\ UNCHANGED project
  /\ UNCHANGED <<tasks, builds, cloud, made, op, lookup, sims, reports, generating,
                 crashes>>

BuildSubmits ==
  LET g == build.project.graph IN
  /\ build.pc = "submit" /\ build.project.batch
  /\ \/ cloud' = [cloud EXCEPT ![g] = "loading"] /\ build' = [build EXCEPT !.pc = "wait"]
     \/ cloud' = [cloud EXCEPT ![g] = "loading"] /\ build' = [build EXCEPT !.pc = "fail"]
     \/ UNCHANGED cloud /\ build' = [build EXCEPT !.pc = "fail"]
  /\ UNCHANGED <<project, tasks, builds, made, op, lookup, sims, reports, generating,
                 crashes>>

(* _wait_for_batch, with a deadline, and the reading of the result.        *)
BuildWaits ==
  /\ build.pc = "wait"
  /\ \/ cloud[build.project.graph] = "loaded" /\ build' = [build EXCEPT !.pc = "publish"]
     \/ build' = [build EXCEPT !.pc = "fail"]
  /\ UNCHANGED <<project, tasks, builds, cloud, made, op, lookup, sims, reports,
                 generating, crashes>>

(* The end of the build, under the project's lock.                         *)
BuildEnds(pc, status, outcome) ==
  /\ build.pc = pc /\ op.pc = "idle"
  /\ project' = [build.project EXCEPT !.status = status]
  /\ tasks' = [tasks EXCEPT ![build.project.task] = outcome]
  /\ build' = NoBuild
  /\ UNCHANGED <<builds, cloud, made, op, lookup, sims, reports, generating, crashes>>

BuildPublishes == BuildEnds("publish", "graph_completed", "completed")
BuildFails == BuildEnds("fail", "failed", "failed")

ZepLoads(g) ==
  /\ cloud[g] = "loading"
  /\ \E how \in {"loaded", "broken"} : cloud' = [cloud EXCEPT ![g] = how]
  /\ UNCHANGED <<project, tasks, builds, build, made, op, lookup, sims, reports,
                 generating, crashes>>

-----------------------------------------------------------------------------
(* Simulations *)

SetsSim(s, new) ==
  /\ sims' = [sims EXCEPT ![s] = new]
  /\ UNCHANGED <<project, tasks, builds, build, cloud, made, op, lookup, reports,
                 generating, crashes>>

(* create_simulation copies the reference of the project.                  *)
CreateSimulation(s) ==
  /\ sims[s].graph = 0 /\ Exists /\ project.graph # 0
  /\ SetsSim(s, [sims[s] EXCEPT !.graph = project.graph])

CanRun(s) == sims[s].graph # 0 /\ sims[s].status # "active" /\ sims[s].updater = "none"

StartPlain(s) ==
  /\ CanRun(s)
  /\ SetsSim(s, [sims[s] EXCEPT !.status = "active"])

(* Mutant: reports are not asked for.                                      *)
StartBesideReaders(s) ==
  /\ CanRun(s)
  /\ Exists /\ project.graph # 0 /\ sims[s].graph = project.graph /\ GraphFree(project.graph)
  /\ SetsSim(s, [sims[s] EXCEPT !.status = "active", !.updater = "open",
                                !.target = project.graph, !.starting = TRUE])

(* With graph memory: the reference of the project, of the simulation and  *)
(* the readers are checked, and the updater made, under the graph's lock.  *)
StartWithMemory(s) ==
  /\ CanRun(s)
  /\ Exists /\ project.graph # 0 /\ sims[s].graph = project.graph /\ GraphFree(project.graph)
  /\ Readers(project.graph) = {}
  /\ SetsSim(s, [sims[s] EXCEPT !.status = "active", !.updater = "open",
                                !.target = project.graph, !.starting = TRUE])

(* start_simulation returns, or raises after an attempt to stop the        *)
(* updater.                                                                *)
StartReturns(s) ==
  /\ sims[s].starting
  /\ \/ SetsSim(s, [sims[s] EXCEPT !.starting = FALSE])
     \/ \E left \in {"none", "open", "closed"} :
          SetsSim(s, [sims[s] EXCEPT !.starting = FALSE, !.status = "failed", !.updater = left,
                                     !.target = IF left = "none" THEN 0 ELSE @])

(* The monitor's end of a run, or a stop: drained and done, or failed with *)
(* what could not be drained.                                              *)
RunEnds(s) ==
  /\ ~sims[s].starting
  /\ sims[s].status = "active" \/ (sims[s].status = "failed" /\ sims[s].updater # "none")
  /\ \/ \E how \in {"done", "failed"} :
          SetsSim(s, [sims[s] EXCEPT !.status = how, !.updater = "none", !.target = 0])
     \/ /\ sims[s].updater # "none"
        /\ \E left \in {"open", "closed"} :
             /\ sims[s].updater = "closed" => left = "closed"
             /\ SetsSim(s, [sims[s] EXCEPT !.status = "failed", !.updater = left])

-----------------------------------------------------------------------------
(* Reports *)

ReportRequested(r, s) ==
  LET g == project.graph IN
  /\ reports[r] = NoReport
  /\ project.status = "graph_completed" /\ g # 0
  /\ sims[s].graph = g /\ sims[s].status = "done" /\ sims[s].updater = "none"
  /\ GraphFree(g)
  /\ reports' = [reports EXCEPT ![r] = [graph |-> g, sim |-> s]]
  /\ UNCHANGED <<project, tasks, builds, build, cloud, made, op, lookup, sims,
                 generating, crashes>>

(* The lease is given back however the report ends.                        *)
ReportEnds(r) ==
  /\ reports[r] # NoReport /\ GraphFree(reports[r].graph)
  /\ reports' = [reports EXCEPT ![r] = NoReport]
  /\ UNCHANGED <<project, tasks, builds, build, cloud, made, op, lookup, sims,
                 generating, crashes>>

-----------------------------------------------------------------------------

(* The task table, the leases, the updaters and the threads are gone.      *)
Crash ==
  /\ crashes < MaxCrashes /\ crashes' = crashes + 1
  /\ tasks' = [n \in 1..MaxBuilds |-> "none"]
  /\ build' = NoBuild /\ op' = NoOp /\ lookup' = 0
  /\ sims' = [s \in Sims |-> [sims[s] EXCEPT !.updater = "none", !.target = 0, !.starting = FALSE]]
  /\ reports' = [r \in Reports |-> NoReport]
  /\ generating' = FALSE
  /\ UNCHANGED <<project, builds, cloud, made>>

BuildStep ==
  \/ BuildBegins \/ BuildRemembersGraph \/ BuildPostsGraph \/ BuildRemembersBatch
  \/ BuildSubmits \/ BuildWaits \/ BuildPublishes \/ BuildFails

GraphNext ==
  \/ OntologyGenerated
  \/ \E force \in BOOLEAN : BuildRequested(force)
  \/ ResetRequested \/ DeleteProjectRequested
  \/ \E g \in Graphs : DeleteGraphRequested(g) \/ ZepLoads(g)
  \/ DeleteGraphLocks \/ OpChecks \/ OpDeletes \/ OpSaves
  \/ BuildStep
  \/ \E s \in Sims : \/ CreateSimulation(s) \/ StartPlain(s) \/ StartWithMemory(s)
                     \/ StartReturns(s) \/ RunEnds(s)
  \/ \E r \in Reports : ReportEnds(r) \/ \E s \in Sims : ReportRequested(r, s)
  \/ Crash

GraphSpec == GraphInit /\ [][GraphNext]_graphVars

-----------------------------------------------------------------------------
(* Properties *)

UsedBy(g) ==
  Readers(g) # {} \/ \E s \in Sims : sims[s].target = g /\ sims[s].updater = "open"

(* A graph is not deleted while a report reads it or an updater writes to  *)
(* it, nor does its project take another: the checks, the deletion and the *)
(* claims are steps of different requests.                                 *)
UsedGraphStays ==
  [][\A g \in Graphs : UsedBy(g) => /\ cloud'[g] = "deleted" => cloud[g] = "deleted"
                                    /\ project'.graph = g]_graphVars

(* A report reads nothing that its own simulation still writes: neither    *)
(* run ends late nor does another begin with graph memory.                 *)
ReportsReadAtRest ==
  \A r \in Reports : reports[r] # NoReport => sims[reports[r].sim].updater = "none"

(* Every graph at Zep is the one its project refers to, whatever failed or *)
(* crashed between its creation, its deletion and the saves of the         *)
(* reference: none is left that nobody can delete.                         *)
NoOrphanGraph ==
  \A g \in Graphs : cloud[g] \in Alive => Exists /\ project.graph = g

(* The build thread saves a whole project object it captured long before:  *)
(* nobody else changed the project meanwhile, and its task is its own.     *)
BuildOwnsProject ==
  build.pc # "idle" => project = build.project /\ project.status = "graph_building"
                         /\ ActiveBuild

-----------------------------------------------------------------------------
(* The inductive invariant, in parts (ZepGraphProofs) *)

(* A project without a graph has no batch, and what has no ontology or is  *)
(* deleted refers to none.                                                 *)
ProjectIsConsistent ==
  /\ project.batch => project.graph # 0
  /\ project.status \in {"created", "ontology_generated", "deleted"} => project.graph = 0
  /\ generating => /\ project.status \in {"created", "deleted"} /\ ~project.ontology
                   /\ op.kind # "build"

(* How far the build is shows in the object it captured.                   *)
BuildKnowsItsGraph ==
  /\ build.pc = "idle" => build = NoBuild
  /\ build.pc = "begin" => (build.project.graph = 0 <=> ~build.project.batch)
  /\ build.pc = "create" => build.project.graph = 0
  /\ build.pc \in {"post", "submit", "wait", "publish"} => build.project.graph # 0
  /\ project.task <= builds

(* A request that holds the lock of the project keeps builds away from the *)
(* graph it was made for.                                                  *)
OpOwnsItsGraph ==
  /\ (op.pc = "idle") <=> (op.kind = "none")
  /\ op.pc = "delete" => op.graph # 0
  /\ op.kind \in {"build", "reset", "project"} =>
       build.pc = "idle" /\ project.graph = op.graph /\ Exists
  /\ op.kind = "graph" => op.graph # 0 /\ (build.pc # "idle" => project.graph # op.graph)

(* Graphs get their identifiers once ...                                   *)
IdsAreFresh ==
  /\ project.graph <= made /\ build.project.graph <= made
  /\ op.graph <= made /\ lookup <= made

GraphsAreNew == \A g \in Graphs : g > made => cloud[g] = "none"

(* ... and a deletion is saved when it has happened.                       *)
DeletedBeforeSave == op.pc = "save" /\ op.graph # 0 => cloud[op.graph] \notin Alive

(* Who uses a graph uses that of the project, and no request has passed    *)
(* the check for its users.                                                *)
WritersUseTheGraph ==
  \A s \in Sims :
    /\ sims[s].updater = "open" => sims[s].target = project.graph /\ project.graph # 0
    /\ sims[s].starting => sims[s].updater = "open" /\ sims[s].status = "active"

ReadersUseTheGraph ==
  \A r \in Reports : reports[r] # NoReport =>
    reports[r].graph = project.graph /\ sims[reports[r].sim].graph = reports[r].graph

CheckedGraphIsUnused ==
  \A g \in Graphs : op.pc \in {"delete", "save"} /\ op.graph = g => ~UsedBy(g)

GraphInv ==
  /\ ProjectIsConsistent
  /\ BuildKnowsItsGraph
  /\ BuildOwnsProject
  /\ OpOwnsItsGraph
  /\ IdsAreFresh
  /\ GraphsAreNew
  /\ DeletedBeforeSave
  /\ NoOrphanGraph
  /\ WritersUseTheGraph
  /\ ReadersUseTheGraph
  /\ CheckedGraphIsUnused
  /\ ReportsReadAtRest
=============================================================================
