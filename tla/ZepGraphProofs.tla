--------------------------- MODULE ZepGraphProofs ---------------------------
(***************************************************************************)
(* Proofs about the graphs at Zep: their life, and what a running          *)
(* simulation adds to them.                                                *)
(*                                                                         *)
(* GraphLifecycle, for any number of simulations, reports, graphs, builds  *)
(* and crashes: what each operation that updates a record does to its      *)
(* fields; the types; that every step keeps the inductive invariant        *)
(* GraphInv, in three groups: the project, its build and the request that  *)
(* holds its lock; what is at Zep; who uses the graph.                     *)
(*                                                                         *)
(* MemoryUpdater, for any number of platforms and activities and any size  *)
(* of the batches: what cutting and joining sequences does to their sets   *)
(* and their order; what each kind of step does to the sets of activities  *)
(* that the queue, the worker, the buffers and the graph hold; the parts   *)
(* of UpdaterInv, and the refinement.                                      *)
(***************************************************************************)
EXTENDS GraphLifecycle, MemoryUpdater, TLAPS, SequenceTheorems

USE GraphAssumption

Statuses == {"created", "ontology_generated", "graph_building", "graph_completed",
             "failed", "deleted"}
Build == [pc: {"idle", "begin", "create", "post", "submit", "wait", "publish", "fail"},
          project: Project]
Op == [kind: {"none", "build", "reset", "project", "graph"},
       pc: {"idle", "check", "delete", "save"}, graph: GraphIds]

(* The fields of a project file, as it is typed.                           *)
Holds(p, status, ontology, graph, task, batch) ==
  /\ p \in Project
  /\ p.status = status /\ p.ontology = ontology /\ p.graph = graph
  /\ p.task = task /\ p.batch = batch

(* The fields of a simulation, as it is typed.                             *)
IsSim(sim, graph, status, updater, target, starting) ==
  /\ sim \in Sim
  /\ sim.graph = graph /\ sim.status = status /\ sim.updater = updater
  /\ sim.target = target /\ sim.starting = starting

(* A build is started on a project with these fields.                      *)
Started(ontology, graph, batch) ==
  /\ builds' = builds + 1 /\ builds + 1 \in 1..MaxBuilds
  /\ Holds(project', "graph_building", ontology, graph, builds + 1, batch)
  /\ build' \in Build /\ build'.pc = "begin" /\ build'.project = project'
  /\ tasks' = [tasks EXCEPT ![builds + 1] = "pending"]

-----------------------------------------------------------------------------
(* What the operations do to the fields *)

(* The records that stand for nothing.                                     *)
LEMMA Nothing ==
  /\ Holds(Fresh, "created", FALSE, 0, 0, FALSE)
  /\ IsSim(NoSim, 0, "none", "none", 0, FALSE)
  /\ NoOp \in Op /\ NoOp.kind = "none" /\ NoOp.pc = "idle" /\ NoOp.graph = 0
  /\ NoBuild \in Build /\ NoBuild.pc = "idle" /\ NoBuild.project = Fresh
BY DEF Fresh, Project, GraphIds, NoSim, Sim, NoOp, Op, NoBuild, Build, Holds, IsSim

(* One update of a project file leaves its other fields alone.             *)
LEMMA ProjectFields ==
  ASSUME NEW p \in Project
  PROVE  /\ \A st \in Statuses :
              Holds([p EXCEPT !.status = st], st, p.ontology, p.graph, p.task, p.batch)
         /\ \A st \in Statuses, n \in 0..MaxBuilds :
              Holds([p EXCEPT !.status = st, !.task = n], st, p.ontology, p.graph, n, p.batch)
         /\ \A g \in GraphIds :
              Holds([p EXCEPT !.graph = g], p.status, p.ontology, g, p.task, p.batch)
         /\ Holds([p EXCEPT !.batch = TRUE], p.status, p.ontology, p.graph, p.task, TRUE)
         /\ \A o \in BOOLEAN, st \in Statuses :
              Holds([p EXCEPT !.status = st, !.ontology = o], st, o, p.graph, p.task, p.batch)
         /\ \A o \in BOOLEAN, st \in Statuses :
              Holds([p EXCEPT !.ontology = o, !.status = st], st, o, p.graph, p.task, p.batch)
BY DEF Project, Statuses, Holds

(* A fresh project has nothing yet.                                        *)
LEMMA FreshFields ==
  /\ Fresh \in Project
  /\ Fresh.graph = 0 /\ Fresh.task = 0 /\ Fresh.batch = FALSE
  /\ Fresh.ontology = FALSE
BY Nothing DEF Holds

(* So it is with the simulations.                                          *)
LEMMA SimFields ==
  ASSUME NEW sim \in Sim, NEW st \in {"none", "active", "done", "failed"},
         NEW u \in {"none", "open", "closed"}, NEW g \in GraphIds, NEW b \in BOOLEAN
  PROVE  /\ IsSim([sim EXCEPT !.updater = u, !.target = g],
                  sim.graph, sim.status, u, g, sim.starting)
         /\ IsSim([sim EXCEPT !.graph = g],
                  g, sim.status, sim.updater, sim.target, sim.starting)
         /\ IsSim([sim EXCEPT !.status = st],
                  sim.graph, st, sim.updater, sim.target, sim.starting)
         /\ IsSim([sim EXCEPT !.status = st, !.updater = u, !.target = g, !.starting = b],
                  sim.graph, st, u, g, b)
         /\ IsSim([sim EXCEPT !.starting = b, !.status = st, !.updater = u, !.target = g],
                  sim.graph, st, u, g, b)
         /\ IsSim([sim EXCEPT !.starting = b],
                  sim.graph, sim.status, sim.updater, sim.target, b)
         /\ IsSim([sim EXCEPT !.status = st, !.updater = u, !.target = g],
                  sim.graph, st, u, g, sim.starting)
         /\ IsSim([sim EXCEPT !.status = st, !.updater = u],
                  sim.graph, st, u, sim.target, sim.starting)
         /\ IsSim([sim EXCEPT !.updater = u, !.target = g, !.starting = b],
                  sim.graph, sim.status, u, g, b)
<1>1. IsSim([sim EXCEPT !.updater = u, !.target = g],
          sim.graph, sim.status, u, g, sim.starting)
  BY DEF Sim, IsSim
<1>2. IsSim([sim EXCEPT !.graph = g],
          g, sim.status, sim.updater, sim.target, sim.starting)
  BY DEF Sim, IsSim
<1>3. IsSim([sim EXCEPT !.status = st],
          sim.graph, st, sim.updater, sim.target, sim.starting)
  BY DEF Sim, IsSim
<1>4. IsSim([sim EXCEPT !.status = st, !.updater = u, !.target = g, !.starting = b],
          sim.graph, st, u, g, b)
  BY DEF Sim, IsSim
<1>5. IsSim([sim EXCEPT !.starting = b, !.status = st, !.updater = u, !.target = g],
          sim.graph, st, u, g, b)
  BY DEF Sim, IsSim
<1>6. IsSim([sim EXCEPT !.starting = b],
          sim.graph, sim.status, sim.updater, sim.target, b)
  BY DEF Sim, IsSim
<1>7. IsSim([sim EXCEPT !.status = st, !.updater = u, !.target = g],
          sim.graph, st, u, g, sim.starting)
  BY DEF Sim, IsSim
<1>8. IsSim([sim EXCEPT !.status = st, !.updater = u],
          sim.graph, st, u, sim.target, sim.starting)
  BY DEF Sim, IsSim
<1>9. IsSim([sim EXCEPT !.updater = u, !.target = g, !.starting = b],
          sim.graph, sim.status, u, g, b)
  BY DEF Sim, IsSim
<1>10. QED
  BY <1>1, <1>2, <1>3, <1>4, <1>5, <1>6, <1>7, <1>8, <1>9

(* Clearing a project keeps its ontology and drops its graph.              *)
LEMMA ClearedFields ==
  ASSUME project \in Project
  PROVE  Holds(Cleared, IF project.ontology THEN "ontology_generated" ELSE "created",
               project.ontology, 0, 0, FALSE)
<1>1. project.ontology \in BOOLEAN
  BY DEF Project
<1> DEFINE status == IF project.ontology THEN "ontology_generated" ELSE "created"
<1>2. status \in Statuses
  BY DEF Statuses
<1>3. Cleared = [Fresh EXCEPT !.ontology = project.ontology, !.status = status]
  BY DEF Cleared
<1> HIDE DEF status
<1>4. Holds(Cleared, status, project.ontology, 0, 0, FALSE)
  BY <1>1, <1>2, <1>3, FreshFields, ProjectFields
<1>5. QED
  BY <1>4 DEF status

(* A build is started on the project it captures.                          *)
LEMMA StartsBuildEffect ==
  ASSUME GraphTypeOK, NEW p \in Project, StartsBuild(p)
  PROVE  Started(p.ontology, p.graph, p.batch)
<1>1. /\ builds < MaxBuilds /\ builds' = builds + 1
      /\ builds + 1 \in 1..MaxBuilds /\ builds + 1 \in 0..MaxBuilds
      /\ tasks' = [tasks EXCEPT ![builds + 1] = "pending"]
  BY DEF GraphTypeOK, StartsBuild
<1>2. project' = [p EXCEPT !.status = "graph_building", !.task = builds + 1]
  BY DEF StartsBuild
<1>3. Holds(project', "graph_building", p.ontology, p.graph, builds + 1, p.batch)
  BY <1>1, <1>2, ProjectFields DEF Statuses
<1>4. build' = [pc |-> "begin", project |-> project']
  BY <1>2 DEF StartsBuild
<1>5. build' \in Build /\ build'.pc = "begin" /\ build'.project = project'
  BY <1>3, <1>4 DEF Holds, Build
<1>6. QED
  BY <1>1, <1>3, <1>5 DEF Started

(* The request that made the project saves it, or not.                     *)
LEMMA OntologyEffect ==
  ASSUME GraphTypeOK, OntologyGenerated
  PROVE  /\ generating /\ generating' = FALSE
         /\ \/ project' = project
            \/ Exists /\ Holds(project', "ontology_generated", TRUE, 0, 0, FALSE)
            \/ Exists /\ Holds(project', "failed", FALSE, 0, 0, FALSE)
         /\ UNCHANGED <<tasks, builds, build, cloud, made, op, lookup, sims, reports, crashes>>
<1>1. Holds([Fresh EXCEPT !.status = "ontology_generated", !.ontology = TRUE],
            "ontology_generated", TRUE, 0, 0, FALSE)
  BY FreshFields, ProjectFields DEF Statuses
<1>2. Holds([Fresh EXCEPT !.status = "failed"], "failed", FALSE, 0, 0, FALSE)
  BY FreshFields, ProjectFields DEF Statuses
<1>3. QED
  BY <1>1, <1>2 DEF OntologyGenerated

(* A request for a build starts one, or records a failure, or takes the    *)
(* lock to delete the graph first.                                         *)
LEMMA BuildRequestedEffect ==
  ASSUME GraphTypeOK, NEW force \in BOOLEAN, BuildRequested(force)
  PROVE  /\ op.pc = "idle" /\ Exists /\ ~ActiveBuild
         /\ UNCHANGED <<cloud, made, lookup, sims, reports, generating, crashes>>
         /\ \/ /\ Started(project.ontology, project.graph, project.batch) /\ UNCHANGED op
               /\ \/ project.status = "graph_building" /\ project.graph # 0 /\ project.batch
                  \/ project.status = "ontology_generated"
            \/ /\ UNCHANGED <<tasks, builds, build>>
               /\ project.status \in {"graph_building", "graph_completed", "failed"}
               /\ \E st \in {"graph_completed", "failed"} :
                    Holds(project', st, project.ontology, project.graph, project.task,
                          project.batch)
               /\ op' = op \/ op' = [kind |-> "build", pc |-> "check", graph |-> project.graph]
<1>0. project \in Project
  BY DEF GraphTypeOK
<1>1. Holds(Failed, "failed", project.ontology, project.graph, project.task, project.batch)
  BY <1>0, ProjectFields DEF Failed, Statuses
<1>2. CASE ContinuesBuild
  BY <1>0, <1>1, <1>2, StartsBuildEffect DEF BuildRequested, ContinuesBuild, Resumable
<1>3. CASE StartsOver(force)
  BY <1>0, <1>1, <1>3 DEF BuildRequested, StartsOver, Holds
<1>4. CASE project.status = "ontology_generated" /\ StartsBuild(project) /\ UNCHANGED op
  BY <1>0, <1>4, StartsBuildEffect DEF BuildRequested
<1>5. QED
  BY <1>2, <1>3, <1>4 DEF BuildRequested

(* A request that holds the project's lock asks who uses its graph.        *)
LEMMA OpChecksEffect ==
  ASSUME GraphTypeOK, OpChecks
  PROVE  /\ op.pc = "check"
         /\ op' \in Op /\ sims' \in [Sims -> Sim]
         /\ UNCHANGED <<project, tasks, builds, build, cloud, made, lookup, reports,
                        generating, crashes>>
         /\ \/ /\ op.graph = 0 /\ op'.pc = "save" /\ op'.kind = op.kind /\ op'.graph = 0
               /\ UNCHANGED sims
            \/ op' = NoOp /\ UNCHANGED sims
            \/ /\ op.graph # 0 /\ GraphFree(op.graph) /\ ~InUse(op.graph)
               /\ op'.pc = "delete" /\ op'.kind = op.kind /\ op'.graph = op.graph
               /\ \A s \in Sims :
                    IF sims[s].target = op.graph
                      THEN IsSim(sims'[s], sims[s].graph, sims[s].status, "none", 0,
                                 sims[s].starting)
                      ELSE sims'[s] = sims[s]
<1>1. op \in Op /\ sims \in [Sims -> Sim]
  BY DEF GraphTypeOK, Op
<1>2. ASSUME NEW pc \in {"delete", "save"}
      PROVE  /\ [op EXCEPT !.pc = pc] \in Op
             /\ [op EXCEPT !.pc = pc].pc = pc
             /\ [op EXCEPT !.pc = pc].kind = op.kind
             /\ [op EXCEPT !.pc = pc].graph = op.graph
  BY <1>1 DEF Op
<1>3. ASSUME NEW s \in Sims
      PROVE  IsSim([sims[s] EXCEPT !.updater = "none", !.target = 0],
                   sims[s].graph, sims[s].status, "none", 0, sims[s].starting)
  <2>1. sims[s] \in Sim /\ 0 \in GraphIds
    BY <1>1 DEF GraphIds
  <2>2. QED
    BY <2>1, SimFields
<1>4. CASE op.graph = 0
  BY <1>1, <1>2, <1>4 DEF OpChecks
<1>5. CASE op.graph # 0 /\ InUse(op.graph)
  BY <1>1, <1>5, Nothing DEF OpChecks
<1>6. CASE op.graph # 0 /\ ~InUse(op.graph)
  <2>1. /\ op' = [op EXCEPT !.pc = "delete"] /\ GraphFree(op.graph)
        /\ sims' = [s \in Sims |->
                      IF sims[s].target = op.graph
                        THEN [sims[s] EXCEPT !.updater = "none", !.target = 0] ELSE sims[s]]
    BY <1>6 DEF OpChecks
  <2>2. sims' \in [Sims -> Sim]
    BY <1>1, <1>3, <2>1 DEF IsSim
  <2>3. \A s \in Sims :
          IF sims[s].target = op.graph
            THEN IsSim(sims'[s], sims[s].graph, sims[s].status, "none", 0, sims[s].starting)
            ELSE sims'[s] = sims[s]
    BY <1>3, <2>1
  <2>4. op' \in Op /\ op'.pc = "delete" /\ op'.kind = op.kind /\ op'.graph = op.graph
    BY <1>2, <2>1
  <2>5. QED
    BY <1>6, <2>1, <2>2, <2>3, <2>4 DEF OpChecks
<1>7. QED
  BY <1>4, <1>5, <1>6

(* The deletion of the graph ends the request, or is recorded next.        *)
LEMMA OpDeletesEffect ==
  ASSUME GraphTypeOK, OpDeletes, op.graph \in Graphs
  PROVE  /\ op.pc = "delete"
         /\ op' \in Op /\ cloud' \in [Graphs -> {"none", "deleted"} \cup Alive]
         /\ UNCHANGED <<project, tasks, builds, build, made, lookup, sims, reports,
                        generating, crashes>>
         /\ \A g \in Graphs : cloud'[g] = cloud[g] \/ (g = op.graph /\ cloud'[g] = "deleted")
         /\ \/ op' = NoOp
            \/ /\ op'.pc = "save" /\ op'.kind = op.kind /\ op'.graph = op.graph
               /\ cloud'[op.graph] = "deleted"
<1>1. op \in Op /\ cloud \in [Graphs -> {"none", "deleted"} \cup Alive]
  BY DEF GraphTypeOK, Op
<1>2. /\ [op EXCEPT !.pc = "save"] \in Op
      /\ [op EXCEPT !.pc = "save"].pc = "save"
      /\ [op EXCEPT !.pc = "save"].kind = op.kind
      /\ [op EXCEPT !.pc = "save"].graph = op.graph
  BY <1>1 DEF Op
<1>3. QED
  BY <1>1, <1>2, Nothing DEF OpDeletes

(* A request that holds the lock saves the project without the graph, and  *)
(* a build goes on from there.                                             *)
LEMMA OpSavesEffect ==
  ASSUME GraphTypeOK, OpSaves
  PROVE  /\ op.pc = "save" /\ op' = NoOp
         /\ UNCHANGED <<cloud, made, lookup, sims, reports, generating, crashes>>
         /\ \/ op.kind = "build" /\ Started(project.ontology, 0, FALSE)
            \/ /\ op.kind \in {"project", "reset"} \/ project.graph = op.graph
               /\ op.kind # "build" /\ UNCHANGED <<tasks, builds, build>>
               /\ \E st \in {"created", "ontology_generated", "deleted"} :
                    /\ Holds(project', st, project.ontology, 0, 0, FALSE)
                    /\ st = "ontology_generated" => project.ontology
                    /\ st = "deleted" => op.kind = "project"
            \/ /\ op.kind \notin {"build", "project", "reset"} /\ project.graph # op.graph
               /\ UNCHANGED <<project, tasks, builds, build>>
<1>1. Cleared \in Project /\ Cleared.ontology = project.ontology /\ Cleared.graph = 0
      /\ Cleared.task = 0 /\ Cleared.batch = FALSE
  BY ClearedFields DEF GraphTypeOK, Holds
<1>2. Holds([Cleared EXCEPT !.status = "deleted"], "deleted", project.ontology, 0, 0, FALSE)
  BY <1>1, ProjectFields DEF Statuses
<1>3. \E st \in {"created", "ontology_generated"} :
        /\ Holds(Cleared, st, project.ontology, 0, 0, FALSE)
        /\ st = "ontology_generated" => project.ontology
  BY ClearedFields DEF GraphTypeOK
<1>4. CASE op.kind = "build" /\ StartsBuild(Cleared)
  BY <1>1, <1>4, StartsBuildEffect DEF OpSaves
<1>5. CASE op.kind # "build"
  <2>1. CASE op.kind = "project"
    BY <1>2, <2>1 DEF OpSaves
  <2>2. CASE op.kind # "project" /\ (op.kind = "reset" \/ project.graph = op.graph)
    <3>1. project' = Cleared
      BY <1>5, <2>2 DEF OpSaves
    <3>2. QED
      BY <1>3, <1>5, <2>2, <3>1 DEF OpSaves
  <2>3. CASE op.kind \notin {"project", "reset"} /\ project.graph # op.graph
    BY <1>5, <2>3 DEF OpSaves
  <2>4. QED
    BY <2>1, <2>2, <2>3
<1>6. QED
  BY <1>4, <1>5 DEF OpSaves

(* The thread starts with the graph, or goes on with its batch.            *)
LEMMA BuildBeginsEffect ==
  ASSUME GraphTypeOK, BuildBegins
  PROVE  /\ build.pc = "begin"
         /\ build' \in Build /\ build'.project = build.project
         /\ build'.pc = IF build.project.batch THEN "wait" ELSE "create"
         /\ tasks' = [tasks EXCEPT ![build.project.task] = "processing"]
         /\ UNCHANGED <<project, builds, cloud, made, op, lookup, sims, reports, generating,
                        crashes>>
BY DEF GraphTypeOK, BuildBegins, Build

(* The identifier of the new graph is in the project before the graph is.  *)
LEMMA BuildRemembersGraphEffect ==
  ASSUME GraphTypeOK, BuildRemembersGraph
  PROVE  /\ build.pc = "create" /\ made < MaxGraphs /\ made' = made + 1
         /\ made + 1 \in Graphs
         /\ Holds(project', build.project.status, build.project.ontology, made + 1,
                  build.project.task, build.project.batch)
         /\ build' \in Build /\ build'.pc = "post" /\ build'.project = project'
         /\ UNCHANGED <<tasks, builds, cloud, op, lookup, sims, reports, generating, crashes>>
<1>1. build.project \in Project
  BY DEF GraphTypeOK
<1>2. /\ build.pc = "create" /\ made < MaxGraphs /\ made' = made + 1
      /\ made + 1 \in Graphs /\ made + 1 \in GraphIds
      /\ project' = [build.project EXCEPT !.graph = made + 1]
      /\ build' = [pc |-> "post", project |-> project']
  BY DEF GraphTypeOK, BuildRemembersGraph, BuildSaves, Graphs, GraphIds
<1>3. Holds(project', build.project.status, build.project.ontology, made + 1,
            build.project.task, build.project.batch)
  BY <1>1, <1>2, ProjectFields
<1>4. build' \in Build /\ build'.pc = "post" /\ build'.project = project'
  BY <1>2, <1>3 DEF Holds, Build
<1>5. QED
  BY <1>2, <1>3, <1>4 DEF BuildRemembersGraph

(* The call that makes the graph fails, whether it did or not, or does not. *)
LEMMA BuildPostsGraphEffect ==
  ASSUME GraphTypeOK, BuildPostsGraph
  PROVE  /\ build.pc = "post"
         /\ build' \in Build /\ build'.project = build.project
         /\ build'.pc \in {"submit", "fail"}
         /\ cloud' \in [Graphs -> {"none", "deleted"} \cup Alive]
         /\ \A g \in Graphs :
              cloud'[g] = cloud[g] \/ (g = build.project.graph /\ cloud'[g] = "empty")
         /\ UNCHANGED <<project, tasks, builds, made, op, lookup, sims, reports, generating,
                        crashes>>
BY DEF GraphTypeOK, BuildPostsGraph, Build, Alive

(* The batch is in the project before it is filled.                        *)
LEMMA BuildRemembersBatchEffect ==
  ASSUME GraphTypeOK, BuildRemembersBatch
  PROVE  /\ build.pc = "submit"
         /\ UNCHANGED <<tasks, builds, cloud, made, op, lookup, sims, reports, generating,
                        crashes>>
         /\ build' \in Build
         /\ \/ /\ Holds(project', build.project.status, build.project.ontology,
                        build.project.graph, build.project.task, TRUE)
               /\ build'.pc = "submit" /\ build'.project = project'
            \/ project' = project /\ build'.pc = "fail" /\ build'.project = build.project
<1>1. build.project \in Project /\ build \in Build
  BY DEF GraphTypeOK, Build
<1>2. CASE BuildSaves([build.project EXCEPT !.batch = TRUE], "submit")
  <2>1. /\ project' = [build.project EXCEPT !.batch = TRUE]
        /\ build' = [pc |-> "submit", project |-> project']
    BY <1>2 DEF BuildSaves
  <2>2. Holds(project', build.project.status, build.project.ontology,
              build.project.graph, build.project.task, TRUE)
    BY <1>1, <2>1, ProjectFields
  <2>3. build' \in Build /\ build'.pc = "submit" /\ build'.project = project'
    BY <2>1, <2>2 DEF Holds, Build
  <2>4. QED
    BY <2>2, <2>3 DEF BuildRemembersBatch
<1>3. CASE build' = [build EXCEPT !.pc = "fail"] /\ UNCHANGED project
  <2>1. build' \in Build /\ build'.pc = "fail" /\ build'.project = build.project
    BY <1>1, <1>3 DEF Build
  <2>2. QED
    BY <1>3, <2>1 DEF BuildRemembersBatch
<1>4. QED
  BY <1>2, <1>3 DEF BuildRemembersBatch

(* The batch is handed over, or the call fails.                            *)
LEMMA BuildSubmitsEffect ==
  ASSUME GraphTypeOK, BuildSubmits
  PROVE  /\ build.pc = "submit" /\ build.project.batch
         /\ build' \in Build /\ build'.project = build.project
         /\ build'.pc \in {"wait", "fail"}
         /\ cloud' \in [Graphs -> {"none", "deleted"} \cup Alive]
         /\ \A g \in Graphs :
              cloud'[g] = cloud[g] \/ (g = build.project.graph /\ cloud'[g] = "loading")
         /\ UNCHANGED <<project, tasks, builds, made, op, lookup, sims, reports, generating,
                        crashes>>
BY DEF GraphTypeOK, BuildSubmits, Build, Alive

(* The thread waits for the batch.                                         *)
LEMMA BuildWaitsEffect ==
  ASSUME GraphTypeOK, BuildWaits
  PROVE  /\ build.pc = "wait"
         /\ build' \in Build /\ build'.project = build.project
         /\ build'.pc \in {"publish", "fail"}
         /\ UNCHANGED <<project, tasks, builds, cloud, made, op, lookup, sims, reports,
                        generating, crashes>>
BY DEF GraphTypeOK, BuildWaits, Build

(* The end of a build writes the object it captured, with its status.      *)
LEMMA BuildEndsEffect ==
  ASSUME GraphTypeOK, BuildPublishes \/ BuildFails
  PROVE  /\ op.pc = "idle" /\ build.pc \in {"publish", "fail"}
         /\ \E st \in {"graph_completed", "failed"} :
              /\ st = "graph_completed" => build.pc = "publish"
              /\ Holds(project', st, build.project.ontology, build.project.graph,
                       build.project.task, build.project.batch)
         /\ \E outcome \in {"completed", "failed"} :
              tasks' = [tasks EXCEPT ![build.project.task] = outcome]
         /\ build' = NoBuild
         /\ UNCHANGED <<builds, cloud, made, op, lookup, sims, reports, generating, crashes>>
<1>1. build.project \in Project
  BY DEF GraphTypeOK
<1>2. CASE BuildPublishes
  BY <1>1, <1>2, ProjectFields DEF BuildPublishes, BuildEnds, Statuses
<1>3. CASE BuildFails
  BY <1>1, <1>3, ProjectFields DEF BuildFails, BuildEnds, Statuses
<1>4. QED
  BY <1>2, <1>3

(* One simulation is replaced by another record.                           *)
LEMMA SetsSimEffect ==
  ASSUME GraphTypeOK, NEW s \in Sims, NEW new \in Sim, SetsSim(s, new)
  PROVE  /\ sims' \in [Sims -> Sim] /\ sims'[s] = new
         /\ \A t \in Sims : t # s => sims'[t] = sims[t]
         /\ UNCHANGED <<project, tasks, builds, build, cloud, made, op, lookup, reports,
                        generating, crashes>>
BY DEF GraphTypeOK, SetsSim

(* What the operations on a simulation make of it.                         *)
LEMMA SimEffect ==
  ASSUME GraphTypeOK, NEW s \in Sims,
         \/ CreateSimulation(s) \/ StartPlain(s) \/ StartWithMemory(s)
         \/ StartReturns(s) \/ RunEnds(s)
  PROVE  /\ sims' \in [Sims -> Sim]
         /\ \A t \in Sims : t # s => sims'[t] = sims[t]
         /\ UNCHANGED <<project, tasks, builds, build, cloud, made, op, lookup, reports,
                        generating, crashes>>
         /\ LET old == sims[s]  new == sims'[s] IN
            \/ /\ old.graph = 0 /\ project.graph # 0
               /\ IsSim(new, project.graph, old.status, old.updater, old.target, old.starting)
            \/ /\ old.graph # 0 /\ old.status # "active" /\ old.updater = "none"
               /\ IsSim(new, old.graph, "active", "none", old.target, old.starting)
            \/ /\ old.graph # 0 /\ old.status # "active" /\ old.updater = "none"
               /\ old.graph = project.graph /\ project.graph # 0
               /\ GraphFree(project.graph) /\ Readers(project.graph) = {}
               /\ IsSim(new, old.graph, "active", "open", project.graph, TRUE)
            \/ /\ old.starting
               /\ \/ IsSim(new, old.graph, old.status, old.updater, old.target, FALSE)
                  \/ \E u \in {"none", "open", "closed"} :
                       IsSim(new, old.graph, "failed", u,
                             IF u = "none" THEN 0 ELSE old.target, FALSE)
            \/ /\ ~old.starting
               /\ \/ \E st \in {"done", "failed"} :
                       IsSim(new, old.graph, st, "none", 0, old.starting)
                  \/ /\ old.updater # "none"
                     /\ \E u \in {"open", "closed"} :
                          /\ old.updater = "closed" => u = "closed"
                          /\ IsSim(new, old.graph, "failed", u, old.target, old.starting)
<1>1. /\ sims[s] \in Sim /\ sims[s].graph \in GraphIds /\ sims[s].target \in GraphIds
      /\ sims[s].starting \in BOOLEAN /\ sims[s].updater \in {"none", "open", "closed"}
      /\ sims[s].status \in {"none", "active", "done", "failed"}
      /\ project.graph \in GraphIds /\ 0 \in GraphIds
  BY DEF GraphTypeOK, Sim, Project, GraphIds
<1>2. CASE CreateSimulation(s)
  <2> DEFINE new == [sims[s] EXCEPT !.graph = project.graph]
  <2>1. IsSim(new, project.graph, sims[s].status, sims[s].updater, sims[s].target,
              sims[s].starting)
    BY <1>1, SimFields
  <2>2. SetsSim(s, new) /\ sims[s].graph = 0 /\ project.graph # 0
    BY <1>2 DEF CreateSimulation
  <2> HIDE DEF new
  <2>3. QED
    BY <2>1, <2>2, SetsSimEffect DEF IsSim
<1>3. CASE StartPlain(s)
  <2> DEFINE new == [sims[s] EXCEPT !.status = "active"]
  <2>1. IsSim(new, sims[s].graph, "active", sims[s].updater, sims[s].target,
              sims[s].starting)
    BY <1>1, SimFields
  <2>2. /\ SetsSim(s, new)
        /\ sims[s].graph # 0 /\ sims[s].status # "active" /\ sims[s].updater = "none"
    BY <1>3 DEF StartPlain, CanRun
  <2> HIDE DEF new
  <2>3. QED
    BY <2>1, <2>2, SetsSimEffect DEF IsSim
<1>4. CASE StartWithMemory(s)
  <2> DEFINE new == [sims[s] EXCEPT !.status = "active", !.updater = "open",
                                    !.target = project.graph, !.starting = TRUE]
  <2>1. IsSim(new, sims[s].graph, "active", "open", project.graph, TRUE)
    BY <1>1, SimFields
  <2>2. /\ SetsSim(s, new)
        /\ sims[s].graph # 0 /\ sims[s].status # "active" /\ sims[s].updater = "none"
        /\ sims[s].graph = project.graph /\ project.graph # 0
        /\ GraphFree(project.graph) /\ Readers(project.graph) = {}
    BY <1>4 DEF StartWithMemory, CanRun
  <2> HIDE DEF new
  <2>3. QED
    BY <2>1, <2>2, SetsSimEffect DEF IsSim
<1>5. CASE StartReturns(s)
  <2>1. CASE SetsSim(s, [sims[s] EXCEPT !.starting = FALSE])
    <3> DEFINE new == [sims[s] EXCEPT !.starting = FALSE]
    <3>1. IsSim(new, sims[s].graph, sims[s].status, sims[s].updater, sims[s].target, FALSE)
      BY <1>1, SimFields
    <3>2. SetsSim(s, new) /\ sims[s].starting
      BY <1>5, <2>1 DEF StartReturns
    <3> HIDE DEF new
    <3>3. QED
      BY <3>1, <3>2, SetsSimEffect DEF IsSim
  <2>2. CASE \E left \in {"none", "open", "closed"} :
               SetsSim(s, [sims[s] EXCEPT !.starting = FALSE, !.status = "failed",
                                          !.updater = left,
                                          !.target = IF left = "none" THEN 0 ELSE @])
    <3>1. PICK u \in {"none", "open", "closed"} :
            SetsSim(s, [sims[s] EXCEPT !.starting = FALSE, !.status = "failed",
                                       !.updater = u,
                                       !.target = IF u = "none" THEN 0 ELSE @])
      BY <2>2
    <3> DEFINE target == IF u = "none" THEN 0 ELSE sims[s].target
    <3> DEFINE new == [sims[s] EXCEPT !.starting = FALSE, !.status = "failed",
                                      !.updater = u, !.target = target]
    <3>2. target \in GraphIds
      BY <1>1
    <3>3. SetsSim(s, new) /\ sims[s].starting
      BY <1>5, <3>1 DEF StartReturns
    <3>4. IsSim(new, sims[s].graph, "failed", u, target, FALSE)
      <4> HIDE DEF target
      <4>1. QED
        BY <1>1, <3>2, SimFields
    <3> HIDE DEF new
    <3>5. QED
      BY <3>3, <3>4, SetsSimEffect DEF IsSim
  <2>3. QED
    BY <1>5, <2>1, <2>2 DEF StartReturns
<1>6. CASE RunEnds(s)
  <2>1. CASE \E how \in {"done", "failed"} :
               SetsSim(s, [sims[s] EXCEPT !.status = how, !.updater = "none", !.target = 0])
    <3>1. PICK how \in {"done", "failed"} :
            SetsSim(s, [sims[s] EXCEPT !.status = how, !.updater = "none", !.target = 0])
      BY <2>1
    <3> DEFINE new == [sims[s] EXCEPT !.status = how, !.updater = "none", !.target = 0]
    <3>2. SetsSim(s, new) /\ ~sims[s].starting
      BY <1>6, <3>1 DEF RunEnds
    <3>3. IsSim(new, sims[s].graph, how, "none", 0, sims[s].starting)
      BY <1>1, SimFields
    <3> HIDE DEF new
    <3>4. QED
      BY <3>2, <3>3, SetsSimEffect DEF IsSim
  <2>2. CASE /\ sims[s].updater # "none"
             /\ \E left \in {"open", "closed"} :
                  /\ sims[s].updater = "closed" => left = "closed"
                  /\ SetsSim(s, [sims[s] EXCEPT !.status = "failed", !.updater = left])
    <3>1. PICK left \in {"open", "closed"} :
            /\ sims[s].updater = "closed" => left = "closed"
            /\ SetsSim(s, [sims[s] EXCEPT !.status = "failed", !.updater = left])
      BY <2>2
    <3> DEFINE new == [sims[s] EXCEPT !.status = "failed", !.updater = left]
    <3>2. SetsSim(s, new) /\ ~sims[s].starting
      BY <1>6, <3>1 DEF RunEnds
    <3>3. IsSim(new, sims[s].graph, "failed", left, sims[s].target, sims[s].starting)
      BY <1>1, SimFields
    <3> HIDE DEF new
    <3>4. QED
      BY <2>2, <3>1, <3>2, <3>3, SetsSimEffect DEF IsSim
  <2>3. QED
    BY <1>6, <2>1, <2>2 DEF RunEnds
<1>7. QED
  BY <1>2, <1>3, <1>4, <1>5, <1>6

(* A crash takes the updaters, the tasks, the threads and the leases.      *)
LEMMA CrashEffect ==
  ASSUME GraphTypeOK, Crash
  PROVE  /\ crashes < MaxCrashes /\ crashes' = crashes + 1
         /\ tasks' = [n \in 1..MaxBuilds |-> "none"]
         /\ build' = NoBuild /\ op' = NoOp /\ lookup' = 0 /\ generating' = FALSE
         /\ reports' = [r \in Reports |-> NoReport]
         /\ sims' \in [Sims -> Sim]
         /\ \A s \in Sims : IsSim(sims'[s], sims[s].graph, sims[s].status, "none", 0, FALSE)
         /\ UNCHANGED <<project, builds, cloud, made>>
<1>1. ASSUME NEW s \in Sims
      PROVE  IsSim([sims[s] EXCEPT !.updater = "none", !.target = 0, !.starting = FALSE],
                   sims[s].graph, sims[s].status, "none", 0, FALSE)
  <2>1. sims[s] \in Sim /\ 0 \in GraphIds
    BY DEF GraphTypeOK, GraphIds
  <2>2. QED
    BY <2>1, SimFields
<1>2. sims' = [s \in Sims |->
                 [sims[s] EXCEPT !.updater = "none", !.target = 0, !.starting = FALSE]]
  BY DEF Crash
<1>3. \A s \in Sims : IsSim(sims'[s], sims[s].graph, sims[s].status, "none", 0, FALSE)
  BY <1>1, <1>2
<1>4. sims' \in [Sims -> Sim]
  BY <1>1, <1>2 DEF IsSim
<1>5. QED
  BY <1>3, <1>4 DEF Crash

-----------------------------------------------------------------------------
(* Types *)

OtherTypes ==
  /\ tasks \in [1..MaxBuilds -> {"none", "pending", "processing", "completed", "failed"}]
  /\ builds \in 0..MaxBuilds
  /\ cloud \in [Graphs -> {"none", "deleted"} \cup Alive]
  /\ generating \in BOOLEAN /\ made \in GraphIds /\ lookup \in GraphIds
  /\ reports \in [Reports -> [graph: Graphs, sim: Sims] \cup {NoReport}]
  /\ crashes \in 0..MaxCrashes

(* The records of a state, and those a request makes.                      *)
LEMMA Records ==
  ASSUME GraphTypeOK
  PROVE  /\ project \in Project /\ build \in Build /\ build.project \in Project /\ op \in Op
         /\ project.graph \in GraphIds /\ lookup \in GraphIds /\ op.graph \in GraphIds
         /\ project.task \in 0..MaxBuilds /\ builds \in 0..MaxBuilds /\ made \in GraphIds
         /\ tasks \in [1..MaxBuilds -> {"none", "pending", "processing", "completed", "failed"}]
         /\ cloud \in [Graphs -> {"none", "deleted"} \cup Alive]
         /\ \A kind \in {"none", "build", "reset", "project", "graph"}, g \in GraphIds :
              [kind |-> kind, pc |-> "check", graph |-> g] \in Op
BY DEF GraphTypeOK, Project, Op, Build

(* A report is about a graph and a simulation.                             *)
LEMMA ReportRecords ==
  ASSUME GraphTypeOK, NEW r \in Reports, reports[r] # NoReport
  PROVE  reports[r].graph \in Graphs /\ reports[r].graph # 0 /\ reports[r].sim \in Sims
BY DEF GraphTypeOK, Graphs

(* The project file is written by builds and by what holds its lock.       *)
LEMMA ProjectType ==
  ASSUME GraphTypeOK, GraphInv, GraphNext
  PROVE  project' \in Project
<1> USE DEF GraphTypeOK, Holds, Started
<1>1. CASE OntologyGenerated
  BY <1>1, OntologyEffect
<1>2. ASSUME NEW force \in BOOLEAN, BuildRequested(force)
      PROVE  project' \in Project
  BY <1>2, BuildRequestedEffect
<1>3. CASE OpSaves
  BY <1>3, OpSavesEffect
<1>4. CASE BuildRemembersGraph
  BY <1>4, BuildRemembersGraphEffect
<1>5. CASE BuildRemembersBatch
  BY <1>5, BuildRemembersBatchEffect
<1>6. CASE BuildPublishes \/ BuildFails
  BY <1>6, BuildEndsEffect
<1>7. CASE UNCHANGED project
  BY <1>7
<1>8. QED
  BY <1>1, <1>2, <1>3, <1>4, <1>5, <1>6, <1>7
  DEF GraphNext, BuildStep, ResetRequested, DeleteProjectRequested,
      DeleteGraphRequested, DeleteGraphLocks, OpChecks, OpDeletes, BuildBegins,
      BuildPostsGraph, BuildSubmits, BuildWaits, ZepLoads, CreateSimulation,
      StartPlain, StartWithMemory, StartReturns, RunEnds, SetsSim, ReportEnds,
      ReportRequested, Crash

(* The thread of a build.                                                  *)
LEMMA BuildType ==
  ASSUME GraphTypeOK, GraphInv, GraphNext
  PROVE  build' \in Build
<1> USE DEF Started
<1>1. ASSUME NEW force \in BOOLEAN, BuildRequested(force)
      PROVE  build' \in Build
  BY <1>1, BuildRequestedEffect, Records
<1>2. CASE OpSaves
  BY <1>2, OpSavesEffect, Records
<1>3. CASE BuildBegins
  BY <1>3, BuildBeginsEffect
<1>4. CASE BuildRemembersGraph
  BY <1>4, BuildRemembersGraphEffect
<1>5. CASE BuildPostsGraph
  BY <1>5, BuildPostsGraphEffect
<1>6. CASE BuildRemembersBatch
  BY <1>6, BuildRemembersBatchEffect
<1>7. CASE BuildSubmits
  BY <1>7, BuildSubmitsEffect
<1>8. CASE BuildWaits
  BY <1>8, BuildWaitsEffect
<1>9. CASE BuildPublishes \/ BuildFails
  BY <1>9, BuildEndsEffect, Nothing
<1>10. CASE Crash
  BY <1>10, CrashEffect, Nothing
<1>11. CASE UNCHANGED build
  BY <1>11, Records
<1>12. QED
  BY <1>1, <1>2, <1>3, <1>4, <1>5, <1>6, <1>7, <1>8, <1>9, <1>10, <1>11
  DEF GraphNext, BuildStep, OntologyGenerated, ResetRequested, DeleteProjectRequested,
      DeleteGraphRequested, DeleteGraphLocks, OpChecks, OpDeletes, ZepLoads,
      CreateSimulation, StartPlain, StartWithMemory, StartReturns, RunEnds, SetsSim,
      ReportEnds, ReportRequested

(* The simulations.                                                        *)
LEMMA SimsType ==
  ASSUME GraphTypeOK, GraphInv, GraphNext
  PROVE  sims' \in [Sims -> Sim]
<1> USE DEF GraphTypeOK
<1>1. CASE OpChecks
  BY <1>1, OpChecksEffect
<1>2. ASSUME NEW s \in Sims,
             \/ CreateSimulation(s) \/ StartPlain(s) \/ StartWithMemory(s)
             \/ StartReturns(s) \/ RunEnds(s)
      PROVE  sims' \in [Sims -> Sim]
  BY <1>2, SimEffect
<1>3. CASE Crash
  BY <1>3, CrashEffect
<1>4. CASE UNCHANGED sims
  BY <1>4
<1>5. QED
  BY <1>1, <1>2, <1>3, <1>4
  DEF GraphNext, BuildStep, OntologyGenerated, BuildRequested, ContinuesBuild,
      StartsOver, StartsBuild, ResetRequested, DeleteProjectRequested,
      DeleteGraphRequested, DeleteGraphLocks, OpDeletes, OpSaves, BuildBegins,
      BuildRemembersGraph, BuildSaves, BuildPostsGraph, BuildRemembersBatch,
      BuildSubmits, BuildWaits, BuildPublishes, BuildFails, BuildEnds, ZepLoads,
      ReportEnds, ReportRequested

(* Only a request that has a graph comes to delete it.                     *)
LEMMA OpDeletesInGraphs ==
  ASSUME GraphTypeOK, GraphInv, OpDeletes
  PROVE  op.graph \in Graphs
<1>1. op.graph \in GraphIds /\ op.pc = "delete"
  BY DEF GraphTypeOK, OpDeletes
<1>2. op.graph # 0
  BY <1>1 DEF GraphInv, OpOwnsItsGraph
<1>3. QED
  BY <1>1, <1>2 DEF Graphs, GraphIds

(* The request that holds the lock of the project.                         *)
LEMMA OpType ==
  ASSUME GraphTypeOK, GraphInv, GraphNext
  PROVE  op' \in Op
<1>1. ASSUME NEW force \in BOOLEAN, BuildRequested(force)
      PROVE  op' \in Op
  BY <1>1, BuildRequestedEffect, Records
<1>2. CASE ResetRequested
  BY <1>2, Records DEF ResetRequested
<1>3. CASE DeleteProjectRequested
  BY <1>3, Records DEF DeleteProjectRequested
<1>4. CASE DeleteGraphLocks
  BY <1>4, Records DEF DeleteGraphLocks
<1>5. CASE OpChecks
  BY <1>5, OpChecksEffect
<1>6. CASE OpDeletes
  BY <1>6, OpDeletesEffect, OpDeletesInGraphs
<1>7. CASE OpSaves
  BY <1>7, OpSavesEffect, Nothing
<1>8. CASE Crash
  BY <1>8, CrashEffect, Nothing
<1>9. CASE UNCHANGED op
  BY <1>9, Records
<1>10. QED
  BY <1>1, <1>2, <1>3, <1>4, <1>5, <1>6, <1>7, <1>8, <1>9
  DEF GraphNext, BuildStep, OntologyGenerated, DeleteGraphRequested, BuildBegins,
      BuildRemembersGraph, BuildSaves, BuildPostsGraph, BuildRemembersBatch,
      BuildSubmits, BuildWaits, BuildPublishes, BuildFails, BuildEnds, ZepLoads,
      CreateSimulation, StartPlain, StartWithMemory, StartReturns, RunEnds, SetsSim,
      ReportEnds, ReportRequested

(* The tables, the graphs at Zep and the reports.                          *)
LEMMA OthersType ==
  ASSUME GraphTypeOK, GraphInv, GraphNext
  PROVE  OtherTypes'
<1> USE DEF GraphTypeOK, OtherTypes, Graphs, GraphIds, Alive
<1>1. CASE OntologyGenerated
  BY <1>1, OntologyEffect
<1>2. ASSUME NEW force \in BOOLEAN, BuildRequested(force)
      PROVE  OtherTypes'
  BY <1>2, BuildRequestedEffect DEF Started
<1>3. ASSUME NEW g \in Graphs, DeleteGraphRequested(g)
      PROVE  OtherTypes'
  BY <1>3 DEF DeleteGraphRequested, Project
<1>4. CASE DeleteGraphLocks
  BY <1>4 DEF DeleteGraphLocks
<1>5. CASE OpDeletes
  BY <1>5, OpDeletesEffect, OpDeletesInGraphs
<1>6. CASE OpSaves
  <2>1. /\ builds' \in 0..MaxBuilds
        /\ tasks' \in [1..MaxBuilds ->
                        {"none", "pending", "processing", "completed", "failed"}]
    <3>1. CASE Started(project.ontology, 0, FALSE)
      BY <3>1 DEF Started
    <3>2. CASE UNCHANGED <<tasks, builds>>
      BY <3>2
    <3>3. QED
      BY <1>6, <3>1, <3>2, OpSavesEffect
  <2>2. QED
    BY <1>6, <2>1, OpSavesEffect
<1>7. CASE BuildBegins
  BY <1>7, BuildBeginsEffect
<1>8. CASE BuildRemembersGraph
  BY <1>8, BuildRemembersGraphEffect
<1>9. CASE BuildPostsGraph
  BY <1>9, BuildPostsGraphEffect
<1>10. CASE BuildSubmits
  BY <1>10, BuildSubmitsEffect
<1>11. CASE BuildPublishes \/ BuildFails
  <2>1. PICK outcome \in {"completed", "failed"} :
          tasks' = [tasks EXCEPT ![build.project.task] = outcome]
    BY <1>11, BuildEndsEffect
  <2>2. QED
    BY <1>11, <2>1, BuildEndsEffect
<1>12. ASSUME NEW g \in Graphs, ZepLoads(g)
      PROVE  OtherTypes'
  BY <1>12 DEF ZepLoads
<1>13. ASSUME NEW r \in Reports, ReportEnds(r)
      PROVE  OtherTypes'
  BY <1>13 DEF ReportEnds
<1>14. ASSUME NEW r \in Reports, NEW s \in Sims, ReportRequested(r, s)
      PROVE  OtherTypes'
  BY <1>14 DEF ReportRequested, Project
<1>15. CASE Crash
  <2>1. /\ tasks' = [n \in 1..MaxBuilds |-> "none"]
        /\ reports' = [r \in Reports |-> NoReport]
    BY <1>15, CrashEffect
  <2>2. tasks' \in [1..MaxBuilds -> {"none", "pending", "processing", "completed", "failed"}]
    BY <2>1
  <2>3. reports' \in [Reports -> [graph: Graphs, sim: Sims] \cup {NoReport}]
    BY <2>1
  <2>4. /\ lookup' = 0 /\ generating' = FALSE /\ UNCHANGED <<builds, cloud, made>>
        /\ crashes < MaxCrashes /\ crashes' = crashes + 1
    BY <1>15, CrashEffect
  <2>5. /\ crashes' \in 0..MaxCrashes /\ lookup' \in GraphIds
    BY <2>4
  <2>6. builds' \in 0..MaxBuilds /\ made' \in GraphIds
    BY <2>4
  <2>7. cloud' \in [Graphs -> {"none", "deleted"} \cup Alive] /\ generating' \in BOOLEAN
    BY <2>4
  <2>8. QED
    BY <2>2, <2>3, <2>5, <2>6, <2>7
<1>16. CASE UNCHANGED <<tasks, builds, cloud, generating, made, lookup, reports, crashes>>
  BY <1>16
<1>17. QED
  BY <1>1, <1>2, <1>3, <1>4, <1>5, <1>6, <1>7, <1>8, <1>9, <1>10, <1>11, <1>12, <1>13,
     <1>14, <1>15, <1>16
  DEF GraphNext, BuildStep, ResetRequested, DeleteProjectRequested, OpChecks,
      BuildRemembersBatch, BuildSaves, BuildWaits, CreateSimulation, StartPlain,
      StartWithMemory, StartReturns, RunEnds, SetsSim

-----------------------------------------------------------------------------
(* Every step keeps the inductive invariant *)

(* Nobody uses a graph that the project does not have, or that a request   *)
(* has come to delete.                                                     *)
NoUsers ==
  /\ \A s \in Sims : sims[s].updater # "open"
  /\ \A r \in Reports : reports[r] = NoReport

(* What follows for the writers of the project: before the ontology is     *)
(* there, and while a build is without a graph, there is nothing at Zep;   *)
(* a request that saves finds nobody that uses the graph.                  *)
LEMMA Consequences ==
  ASSUME GraphTypeOK, GraphInv
  PROVE  /\ generating => project.graph = 0 /\ ~project.batch /\ build.pc = "idle"
         /\ build.pc # "idle" => /\ project = build.project /\ project.task # 0
                               /\ project.status = "graph_building"
                               /\ op.kind \notin {"build", "reset", "project"}
         /\ build.pc = "create" => project.graph = 0
         /\ build.pc = "submit" => project.graph # 0
         /\ project.graph = 0 => NoUsers
         /\ op.pc \in {"delete", "save"} /\ op.graph = project.graph => NoUsers
         /\ project.graph = 0 => \A g \in Graphs : cloud[g] \notin Alive
         /\ op.pc = "save" /\ op.graph = project.graph =>
              \A g \in Graphs : cloud[g] \notin Alive
         /\ op.kind \in {"build", "reset", "project"} => project.graph = op.graph
         /\ op.pc = "save" /\ op.graph = project.graph => build.pc = "idle"
<1>1. /\ generating => project.graph = 0 /\ ~project.batch /\ build.pc = "idle"
      /\ build.pc # "idle" => /\ project = build.project /\ project.task # 0
                            /\ project.status = "graph_building"
                            /\ op.kind \notin {"build", "reset", "project"}
      /\ build.pc = "create" => project.graph = 0
      /\ build.pc = "submit" => project.graph # 0
      /\ op.kind \in {"build", "reset", "project"} => project.graph = op.graph
      /\ op.pc = "save" /\ op.graph = project.graph => build.pc = "idle"
  BY Records DEF Op, GraphInv, ProjectIsConsistent, BuildKnowsItsGraph, BuildOwnsProject, ActiveBuild,
         OpOwnsItsGraph
<1>2. \A r \in Reports : reports[r] # NoReport => reports[r].graph \in Graphs
  BY DEF GraphTypeOK
<1>3. project.graph = 0 => NoUsers
  BY <1>2 DEF GraphInv, WritersUseTheGraph, ReadersUseTheGraph, NoUsers, Graphs
<1>4. project.graph \in GraphIds /\ (project.graph # 0 => project.graph \in Graphs)
  BY DEF GraphTypeOK, Project, GraphIds, Graphs
<1>5. ASSUME op.pc \in {"delete", "save"}, op.graph = project.graph, project.graph # 0
      PROVE  NoUsers
  <2>1. ~UsedBy(project.graph)
    BY <1>4, <1>5 DEF GraphInv, CheckedGraphIsUnused
  <2>2. QED
    BY <2>1 DEF GraphInv, WritersUseTheGraph, ReadersUseTheGraph, NoUsers, UsedBy, Readers
<1>6. project.graph = 0 => \A g \in Graphs : cloud[g] \notin Alive
  BY DEF GraphInv, NoOrphanGraph, Graphs
<1>7. ASSUME op.pc = "save", op.graph = project.graph, project.graph # 0, NEW g \in Graphs
      PROVE  cloud[g] \notin Alive
  BY <1>7 DEF GraphInv, NoOrphanGraph, DeletedBeforeSave
<1>8. QED
  BY <1>1, <1>3, <1>5, <1>6, <1>7

(* What has no ontology, no graph, no batch or is deleted fits together.    *)
LEMMA ConsistencyKept ==
  ASSUME GraphTypeOK, GraphInv, GraphNext
  PROVE  ProjectIsConsistent'
<1> USE DEF GraphInv, ProjectIsConsistent, OpOwnsItsGraph, Exists, Holds, Started
<1>1. CASE OntologyGenerated
  BY <1>1, OntologyEffect
<1>2. ASSUME NEW force \in BOOLEAN, BuildRequested(force)
      PROVE  ProjectIsConsistent'
  BY <1>2, BuildRequestedEffect
<1>3. CASE ResetRequested
  BY <1>3 DEF ResetRequested
<1>4. CASE DeleteProjectRequested
  BY <1>4 DEF DeleteProjectRequested
<1>5. CASE DeleteGraphLocks
  BY <1>5 DEF DeleteGraphLocks
<1>6. CASE OpChecks
  BY <1>6, OpChecksEffect, Nothing
<1>7. CASE OpDeletes
  BY <1>7, OpDeletesEffect, Nothing, OpDeletesInGraphs
<1>8. CASE OpSaves
  <2>1. /\ op.pc = "save" /\ op' = NoOp
        /\ UNCHANGED <<cloud, made, lookup, sims, reports, generating, crashes>>
    BY <1>8, OpSavesEffect
  <2>2. CASE op.kind = "build" /\ Started(project.ontology, 0, FALSE)
    BY <2>1, <2>2
  <2>3. ASSUME NEW st \in {"created", "ontology_generated", "deleted"},
               op.kind # "build", op.kind \in {"project", "reset"} \/ project.graph = op.graph,
               UNCHANGED <<tasks, builds, build>>,
               Holds(project', st, project.ontology, 0, 0, FALSE),
               st = "ontology_generated" => project.ontology,
               st = "deleted" => op.kind = "project"
        PROVE  ProjectIsConsistent'
    BY <2>1, <2>3, Nothing
  <2>4. CASE UNCHANGED <<project, tasks, builds, build>>
    BY <2>1, <2>4, Nothing
  <2>5. QED
    BY <1>8, <2>2, <2>3, <2>4, OpSavesEffect
<1>9. CASE BuildRemembersGraph
  BY <1>9, BuildRemembersGraphEffect, Consequences
<1>10. CASE BuildRemembersBatch
  <2>1. /\ build.pc = "submit"
        /\ UNCHANGED <<tasks, builds, cloud, made, op, lookup, sims, reports, generating, crashes>>
    BY <1>10, BuildRemembersBatchEffect
  <2>2. CASE /\ Holds(project', build.project.status, build.project.ontology,
                     build.project.graph, build.project.task, TRUE)
             /\ build'.pc = "submit" /\ build'.project = project'
    BY <2>1, <2>2, Consequences
  <2>3. CASE project' = project /\ build'.pc = "fail" /\ build'.project = build.project
    BY <2>1, <2>3
  <2>4. QED
    BY <1>10, <2>2, <2>3, BuildRemembersBatchEffect
<1>11. CASE BuildPublishes \/ BuildFails
  BY <1>11, BuildEndsEffect, Consequences
<1>12. CASE Crash
  BY <1>12, CrashEffect
<1>13. CASE UNCHANGED <<project, op, generating>>
  BY <1>13
<1>14. QED
  BY <1>1, <1>2, <1>3, <1>4, <1>5, <1>6, <1>7, <1>8, <1>9, <1>10, <1>11, <1>12, <1>13
  DEF GraphNext, BuildStep, DeleteGraphRequested, BuildBegins, BuildPostsGraph,
      BuildSubmits, BuildWaits, ZepLoads, CreateSimulation, StartPlain,
      StartWithMemory, StartReturns, RunEnds, SetsSim, ReportEnds, ReportRequested

(* How far a build is shows in its project.                                *)
LEMMA BuildKept ==
  ASSUME GraphTypeOK, GraphInv, GraphNext
  PROVE  BuildKnowsItsGraph'
<1> USE DEF GraphInv, ProjectIsConsistent, BuildKnowsItsGraph, Holds, Started
<1>1. CASE OntologyGenerated
  <2>1. /\ build.pc = "idle" /\ UNCHANGED <<build, builds>>
        /\ project' = project \/ project'.task = 0
    BY <1>1, OntologyEffect, Consequences
  <2>2. QED
    BY <2>1, Records
<1>2. ASSUME NEW force \in BOOLEAN, BuildRequested(force)
      PROVE  BuildKnowsItsGraph'
  BY <1>2, BuildRequestedEffect
<1>3. CASE OpSaves
  <2>1. /\ op.pc = "save" /\ op' = NoOp
        /\ UNCHANGED <<cloud, made, lookup, sims, reports, generating, crashes>>
    BY <1>3, OpSavesEffect
  <2>2. CASE op.kind = "build" /\ Started(project.ontology, 0, FALSE)
    BY <2>1, <2>2
  <2>3. ASSUME NEW st \in {"created", "ontology_generated", "deleted"},
               op.kind # "build", op.kind \in {"project", "reset"} \/ project.graph = op.graph,
               UNCHANGED <<tasks, builds, build>>,
               Holds(project', st, project.ontology, 0, 0, FALSE),
               st = "ontology_generated" => project.ontology,
               st = "deleted" => op.kind = "project"
        PROVE  BuildKnowsItsGraph'
    BY <2>1, <2>3, Records
  <2>4. CASE UNCHANGED <<project, tasks, builds, build>>
    BY <2>1, <2>4
  <2>5. QED
    BY <1>3, <2>2, <2>3, <2>4, OpSavesEffect
<1>4. CASE BuildBegins
  BY <1>4, BuildBeginsEffect
<1>5. CASE BuildRemembersGraph
  <2>1. /\ build'.pc = "post" /\ build'.project = project' /\ builds' = builds
        /\ project'.graph = made + 1 /\ project'.task = project.task
    BY <1>5, BuildRemembersGraphEffect, Consequences
  <2>2. QED
    BY <2>1, Records DEF GraphIds
<1>6. CASE BuildPostsGraph
  BY <1>6, BuildPostsGraphEffect
<1>7. CASE BuildRemembersBatch
  <2>1. /\ build.pc = "submit"
        /\ UNCHANGED <<tasks, builds, cloud, made, op, lookup, sims, reports, generating, crashes>>
    BY <1>7, BuildRemembersBatchEffect
  <2>2. CASE /\ Holds(project', build.project.status, build.project.ontology,
                     build.project.graph, build.project.task, TRUE)
             /\ build'.pc = "submit" /\ build'.project = project'
    BY <2>1, <2>2, Consequences
  <2>3. CASE project' = project /\ build'.pc = "fail" /\ build'.project = build.project
    BY <2>1, <2>3
  <2>4. QED
    BY <1>7, <2>2, <2>3, BuildRemembersBatchEffect
<1>8. CASE BuildSubmits
  BY <1>8, BuildSubmitsEffect
<1>9. CASE BuildWaits
  BY <1>9, BuildWaitsEffect
<1>10. CASE BuildPublishes \/ BuildFails
  BY <1>10, BuildEndsEffect, Nothing, Consequences
<1>11. CASE Crash
  BY <1>11, CrashEffect, Nothing
<1>12. CASE UNCHANGED <<project, build, builds>>
  BY <1>12
<1>13. QED
  BY <1>1, <1>2, <1>3, <1>4, <1>5, <1>6, <1>7, <1>8, <1>9, <1>10, <1>11, <1>12
  DEF GraphNext, BuildStep, ResetRequested, DeleteProjectRequested,
      DeleteGraphRequested, DeleteGraphLocks, OpChecks, OpDeletes, ZepLoads,
      CreateSimulation, StartPlain, StartWithMemory, StartReturns, RunEnds, SetsSim,
      ReportEnds, ReportRequested

(* Nobody else writes the project while a build thread runs.               *)
LEMMA OwnershipKept ==
  ASSUME GraphTypeOK, GraphInv, GraphNext
  PROVE  BuildOwnsProject'
<1> USE DEF GraphInv, BuildKnowsItsGraph, BuildOwnsProject, OpOwnsItsGraph,
            ActiveBuild, Holds, Started
<1>1. CASE OntologyGenerated
  BY <1>1, OntologyEffect, Consequences
<1>2. ASSUME NEW force \in BOOLEAN, BuildRequested(force)
      PROVE  BuildOwnsProject'
  BY <1>2, BuildRequestedEffect, Records
<1>3. CASE OpSaves
  <2>1. /\ op.pc = "save" /\ op' = NoOp
        /\ UNCHANGED <<cloud, made, lookup, sims, reports, generating, crashes>>
    BY <1>3, OpSavesEffect
  <2>2. CASE op.kind = "build" /\ Started(project.ontology, 0, FALSE)
    BY <2>1, <2>2, Records
  <2>3. ASSUME NEW st \in {"created", "ontology_generated", "deleted"},
               op.kind # "build", op.kind \in {"project", "reset"} \/ project.graph = op.graph,
               UNCHANGED <<tasks, builds, build>>,
               Holds(project', st, project.ontology, 0, 0, FALSE),
               st = "ontology_generated" => project.ontology,
               st = "deleted" => op.kind = "project"
        PROVE  BuildOwnsProject'
    BY <2>1, <2>3, Consequences
  <2>4. CASE UNCHANGED <<project, tasks, builds, build>>
    BY <2>1, <2>4
  <2>5. QED
    BY <1>3, <2>2, <2>3, <2>4, OpSavesEffect
<1>4. CASE BuildBegins
  BY <1>4, BuildBeginsEffect, Records
<1>5. CASE BuildRemembersGraph
  BY <1>5, BuildRemembersGraphEffect
<1>6. CASE BuildPostsGraph
  BY <1>6, BuildPostsGraphEffect
<1>7. CASE BuildRemembersBatch
  BY <1>7, BuildRemembersBatchEffect, Nothing
<1>8. CASE BuildSubmits
  BY <1>8, BuildSubmitsEffect
<1>9. CASE BuildWaits
  BY <1>9, BuildWaitsEffect
<1>10. CASE BuildPublishes \/ BuildFails
  BY <1>10, BuildEndsEffect, Nothing
<1>11. CASE Crash
  BY <1>11, CrashEffect, Nothing
<1>12. CASE UNCHANGED <<project, build, tasks>>
  BY <1>12
<1>13. QED
  BY <1>1, <1>2, <1>3, <1>4, <1>5, <1>6, <1>7, <1>8, <1>9, <1>10, <1>11, <1>12
  DEF GraphNext, BuildStep, ResetRequested, DeleteProjectRequested,
      DeleteGraphRequested, DeleteGraphLocks, OpChecks, OpDeletes, ZepLoads,
      CreateSimulation, StartPlain, StartWithMemory, StartReturns, RunEnds, SetsSim,
      ReportEnds, ReportRequested

(* A request that holds the lock keeps builds off its graph.               *)
LEMMA OpKept ==
  ASSUME GraphTypeOK, GraphInv, GraphNext
  PROVE  OpOwnsItsGraph'
<1> USE DEF GraphInv, OpOwnsItsGraph, BuildOwnsProject, IdsAreFresh, Exists, Holds,
            Started, GraphIds
<1>1. CASE OntologyGenerated
  BY <1>1, OntologyEffect, Consequences
<1>2. ASSUME NEW force \in BOOLEAN, BuildRequested(force)
      PROVE  OpOwnsItsGraph'
  BY <1>2, BuildRequestedEffect
<1>3. CASE ResetRequested
  BY <1>3 DEF ResetRequested
<1>4. CASE DeleteProjectRequested
  BY <1>4 DEF DeleteProjectRequested
<1>5. CASE DeleteGraphLocks
  BY <1>5 DEF DeleteGraphLocks
<1>6. CASE OpChecks
  BY <1>6, OpChecksEffect, Nothing
<1>7. CASE OpDeletes
  BY <1>7, OpDeletesEffect, Nothing, OpDeletesInGraphs
<1>8. CASE OpSaves
  BY <1>8, OpSavesEffect, Nothing
<1>9. CASE BuildBegins
  BY <1>9, BuildBeginsEffect
<1>10. CASE BuildRemembersGraph
  BY <1>10, BuildRemembersGraphEffect, Records
<1>11. CASE BuildPostsGraph
  BY <1>11, BuildPostsGraphEffect
<1>12. CASE BuildRemembersBatch
  <2>1. /\ build.pc = "submit"
        /\ UNCHANGED <<tasks, builds, cloud, made, op, lookup, sims, reports, generating, crashes>>
    BY <1>12, BuildRemembersBatchEffect
  <2>2. CASE /\ Holds(project', build.project.status, build.project.ontology,
                     build.project.graph, build.project.task, TRUE)
             /\ build'.pc = "submit" /\ build'.project = project'
    BY <2>1, <2>2
  <2>3. CASE project' = project /\ build'.pc = "fail" /\ build'.project = build.project
    BY <2>1, <2>3
  <2>4. QED
    BY <1>12, <2>2, <2>3, BuildRemembersBatchEffect
<1>13. CASE BuildSubmits
  BY <1>13, BuildSubmitsEffect
<1>14. CASE BuildWaits
  BY <1>14, BuildWaitsEffect
<1>15. CASE BuildPublishes \/ BuildFails
  BY <1>15, BuildEndsEffect
<1>16. CASE Crash
  BY <1>16, CrashEffect, Nothing
<1>17. CASE UNCHANGED <<project, build, op>>
  BY <1>17
<1>18. QED
  BY <1>1, <1>2, <1>3, <1>4, <1>5, <1>6, <1>7, <1>8, <1>9, <1>10, <1>11, <1>12, <1>13,
     <1>14, <1>15, <1>16, <1>17
  DEF GraphNext, BuildStep, DeleteGraphRequested, ZepLoads, CreateSimulation,
      StartPlain, StartWithMemory, StartReturns, RunEnds, SetsSim, ReportEnds,
      ReportRequested

(* No reference is ahead of the identifiers handed out.                    *)
LEMMA IdsKept ==
  ASSUME GraphTypeOK, GraphInv, GraphNext
  PROVE  IdsAreFresh'
<1> USE DEF GraphInv, IdsAreFresh, Holds, Started, GraphIds
<1>1. CASE OntologyGenerated
  BY <1>1, OntologyEffect, Consequences
<1>2. ASSUME NEW force \in BOOLEAN, BuildRequested(force)
      PROVE  IdsAreFresh'
  BY <1>2, BuildRequestedEffect
<1>3. CASE ResetRequested
  BY <1>3 DEF ResetRequested
<1>4. CASE DeleteProjectRequested
  BY <1>4 DEF DeleteProjectRequested
<1>5. ASSUME NEW g \in Graphs, DeleteGraphRequested(g)
      PROVE  IdsAreFresh'
  BY <1>5 DEF DeleteGraphRequested
<1>6. CASE DeleteGraphLocks
  BY <1>6, Records DEF DeleteGraphLocks
<1>7. CASE OpChecks
  BY <1>7, OpChecksEffect, Records, Nothing
<1>8. CASE OpDeletes
  BY <1>8, OpDeletesEffect, Records, Nothing, OpDeletesInGraphs
<1>9. CASE OpSaves
  <2>1. /\ op.pc = "save" /\ op' = NoOp
        /\ UNCHANGED <<cloud, made, lookup, sims, reports, generating, crashes>>
    BY <1>9, OpSavesEffect
  <2>2. CASE op.kind = "build" /\ Started(project.ontology, 0, FALSE)
    BY <2>1, <2>2, Records, Nothing
  <2>3. ASSUME NEW st \in {"created", "ontology_generated", "deleted"},
               op.kind # "build", op.kind \in {"project", "reset"} \/ project.graph = op.graph,
               UNCHANGED <<tasks, builds, build>>,
               Holds(project', st, project.ontology, 0, 0, FALSE),
               st = "ontology_generated" => project.ontology,
               st = "deleted" => op.kind = "project"
        PROVE  IdsAreFresh'
    BY <2>1, <2>3, Records, Nothing
  <2>4. CASE UNCHANGED <<project, tasks, builds, build>>
    BY <2>1, <2>4, Records, Nothing
  <2>5. QED
    BY <1>9, <2>2, <2>3, <2>4, OpSavesEffect
<1>10. CASE BuildBegins
  BY <1>10, BuildBeginsEffect
<1>11. CASE BuildRemembersGraph
  BY <1>11, BuildRemembersGraphEffect, Records
<1>12. CASE BuildPostsGraph
  BY <1>12, BuildPostsGraphEffect
<1>13. CASE BuildRemembersBatch
  BY <1>13, BuildRemembersBatchEffect
<1>14. CASE BuildSubmits
  BY <1>14, BuildSubmitsEffect
<1>15. CASE BuildWaits
  BY <1>15, BuildWaitsEffect
<1>16. CASE BuildPublishes \/ BuildFails
  BY <1>16, BuildEndsEffect, Records, Nothing
<1>17. CASE Crash
  BY <1>17, CrashEffect, Records, Nothing
<1>18. CASE UNCHANGED <<project, build, op, lookup, made>>
  BY <1>18
<1>19. QED
  BY <1>1, <1>2, <1>3, <1>4, <1>5, <1>6, <1>7, <1>8, <1>9, <1>10, <1>11, <1>12, <1>13,
     <1>14, <1>15, <1>16, <1>17, <1>18
  DEF GraphNext, BuildStep, ZepLoads, CreateSimulation, StartPlain, StartWithMemory,
      StartReturns, RunEnds, SetsSim, ReportEnds, ReportRequested

(* What has not been handed out is not at Zep.                             *)
LEMMA NewGraphsKept ==
  ASSUME GraphTypeOK, GraphInv, GraphNext
  PROVE  GraphsAreNew'
<1> USE DEF GraphInv, GraphsAreNew, IdsAreFresh, GraphIds, Graphs
<1>1. CASE OpDeletes
  BY <1>1, OpDeletesEffect, Records, OpDeletesInGraphs
<1>2. CASE BuildRemembersGraph
  BY <1>2, BuildRemembersGraphEffect, Records
<1>3. CASE BuildPostsGraph
  BY <1>3, BuildPostsGraphEffect, Records
<1>4. CASE BuildSubmits
  BY <1>4, BuildSubmitsEffect, Records
<1>5. ASSUME NEW g \in Graphs, ZepLoads(g)
      PROVE  GraphsAreNew'
  BY <1>5 DEF ZepLoads
<1>6. CASE UNCHANGED <<made, cloud>>
  BY <1>6
<1>7. QED
  BY <1>1, <1>2, <1>3, <1>4, <1>5, <1>6
  DEF GraphNext, BuildStep, OntologyGenerated, BuildRequested, ContinuesBuild,
      StartsOver, StartsBuild, ResetRequested, DeleteProjectRequested,
      DeleteGraphRequested, DeleteGraphLocks, OpChecks, OpSaves, BuildBegins,
      BuildRemembersBatch, BuildSaves, BuildWaits, BuildPublishes, BuildFails,
      BuildEnds, CreateSimulation, StartPlain, StartWithMemory, StartReturns, RunEnds,
      SetsSim, ReportEnds, ReportRequested, Crash

(* A reference is dropped after the deletion.                              *)
LEMMA DeletionKept ==
  ASSUME GraphTypeOK, GraphInv, GraphNext
  PROVE  DeletedBeforeSave'
<1> USE DEF GraphInv, BuildKnowsItsGraph, BuildOwnsProject, OpOwnsItsGraph,
            DeletedBeforeSave, Alive
<1>1. ASSUME NEW force \in BOOLEAN, BuildRequested(force)
      PROVE  DeletedBeforeSave'
  BY <1>1, BuildRequestedEffect
<1>2. CASE ResetRequested
  BY <1>2 DEF ResetRequested
<1>3. CASE DeleteProjectRequested
  BY <1>3 DEF DeleteProjectRequested
<1>4. CASE DeleteGraphLocks
  BY <1>4 DEF DeleteGraphLocks
<1>5. CASE OpChecks
  BY <1>5, OpChecksEffect, Nothing
<1>6. CASE OpDeletes
  BY <1>6, OpDeletesEffect, Nothing, OpDeletesInGraphs
<1>7. CASE OpSaves
  BY <1>7, OpSavesEffect, Nothing
<1>8. CASE BuildPostsGraph
  <2>1. /\ project = build.project /\ build.pc # "idle" /\ op' = op
        /\ \A g \in Graphs : cloud'[g] = cloud[g] \/ g = build.project.graph
    BY <1>8, BuildPostsGraphEffect
  <2>2. op.pc = "save" /\ op.graph # 0 => op.graph \in Graphs /\ op.graph # project.graph
    BY <2>1, Records, Consequences DEF Graphs, GraphIds
  <2>3. QED
    BY <2>1, <2>2
<1>9. CASE BuildSubmits
  <2>1. /\ project = build.project /\ build.pc # "idle" /\ op' = op
        /\ \A g \in Graphs : cloud'[g] = cloud[g] \/ g = build.project.graph
    BY <1>9, BuildSubmitsEffect
  <2>2. op.pc = "save" /\ op.graph # 0 => op.graph \in Graphs /\ op.graph # project.graph
    BY <2>1, Records, Consequences DEF Graphs, GraphIds
  <2>3. QED
    BY <2>1, <2>2
<1>10. ASSUME NEW g \in Graphs, ZepLoads(g)
      PROVE  DeletedBeforeSave'
  BY <1>10 DEF ZepLoads
<1>11. CASE Crash
  BY <1>11, CrashEffect, Nothing
<1>12. CASE UNCHANGED <<op, cloud>>
  BY <1>12
<1>13. QED
  BY <1>1, <1>2, <1>3, <1>4, <1>5, <1>6, <1>7, <1>8, <1>9, <1>10, <1>11, <1>12
  DEF GraphNext, BuildStep, OntologyGenerated, DeleteGraphRequested, BuildBegins,
      BuildRemembersGraph, BuildSaves, BuildRemembersBatch, BuildWaits, BuildPublishes,
      BuildFails, BuildEnds, CreateSimulation, StartPlain, StartWithMemory,
      StartReturns, RunEnds, SetsSim, ReportEnds, ReportRequested

(* What is alive at Zep is what the project refers to.                     *)
LEMMA ReferenceKept ==
  ASSUME GraphTypeOK, GraphInv, GraphNext
  PROVE  NoOrphanGraph'
<1> USE DEF GraphInv, NoOrphanGraph, IdsAreFresh, BuildKnowsItsGraph, Exists, Holds,
            Started, Alive
<1>1. CASE OntologyGenerated
  BY <1>1, OntologyEffect, Consequences
<1>2. ASSUME NEW force \in BOOLEAN, BuildRequested(force)
      PROVE  NoOrphanGraph'
  BY <1>2, BuildRequestedEffect
<1>3. CASE OpDeletes
  BY <1>3, OpDeletesEffect, OpDeletesInGraphs
<1>4. CASE OpSaves
  <2>1. /\ op.pc = "save" /\ op' = NoOp
        /\ UNCHANGED <<cloud, made, lookup, sims, reports, generating, crashes>>
    BY <1>4, OpSavesEffect
  <2>2. CASE op.kind = "build" /\ Started(project.ontology, 0, FALSE)
    BY <2>1, <2>2, Consequences
  <2>3. ASSUME NEW st \in {"created", "ontology_generated", "deleted"},
               op.kind # "build", op.kind \in {"project", "reset"} \/ project.graph = op.graph,
               UNCHANGED <<tasks, builds, build>>,
               Holds(project', st, project.ontology, 0, 0, FALSE),
               st = "ontology_generated" => project.ontology,
               st = "deleted" => op.kind = "project"
        PROVE  NoOrphanGraph'
    BY <2>1, <2>3, Consequences
  <2>4. CASE UNCHANGED <<project, tasks, builds, build>>
    BY <2>1, <2>4
  <2>5. QED
    BY <1>4, <2>2, <2>3, <2>4, OpSavesEffect
<1>5. CASE BuildRemembersGraph
  BY <1>5, BuildRemembersGraphEffect, Consequences
<1>6. CASE BuildPostsGraph
  <2>1. /\ project = build.project /\ project.status = "graph_building" /\ project' = project
        /\ \A g \in Graphs : cloud'[g] = cloud[g] \/ g = build.project.graph
    BY <1>6, BuildPostsGraphEffect, Consequences
  <2>2. QED
    BY <2>1
<1>7. CASE BuildRemembersBatch
  <2>1. /\ build.pc = "submit"
        /\ UNCHANGED <<tasks, builds, cloud, made, op, lookup, sims, reports, generating, crashes>>
    BY <1>7, BuildRemembersBatchEffect
  <2>2. CASE /\ Holds(project', build.project.status, build.project.ontology,
                     build.project.graph, build.project.task, TRUE)
             /\ build'.pc = "submit" /\ build'.project = project'
    BY <2>1, <2>2, Consequences
  <2>3. CASE project' = project /\ build'.pc = "fail" /\ build'.project = build.project
    BY <2>1, <2>3
  <2>4. QED
    BY <1>7, <2>2, <2>3, BuildRemembersBatchEffect
<1>8. CASE BuildSubmits
  <2>1. /\ project = build.project /\ project.status = "graph_building" /\ project' = project
        /\ \A g \in Graphs : cloud'[g] = cloud[g] \/ g = build.project.graph
    BY <1>8, BuildSubmitsEffect, Consequences
  <2>2. QED
    BY <2>1
<1>9. CASE BuildPublishes \/ BuildFails
  BY <1>9, BuildEndsEffect, Consequences
<1>10. ASSUME NEW g \in Graphs, ZepLoads(g)
      PROVE  NoOrphanGraph'
  BY <1>10 DEF ZepLoads
<1>11. CASE UNCHANGED <<project, cloud>>
  BY <1>11
<1>12. QED
  BY <1>1, <1>2, <1>3, <1>4, <1>5, <1>6, <1>7, <1>8, <1>9, <1>10, <1>11
  DEF GraphNext, BuildStep, ResetRequested, DeleteProjectRequested,
      DeleteGraphRequested, DeleteGraphLocks, OpChecks, BuildBegins, BuildWaits,
      CreateSimulation, StartPlain, StartWithMemory, StartReturns, RunEnds, SetsSim,
      ReportEnds, ReportRequested, Crash

(* Updaters write to the graph of the project.                             *)
LEMMA WritersKept ==
  ASSUME GraphTypeOK, GraphInv, GraphNext
  PROVE  WritersUseTheGraph'
<1> USE DEF GraphInv, WritersUseTheGraph, NoUsers, Holds, Started, IsSim
<1>1. CASE OntologyGenerated
  BY <1>1, OntologyEffect, Consequences
<1>2. ASSUME NEW force \in BOOLEAN, BuildRequested(force)
      PROVE  WritersUseTheGraph'
  BY <1>2, BuildRequestedEffect
<1>3. CASE OpChecks
  <2>1. /\ op.pc = "check"
        /\ UNCHANGED <<project, tasks, builds, build, cloud, made, lookup, reports,
                       generating, crashes>>
    BY <1>3, OpChecksEffect
  <2>2. CASE /\ op.graph = 0 /\ op'.pc = "save" /\ op'.kind = op.kind /\ op'.graph = 0
             /\ UNCHANGED sims
    BY <2>1, <2>2 DEF Graphs
  <2>3. CASE op' = NoOp /\ UNCHANGED sims
    BY <2>1, <2>3
  <2>4. CASE /\ op.graph # 0 /\ GraphFree(op.graph) /\ ~InUse(op.graph)
             /\ op'.pc = "delete" /\ op'.kind = op.kind /\ op'.graph = op.graph
             /\ \A s \in Sims :
                  IF sims[s].target = op.graph
                    THEN IsSim(sims'[s], sims[s].graph, sims[s].status, "none", 0,
                               sims[s].starting)
                    ELSE sims'[s] = sims[s]
    <3>1. ASSUME NEW s \in Sims
          PROVE  /\ sims'[s].updater = "open" => /\ sims[s].updater = "open"
                                                /\ sims'[s].target = sims[s].target
                 /\ sims'[s].starting => /\ sims[s].starting
                                        /\ sims'[s].updater = sims[s].updater
                                        /\ sims'[s].status = sims[s].status
      BY <2>4 DEF GraphFree
    <3>2. QED
      BY <2>1, <2>4, <3>1
  <2>5. QED
    BY <1>3, <2>2, <2>3, <2>4, OpChecksEffect
<1>4. CASE OpSaves
  <2>1. /\ op.pc = "save" /\ op' = NoOp
        /\ UNCHANGED <<cloud, made, lookup, sims, reports, generating, crashes>>
    BY <1>4, OpSavesEffect
  <2>2. CASE op.kind = "build" /\ Started(project.ontology, 0, FALSE)
    BY <2>1, <2>2, Consequences
  <2>3. ASSUME NEW st \in {"created", "ontology_generated", "deleted"},
               op.kind # "build", op.kind \in {"project", "reset"} \/ project.graph = op.graph,
               UNCHANGED <<tasks, builds, build>>,
               Holds(project', st, project.ontology, 0, 0, FALSE),
               st = "ontology_generated" => project.ontology,
               st = "deleted" => op.kind = "project"
        PROVE  WritersUseTheGraph'
    BY <2>1, <2>3, Consequences
  <2>4. CASE UNCHANGED <<project, tasks, builds, build>>
    BY <2>1, <2>4
  <2>5. QED
    BY <1>4, <2>2, <2>3, <2>4, OpSavesEffect
<1>5. CASE BuildRemembersGraph
  BY <1>5, BuildRemembersGraphEffect, Consequences
<1>6. CASE BuildRemembersBatch
  <2>1. /\ build.pc = "submit"
        /\ UNCHANGED <<tasks, builds, cloud, made, op, lookup, sims, reports, generating, crashes>>
    BY <1>6, BuildRemembersBatchEffect
  <2>2. CASE /\ Holds(project', build.project.status, build.project.ontology,
                     build.project.graph, build.project.task, TRUE)
             /\ build'.pc = "submit" /\ build'.project = project'
    BY <2>1, <2>2, Consequences
  <2>3. CASE project' = project /\ build'.pc = "fail" /\ build'.project = build.project
    BY <2>1, <2>3
  <2>4. QED
    BY <1>6, <2>2, <2>3, BuildRemembersBatchEffect
<1>7. CASE BuildPublishes \/ BuildFails
  BY <1>7, BuildEndsEffect, Consequences
<1>8. ASSUME NEW s \in Sims,
             \/ CreateSimulation(s) \/ StartPlain(s) \/ StartWithMemory(s)
             \/ StartReturns(s) \/ RunEnds(s)
      PROVE  WritersUseTheGraph'
  <2>1. /\ sims' \in [Sims -> Sim] /\ sims \in [Sims -> Sim]
        /\ \A t \in Sims : t # s => sims'[t] = sims[t]
        /\ UNCHANGED <<project, tasks, builds, build, cloud, made, op, lookup, reports,
                       generating, crashes>>
    BY <1>8, SimEffect DEF GraphTypeOK
  <2>2. sims[s].updater \in {"none", "open", "closed"}
    BY <2>1 DEF Sim
  <2>3. /\ sims'[s].updater = "open" => sims'[s].target = project.graph /\ project.graph # 0
        /\ sims'[s].starting => sims'[s].updater = "open" /\ sims'[s].status = "active"
    BY <1>8, <2>2, SimEffect
  <2>4. QED
    BY <2>1, <2>3
<1>9. CASE Crash
  BY <1>9, CrashEffect
<1>10. CASE UNCHANGED <<project, sims>>
  BY <1>10
<1>11. QED
  BY <1>1, <1>2, <1>3, <1>4, <1>5, <1>6, <1>7, <1>8, <1>9, <1>10
  DEF GraphNext, BuildStep, ResetRequested, DeleteProjectRequested,
      DeleteGraphRequested, DeleteGraphLocks, OpDeletes, BuildBegins, BuildPostsGraph,
      BuildSubmits, BuildWaits, ZepLoads, ReportEnds, ReportRequested

(* Reports read the graph of the project and of their simulation.          *)
LEMMA ReadersKept ==
  ASSUME GraphTypeOK, GraphInv, GraphNext
  PROVE  ReadersUseTheGraph'
<1> USE DEF GraphInv, ReadersUseTheGraph, NoUsers, Holds, Started, IsSim
<1>1. CASE OntologyGenerated
  BY <1>1, OntologyEffect, Consequences
<1>2. ASSUME NEW force \in BOOLEAN, BuildRequested(force)
      PROVE  ReadersUseTheGraph'
  BY <1>2, BuildRequestedEffect
<1>3. CASE OpChecks
  <2>1. /\ op.pc = "check"
        /\ UNCHANGED <<project, tasks, builds, build, cloud, made, lookup, reports,
                       generating, crashes>>
    BY <1>3, OpChecksEffect
  <2>2. CASE /\ op.graph = 0 /\ op'.pc = "save" /\ op'.kind = op.kind /\ op'.graph = 0
             /\ UNCHANGED sims
    BY <2>1, <2>2 DEF Graphs
  <2>3. CASE op' = NoOp /\ UNCHANGED sims
    BY <2>1, <2>3
  <2>4. CASE /\ op.graph # 0 /\ GraphFree(op.graph) /\ ~InUse(op.graph)
             /\ op'.pc = "delete" /\ op'.kind = op.kind /\ op'.graph = op.graph
             /\ \A s \in Sims :
                  IF sims[s].target = op.graph
                    THEN IsSim(sims'[s], sims[s].graph, sims[s].status, "none", 0,
                               sims[s].starting)
                    ELSE sims'[s] = sims[s]
    <3>1. \A s \in Sims : sims'[s].graph = sims[s].graph
      BY <2>4
    <3>2. QED
      BY <2>1, <2>4, <3>1, ReportRecords
  <2>5. QED
    BY <1>3, <2>2, <2>3, <2>4, OpChecksEffect
<1>4. CASE OpSaves
  <2>1. /\ op.pc = "save" /\ op' = NoOp
        /\ UNCHANGED <<cloud, made, lookup, sims, reports, generating, crashes>>
    BY <1>4, OpSavesEffect
  <2>2. CASE op.kind = "build" /\ Started(project.ontology, 0, FALSE)
    BY <2>1, <2>2, Consequences
  <2>3. ASSUME NEW st \in {"created", "ontology_generated", "deleted"},
               op.kind # "build", op.kind \in {"project", "reset"} \/ project.graph = op.graph,
               UNCHANGED <<tasks, builds, build>>,
               Holds(project', st, project.ontology, 0, 0, FALSE),
               st = "ontology_generated" => project.ontology,
               st = "deleted" => op.kind = "project"
        PROVE  ReadersUseTheGraph'
    BY <2>1, <2>3, Consequences
  <2>4. CASE UNCHANGED <<project, tasks, builds, build>>
    BY <2>1, <2>4
  <2>5. QED
    BY <1>4, <2>2, <2>3, <2>4, OpSavesEffect
<1>5. CASE BuildRemembersGraph
  BY <1>5, BuildRemembersGraphEffect, Consequences
<1>6. CASE BuildRemembersBatch
  <2>1. /\ build.pc = "submit"
        /\ UNCHANGED <<tasks, builds, cloud, made, op, lookup, sims, reports, generating, crashes>>
    BY <1>6, BuildRemembersBatchEffect
  <2>2. CASE /\ Holds(project', build.project.status, build.project.ontology,
                     build.project.graph, build.project.task, TRUE)
             /\ build'.pc = "submit" /\ build'.project = project'
    BY <2>1, <2>2, Consequences
  <2>3. CASE project' = project /\ build'.pc = "fail" /\ build'.project = build.project
    BY <2>1, <2>3
  <2>4. QED
    BY <1>6, <2>2, <2>3, BuildRemembersBatchEffect
<1>7. CASE BuildPublishes \/ BuildFails
  BY <1>7, BuildEndsEffect, Consequences
<1>8. ASSUME NEW s \in Sims,
             \/ CreateSimulation(s) \/ StartPlain(s) \/ StartWithMemory(s)
             \/ StartReturns(s) \/ RunEnds(s)
      PROVE  ReadersUseTheGraph'
  <2>1. /\ sims' \in [Sims -> Sim] /\ sims \in [Sims -> Sim]
        /\ \A t \in Sims : t # s => sims'[t] = sims[t]
        /\ UNCHANGED <<project, tasks, builds, build, cloud, made, op, lookup, reports,
                       generating, crashes>>
    BY <1>8, SimEffect DEF GraphTypeOK
  <2>2. sims[s].updater \in {"none", "open", "closed"}
    BY <2>1 DEF Sim
  <2>3. sims[s].graph # 0 => sims'[s].graph = sims[s].graph
    BY <1>8, <2>2, SimEffect
  <2>4. QED
    BY <2>1, <2>3, ReportRecords
<1>9. ASSUME NEW r \in Reports, ReportEnds(r)
      PROVE  ReadersUseTheGraph'
  BY <1>9 DEF ReportEnds
<1>10. ASSUME NEW r \in Reports, NEW s \in Sims, ReportRequested(r, s)
      PROVE  ReadersUseTheGraph'
  BY <1>10 DEF ReportRequested
<1>11. CASE Crash
  BY <1>11, CrashEffect
<1>12. CASE UNCHANGED <<project, sims, reports>>
  BY <1>12
<1>13. QED
  BY <1>1, <1>2, <1>3, <1>4, <1>5, <1>6, <1>7, <1>8, <1>9, <1>10, <1>11, <1>12
  DEF GraphNext, BuildStep, ResetRequested, DeleteProjectRequested,
      DeleteGraphRequested, DeleteGraphLocks, OpDeletes, BuildBegins, BuildPostsGraph,
      BuildSubmits, BuildWaits, ZepLoads

(* Between the check of the users and the save there are none.             *)
LEMMA CheckKept ==
  ASSUME GraphTypeOK, GraphInv, GraphNext
  PROVE  CheckedGraphIsUnused'
<1> USE DEF GraphInv, CheckedGraphIsUnused, UsedBy, Readers, IsSim
<1>1. ASSUME NEW force \in BOOLEAN, BuildRequested(force)
      PROVE  CheckedGraphIsUnused'
  BY <1>1, BuildRequestedEffect
<1>2. CASE ResetRequested
  BY <1>2 DEF ResetRequested
<1>3. CASE DeleteProjectRequested
  BY <1>3 DEF DeleteProjectRequested
<1>4. CASE DeleteGraphLocks
  BY <1>4 DEF DeleteGraphLocks
<1>5. CASE OpChecks
  <2>1. /\ op.pc = "check"
        /\ UNCHANGED <<project, tasks, builds, build, cloud, made, lookup, reports,
                       generating, crashes>>
    BY <1>5, OpChecksEffect
  <2>2. CASE /\ op.graph = 0 /\ op'.pc = "save" /\ op'.kind = op.kind /\ op'.graph = 0
             /\ UNCHANGED sims
    BY <2>1, <2>2 DEF Graphs
  <2>3. CASE op' = NoOp /\ UNCHANGED sims
    BY <2>1, <2>3, Nothing
  <2>4. CASE /\ op.graph # 0 /\ GraphFree(op.graph) /\ ~InUse(op.graph)
             /\ op'.pc = "delete" /\ op'.kind = op.kind /\ op'.graph = op.graph
             /\ \A s \in Sims :
                  IF sims[s].target = op.graph
                    THEN IsSim(sims'[s], sims[s].graph, sims[s].status, "none", 0,
                               sims[s].starting)
                    ELSE sims'[s] = sims[s]
    <3>1. Readers(op.graph) = {}
      BY <2>4 DEF InUse
    <3>2. \A s \in Sims : sims'[s].target = op.graph => sims'[s].updater # "open"
      BY <2>4
    <3>3. QED
      BY <2>1, <2>4, <3>1, <3>2
  <2>5. QED
    BY <1>5, <2>2, <2>3, <2>4, OpChecksEffect
<1>6. CASE OpDeletes
  BY <1>6, OpDeletesEffect, Nothing, OpDeletesInGraphs
<1>7. CASE OpSaves
  BY <1>7, OpSavesEffect, Nothing
<1>8. ASSUME NEW s \in Sims,
             \/ CreateSimulation(s) \/ StartPlain(s) \/ StartWithMemory(s)
             \/ StartReturns(s) \/ RunEnds(s)
      PROVE  CheckedGraphIsUnused'
  <2>1. /\ sims' \in [Sims -> Sim] /\ sims \in [Sims -> Sim]
        /\ \A t \in Sims : t # s => sims'[t] = sims[t]
        /\ UNCHANGED <<project, tasks, builds, build, cloud, made, op, lookup, reports,
                       generating, crashes>>
    BY <1>8, SimEffect DEF GraphTypeOK
  <2>2. sims[s].updater \in {"none", "open", "closed"}
    BY <2>1 DEF Sim
  <2>3. sims'[s].updater = "open" =>
          \/ sims[s].updater = "open" /\ sims'[s].target = sims[s].target
          \/ GraphFree(project.graph) /\ sims'[s].target = project.graph
    BY <1>8, <2>2, SimEffect DEF WritersUseTheGraph
  <2>4. QED
    BY <2>1, <2>3 DEF GraphFree
<1>9. ASSUME NEW r \in Reports, ReportEnds(r)
      PROVE  CheckedGraphIsUnused'
  <2>1. /\ reports \in [Reports -> [graph: Graphs, sim: Sims] \cup {NoReport}]
        /\ reports' = [reports EXCEPT ![r] = NoReport]
        /\ UNCHANGED <<op, sims>>
    BY <1>9 DEF GraphTypeOK, ReportEnds
  <2>2. \A q \in Reports : reports'[q] = reports[q] \/ reports'[q].graph \notin Graphs
    BY <2>1 DEF NoReport, Graphs
  <2>3. QED
    BY <2>1, <2>2
<1>10. ASSUME NEW r \in Reports, NEW s \in Sims, ReportRequested(r, s)
      PROVE  CheckedGraphIsUnused'
  <2>1. /\ reports \in [Reports -> [graph: Graphs, sim: Sims] \cup {NoReport}]
        /\ reports' = [reports EXCEPT ![r] = [graph |-> project.graph, sim |-> s]]
        /\ GraphFree(project.graph) /\ UNCHANGED <<op, sims>>
    BY <1>10 DEF GraphTypeOK, ReportRequested
  <2>2. \A q \in Reports : reports'[q] = reports[q] \/ reports'[q].graph = project.graph
    BY <2>1
  <2>3. QED
    BY <2>1, <2>2 DEF GraphFree
<1>11. CASE Crash
  BY <1>11, CrashEffect, Nothing
<1>12. CASE UNCHANGED <<op, sims, reports>>
  BY <1>12
<1>13. QED
  BY <1>1, <1>2, <1>3, <1>4, <1>5, <1>6, <1>7, <1>8, <1>9, <1>10, <1>11, <1>12
  DEF GraphNext, BuildStep, OntologyGenerated, DeleteGraphRequested, BuildBegins,
      BuildRemembersGraph, BuildSaves, BuildPostsGraph, BuildRemembersBatch,
      BuildSubmits, BuildWaits, BuildPublishes, BuildFails, BuildEnds, ZepLoads

(* A simulation that is read does not write.                               *)
LEMMA RestKept ==
  ASSUME GraphTypeOK, GraphInv, GraphNext
  PROVE  ReportsReadAtRest'
<1> USE DEF GraphInv, ReadersUseTheGraph, ReportsReadAtRest, Readers, IsSim
<1>1. CASE OpChecks
  <2>1. /\ op.pc = "check"
        /\ UNCHANGED <<project, tasks, builds, build, cloud, made, lookup, reports,
                       generating, crashes>>
    BY <1>1, OpChecksEffect
  <2>2. CASE /\ op.graph = 0 /\ op'.pc = "save" /\ op'.kind = op.kind /\ op'.graph = 0
             /\ UNCHANGED sims
    BY <2>1, <2>2 DEF Graphs
  <2>3. CASE op' = NoOp /\ UNCHANGED sims
    BY <2>1, <2>3
  <2>4. CASE /\ op.graph # 0 /\ GraphFree(op.graph) /\ ~InUse(op.graph)
             /\ op'.pc = "delete" /\ op'.kind = op.kind /\ op'.graph = op.graph
             /\ \A s \in Sims :
                  IF sims[s].target = op.graph
                    THEN IsSim(sims'[s], sims[s].graph, sims[s].status, "none", 0,
                               sims[s].starting)
                    ELSE sims'[s] = sims[s]
    <3>1. \A s \in Sims : sims[s].updater = "none" => sims'[s].updater = "none"
      BY <2>4
    <3>2. QED
      BY <2>1, <2>4, <3>1, ReportRecords
  <2>5. QED
    BY <1>1, <2>2, <2>3, <2>4, OpChecksEffect
<1>2. ASSUME NEW s \in Sims,
             \/ CreateSimulation(s) \/ StartPlain(s) \/ StartWithMemory(s)
             \/ StartReturns(s) \/ RunEnds(s)
      PROVE  ReportsReadAtRest'
  <2>1. /\ sims' \in [Sims -> Sim] /\ sims \in [Sims -> Sim]
        /\ \A t \in Sims : t # s => sims'[t] = sims[t]
        /\ UNCHANGED <<project, tasks, builds, build, cloud, made, op, lookup, reports,
                       generating, crashes>>
    BY <1>2, SimEffect DEF GraphTypeOK
  <2>2. sims[s].updater \in {"none", "open", "closed"}
    BY <2>1 DEF Sim
  <2>3. sims'[s].updater # "none" => sims[s].updater # "none" \/ Readers(project.graph) = {}
    BY <1>2, <2>2, SimEffect DEF WritersUseTheGraph
  <2>4. QED
    BY <2>1, <2>3, ReportRecords
<1>3. ASSUME NEW r \in Reports, ReportEnds(r)
      PROVE  ReportsReadAtRest'
  BY <1>3 DEF ReportEnds
<1>4. ASSUME NEW r \in Reports, NEW s \in Sims, ReportRequested(r, s)
      PROVE  ReportsReadAtRest'
  BY <1>4 DEF ReportRequested
<1>5. CASE Crash
  BY <1>5, CrashEffect
<1>6. CASE UNCHANGED <<sims, reports>>
  BY <1>6
<1>7. QED
  BY <1>1, <1>2, <1>3, <1>4, <1>5, <1>6
  DEF GraphNext, BuildStep, OntologyGenerated, BuildRequested, ContinuesBuild,
      StartsOver, StartsBuild, ResetRequested, DeleteProjectRequested,
      DeleteGraphRequested, DeleteGraphLocks, OpDeletes, OpSaves, BuildBegins,
      BuildRemembersGraph, BuildSaves, BuildPostsGraph, BuildRemembersBatch,
      BuildSubmits, BuildWaits, BuildPublishes, BuildFails, BuildEnds, ZepLoads

-----------------------------------------------------------------------------
(* Users keep their graph *)

(* Who uses a graph uses that of the project, and no request is past the   *)
(* check of its users.                                                     *)
LEMMA UsersMeet ==
  ASSUME GraphTypeOK, GraphInv, NEW used \in Graphs, UsedBy(used)
  PROVE  /\ project.graph = used /\ used # 0 /\ ~NoUsers
         /\ ~(op.pc \in {"delete", "save"} /\ op.graph = used)
<1>1. used # 0
  BY DEF Graphs
<1>2. ~(op.pc \in {"delete", "save"} /\ op.graph = used)
  BY DEF GraphInv, CheckedGraphIsUnused
<1>3. CASE Readers(used) # {}
  <2>1. PICK r \in Reports : reports[r].graph = used
    BY <1>3 DEF Readers
  <2>2. reports[r] # NoReport
    BY <1>1, <2>1 DEF NoReport
  <2>3. QED
    BY <1>1, <1>2, <2>1, <2>2 DEF GraphInv, ReadersUseTheGraph, NoUsers
<1>4. CASE \E s \in Sims : sims[s].target = used /\ sims[s].updater = "open"
  BY <1>1, <1>2, <1>4 DEF GraphInv, WritersUseTheGraph, NoUsers
<1>5. QED
  BY <1>3, <1>4 DEF UsedBy

(* No step of anyone deletes a graph in use or takes it from its project.  *)
LEMMA GraphStaysWhileUsed ==
  ASSUME GraphTypeOK, GraphInv, NEW used \in Graphs, UsedBy(used), GraphNext
  PROVE  /\ cloud'[used] = "deleted" => cloud[used] = "deleted"
         /\ project'.graph = used
<1> USE DEF Holds, Started
<1>1. CASE OntologyGenerated
  BY <1>1, OntologyEffect, UsersMeet, Consequences
<1>2. ASSUME NEW force \in BOOLEAN, BuildRequested(force)
      PROVE  /\ cloud'[used] = "deleted" => cloud[used] = "deleted"
         /\ project'.graph = used
  BY <1>2, BuildRequestedEffect, UsersMeet
<1>3. CASE OpDeletes
  BY <1>3, OpDeletesEffect, OpDeletesInGraphs, UsersMeet
<1>4. CASE OpSaves
  BY <1>4, OpSavesEffect, UsersMeet, Consequences
<1>5. CASE BuildRemembersGraph
  BY <1>5, BuildRemembersGraphEffect, UsersMeet, Consequences
<1>6. CASE BuildPostsGraph
  BY <1>6, BuildPostsGraphEffect, UsersMeet
<1>7. CASE BuildRemembersBatch
  BY <1>7, BuildRemembersBatchEffect, UsersMeet, Consequences
<1>8. CASE BuildSubmits
  BY <1>8, BuildSubmitsEffect, UsersMeet
<1>9. CASE BuildPublishes \/ BuildFails
  BY <1>9, BuildEndsEffect, UsersMeet, Consequences
<1>10. ASSUME NEW g \in Graphs, ZepLoads(g)
      PROVE  /\ cloud'[used] = "deleted" => cloud[used] = "deleted"
         /\ project'.graph = used
  BY <1>10, UsersMeet DEF ZepLoads
<1>11. CASE UNCHANGED <<project, cloud>>
  BY <1>11, UsersMeet
<1>12. QED
  BY <1>1, <1>2, <1>3, <1>4, <1>5, <1>6, <1>7, <1>8, <1>9, <1>10, <1>11
  DEF GraphNext, BuildStep, ResetRequested, DeleteProjectRequested,
      DeleteGraphRequested, DeleteGraphLocks, OpChecks, BuildBegins, BuildWaits,
      CreateSimulation, StartPlain, StartWithMemory, StartReturns, RunEnds, SetsSim,
      ReportEnds, ReportRequested, Crash

-----------------------------------------------------------------------------
(* The theorems *)

(* The initial state has the types and the invariant.                      *)
LEMMA GraphInitHolds ==
  ASSUME GraphInit
  PROVE  GraphTypeOK /\ GraphInv
<1>1. GraphTypeOK
  BY Nothing DEF GraphInit, GraphTypeOK, Holds, IsSim, Op, Build, GraphIds
<1>2. /\ ProjectIsConsistent /\ BuildKnowsItsGraph /\ BuildOwnsProject /\ OpOwnsItsGraph
      /\ IdsAreFresh /\ GraphsAreNew /\ DeletedBeforeSave /\ NoOrphanGraph
  BY Nothing DEF GraphInit, Holds, ProjectIsConsistent, BuildKnowsItsGraph,
     BuildOwnsProject, OpOwnsItsGraph, IdsAreFresh, GraphsAreNew, DeletedBeforeSave,
     NoOrphanGraph, Alive, Exists
<1>3. WritersUseTheGraph /\ ReadersUseTheGraph /\ CheckedGraphIsUnused /\ ReportsReadAtRest
  BY Nothing DEF GraphInit, IsSim, WritersUseTheGraph, ReadersUseTheGraph,
     CheckedGraphIsUnused, ReportsReadAtRest
<1>4. QED
  BY <1>1, <1>2, <1>3 DEF GraphInv

(* Every step keeps the types.                                             *)
LEMMA GraphNextKeepsTypes ==
  ASSUME GraphTypeOK, GraphInv, GraphNext
  PROVE  GraphTypeOK'
<1>1. /\ project' \in Project /\ build' \in Build /\ op' \in Op
      /\ sims' \in [Sims -> Sim] /\ OtherTypes'
  BY ProjectType, BuildType, OpType, SimsType, OthersType
<1>2. QED
  BY <1>1 DEF GraphTypeOK, OtherTypes, Build, Op

(* Every step keeps the invariant.                                         *)
LEMMA NextKeepsInv ==
  ASSUME GraphTypeOK, GraphInv, GraphNext
  PROVE  GraphInv'
BY ConsistencyKept, BuildKept, OwnershipKept, OpKept, IdsKept, NewGraphsKept, DeletionKept,
   ReferenceKept, WritersKept, ReadersKept, CheckKept, RestKept DEF GraphInv

(* A step that changes nothing keeps both.                                 *)
LEMMA StutterKeepsInv ==
  ASSUME GraphTypeOK, GraphInv, UNCHANGED graphVars
  PROVE  GraphTypeOK' /\ GraphInv'
<1> USE DEF graphVars
<1>1. GraphTypeOK'
  BY DEF GraphTypeOK
<1>2. /\ ProjectIsConsistent' /\ BuildKnowsItsGraph' /\ BuildOwnsProject'
      /\ OpOwnsItsGraph' /\ IdsAreFresh'
  BY DEF GraphInv, ProjectIsConsistent, BuildKnowsItsGraph, BuildOwnsProject, ActiveBuild,
     OpOwnsItsGraph, IdsAreFresh, Exists
<1>3. GraphsAreNew' /\ DeletedBeforeSave' /\ NoOrphanGraph'
  BY DEF GraphInv, GraphsAreNew, DeletedBeforeSave, NoOrphanGraph, Exists
<1>4. WritersUseTheGraph' /\ ReadersUseTheGraph' /\ ReportsReadAtRest'
  BY DEF GraphInv, WritersUseTheGraph, ReadersUseTheGraph, ReportsReadAtRest
<1>5. CheckedGraphIsUnused'
  BY DEF GraphInv, CheckedGraphIsUnused, UsedBy, Readers
<1>6. QED
  BY <1>1, <1>2, <1>3, <1>4, <1>5 DEF GraphInv

(* In every reachable state the variables have their types and the parts   *)
(* of GraphInv hold: no request, build, run or report of api/graph.py,     *)
(* simulation.py and report.py leads out of them.                          *)
THEOREM GraphInvHolds == GraphSpec => [](GraphTypeOK /\ GraphInv)
<1>1. GraphInit => GraphTypeOK /\ GraphInv
  BY GraphInitHolds
<1>2. (GraphTypeOK /\ GraphInv) /\ [GraphNext]_graphVars => (GraphTypeOK /\ GraphInv)'
  BY GraphNextKeepsTypes, NextKeepsInv, StutterKeepsInv
<1>3. QED
  BY <1>1, <1>2, PTL DEF GraphSpec

(* Whatever fails or crashes between the creation of a graph, its deletion *)
(* and the saves of the reference, a graph at Zep is that of its project.  *)
THEOREM NoGraphIsOrphaned == GraphSpec => []NoOrphanGraph
<1>1. GraphTypeOK /\ GraphInv => NoOrphanGraph
  BY DEF GraphInv
<1>2. QED
  BY <1>1, GraphInvHolds, PTL

(* The project that a build thread saves is the one it captured.           *)
THEOREM BuildsOwnTheirProject == GraphSpec => []BuildOwnsProject
<1>1. GraphTypeOK /\ GraphInv => BuildOwnsProject
  BY DEF GraphInv
<1>2. QED
  BY <1>1, GraphInvHolds, PTL

(* A report reads nothing that its own simulation still writes.            *)
THEOREM ReportsFindRest == GraphSpec => []ReportsReadAtRest
<1>1. GraphTypeOK /\ GraphInv => ReportsReadAtRest
  BY DEF GraphInv
<1>2. QED
  BY <1>1, GraphInvHolds, PTL

(* No graph is deleted, nor replaced in its project, while a report reads  *)
(* it or an updater writes to it.                                          *)
THEOREM GraphsInUseStay == GraphSpec => UsedGraphStays
<1>1. ASSUME GraphTypeOK, GraphInv, [GraphNext]_graphVars
      PROVE  [\A g \in Graphs : UsedBy(g) => /\ cloud'[g] = "deleted" => cloud[g] = "deleted"
                                             /\ project'.graph = g]_graphVars
  <2>1. CASE GraphNext
    BY <1>1, <2>1, GraphStaysWhileUsed
  <2>2. CASE UNCHANGED graphVars
    BY <2>2
  <2>3. QED
    BY <1>1, <2>1, <2>2
<1>2. QED
  BY <1>1, GraphInvHolds, PTL DEF GraphSpec, UsedGraphStays

-----------------------------------------------------------------------------
(***************************************************************************)
(* The memory of a simulation: MemoryUpdater                               *)
(***************************************************************************)
USE UpdaterAssumption

-----------------------------------------------------------------------------
(* Sequences of numbers *)

Below(S, T) == \A a \in S, b \in T : a < b

LEMMA Members ==
  ASSUME NEW s \in Seq(Nat)
  PROVE  /\ DOMAIN s = 1..Len(s) /\ Len(s) \in Nat
         /\ ToSet(s) = {s[i] : i \in 1..Len(s)} /\ ToSet(s) \subseteq Nat
         /\ \A i \in 1..Len(s) : s[i] \in Nat
         /\ s = <<>> <=> ToSet(s) = {}
<1>1. DOMAIN s = 1..Len(s) /\ Len(s) \in Nat /\ \A i \in 1..Len(s) : s[i] \in Nat
  OBVIOUS
<1>2. ToSet(s) = {s[i] : i \in 1..Len(s)}
  BY <1>1 DEF ToSet
<1>3. ASSUME s # <<>>
      PROVE  ToSet(s) # {}
  <2>1. 1 \in 1..Len(s)
    BY <1>3
  <2>2. QED
    BY <1>2, <2>1
<1>4. ASSUME s = <<>>
      PROVE  ToSet(s) = {}
  BY <1>4 DEF ToSet
<1>5. QED
  BY <1>1, <1>2, <1>3, <1>4

LEMMA EmptyAndSingle ==
  /\ ToSet(<<>>) = {} /\ InOrder(<<>>) /\ <<>> \in Seq(Nat)
  /\ \A a \in Nat : /\ ToSet(<<a>>) = {a} /\ InOrder(<<a>>) /\ <<a>> \in Seq(Nat)
                    /\ Len(<<a>>) = 1
BY DEF ToSet, InOrder

(* A cut.                                                                  *)
LEMMA CutParts ==
  ASSUME NEW s \in Seq(Nat), NEW n \in 0..Len(s)
  PROVE  /\ FirstOf(s, n) \in Seq(Nat) /\ Len(FirstOf(s, n)) = n
         /\ After(s, n) \in Seq(Nat) /\ Len(After(s, n)) = Len(s) - n
         /\ \A i \in 1..n : FirstOf(s, n)[i] = s[i]
         /\ \A i \in 1..(Len(s) - n) : After(s, n)[i] = s[n + i]
<1>1. Len(s) \in Nat /\ n \in Nat /\ n <= Len(s) /\ \A i \in 1..Len(s) : s[i] \in Nat
  BY Members
<1>2. /\ SubSeq(s, 1, n) \in Seq(Nat)
      /\ Len(SubSeq(s, 1, n)) = IF 1 <= n THEN n - 1 + 1 ELSE 0
      /\ \A i \in 1..(n - 1 + 1) : SubSeq(s, 1, n)[i] = s[1 + i - 1]
  <2>1. \A i \in 1..n : s[i] \in Nat
    BY <1>1
  <2>2. 1 \in Int /\ n \in Int
    BY <1>1
  <2>3. QED
    BY <2>1, <2>2, SubSeqProperties
<1>3. /\ SubSeq(s, n + 1, Len(s)) \in Seq(Nat)
      /\ Len(SubSeq(s, n + 1, Len(s))) = IF n + 1 <= Len(s) THEN Len(s) - (n + 1) + 1 ELSE 0
      /\ \A i \in 1..(Len(s) - (n + 1) + 1) : SubSeq(s, n + 1, Len(s))[i] = s[n + 1 + i - 1]
  BY <1>1, SubSeqProperties
<1>4. QED
  BY <1>1, <1>2, <1>3 DEF FirstOf, After

LEMMA Cut ==
  ASSUME NEW s \in Seq(Nat), NEW n \in 0..Len(s)
  PROVE  /\ ToSet(s) = ToSet(FirstOf(s, n)) \cup ToSet(After(s, n))
         /\ InOrder(s) => /\ InOrder(FirstOf(s, n)) /\ InOrder(After(s, n))
                          /\ Below(ToSet(FirstOf(s, n)), ToSet(After(s, n)))
<1> DEFINE f == FirstOf(s, n)
           r == After(s, n)
<1>1. /\ f \in Seq(Nat) /\ Len(f) = n /\ r \in Seq(Nat) /\ Len(r) = Len(s) - n
      /\ \A i \in 1..n : f[i] = s[i]
      /\ \A i \in 1..(Len(s) - n) : r[i] = s[n + i]
  BY CutParts
<1>2. Len(s) \in Nat /\ n \in Nat /\ n <= Len(s) /\ Len(s) - n \in Nat
  BY Members
<1> HIDE DEF f, r
<1>3. ToSet(f) = {f[i] : i \in 1..n} /\ ToSet(r) = {r[i] : i \in 1..(Len(s) - n)}
  BY <1>1, Members
<1>4. ToSet(s) = {s[i] : i \in 1..Len(s)}
  BY Members
<1>5. ToSet(f) \cup ToSet(r) \subseteq ToSet(s)
  <2>1. \A i \in 1..n : f[i] \in ToSet(s)
    <3>1. \A i \in 1..n : i \in 1..Len(s)
      BY <1>2
    <3>2. QED
      BY <1>1, <1>4, <3>1
  <2>2. \A i \in 1..(Len(s) - n) : r[i] \in ToSet(s)
    <3>1. \A i \in 1..(Len(s) - n) : n + i \in 1..Len(s)
      BY <1>2
    <3>2. QED
      BY <1>1, <1>4, <3>1
  <2>3. QED
    BY <1>3, <2>1, <2>2
<1>6. ToSet(s) \subseteq ToSet(f) \cup ToSet(r)
  <2>1. ASSUME NEW i \in 1..Len(s)
        PROVE  s[i] \in ToSet(f) \cup ToSet(r)
    <3>1. CASE i <= n
      BY <1>1, <1>2, <1>3, <3>1
    <3>2. CASE i > n
      <4>1. i - n \in 1..(Len(s) - n) /\ n + (i - n) = i
        BY <1>2, <3>2
      <4>2. r[i - n] = s[i]
        BY <1>1, <4>1
      <4>3. QED
        BY <1>3, <4>1, <4>2
    <3>3. QED
      BY <1>2, <3>1, <3>2
  <2>2. QED
    BY <1>4, <2>1
<1>7. ASSUME InOrder(s)
      PROVE  InOrder(f) /\ InOrder(r) /\ Below(ToSet(f), ToSet(r))
  <2>1. \A i, j \in 1..Len(s) : i < j => s[i] < s[j]
    BY <1>7, Members DEF InOrder
  <2>2. InOrder(f)
    <3>1. DOMAIN f = 1..n
      BY <1>1, Members
    <3>2. \A i, j \in 1..n : i < j => s[i] < s[j]
      BY <1>2, <2>1
    <3>3. \A i, j \in 1..n : i < j => f[i] < f[j]
      BY <1>1, <3>2
    <3>4. QED
      BY <3>1, <3>3 DEF InOrder
  <2>3. InOrder(r)
    <3>1. DOMAIN r = 1..(Len(s) - n)
      BY <1>1, Members
    <3>2. \A i, j \in 1..(Len(s) - n) : i < j => s[n + i] < s[n + j]
      BY <1>2, <2>1
    <3> DEFINE k == Len(s) - n
    <3>3. DOMAIN r = 1..k /\ \A i, j \in 1..k : i < j => s[n + i] < s[n + j]
      BY <3>1, <3>2
    <3>4. \A i \in 1..k : r[i] = s[n + i]
      BY <1>1
    <3> HIDE DEF k
    <3>5. \A i, j \in 1..k : i < j => r[i] < r[j]
      BY <3>3, <3>4
    <3>6. QED
      BY <3>3, <3>5 DEF InOrder
  <2>4. Below(ToSet(f), ToSet(r))
    <3>1. \A i \in 1..n, j \in 1..(Len(s) - n) : s[i] < s[n + j]
      BY <1>2, <2>1
    <3>2. \A i \in 1..n, j \in 1..(Len(s) - n) : f[i] < r[j]
      BY <1>1, <3>1
    <3>3. QED
      BY <1>3, <3>2 DEF Below
  <2>5. QED
    BY <2>2, <2>3, <2>4
<1>8. QED
  BY <1>5, <1>6, <1>7 DEF f, r

(* A join.                                                                 *)
LEMMA Joined ==
  ASSUME NEW s \in Seq(Nat), NEW t \in Seq(Nat)
  PROVE  /\ s \o t \in Seq(Nat) /\ Len(s \o t) = Len(s) + Len(t)
         /\ ToSet(s \o t) = ToSet(s) \cup ToSet(t)
         /\ InOrder(s) /\ InOrder(t) /\ Below(ToSet(s), ToSet(t)) => InOrder(s \o t)
<1> DEFINE u == s \o t
           m == Len(s)
           n == Len(t)
<1>1. u \in Seq(Nat) /\ Len(u) = m + n /\ m \in Nat /\ n \in Nat
  BY ConcatProperties, Members
<1>2. \A i \in 1..(m + n) : u[i] = IF i <= m THEN s[i] ELSE t[i - m]
  BY ConcatProperties
<1>3. /\ ToSet(u) = {u[i] : i \in 1..(m + n)} /\ DOMAIN u = 1..(m + n)
      /\ ToSet(s) = {s[i] : i \in 1..m} /\ DOMAIN s = 1..m
      /\ ToSet(t) = {t[i] : i \in 1..n} /\ DOMAIN t = 1..n
  BY <1>1, Members
<1> HIDE DEF u, m, n
<1>4. \A i \in 1..m : i \in 1..(m + n) /\ u[i] = s[i]
  BY <1>1, <1>2
<1>5. \A i \in 1..n : m + i \in 1..(m + n) /\ u[m + i] = t[i]
  <2> SUFFICES ASSUME NEW i \in 1..n
               PROVE  m + i \in 1..(m + n) /\ u[m + i] = t[i]
    OBVIOUS
  <2> DEFINE k == m + i
  <2>1. k \in 1..(m + n) /\ ~(k <= m) /\ k - m = i
    BY <1>1
  <2> HIDE DEF k
  <2>2. u[k] = t[k - m]
    BY <1>2, <2>1
  <2>3. QED
    BY <2>1, <2>2 DEF k
<1>6. \A i \in 1..(m + n) : i \in 1..m \/ (i - m \in 1..n /\ i = m + (i - m) /\ i > m)
  BY <1>1
<1>7. ToSet(u) = ToSet(s) \cup ToSet(t)
  <2>1. ToSet(s) \cup ToSet(t) \subseteq ToSet(u)
    BY <1>3, <1>4, <1>5
  <2>2. ASSUME NEW i \in 1..(m + n)
        PROVE  u[i] \in ToSet(s) \cup ToSet(t)
    <3>1. CASE i \in 1..m
      BY <1>3, <1>4, <3>1
    <3>2. CASE i - m \in 1..n /\ i > m
      <4>1. u[i] = t[i - m]
        BY <1>1, <1>2, <3>2
      <4>2. QED
        BY <1>3, <3>2, <4>1
    <3>3. QED
      BY <1>6, <3>1, <3>2
  <2>3. QED
    BY <1>3, <2>1, <2>2
<1>8. ASSUME InOrder(s), InOrder(t), Below(ToSet(s), ToSet(t))
      PROVE  InOrder(u)
  <2> SUFFICES ASSUME NEW i \in 1..(m + n), NEW j \in 1..(m + n), i < j
               PROVE  u[i] < u[j]
    BY <1>3 DEF InOrder
  <2>1. CASE i \in 1..m /\ j \in 1..m
    BY <1>3, <1>4, <1>8, <2>1 DEF InOrder
  <2>2. CASE i \in 1..m /\ j - m \in 1..n /\ j > m
    <3>1. u[i] = s[i] /\ u[j] = t[j - m]
      BY <1>1, <1>2, <1>4, <2>2
    <3>2. s[i] \in ToSet(s) /\ t[j - m] \in ToSet(t)
      BY <1>3, <2>2
    <3>3. QED
      BY <1>8, <3>1, <3>2 DEF Below
  <2>3. CASE i - m \in 1..n /\ i > m /\ j - m \in 1..n /\ j > m
    <3>0. ~(i <= m) /\ ~(j <= m) /\ i - m < j - m
      BY <1>1, <2>3
    <3>1. u[i] = t[i - m]
      BY <1>2, <3>0
    <3>2. u[j] = t[j - m]
      BY <1>2, <3>0
    <3>4. QED
      BY <1>3, <1>8, <2>3, <3>0, <3>1, <3>2 DEF InOrder
  <2>4. QED
    BY <1>1, <1>6, <2>1, <2>2, <2>3
<1>9. QED
  BY <1>1, <1>7, <1>8 DEF u, m, n

LEMMA Appended ==
  ASSUME NEW s \in Seq(Nat), NEW a \in Nat
  PROVE  /\ Append(s, a) \in Seq(Nat) /\ ToSet(Append(s, a)) = ToSet(s) \cup {a}
         /\ InOrder(s) /\ Below(ToSet(s), {a}) => InOrder(Append(s, a))
<1>1. Append(s, a) = s \o <<a>>
  BY AppendIsConcat
<1>2. QED
  BY <1>1, Joined, EmptyAndSingle

LEMMA Taken ==
  ASSUME NEW s \in Seq(Nat), s # <<>>
  PROVE  /\ Head(s) \in Nat /\ Tail(s) \in Seq(Nat)
         /\ ToSet(s) = {Head(s)} \cup ToSet(Tail(s))
         /\ InOrder(s) => InOrder(Tail(s)) /\ Below({Head(s)}, ToSet(Tail(s)))
<1>1. Len(s) \in Nat /\ 1 \in 0..Len(s)
  BY Members
<1>2. Tail(s) = After(s, 1) /\ Head(s) = s[1]
  BY TailIsSubSeq DEF After
<1>3. FirstOf(s, 1) = <<Head(s)>>
  <2>1. /\ FirstOf(s, 1) \in Seq(Nat) /\ Len(FirstOf(s, 1)) = 1
        /\ \A i \in 1..1 : FirstOf(s, 1)[i] = s[i]
    BY <1>1, CutParts
  <2>2. QED
    BY <1>2, <2>1
<1>4. Head(s) \in Nat /\ ToSet(<<Head(s)>>) = {Head(s)}
  BY EmptyAndSingle
<1>5. /\ ToSet(s) = ToSet(FirstOf(s, 1)) \cup ToSet(After(s, 1))
      /\ InOrder(s) => /\ InOrder(FirstOf(s, 1)) /\ InOrder(After(s, 1))
                       /\ Below(ToSet(FirstOf(s, 1)), ToSet(After(s, 1)))
  BY <1>1, Cut
<1>6. After(s, 1) \in Seq(Nat)
  BY <1>1, CutParts
<1>7. QED
  BY <1>2, <1>3, <1>4, <1>5, <1>6

(* Cutting twice, nothing, everything.                                     *)
LEMMA CutTwice ==
  ASSUME NEW s \in Seq(Nat), NEW k \in 0..Len(s), NEW n \in 0..(Len(s) - k)
  PROVE  After(After(s, k), n) = After(s, k + n)
<1>1. Len(s) \in Nat /\ k + n \in 0..Len(s)
  BY Members
<1>2. /\ After(s, k) \in Seq(Nat) /\ Len(After(s, k)) = Len(s) - k
      /\ \A i \in 1..(Len(s) - k) : After(s, k)[i] = s[k + i]
  BY CutParts
<1>3. /\ After(s, k + n) \in Seq(Nat) /\ Len(After(s, k + n)) = Len(s) - (k + n)
      /\ \A i \in 1..(Len(s) - (k + n)) : After(s, k + n)[i] = s[(k + n) + i]
  BY <1>1, CutParts
<1> DEFINE r == After(s, k)
<1>4. n \in 0..Len(r)
  BY <1>2
<1> HIDE DEF r
<1>5. /\ After(r, n) \in Seq(Nat) /\ Len(After(r, n)) = Len(r) - n
      /\ \A i \in 1..(Len(r) - n) : After(r, n)[i] = r[n + i]
  BY <1>2, <1>4, CutParts DEF r
<1>6. \A i \in 1..(Len(s) - (k + n)) : After(r, n)[i] = After(s, k + n)[i]
  <2>1. \A i \in 1..(Len(s) - (k + n)) :
          /\ i \in 1..(Len(r) - n) /\ n + i \in 1..(Len(s) - k) /\ k + (n + i) = (k + n) + i
    BY <1>1, <1>2 DEF r
  <2>2. QED
    BY <1>2, <1>3, <1>5, <2>1 DEF r
<1>7. Len(After(r, n)) = Len(After(s, k + n))
  BY <1>1, <1>2, <1>3, <1>5 DEF r
<1>8. QED
  BY <1>3, <1>5, <1>6, <1>7, SeqEqual DEF r

LEMMA CutEnds ==
  ASSUME NEW s \in Seq(Nat)
  PROVE  After(s, 0) = s /\ After(s, Len(s)) = <<>>
<1>1. Len(s) \in Nat
  BY Members
<1>2. ASSUME NEW n \in 0..Len(s), n = 0
      PROVE  /\ After(s, n) \in Seq(Nat) /\ Len(After(s, n)) = Len(s)
             /\ \A i \in 1..Len(s) : After(s, n)[i] = s[i]
  <2>1. /\ After(s, n) \in Seq(Nat) /\ Len(After(s, n)) = Len(s) - n
        /\ \A i \in 1..(Len(s) - n) : After(s, n)[i] = s[n + i]
    BY CutParts
  <2>2. Len(s) - n = Len(s) /\ \A i \in 1..Len(s) : n + i = i
    BY <1>1, <1>2
  <2>3. QED
    BY <2>1, <2>2
<1>3. After(s, Len(s)) \in Seq(Nat) /\ Len(After(s, Len(s))) = Len(s) - Len(s)
  BY <1>1, CutParts
<1>4. After(s, Len(s)) = <<>>
  BY <1>1, <1>3
<1>5. 0 \in 0..Len(s)
  BY <1>1
<1>6. QED
  BY <1>2, <1>4, <1>5, SeqEqual

-----------------------------------------------------------------------------
(* Types *)

Worker == [pc: WorkerPC, hand: Seq(Nat), platform: Platforms \cup {NoPlatform}]
Stop == [pc: StopPC, hand: Seq(Nat), platform: Platforms \cup {NoPlatform},
         sent: Nat, left: SUBSET Platforms]

(* The fields of a record, as it is typed.                                 *)
IsWorker(w, pc, hand, platform) ==
  w \in Worker /\ w.pc = pc /\ w.hand = hand /\ w.platform = platform
IsStop(s, pc, hand, platform, sent, left) ==
  /\ s \in Stop /\ s.pc = pc /\ s.hand = hand /\ s.platform = platform
  /\ s.sent = sent /\ s.left = left

LEMMA Typed ==
  ASSUME UpdaterTypeOK
  PROVE  /\ accepted \in Seq(Platforms) /\ Len(accepted) \in Nat
         /\ \A a \in Ids : accepted[a] \in Platforms /\ a \in Nat
         /\ queue \in Seq(Nat)
         /\ worker \in Worker /\ worker.pc \in WorkerPC /\ worker.hand \in Seq(Nat)
         /\ worker.platform \in Platforms \cup {NoPlatform}
         /\ stop \in Stop /\ stop.pc \in StopPC /\ stop.hand \in Seq(Nat) /\ stop.sent \in Nat
         /\ stop.platform \in Platforms \cup {NoPlatform} /\ stop.left \in SUBSET Platforms
         /\ \A p \in Platforms : buffers[p] \in Seq(Nat) /\ written[p] \in Seq(Nat)
BY DEF UpdaterTypeOK, Worker, Stop, Ids

LEMMA StopFields ==
  ASSUME NEW pc \in StopPC, NEW left \in SUBSET Platforms
  PROVE  /\ IsStop(StopAt(pc), pc, <<>>, NoPlatform, 0, {})
         /\ IsStop([StopAt(pc) EXCEPT !.left = left], pc, <<>>, NoPlatform, 0, left)
<1>1. <<>> \in Seq(Nat) /\ 0 \in Nat /\ {} \in SUBSET Platforms
  OBVIOUS
<1>2. StopAt(pc) \in Stop
  BY <1>1 DEF Stop, StopAt
<1>3. IsStop(StopAt(pc), pc, <<>>, NoPlatform, 0, {})
  BY <1>2 DEF IsStop, StopAt
<1>4. [StopAt(pc) EXCEPT !.left = left] \in Stop
  BY <1>2 DEF Stop
<1>5. IsStop([StopAt(pc) EXCEPT !.left = left], pc, <<>>, NoPlatform, 0, left)
  BY <1>4 DEF IsStop, StopAt
<1>6. QED
  BY <1>3, <1>5

LEMMA SendFields ==
  ASSUME NEW s \in Stop, NEW hand \in Seq(Nat), NEW p \in Platforms, NEW sent \in Nat,
         NEW left \in SUBSET Platforms
  PROVE  /\ IsStop([s EXCEPT !.left = left], s.pc, s.hand, s.platform, s.sent, left)
         /\ IsStop([s EXCEPT !.pc = "send", !.hand = hand, !.platform = p, !.sent = sent,
                             !.left = left], "send", hand, p, sent, left)
         /\ IsStop([s EXCEPT !.hand = hand, !.sent = sent], s.pc, hand, s.platform, sent, s.left)
BY DEF IsStop, Stop, StopPC

LEMMA WorkerFields ==
  ASSUME NEW hand \in Seq(Nat), NEW p \in Platforms, NEW pc \in WorkerPC, NEW w \in Worker
  PROVE  /\ IsWorker(Loop, "loop", <<>>, NoPlatform)
         /\ IsWorker([Loop EXCEPT !.pc = "dead"], "dead", <<>>, NoPlatform)
         /\ IsWorker([pc |-> pc, hand |-> hand, platform |-> p], pc, hand, p)
         /\ IsWorker([w EXCEPT !.hand = hand], w.pc, hand, w.platform)
<1> USE DEF IsWorker, Worker
<1>1. <<>> \in Seq(Nat) /\ "loop" \in WorkerPC /\ "dead" \in WorkerPC
  BY DEF WorkerPC
<1>2. IsWorker(Loop, "loop", <<>>, NoPlatform)
  BY <1>1 DEF Loop
<1>3. IsWorker([Loop EXCEPT !.pc = "dead"], "dead", <<>>, NoPlatform)
  BY <1>1 DEF Loop
<1>4. IsWorker([pc |-> pc, hand |-> hand, platform |-> p], pc, hand, p)
  OBVIOUS
<1>5. IsWorker([w EXCEPT !.hand = hand], w.pc, hand, w.platform)
  OBVIOUS
<1>6. QED
  BY <1>2, <1>3, <1>4, <1>5

-----------------------------------------------------------------------------
(* What the steps do *)

(* Away from the sending of a buffer all of it is unwritten.               *)
LEMMA AllUnwritten ==
  ASSUME StopIsConsistent, stop.pc # "send", NEW p \in Platforms
  PROVE  Unwritten(p) = buffers[p]
BY DEF StopIsConsistent, Unwritten

(* ... and then it is what the stop still holds.                           *)
LEMMA RestUnwritten ==
  ASSUME UpdaterTypeOK, StopIsConsistent, stop.pc = "send"
  PROVE  /\ stop.platform \in Platforms /\ stop.sent \in 0..Len(buffers[stop.platform])
         /\ Unwritten(stop.platform) = stop.hand
         /\ \A p \in Platforms : p # stop.platform => Unwritten(p) = buffers[p]
<1>1. /\ stop.platform \in Platforms /\ stop.sent <= Len(buffers[stop.platform])
      /\ stop.hand = After(buffers[stop.platform], stop.sent)
  BY DEF StopIsConsistent
<1>2. stop.sent \in Nat /\ Len(buffers[stop.platform]) \in Nat
  BY <1>1, Typed, Members
<1>3. stop.sent \in 0..Len(buffers[stop.platform])
  BY <1>1, <1>2
<1>4. QED
  BY <1>1, <1>3 DEF Unwritten

LEMMA UnwrittenTyped ==
  ASSUME UpdaterTypeOK, StopIsConsistent, NEW p \in Platforms
  PROVE  Unwritten(p) \in Seq(Nat)
<1>1. CASE stop.pc # "send"
  BY <1>1, AllUnwritten, Typed
<1>2. CASE stop.pc = "send"
  BY <1>2, RestUnwritten, Typed
<1>3. QED
  BY <1>1, <1>2

(* A live worker is not beside a stop that has passed the join.            *)
LEMMA WorkerAlone ==
  ASSUME StopIsConsistent, worker.pc # "dead"
  PROVE  stop.pc \in {"idle", "join", "raised"} /\ stop.pc # "send"
BY DEF StopIsConsistent

(* What the parts hold are numbers of accepted activities.                 *)
LEMMA Held ==
  ASSUME NothingLost
  PROVE  /\ ToSet(queue) \subseteq Ids /\ ToSet(worker.hand) \subseteq Ids
         /\ Waiting \subseteq Ids /\ Written \subseteq Ids
         /\ Ids = ToSet(queue) \cup ToSet(worker.hand) \cup Waiting \cup Written
<1>1. Ids = ToSet(queue) \cup ToSet(worker.hand)
              \cup UNION {ToSet(Unwritten(p)) \cup ToSet(written[p]) : p \in Platforms}
  BY DEF NothingLost
<1>2. UNION {ToSet(Unwritten(p)) \cup ToSet(written[p]) : p \in Platforms} = Waiting \cup Written
  BY DEF Waiting, Written
<1>3. QED
  BY <1>1, <1>2

LEMMA NothingIsLost ==
  ASSUME Ids = ToSet(queue) \cup ToSet(worker.hand) \cup Waiting \cup Written
  PROVE  NothingLost
<1>1. UNION {ToSet(Unwritten(p)) \cup ToSet(written[p]) : p \in Platforms} = Waiting \cup Written
  BY DEF Waiting, Written
<1>2. QED
  BY <1>1 DEF NothingLost

(* The steps of stop other than its sending, in their fields.              *)
Calm == UNCHANGED <<accepted, queue, worker, written, processed, failed>>

StopsRunning ==
  /\ Calm /\ UNCHANGED <<buffers, pending>> /\ running' = FALSE
  /\ stop.pc \in {"idle", "raised"} /\ manager = "retained" /\ UNCHANGED manager
  /\ IsStop(stop', "join", <<>>, NoPlatform, 0, {})
Joins ==
  /\ Calm /\ UNCHANGED <<buffers, pending, running, manager>>
  /\ stop.pc = "join"
  /\ \/ worker.pc = "dead" /\ IsStop(stop', "drain", <<>>, NoPlatform, 0, {})
     \/ IsStop(stop', "raised", <<>>, NoPlatform, 0, {})
Drains ==
  /\ Calm /\ UNCHANGED <<buffers, pending, running, manager>>
  /\ stop.pc = "drain" /\ IsStop(stop', "flush", <<>>, NoPlatform, 0, Platforms)
Skips(p) ==
  /\ Calm /\ UNCHANGED <<buffers, pending, running, manager>>
  /\ stop.pc = "flush" /\ buffers[p] = <<>>
  /\ IsStop(stop', "flush", stop.hand, stop.platform, stop.sent, stop.left \ {p})
Copies(p) ==
  /\ Calm /\ UNCHANGED <<buffers, pending, running, manager>>
  /\ stop.pc = "flush"
  /\ IsStop(stop', "send", buffers[p], p, 0, stop.left \ {p})
Drops ==
  /\ Calm /\ UNCHANGED <<pending, running, manager>>
  /\ stop.pc = "send" /\ DropSent
  /\ \/ stop.hand = <<>> /\ IsStop(stop', "flush", <<>>, NoPlatform, 0, stop.left)
     \/ IsStop(stop', "raised", <<>>, NoPlatform, 0, {})
GivesUp ==
  /\ Calm /\ UNCHANGED <<buffers, pending, running, manager>>
  /\ stop.pc \in {"flush", "wait"} /\ IsStop(stop', "raised", <<>>, NoPlatform, 0, {})
ChecksWell ==
  /\ Calm /\ UNCHANGED <<buffers, pending, running, manager>>
  /\ stop.pc = "flush" /\ stop.left = {} /\ failed = {}
  /\ IsStop(stop', "wait", <<>>, NoPlatform, 0, {})
Ends ==
  /\ Calm /\ UNCHANGED <<buffers, running>>
  /\ stop.pc = "wait" /\ pending \subseteq processed /\ pending' = {}
  /\ manager' = "removed" /\ IsStop(stop', "done", <<>>, NoPlatform, 0, {})
Sends ==
  /\ stop.pc = "send"
  /\ \E n \in 1..Len(stop.hand) :
       /\ WritesPayload(stop.platform, FirstOf(stop.hand, n))
       /\ IsStop(stop', "send", After(stop.hand, n), stop.platform, stop.sent + n, stop.left)
  /\ UNCHANGED <<accepted, running, queue, buffers, worker, processed, manager>>

CalmStep ==
  \/ StopsRunning \/ Joins \/ Drains \/ (\E p \in Platforms : Skips(p) \/ Copies(p))
  \/ Drops \/ GivesUp \/ ChecksWell \/ Ends

LEMMA StopEffect ==
  ASSUME UpdaterTypeOK, WorkerIsConsistent, StopIsConsistent, StopBegins \/ StopStep
  PROVE  CalmStep \/ Sends
<1> USE Typed, StopFields DEF Calm, CalmStep
<1>0. {"join", "drain", "flush", "wait", "done", "raised"} \subseteq StopPC
  BY DEF StopPC
<1>1. CASE StopBegins
  BY <1>0, <1>1 DEF StopBegins, StopsRunning
<1>2. CASE StopJoins
  BY <1>0, <1>2 DEF StopJoins, Joins
<1>3. CASE StopJoinTimesOut
  BY <1>0, <1>3 DEF StopJoinTimesOut, Raises, Joins
<1>4. CASE StopDrainsQueue
  <2>1. queue = <<>>
    BY <1>4 DEF StopDrainsQueue, StopIsConsistent, WorkerIsConsistent
  <2>2. Platforms \in SUBSET Platforms
    OBVIOUS
  <2>3. QED
    BY <1>0, <1>4, <2>1, <2>2 DEF StopDrainsQueue, Drains
<1>5. ASSUME NEW p \in Platforms, StopCopiesBuffer(p)
      PROVE  Skips(p) \/ Copies(p)
  <2>1. /\ stop \in Stop /\ buffers[p] \in Seq(Nat) /\ 0 \in Nat
        /\ stop.left \ {p} \in SUBSET Platforms
    OBVIOUS
  <2>2. CASE buffers[p] = <<>>
    <3>1. stop' = [stop EXCEPT !.left = stop.left \ {p}] /\ stop.pc = "flush"
      BY <1>5, <2>2 DEF StopCopiesBuffer
    <3>2. IsStop(stop', "flush", stop.hand, stop.platform, stop.sent, stop.left \ {p})
      BY <2>1, <3>1, SendFields
    <3>3. QED
      BY <1>5, <2>2, <3>1, <3>2 DEF StopCopiesBuffer, Skips
  <2>3. CASE buffers[p] # <<>>
    <3>1. stop' = [stop EXCEPT !.pc = "send", !.hand = buffers[p], !.platform = p, !.sent = 0,
                               !.left = stop.left \ {p}]
      BY <1>5, <2>3 DEF StopCopiesBuffer
    <3>2. IsStop(stop', "send", buffers[p], p, 0, stop.left \ {p})
      BY <2>1, <3>1, SendFields
    <3>3. QED
      BY <1>5, <3>2 DEF StopCopiesBuffer, Copies
  <2>4. QED
    BY <2>2, <2>3
<1>6. CASE StopSends
  <2>1. PICK n \in 1..Len(stop.hand) :
          /\ WritesPayload(stop.platform, FirstOf(stop.hand, n))
          /\ stop' = [stop EXCEPT !.hand = After(stop.hand, n), !.sent = stop.sent + n]
    BY <1>6 DEF StopSends
  <2>2. stop.hand \in Seq(Nat) /\ Len(stop.hand) \in Nat /\ stop.sent \in Nat /\ stop \in Stop
    BY Members
  <2>3. stop.sent + n \in Nat /\ n \in 0..Len(stop.hand)
    BY <2>2
  <2>4. stop.platform \in Platforms
    BY <1>6 DEF StopSends, StopIsConsistent
  <2>5. IsStop(stop', stop.pc, After(stop.hand, n), stop.platform, stop.sent + n, stop.left)
    BY <2>1, <2>2, <2>3, <2>4, CutParts, SendFields
  <2>6. QED
    BY <1>6, <2>1, <2>5 DEF StopSends, Sends
<1>7. CASE StopFlushed
  BY <1>0, <1>7 DEF StopFlushed, Drops
<1>8. CASE StopDeadline
  BY <1>0, <1>8 DEF StopDeadline, Raises, Drops, GivesUp
<1>9. CASE StopChecksFailures
  BY <1>0, <1>9 DEF StopChecksFailures, GivesUp, ChecksWell
<1>10. CASE StopSucceeds
  BY <1>0, <1>10 DEF StopSucceeds, Ends
<1>11. CASE StopWaitFails
  BY <1>0, <1>11 DEF StopWaitFails, Raises, GivesUp
<1>12. QED
  BY <1>1, <1>2, <1>3, <1>4, <1>5, <1>6, <1>7, <1>8, <1>9, <1>10, <1>11 DEF StopStep

(* What is unwritten is part of the buffer, in its order, and is found by  *)
(* its platform.                                                           *)
LEMMA UnwrittenIsBuffered ==
  ASSUME UpdaterTypeOK, StopIsConsistent, NEW p \in Platforms
  PROVE  /\ ToSet(Unwritten(p)) \subseteq ToSet(buffers[p])
         /\ InOrder(buffers[p]) => InOrder(Unwritten(p))
<1>1. CASE Unwritten(p) = buffers[p]
  BY <1>1
<1>2. CASE stop.pc = "send" /\ stop.platform = p
  <2>1. /\ stop.sent \in 0..Len(buffers[p]) /\ buffers[p] \in Seq(Nat)
        /\ Unwritten(p) = After(buffers[p], stop.sent)
    BY <1>2, RestUnwritten, Typed DEF Unwritten
  <2>2. QED
    BY <2>1, Cut
<1>3. QED
  BY <1>1, <1>2, AllUnwritten, RestUnwritten

LEMMA WaitingAtHome ==
  ASSUME UpdaterTypeOK, StopIsConsistent, PlatformsAreKept, NEW a \in Waiting
  PROVE  accepted[a] \in Platforms /\ a \in ToSet(Unwritten(accepted[a]))
<1>1. PICK p \in Platforms : a \in ToSet(Unwritten(p))
  BY DEF Waiting
<1>2. a \in ToSet(buffers[p])
  BY <1>1, UnwrittenIsBuffered
<1>3. accepted[a] = p
  BY <1>2 DEF PlatformsAreKept
<1>4. QED
  BY <1>1, <1>3

(* A payload that is written.                                              *)
LEMMA WriteEffect ==
  ASSUME UpdaterTypeOK, NEW p \in Platforms, NEW payload \in Seq(Nat),
         ToSet(payload) \subseteq Ids, WritesPayload(p, payload)
  PROVE  /\ written' \in [Platforms -> Seq(Nat)]
         /\ written'[p] = written[p] \o payload
         /\ ToSet(written'[p]) = ToSet(written[p]) \cup ToSet(payload)
         /\ \A q \in Platforms : q # p => written'[q] = written[q]
         /\ Written' = Written \cup ToSet(payload)
         /\ failed' \subseteq Ids /\ pending' \subseteq Ids
         /\ failed' \cup pending' = failed \cup pending \cup ToSet(payload)
<1>1. written \in [Platforms -> Seq(Nat)] /\ failed \subseteq Ids /\ pending \subseteq Ids
  BY DEF UpdaterTypeOK
<1>2. written[p] \o payload \in Seq(Nat) /\ ToSet(written[p] \o payload) = ToSet(written[p]) \cup ToSet(payload)
  BY <1>1, Joined
<1>3. written' = [written EXCEPT ![p] = written[p] \o payload]
  BY DEF WritesPayload
<1>4. /\ written' \in [Platforms -> Seq(Nat)] /\ written'[p] = written[p] \o payload
      /\ \A q \in Platforms : q # p => written'[q] = written[q]
  BY <1>1, <1>2, <1>3
<1>5. Written' = Written \cup ToSet(payload)
  <2>1. ToSet(written'[p]) = ToSet(written[p]) \cup ToSet(payload)
    BY <1>2, <1>4
  <2>2. \A q \in Platforms : q # p => ToSet(written'[q]) = ToSet(written[q])
    BY <1>4
  <2>3. Written' = UNION {ToSet(written'[q]) : q \in Platforms}
    BY DEF Written, ToSet
  <2>4. ASSUME NEW x
        PROVE  x \in Written' <=> x \in Written \/ x \in ToSet(payload)
    <3>1. x \in Written' <=> \E q \in Platforms : x \in ToSet(written'[q])
      BY <2>3
    <3>2. x \in Written <=> \E q \in Platforms : x \in ToSet(written[q])
      BY DEF Written
    <3>3. QED
      BY <2>1, <2>2, <3>1, <3>2
  <2>5. QED
    BY <2>4
<1>6. /\ failed' \subseteq Ids /\ pending' \subseteq Ids
      /\ failed' \cup pending' = failed \cup pending \cup ToSet(payload)
  BY <1>1 DEF WritesPayload
<1>7. QED
  BY <1>2, <1>4, <1>5, <1>6

-----------------------------------------------------------------------------
(* Every step keeps the types *)

LEMMA SendTyped ==
  ASSUME UpdaterTypeOK, StopIsConsistent, NothingLost, stop.pc = "send", NEW n \in 1..Len(stop.hand)
  PROVE  /\ stop.platform \in Platforms /\ stop.hand \in Seq(Nat) /\ n \in 0..Len(stop.hand)
         /\ FirstOf(stop.hand, n) \in Seq(Nat) /\ After(stop.hand, n) \in Seq(Nat)
         /\ ToSet(stop.hand) = ToSet(FirstOf(stop.hand, n)) \cup ToSet(After(stop.hand, n))
         /\ ToSet(stop.hand) \subseteq Waiting /\ ToSet(stop.hand) \subseteq Ids
<1>1. stop.hand \in Seq(Nat) /\ Len(stop.hand) \in Nat
  BY Typed, Members
<1>2. n \in 0..Len(stop.hand)
  BY <1>1
<1>3. stop.platform \in Platforms /\ Unwritten(stop.platform) = stop.hand
  BY RestUnwritten
<1>4. ToSet(stop.hand) \subseteq Waiting
  BY <1>3 DEF Waiting
<1>5. QED
  BY <1>1, <1>2, <1>3, <1>4, CutParts, Cut, Held

LEMMA WorkerSendTyped ==
  ASSUME UpdaterTypeOK, WorkerIsConsistent, NothingLost, worker.pc = "send",
         NEW n \in 1..Len(worker.hand)
  PROVE  /\ worker.platform \in Platforms /\ worker.hand \in Seq(Nat) /\ n \in 0..Len(worker.hand)
         /\ FirstOf(worker.hand, n) \in Seq(Nat) /\ After(worker.hand, n) \in Seq(Nat)
         /\ ToSet(worker.hand) = ToSet(FirstOf(worker.hand, n)) \cup ToSet(After(worker.hand, n))
         /\ ToSet(worker.hand) \subseteq Ids
<1>1. worker.hand \in Seq(Nat) /\ Len(worker.hand) \in Nat
  BY Typed, Members
<1>2. n \in 0..Len(worker.hand)
  BY <1>1
<1>3. QED
  BY <1>1, <1>2, CutParts, Cut, Held DEF WorkerIsConsistent

(* What dropping what was sent leaves is what was unwritten.               *)
LEMMA DropEffect ==
  ASSUME UpdaterTypeOK, StopIsConsistent, stop.pc = "send", DropSent
  PROVE  /\ buffers' \in [Platforms -> Seq(Nat)]
         /\ \A p \in Platforms : buffers'[p] = Unwritten(p)
         /\ \A p \in Platforms : p # stop.platform => buffers'[p] = buffers[p]
<1>1. /\ stop.platform \in Platforms /\ stop.sent \in 0..Len(buffers[stop.platform])
      /\ buffers \in [Platforms -> Seq(Nat)]
  BY RestUnwritten DEF UpdaterTypeOK
<1>2. After(buffers[stop.platform], stop.sent) \in Seq(Nat)
  BY <1>1, CutParts
<1>3. buffers' = [buffers EXCEPT ![stop.platform] = After(buffers[stop.platform], stop.sent)]
  BY DEF DropSent
<1>4. QED
  BY <1>1, <1>2, <1>3, RestUnwritten DEF Unwritten

LEMMA CalmTypes ==
  ASSUME UpdaterTypeOK, StopIsConsistent, CalmStep
  PROVE  UpdaterTypeOK'
<1>1. stop' \in Stop /\ Calm
  BY DEF CalmStep, StopsRunning, Joins, Drains, Skips, Copies, Drops, GivesUp, ChecksWell, Ends,
     IsStop
<1>2. buffers' \in [Platforms -> Seq(Nat)]
  <2>1. CASE Drops
    BY <2>1, DropEffect DEF Drops
  <2>2. CASE UNCHANGED buffers
    BY <2>2 DEF UpdaterTypeOK
  <2>3. QED
    BY <2>1, <2>2 DEF CalmStep, StopsRunning, Joins, Drains, Skips, Copies, GivesUp, ChecksWell,
       Ends
<1>3. pending' \in {pending, {}} /\ running' \in {running, FALSE} /\ manager' \in {manager, "removed"}
  BY DEF CalmStep, StopsRunning, Joins, Drains, Skips, Copies, Drops, GivesUp, ChecksWell, Ends
<1>4. QED
  BY <1>1, <1>2, <1>3 DEF UpdaterTypeOK, Calm, Stop, Ids

LEMMA SendsTypes ==
  ASSUME UpdaterTypeOK, StopIsConsistent, NothingLost, Sends
  PROVE  UpdaterTypeOK'
<1>1. PICK n \in 1..Len(stop.hand) :
        /\ WritesPayload(stop.platform, FirstOf(stop.hand, n))
        /\ IsStop(stop', "send", After(stop.hand, n), stop.platform, stop.sent + n, stop.left)
  BY DEF Sends
<1>2. /\ written' \in [Platforms -> Seq(Nat)] /\ failed' \subseteq Ids /\ pending' \subseteq Ids
  BY <1>1, SendTyped, WriteEffect DEF Sends
<1>3. QED
  BY <1>1, <1>2 DEF Sends, UpdaterTypeOK, Stop, IsStop, Ids

(* A new activity is the next number.                                      *)
LEMMA AddEffect ==
  ASSUME UpdaterTypeOK, NothingLost, NEW p \in Platforms, AddActivity(p)
  PROVE  /\ accepted' \in Seq(Platforms) /\ Len(accepted') = Len(accepted) + 1
         /\ Ids' = Ids \cup {Len(accepted) + 1} /\ Len(accepted) + 1 \notin Ids
         /\ \A a \in Ids : accepted'[a] = accepted[a] /\ a < Len(accepted) + 1
         /\ queue' \in Seq(Nat) /\ ToSet(queue') = ToSet(queue) \cup {Len(accepted) + 1}
         /\ InOrder(queue) => InOrder(queue')
<1> DEFINE m == Len(accepted)
           next == m + 1
<1>1. accepted \in Seq(Platforms) /\ m \in Nat /\ queue \in Seq(Nat) /\ ToSet(queue) \subseteq 1..m
  BY Typed, Held DEF Ids
<1>2. /\ accepted' = Append(accepted, p) /\ queue' = Append(queue, next)
  BY DEF AddActivity
<1>3. /\ accepted' \in Seq(Platforms) /\ Len(accepted') = m + 1
      /\ \A a \in 1..m : accepted'[a] = accepted[a]
  BY <1>1, <1>2
<1>4. next \in Nat /\ Below(1..m, {next}) /\ 1..(m + 1) = 1..m \cup {next} /\ next \notin 1..m
  BY <1>1 DEF Below
<1>5. Below(ToSet(queue), {next})
  BY <1>1, <1>4 DEF Below
<1> HIDE DEF next, m
<1>6. /\ queue' \in Seq(Nat) /\ ToSet(queue') = ToSet(queue) \cup {next}
      /\ InOrder(queue) => InOrder(queue')
  BY <1>1, <1>2, <1>4, <1>5, Appended
<1>7. Ids' = 1..Len(accepted') /\ Ids = 1..m
  BY DEF Ids, m
<1>8. QED
  BY <1>3, <1>4, <1>6, <1>7 DEF next, m, Below

LEMMA AddTypes ==
  ASSUME UpdaterTypeOK, NothingLost, NEW p \in Platforms, AddActivity(p)
  PROVE  UpdaterTypeOK'
<1>1. accepted' \in Seq(Platforms) /\ Ids \subseteq Ids' /\ queue' \in Seq(Nat)
  BY AddEffect
<1>2. QED
  BY <1>1 DEF AddActivity, UpdaterTypeOK

(* The worker takes what was accepted first.                               *)
LEMMA TakeEffect ==
  ASSUME UpdaterTypeOK, NothingLost, WorkerTakes
  PROVE  /\ Head(queue) \in Nat /\ Head(queue) \in Ids
         /\ IsWorker(worker', "took", <<Head(queue)>>, accepted[Head(queue)])
         /\ accepted[Head(queue)] \in Platforms
         /\ queue' \in Seq(Nat) /\ ToSet(queue) = {Head(queue)} \cup ToSet(queue')
         /\ InOrder(queue) => InOrder(queue') /\ Below({Head(queue)}, ToSet(queue'))
<1>1. queue \in Seq(Nat) /\ queue # <<>> /\ queue' = Tail(queue)
  BY Typed DEF WorkerTakes
<1>2. /\ Head(queue) \in Nat /\ Tail(queue) \in Seq(Nat)
      /\ ToSet(queue) = {Head(queue)} \cup ToSet(Tail(queue))
      /\ InOrder(queue) => InOrder(Tail(queue)) /\ Below({Head(queue)}, ToSet(Tail(queue)))
  BY <1>1, Taken
<1>3. Head(queue) \in Ids
  BY <1>2, Held
<1>4. accepted[Head(queue)] \in Platforms
  BY <1>3, Typed
<1>5. worker' = [pc |-> "took", hand |-> <<Head(queue)>>, platform |-> accepted[Head(queue)]]
  BY DEF WorkerTakes
<1>6. <<Head(queue)>> \in Seq(Nat) /\ "took" \in WorkerPC /\ worker \in Worker
  BY <1>2, Typed DEF WorkerPC
<1>7. IsWorker(worker', "took", <<Head(queue)>>, accepted[Head(queue)])
  BY <1>4, <1>5, <1>6, WorkerFields
<1>8. QED
  BY <1>1, <1>2, <1>3, <1>4, <1>7

(* It buffers what it took, and may leave with a batch.                    *)
LEMMA BufferEffect ==
  ASSUME UpdaterTypeOK, WorkerIsConsistent, WorkerBuffers
  PROVE  /\ worker.platform \in Platforms /\ worker.hand \in Seq(Nat)
         /\ buffers' \in [Platforms -> Seq(Nat)]
         /\ \A q \in Platforms : q # worker.platform => buffers'[q] = buffers[q]
         /\ LET full == buffers[worker.platform] \o worker.hand
            IN  \/ /\ BatchSize \in 0..Len(full)
                   /\ IsWorker(worker', "send", FirstOf(full, BatchSize), worker.platform)
                   /\ buffers'[worker.platform] = After(full, BatchSize)
                \/ /\ IsWorker(worker', "loop", <<>>, NoPlatform)
                   /\ buffers'[worker.platform] = full
<1> DEFINE p == worker.platform
           full == buffers[p] \o worker.hand
<1>1. /\ p \in Platforms /\ worker.hand \in Seq(Nat) /\ worker \in Worker
      /\ buffers \in [Platforms -> Seq(Nat)]
  BY Typed DEF WorkerBuffers, WorkerIsConsistent, UpdaterTypeOK
<1>2. full \in Seq(Nat) /\ Len(full) \in Nat
  BY <1>1, Joined, Members
<1>3. CASE Len(full) >= BatchSize
  <2>1. BatchSize \in 0..Len(full)
    <3>1. \A k \in Nat : k >= BatchSize => BatchSize \in 0..k
      OBVIOUS
    <3>2. QED
      BY <1>2, <1>3, <3>1
  <2>2. FirstOf(full, BatchSize) \in Seq(Nat) /\ After(full, BatchSize) \in Seq(Nat)
    BY <1>2, <2>1, CutParts
  <2>3. /\ worker' = [pc |-> "send", hand |-> FirstOf(full, BatchSize), platform |-> p]
        /\ buffers' = [buffers EXCEPT ![p] = After(full, BatchSize)]
    BY <1>3 DEF WorkerBuffers
  <2>4. IsWorker(worker', "send", FirstOf(full, BatchSize), p)
    BY <1>1, <2>2, <2>3, WorkerFields DEF WorkerPC
  <2>5. /\ buffers' \in [Platforms -> Seq(Nat)] /\ buffers'[p] = After(full, BatchSize)
        /\ \A q \in Platforms : q # p => buffers'[q] = buffers[q]
    BY <1>1, <2>2, <2>3
  <2>6. QED
    BY <1>1, <2>1, <2>4, <2>5
<1>4. CASE ~(Len(full) >= BatchSize)
  <2>1. worker' = Loop /\ buffers' = [buffers EXCEPT ![p] = full]
    BY <1>4 DEF WorkerBuffers
  <2>2. IsWorker(worker', "loop", <<>>, NoPlatform)
    BY <1>1, <2>1, WorkerFields DEF WorkerPC
  <2>3. /\ buffers' \in [Platforms -> Seq(Nat)] /\ buffers'[p] = full
        /\ \A q \in Platforms : q # p => buffers'[q] = buffers[q]
    BY <1>1, <1>2, <2>1
  <2>4. QED
    BY <1>1, <2>2, <2>3
<1>5. QED
  BY <1>3, <1>4

(* It writes a payload of its batch.                                       *)
WorkerWrites(n) ==
  /\ worker.pc = "send"
  /\ WritesPayload(worker.platform, FirstOf(worker.hand, n))
  /\ \/ IsWorker(worker', "send", After(worker.hand, n), worker.platform)
     \/ n = Len(worker.hand) /\ IsWorker(worker', "loop", <<>>, NoPlatform)
  /\ UNCHANGED <<accepted, running, queue, buffers, stop, processed, manager>>

LEMMA WriteStep ==
  ASSUME UpdaterTypeOK, WorkerIsConsistent, NothingLost, WorkerSends
  PROVE  \E n \in 1..Len(worker.hand) : WorkerWrites(n)
<1>1. PICK n \in 1..Len(worker.hand) :
        /\ WritesPayload(worker.platform, FirstOf(worker.hand, n))
        /\ worker' = IF n = Len(worker.hand) THEN Loop
                     ELSE [worker EXCEPT !.hand = After(worker.hand, n)]
  BY DEF WorkerSends
<1>2. worker.pc = "send" /\ worker \in Worker
  BY Typed DEF WorkerSends
<1>3. worker.platform \in Platforms /\ After(worker.hand, n) \in Seq(Nat) /\ "send" \in WorkerPC
  BY <1>2, WorkerSendTyped DEF WorkerPC
<1>4. CASE n = Len(worker.hand)
  <2>1. IsWorker(worker', "loop", <<>>, NoPlatform)
    BY <1>1, <1>2, <1>3, <1>4, WorkerFields
  <2>2. QED
    BY <1>1, <1>2, <1>4, <2>1 DEF WorkerSends, WorkerWrites
<1>5. CASE n # Len(worker.hand)
  <2>1. IsWorker(worker', "send", After(worker.hand, n), worker.platform)
    BY <1>1, <1>2, <1>3, <1>5, WorkerFields
  <2>2. QED
    BY <1>1, <1>2, <2>1 DEF WorkerSends, WorkerWrites
<1>6. QED
  BY <1>4, <1>5

LEMMA WorkerTypes ==
  ASSUME UpdaterTypeOK, WorkerIsConsistent, NothingLost, WorkerStep
  PROVE  UpdaterTypeOK'
<1>1. CASE WorkerTakes
  <2>1. queue' \in Seq(Nat) /\ worker' \in Worker
    BY <1>1, TakeEffect DEF IsWorker
  <2>2. QED
    BY <1>1, <2>1 DEF WorkerTakes, UpdaterTypeOK, Ids, Worker
<1>2. CASE WorkerBuffers
  <2>1. buffers' \in [Platforms -> Seq(Nat)] /\ worker' \in Worker
    BY <1>2, BufferEffect DEF IsWorker
  <2>2. QED
    BY <1>2, <2>1 DEF WorkerBuffers, UpdaterTypeOK, Ids, Worker
<1>3. CASE WorkerSends
  <2>1. PICK n \in 1..Len(worker.hand) : WorkerWrites(n)
    BY <1>3, WriteStep
  <2>2. /\ written' \in [Platforms -> Seq(Nat)] /\ failed' \subseteq Ids /\ pending' \subseteq Ids
    BY <2>1, WorkerSendTyped, WriteEffect DEF WorkerWrites
  <2>3. worker' \in Worker
    BY <2>1 DEF WorkerWrites, IsWorker
  <2>4. QED
    BY <2>1, <2>2, <2>3 DEF WorkerWrites, UpdaterTypeOK, Ids, Worker
<1>4. CASE WorkerExits
  <2>1. [Loop EXCEPT !.pc = "dead"] \in Worker
    <3>1. <<>> \in Seq(Nat) /\ "loop" \in WorkerPC /\ "dead" \in WorkerPC
      BY DEF WorkerPC
    <3>2. QED
      BY <3>1 DEF Loop, Worker
  <2>2. worker' \in Worker
    BY <1>4, <2>1 DEF WorkerExits
  <2>3. QED
    BY <1>4, <2>2 DEF WorkerExits, UpdaterTypeOK, Ids, Worker
<1>5. QED
  BY <1>1, <1>2, <1>3, <1>4 DEF WorkerStep

LEMMA NextKeepsTypes ==
  ASSUME UpdaterTypeOK, UpdaterInv, UpdaterNext
  PROVE  UpdaterTypeOK'
<1>1. NothingLost /\ WorkerIsConsistent /\ StopIsConsistent
  BY DEF UpdaterInv
<1>2. CASE Discard
  BY <1>2 DEF Discard, UpdaterTypeOK, Ids
<1>3. ASSUME NEW a \in Ids, GraphProcesses(a)
      PROVE  UpdaterTypeOK'
  BY <1>3 DEF GraphProcesses, UpdaterTypeOK, Ids
<1>4. QED
  BY <1>1, <1>2, <1>3, AddTypes, WorkerTypes, StopEffect, CalmTypes, SendsTypes DEF UpdaterNext

-----------------------------------------------------------------------------
(* Steps that move no activity *)

(* What is held stays as it is, up to the buffers' sent parts.             *)
Stays ==
  /\ UNCHANGED <<accepted, queue, written>> /\ worker'.hand = worker.hand
  /\ \A p \in Platforms : Unwritten(p)' = Unwritten(p)

LEMMA WaitingStays ==
  ASSUME Stays
  PROVE  Waiting' = Waiting /\ Written' = Written /\ Ids' = Ids
<1>1. Written' = Written /\ Ids' = Ids
  BY DEF Stays, Written, Ids, ToSet
<1>2. \A p \in Platforms : ToSet(Unwritten(p))' = ToSet(Unwritten(p))
  BY DEF Stays, ToSet
<1>3. Waiting' = Waiting
  BY <1>2 DEF Waiting
<1>4. QED
  BY <1>1, <1>3

LEMMA StayingKeeps ==
  ASSUME UpdaterInv, Stays, worker'.pc \in {worker.pc, "dead"},
         \A p \in Platforms : InOrder(buffers'[p])
  PROVE  NothingLost' /\ InLine' /\ WrittenOnceInOrder'
<1>1. NothingLost /\ InLine /\ WrittenOnceInOrder
  BY DEF UpdaterInv
<1>2. Waiting' = Waiting /\ Written' = Written /\ Ids' = Ids
  BY WaitingStays
<1>3. ToSet(queue') = ToSet(queue) /\ ToSet(worker'.hand) = ToSet(worker.hand)
  BY DEF Stays
<1>4. NothingLost'
  <2>1. Ids = ToSet(queue) \cup ToSet(worker.hand) \cup Waiting \cup Written
    BY <1>1, Held
  <2>2. UNION {ToSet(Unwritten(p))' \cup ToSet(written'[p]) : p \in Platforms} = Waiting' \cup Written'
    BY DEF Waiting, Written, ToSet
  <2>3. QED
    BY <1>2, <1>3, <2>1, <2>2 DEF NothingLost, ToSet
<1>5. WrittenOnceInOrder'
  BY <1>1 DEF Stays, WrittenOnceInOrder
<1>6. InLine'
  <2>1. queue' = queue /\ worker'.hand = worker.hand /\ accepted' = accepted
    BY DEF Stays
  <2>2. InOrder(queue)' /\ InOrder(worker.hand)' /\ \A p \in Platforms : InOrder(buffers[p])'
    BY <1>1, <2>1 DEF InLine, InOrder
  <2>3. /\ Precede(Written, ToSet(worker.hand) \cup Waiting \cup ToSet(queue))'
        /\ Precede(ToSet(worker.hand) \cup Waiting, ToSet(queue))'
    BY <1>1, <1>2, <1>3, <2>1 DEF InLine, Precede
  <2>4. /\ worker'.pc = "took" => Precede(Waiting, ToSet(worker.hand))'
        /\ worker'.pc = "send" => Precede(ToSet(worker.hand), Waiting)'
    BY <1>1, <1>2, <1>3, <2>1 DEF InLine, Precede
  <2>5. QED
    BY <2>2, <2>3, <2>4 DEF InLine
<1>7. QED
  BY <1>4, <1>5, <1>6

LEMMA CalmStays ==
  ASSUME UpdaterTypeOK, UpdaterInv, CalmStep
  PROVE  /\ Stays /\ UNCHANGED worker
         /\ \A p \in Platforms : InOrder(buffers'[p]) /\ ToSet(buffers'[p]) \subseteq ToSet(buffers[p])
<1>1. StopIsConsistent /\ \A p \in Platforms : InOrder(buffers[p])
  BY DEF UpdaterInv, InLine
<1>2. Calm
  BY DEF CalmStep, StopsRunning, Joins, Drains, Skips, Copies, Drops, GivesUp, ChecksWell, Ends
<1>3. ASSUME stop'.platform = NoPlatform, UNCHANGED buffers, stop.pc # "send"
      PROVE  \A p \in Platforms : Unwritten(p)' = Unwritten(p)
  BY <1>1, <1>3, AllUnwritten DEF Unwritten
<1>4. CASE StopsRunning \/ Joins \/ Drains \/ GivesUp \/ ChecksWell \/ Ends
  <2>1. stop'.platform = NoPlatform /\ UNCHANGED buffers /\ stop.pc # "send"
    BY <1>4 DEF StopsRunning, Joins, Drains, GivesUp, ChecksWell, Ends, IsStop
  <2>2. QED
    BY <1>1, <1>2, <1>3, <2>1 DEF Stays, Calm
<1>5. ASSUME NEW q \in Platforms, Skips(q)
      PROVE  stop'.platform = NoPlatform /\ UNCHANGED buffers /\ stop.pc # "send"
  BY <1>1, <1>5 DEF Skips, IsStop, StopIsConsistent
<1>6. ASSUME NEW q \in Platforms, Copies(q)
      PROVE  UNCHANGED buffers /\ \A p \in Platforms : Unwritten(p)' = Unwritten(p)
  <2>1. stop'.platform = q /\ stop'.sent = 0 /\ UNCHANGED buffers /\ stop.pc # "send"
    BY <1>6 DEF Copies, IsStop
  <2>2. After(buffers[q], 0) = buffers[q]
    BY Typed, CutEnds
  <2>3. QED
    BY <1>1, <2>1, <2>2, AllUnwritten DEF Unwritten
<1>7. CASE Drops
  <2>1. stop'.platform = NoPlatform /\ stop.pc = "send" /\ DropSent
    BY <1>7 DEF Drops, IsStop
  <2>2. \A p \in Platforms : buffers'[p] = Unwritten(p) /\ Unwritten(p)' = buffers'[p]
    BY <1>1, <2>1, DropEffect DEF Unwritten
  <2>3. \A p \in Platforms : InOrder(buffers'[p]) /\ ToSet(buffers'[p]) \subseteq ToSet(buffers[p])
    BY <1>1, <2>2, UnwrittenIsBuffered
  <2>4. QED
    BY <1>2, <2>2, <2>3 DEF Stays, Calm
<1>8. QED
  BY <1>1, <1>2, <1>3, <1>4, <1>5, <1>6, <1>7 DEF CalmStep, Stays, Calm

LEMMA CalmStop ==
  ASSUME UpdaterTypeOK, StopIsConsistent, CalmStep
  PROVE  StopIsConsistent'
<1>1. UNCHANGED <<worker, failed>>
  BY DEF CalmStep, StopsRunning, Joins, Drains, Skips, Copies, Drops, GivesUp, ChecksWell, Ends,
     Calm
<1> USE DEF IsStop
<1>2. CASE StopsRunning
  BY <1>2 DEF StopsRunning, StopIsConsistent
<1>3. CASE Joins
  BY <1>1, <1>3 DEF Joins, StopIsConsistent
<1>4. CASE Drains
  <2>1. stop.pc = "drain" /\ stop'.pc = "flush" /\ stop'.left = Platforms
        /\ stop'.platform = NoPlatform /\ running' = running
    BY <1>4 DEF Drains
  <2>2. QED
    BY <1>1, <2>1 DEF StopIsConsistent
<1>5. ASSUME NEW q \in Platforms, Skips(q)
      PROVE  StopIsConsistent'
  <2>1. /\ stop.pc = "flush" /\ stop'.pc = "flush" /\ stop'.left = stop.left \ {q}
        /\ stop'.platform = stop.platform /\ buffers[q] = <<>> /\ UNCHANGED <<buffers, running>>
    BY <1>5 DEF Skips
  <2>2. stop.platform = NoPlatform
    BY <2>1 DEF StopIsConsistent
  <2>3. \A p \in Platforms \ (stop'.left \cup {stop'.platform}) : buffers'[p] = <<>>
    BY <2>1, <2>2 DEF StopIsConsistent
  <2>4. QED
    BY <1>1, <2>1, <2>2, <2>3 DEF StopIsConsistent
<1>6. ASSUME NEW q \in Platforms, Copies(q)
      PROVE  StopIsConsistent'
  <2>1. /\ stop.pc = "flush" /\ stop'.pc = "send" /\ stop'.left = stop.left \ {q}
        /\ stop'.platform = q /\ stop'.sent = 0 /\ stop'.hand = buffers[q]
        /\ UNCHANGED <<buffers, running>>
    BY <1>6 DEF Copies
  <2>2. stop.platform = NoPlatform
    BY <2>1 DEF StopIsConsistent
  <2>3. \A p \in Platforms \ (stop'.left \cup {stop'.platform}) : buffers'[p] = <<>>
    BY <2>1, <2>2 DEF StopIsConsistent
  <2>4. After(buffers[q], 0) = buffers[q] /\ 0 <= Len(buffers[q])
    BY Typed, CutEnds, Members
  <2>5. QED
    BY <1>1, <2>1, <2>3, <2>4 DEF StopIsConsistent
<1>7. CASE Drops
  <2>1. /\ stop.pc = "send" /\ DropSent /\ stop'.platform = NoPlatform /\ running' = running
        /\ \/ stop.hand = <<>> /\ stop'.pc = "flush" /\ stop'.left = stop.left
           \/ stop'.pc = "raised"
    BY <1>7 DEF Drops
  <2>2. ASSUME stop.hand = <<>>, stop'.left = stop.left,
               NEW p \in Platforms \ (stop'.left \cup {stop'.platform})
        PROVE  buffers'[p] = <<>>
    <3>1. CASE p = stop.platform
      BY <2>1, <2>2, <3>1, DropEffect, RestUnwritten
    <3>2. CASE p # stop.platform
      <4>1. buffers[p] = <<>>
        BY <2>1, <2>2, <3>2 DEF StopIsConsistent
      <4>2. QED
        BY <2>1, <3>2, <4>1, DropEffect
    <3>3. QED
      BY <3>1, <3>2
  <2>3. QED
    BY <1>1, <2>1, <2>2 DEF StopIsConsistent
<1>8. CASE GivesUp
  BY <1>1, <1>8 DEF GivesUp, StopIsConsistent
<1>9. CASE ChecksWell
  <2>1. /\ stop.pc = "flush" /\ stop.left = {} /\ failed = {} /\ stop'.pc = "wait"
        /\ stop'.platform = NoPlatform /\ UNCHANGED <<buffers, running>>
    BY <1>9 DEF ChecksWell
  <2>2. \A p \in Platforms : buffers[p] = <<>>
    BY <2>1 DEF StopIsConsistent
  <2>3. QED
    BY <1>1, <2>1, <2>2 DEF StopIsConsistent
<1>10. CASE Ends
  BY <1>1, <1>10 DEF Ends, StopIsConsistent
<1>11. QED
  BY <1>2, <1>3, <1>4, <1>5, <1>6, <1>7, <1>8, <1>9, <1>10 DEF CalmStep

LEMMA CalmKeeps ==
  ASSUME UpdaterTypeOK, UpdaterInv, CalmStep
  PROVE  UpdaterInv'
<1>1. /\ StopIsConsistent /\ WorkerIsConsistent /\ PlatformsAreKept /\ LedgerIsComplete
      /\ Stays /\ UNCHANGED worker
      /\ \A p \in Platforms : InOrder(buffers'[p]) /\ ToSet(buffers'[p]) \subseteq ToSet(buffers[p])
  BY CalmStays DEF UpdaterInv
<1>2. NothingLost' /\ InLine' /\ WrittenOnceInOrder'
  BY <1>1, StayingKeeps
<1>3. StopIsConsistent'
  BY <1>1, CalmStop
<1>4. PlatformsAreKept'
  <2>1. Ids' = Ids /\ \A p \in Platforms : ToSet(written'[p]) = ToSet(written[p])
    BY <1>1, WaitingStays DEF Stays
  <2>2. QED
    BY <1>1, <2>1 DEF PlatformsAreKept, Stays, ToSet
<1>5. queue' = queue /\ (running' = running \/ running' = FALSE)
  BY DEF CalmStep, StopsRunning, Joins, Drains, Skips, Copies, Drops, GivesUp, ChecksWell, Ends,
     Calm
<1>6. WorkerIsConsistent'
  <2>1. ~running => ~running'
    BY <1>5
  <2>2. QED
    BY <1>1, <1>5, <2>1 DEF WorkerIsConsistent
<1>7. LedgerIsComplete'
  <2>1. failed' \cup pending' \cup processed' = failed \cup pending \cup processed
    BY DEF CalmStep, StopsRunning, Joins, Drains, Skips, Copies, Drops, GivesUp, ChecksWell, Ends,
       Calm
  <2>2. QED
    BY <1>1, <2>1, WaitingStays DEF LedgerIsComplete
<1>8. QED
  BY <1>2, <1>3, <1>4, <1>6, <1>7 DEF UpdaterInv

(* The worker exits, the graph processes, the updater is discarded.        *)
LEMMA OthersKeep ==
  ASSUME UpdaterTypeOK, UpdaterInv, WorkerExits \/ Discard \/ (\E a \in Ids : GraphProcesses(a))
  PROVE  UpdaterInv'
<1>1. /\ StopIsConsistent /\ WorkerIsConsistent /\ PlatformsAreKept /\ LedgerIsComplete
      /\ \A p \in Platforms : InOrder(buffers[p])
  BY DEF UpdaterInv, InLine
<1>2. /\ UNCHANGED <<accepted, running, queue, buffers, stop, written, failed>>
      /\ worker'.hand = worker.hand /\ worker'.platform \in {worker.platform, NoPlatform}
      /\ \/ UNCHANGED worker
         \/ worker'.pc = "dead" /\ worker.hand = <<>> /\ running = FALSE /\ queue = <<>>
  <2>1. CASE WorkerExits
    <3>1. worker'.pc = "dead" /\ worker'.hand = <<>> /\ worker'.platform = NoPlatform
      BY <2>1 DEF WorkerExits, Loop
    <3>2. worker.hand = <<>>
      BY <1>1, <2>1 DEF WorkerExits, WorkerIsConsistent
    <3>3. QED
      BY <2>1, <3>1, <3>2 DEF WorkerExits, UpdaterTypeOK
  <2>2. CASE Discard \/ (\E a \in Ids : GraphProcesses(a))
    BY <2>2 DEF Discard, GraphProcesses
  <2>3. QED
    BY <2>1, <2>2
<1>3. Stays
  BY <1>2 DEF Stays, Unwritten
<1>4. NothingLost' /\ InLine' /\ WrittenOnceInOrder'
  BY <1>1, <1>2, <1>3, StayingKeeps
<1>5. PlatformsAreKept'
  <2>1. Ids' = Ids /\ \A a \in ToSet(worker'.hand) : accepted'[a] = worker'.platform
    BY <1>1, <1>2, EmptyAndSingle DEF PlatformsAreKept, Ids
  <2>2. QED
    BY <1>1, <1>2, <2>1 DEF PlatformsAreKept, ToSet
<1>6. StopIsConsistent'
  BY <1>1, <1>2 DEF StopIsConsistent
<1>7. WorkerIsConsistent'
  BY <1>1, <1>2 DEF WorkerIsConsistent
<1>8. LedgerIsComplete'
  <2>1. failed' \cup pending' \cup processed' = failed \cup pending \cup processed
    BY DEF WorkerExits, Discard, GraphProcesses
  <2>2. QED
    BY <1>1, <1>3, <2>1, WaitingStays DEF LedgerIsComplete
<1>9. QED
  BY <1>4, <1>5, <1>6, <1>7, <1>8 DEF UpdaterInv

-----------------------------------------------------------------------------
(* Steps that move activities *)

(* The order that a line of sets has, by platforms.                        *)
LEMMA PrecedeParts ==
  ASSUME NEW S, NEW T, Precede(S, T), NEW A, NEW B, A \subseteq S, B \subseteq T
  PROVE  Precede(A, B)
BY DEF Precede

LEMMA PrecedeUnions ==
  ASSUME NEW S, NEW T, NEW R
  PROVE  /\ Precede(S, R) /\ Precede(T, R) => Precede(S \cup T, R)
         /\ Precede(R, S) /\ Precede(R, T) => Precede(R, S \cup T)
         /\ Below(S, T) => Precede(S, T)
         /\ Precede({}, R) /\ Precede(R, {})
BY DEF Precede, Below

(* A new activity is last in line.                                         *)
LEMMA AddKeeps ==
  ASSUME UpdaterTypeOK, UpdaterInv, NEW p \in Platforms, AddActivity(p)
  PROVE  UpdaterInv'
<1> DEFINE next == Len(accepted) + 1
<1>1. /\ NothingLost /\ StopIsConsistent /\ WorkerIsConsistent /\ PlatformsAreKept
      /\ LedgerIsComplete /\ InLine /\ WrittenOnceInOrder
  BY DEF UpdaterInv
<1>2. /\ UNCHANGED <<running, buffers, worker, stop, written, failed, pending, processed>>
      /\ running
  BY DEF AddActivity
<1>3. /\ Ids' = Ids \cup {next} /\ next \notin Ids
      /\ \A a \in Ids : accepted'[a] = accepted[a] /\ a < next
      /\ queue' \in Seq(Nat) /\ ToSet(queue') = ToSet(queue) \cup {next}
      /\ InOrder(queue) => InOrder(queue')
  BY <1>1, AddEffect
<1> HIDE DEF next
<1>4. /\ ToSet(queue) \subseteq Ids /\ ToSet(worker.hand) \subseteq Ids
      /\ Waiting \subseteq Ids /\ Written \subseteq Ids
      /\ Ids = ToSet(queue) \cup ToSet(worker.hand) \cup Waiting \cup Written
  BY <1>1, Held
<1>5. Waiting' = Waiting /\ Written' = Written /\ ToSet(worker.hand)' = ToSet(worker.hand)
  BY <1>2 DEF Waiting, Written, Unwritten, ToSet
<1>6. NothingLost'
  <2>1. Ids' = ToSet(queue') \cup ToSet(worker.hand) \cup Waiting' \cup Written'
    BY <1>3, <1>4, <1>5
  <2>2. UNION {ToSet(Unwritten(q))' \cup ToSet(written'[q]) : q \in Platforms} = Waiting' \cup Written'
    BY DEF Waiting, Written, ToSet
  <2>3. QED
    BY <1>5, <2>1, <2>2 DEF NothingLost, ToSet
<1>7. PlatformsAreKept'
  <2>1. \A a \in ToSet(worker'.hand) : accepted'[a] = worker'.platform
    BY <1>1, <1>2, <1>3, <1>4 DEF PlatformsAreKept
  <2>2. \A q \in Platforms : \A a \in ToSet(buffers'[q]) \cup ToSet(written'[q]) :
          a \in Ids' /\ accepted'[a] = q
    BY <1>1, <1>2, <1>3 DEF PlatformsAreKept
  <2>3. QED
    BY <2>1, <2>2 DEF PlatformsAreKept, ToSet
<1>8. InLine'
  <2>1. \A S \in SUBSET Ids, T \in SUBSET Ids : Precede(S, T) =>
          \A a \in S, b \in T : accepted'[a] = accepted'[b] => a < b
    BY <1>3 DEF Precede
  <2>2. \A S \in SUBSET Ids, T \in SUBSET Ids : Precede(S, T) =>
          \A a \in S, b \in T \cup {next} : accepted'[a] = accepted'[b] => a < b
    BY <1>3, <2>1
  <2>3. Precede(Written, ToSet(worker.hand) \cup Waiting \cup ToSet(queue))'
    <3>1. Precede(Written, ToSet(worker.hand) \cup Waiting \cup ToSet(queue))
      BY <1>1 DEF InLine
    <3>2. \A a \in Written, b \in (ToSet(worker.hand) \cup Waiting \cup ToSet(queue)) \cup {next} :
            accepted'[a] = accepted'[b] => a < b
      BY <1>4, <2>2, <3>1
    <3>3. QED
      BY <1>3, <1>5, <3>2 DEF Precede
  <2>4. Precede(ToSet(worker.hand) \cup Waiting, ToSet(queue))'
    <3>1. Precede(ToSet(worker.hand) \cup Waiting, ToSet(queue))
      BY <1>1 DEF InLine
    <3>2. \A a \in ToSet(worker.hand) \cup Waiting, b \in ToSet(queue) \cup {next} :
            accepted'[a] = accepted'[b] => a < b
      BY <1>4, <2>2, <3>1
    <3>3. QED
      BY <1>3, <1>5, <3>2 DEF Precede
  <2>5. /\ worker'.pc = "took" => Precede(Waiting, ToSet(worker.hand))'
        /\ worker'.pc = "send" => Precede(ToSet(worker.hand), Waiting)'
    <3>1. \A a \in Waiting, b \in ToSet(worker.hand) :
            accepted'[a] = accepted[a] /\ accepted'[b] = accepted[b]
      BY <1>3, <1>4
    <3>2. QED
      BY <1>1, <1>2, <1>5, <3>1 DEF InLine, Precede
  <2>6. InOrder(queue)' /\ InOrder(worker.hand)' /\ \A q \in Platforms : InOrder(buffers[q])'
    BY <1>1, <1>2, <1>3 DEF InLine, InOrder
  <2>7. QED
    BY <2>3, <2>4, <2>5, <2>6 DEF InLine
<1>9. WrittenOnceInOrder'
  BY <1>1, <1>2 DEF WrittenOnceInOrder
<1>10. StopIsConsistent' /\ WorkerIsConsistent'
  BY <1>1, <1>2 DEF StopIsConsistent, WorkerIsConsistent
<1>11. LedgerIsComplete'
  BY <1>1, <1>2, <1>5 DEF LedgerIsComplete
<1>12. QED
  BY <1>6, <1>7, <1>8, <1>9, <1>10, <1>11 DEF UpdaterInv

(* What the worker takes is last in line before the queue.                 *)
LEMMA TakeKeeps ==
  ASSUME UpdaterTypeOK, UpdaterInv, WorkerTakes
  PROVE  UpdaterInv'
<1> DEFINE h == Head(queue)
<1>1. /\ NothingLost /\ StopIsConsistent /\ WorkerIsConsistent /\ PlatformsAreKept
      /\ LedgerIsComplete /\ InLine /\ WrittenOnceInOrder
  BY DEF UpdaterInv
<1>2. /\ UNCHANGED <<accepted, running, buffers, stop, written, failed, pending, processed>>
      /\ worker.pc = "loop" /\ worker.hand = <<>> /\ queue # <<>>
  BY <1>1 DEF WorkerTakes, WorkerIsConsistent
<1>3. /\ h \in Nat /\ h \in Ids /\ accepted[h] \in Platforms
      /\ worker'.pc = "took" /\ worker'.hand = <<h>> /\ worker'.platform = accepted[h]
      /\ queue' \in Seq(Nat) /\ ToSet(queue) = {h} \cup ToSet(queue')
      /\ InOrder(queue') /\ Below({h}, ToSet(queue'))
  BY <1>1, TakeEffect DEF IsWorker, InLine
<1> HIDE DEF h
<1>4. ToSet(worker.hand) = {} /\ ToSet(worker'.hand) = {h} /\ InOrder(worker'.hand)
  BY <1>2, <1>3, EmptyAndSingle
<1>5. Waiting' = Waiting /\ Written' = Written /\ Ids' = Ids
  BY <1>2 DEF Waiting, Written, Unwritten, ToSet, Ids
<1>6. NothingLost'
  <2>1. Ids = ToSet(queue') \cup ToSet(worker'.hand) \cup Waiting \cup Written
    BY <1>1, <1>3, <1>4, Held
  <2>2. UNION {ToSet(Unwritten(q))' \cup ToSet(written'[q]) : q \in Platforms} = Waiting' \cup Written'
    BY DEF Waiting, Written, ToSet
  <2>3. QED
    BY <1>5, <2>1, <2>2 DEF NothingLost, ToSet
<1>7. PlatformsAreKept'
  BY <1>1, <1>2, <1>3, <1>4, <1>5 DEF PlatformsAreKept, ToSet
<1>8. InLine'
  <2>1. /\ Precede(Written, Waiting \cup ToSet(queue)) /\ Precede(Waiting, ToSet(queue))
    BY <1>1, <1>4, PrecedeParts DEF InLine
  <2>2. Precede(Written, {h} \cup Waiting \cup ToSet(queue'))
    BY <1>3, <2>1 DEF Precede
  <2>3. Precede({h} \cup Waiting, ToSet(queue')) /\ Precede(Waiting, {h})
    BY <1>3, <2>1 DEF Precede, Below
  <2>4. /\ Precede(Written, ToSet(worker.hand) \cup Waiting \cup ToSet(queue))'
        /\ Precede(ToSet(worker.hand) \cup Waiting, ToSet(queue))'
        /\ Precede(Waiting, ToSet(worker.hand))'
    BY <1>2, <1>4, <1>5, <2>2, <2>3 DEF Precede
  <2>5. InOrder(queue)' /\ InOrder(worker.hand)' /\ \A q \in Platforms : InOrder(buffers[q])'
    BY <1>1, <1>2, <1>3, <1>4 DEF InLine, InOrder
  <2>6. QED
    BY <1>3, <2>4, <2>5 DEF InLine
<1>9. WrittenOnceInOrder'
  BY <1>1, <1>2 DEF WrittenOnceInOrder
<1>10. StopIsConsistent' /\ WorkerIsConsistent'
  <2>1. stop.pc \in {"idle", "join", "raised"}
    BY <1>1, <1>2, WorkerAlone
  <2>2. QED
    BY <1>1, <1>2, <1>3, <2>1 DEF StopIsConsistent, WorkerIsConsistent
<1>11. LedgerIsComplete'
  BY <1>1, <1>2, <1>5 DEF LedgerIsComplete
<1>12. QED
  BY <1>6, <1>7, <1>8, <1>9, <1>10, <1>11 DEF UpdaterInv

(* More of a buffer is cut off.                                            *)
LEMMA CutMore ==
  ASSUME NEW s \in Seq(Nat), NEW k \in 0..Len(s), NEW n \in 1..Len(After(s, k))
  PROVE  k + n \in 0..Len(s) /\ After(After(s, k), n) = After(s, k + n)
<1>1. Len(s) \in Nat
  BY Members
<1>2. Len(After(s, k)) = Len(s) - k
  BY CutParts
<1>3. n \in 0..(Len(s) - k) /\ k + n \in 0..Len(s)
  BY <1>1, <1>2
<1>4. QED
  BY <1>3, CutTwice

(* The buffer and what is added to it are in order, and a batch is its     *)
(* beginning.                                                              *)
LEMMA BufferKeeps ==
  ASSUME UpdaterTypeOK, UpdaterInv, WorkerBuffers
  PROVE  UpdaterInv'
<1> DEFINE p == worker.platform
           full == buffers[p] \o worker.hand
<1>1. /\ NothingLost /\ StopIsConsistent /\ WorkerIsConsistent /\ PlatformsAreKept
      /\ LedgerIsComplete /\ InLine /\ WrittenOnceInOrder
  BY DEF UpdaterInv
<1>2. /\ UNCHANGED <<accepted, running, queue, stop, written, failed, pending, processed>>
      /\ worker.pc = "took"
  BY DEF WorkerBuffers
<1>3. /\ p \in Platforms /\ worker.hand \in Seq(Nat) /\ buffers[p] \in Seq(Nat)
      /\ \A q \in Platforms : q # p => buffers'[q] = buffers[q]
      /\ \/ /\ BatchSize \in 0..Len(full)
            /\ IsWorker(worker', "send", FirstOf(full, BatchSize), p)
            /\ buffers'[p] = After(full, BatchSize)
         \/ IsWorker(worker', "loop", <<>>, NoPlatform) /\ buffers'[p] = full
  BY <1>1, BufferEffect, Typed
<1>4. stop.pc # "send" /\ stop.pc \in {"idle", "join", "raised"}
  BY <1>1, <1>2, WorkerAlone
<1>5. \A q \in Platforms : Unwritten(q) = buffers[q] /\ Unwritten(q)' = buffers'[q]
  BY <1>1, <1>2, <1>4, AllUnwritten DEF Unwritten, StopIsConsistent
<1>6. /\ Waiting = UNION {ToSet(buffers[q]) : q \in Platforms}
      /\ Waiting' = UNION {ToSet(buffers'[q]) : q \in Platforms}
  BY <1>5 DEF Waiting, ToSet
<1>7. full \in Seq(Nat) /\ ToSet(full) = ToSet(buffers[p]) \cup ToSet(worker.hand) /\ InOrder(full)
  <2>1. \A a \in ToSet(buffers[p]), b \in ToSet(worker.hand) : accepted[a] = accepted[b]
    BY <1>1, <1>3 DEF PlatformsAreKept
  <2>2. Precede(Waiting, ToSet(worker.hand)) /\ ToSet(buffers[p]) \subseteq Waiting
    BY <1>1, <1>2, <1>3, <1>6 DEF InLine
  <2>3. Below(ToSet(buffers[p]), ToSet(worker.hand))
    BY <2>1, <2>2 DEF Below, Precede
  <2>4. InOrder(buffers[p]) /\ InOrder(worker.hand)
    BY <1>1, <1>3 DEF InLine
  <2>5. QED
    BY <1>3, <2>3, <2>4, Joined
<1> HIDE DEF full, p
(* In both cases:                                                          *)
<1>8. /\ ToSet(full) = ToSet(worker'.hand) \cup ToSet(buffers'[p])
      /\ InOrder(worker'.hand) /\ InOrder(buffers'[p])
      /\ worker'.pc \in {"send", "loop"}
      /\ worker'.pc = "send" => worker'.platform = p /\ Below(ToSet(worker'.hand), ToSet(buffers'[p]))
      /\ worker'.pc = "loop" => worker'.hand = <<>> /\ ToSet(worker'.hand) = {}
  <2>1. CASE /\ BatchSize \in 0..Len(full)
             /\ IsWorker(worker', "send", FirstOf(full, BatchSize), p)
             /\ buffers'[p] = After(full, BatchSize)
    BY <1>7, <2>1, Cut DEF IsWorker
  <2>2. CASE IsWorker(worker', "loop", <<>>, NoPlatform) /\ buffers'[p] = full
    BY <1>7, <2>2, EmptyAndSingle DEF IsWorker
  <2>3. QED
    BY <1>3, <2>1, <2>2
<1>9. ToSet(worker'.hand) \cup Waiting' = ToSet(worker.hand) \cup Waiting
  <2>1. \A q \in Platforms : q # p => ToSet(buffers'[q]) = ToSet(buffers[q])
    BY <1>3
  <2>2. ToSet(worker'.hand) \cup ToSet(buffers'[p]) = ToSet(worker.hand) \cup ToSet(buffers[p])
    BY <1>7, <1>8
  <2>3. ASSUME NEW x
        PROVE  x \in ToSet(worker'.hand) \cup Waiting' <=> x \in ToSet(worker.hand) \cup Waiting
    <3>1. /\ x \in Waiting' <=> \E q \in Platforms : x \in ToSet(buffers'[q])
          /\ x \in Waiting <=> \E q \in Platforms : x \in ToSet(buffers[q])
      BY <1>6
    <3>2. /\ x \in ToSet(buffers'[p]) => x \in Waiting'
          /\ x \in ToSet(buffers[p]) => x \in Waiting
      BY <1>3, <3>1
    <3>3. /\ x \in Waiting' => x \in ToSet(buffers'[p]) \/ x \in Waiting
          /\ x \in Waiting => x \in ToSet(buffers[p]) \/ x \in Waiting'
      BY <2>1, <3>1
    <3>4. QED
      BY <2>2, <3>2, <3>3
  <2>4. QED
    BY <2>3
<1>10. Written' = Written /\ Ids' = Ids
  BY <1>2 DEF Written, Ids, ToSet
<1>11. NothingLost'
  <2>1. Ids = ToSet(queue) \cup ToSet(worker'.hand) \cup Waiting' \cup Written
    BY <1>1, <1>9, Held
  <2>2. UNION {ToSet(Unwritten(q))' \cup ToSet(written'[q]) : q \in Platforms} = Waiting' \cup Written'
    BY DEF Waiting, Written, ToSet
  <2>3. QED
    BY <1>2, <1>10, <2>1, <2>2 DEF NothingLost, ToSet
<1>12. \A a \in ToSet(full) : a \in Ids /\ accepted[a] = p
  <2>1. \A a \in ToSet(buffers[p]) : a \in Ids /\ accepted[a] = p
    BY <1>1, <1>3 DEF PlatformsAreKept
  <2>2. \A a \in ToSet(worker.hand) : a \in Ids /\ accepted[a] = p
    BY <1>1, Held DEF PlatformsAreKept, p
  <2>3. QED
    BY <1>7, <2>1, <2>2
<1>13. PlatformsAreKept'
  <2>1. \A a \in ToSet(worker'.hand) : accepted[a] = worker'.platform
    BY <1>8, <1>12
  <2>2. \A q \in Platforms : \A a \in ToSet(buffers'[q]) : a \in Ids /\ accepted[a] = q
    BY <1>1, <1>3, <1>8, <1>12 DEF PlatformsAreKept
  <2>3. QED
    BY <1>1, <1>2, <1>10, <2>1, <2>2 DEF PlatformsAreKept, ToSet
<1>14. InLine'
  <2>1. /\ Precede(Written, (ToSet(worker.hand) \cup Waiting) \cup ToSet(queue))
        /\ Precede(ToSet(worker.hand) \cup Waiting, ToSet(queue))
    BY <1>1 DEF InLine
  <2>2. /\ Precede(Written, (ToSet(worker'.hand) \cup Waiting') \cup ToSet(queue))
        /\ Precede(ToSet(worker'.hand) \cup Waiting', ToSet(queue))
    BY <1>9, <2>1
  <2>3. ASSUME worker'.pc = "send"
        PROVE  Precede(ToSet(worker'.hand), Waiting')
    <3>1. \A a \in ToSet(worker'.hand) : accepted[a] = p
      BY <1>8, <1>12
    <3>2. \A b \in Waiting' : accepted[b] = p => b \in ToSet(buffers'[p])
      <4>1. \A q \in Platforms : \A b \in ToSet(buffers'[q]) : accepted[b] = q
        BY <1>1, <1>3, <1>8, <1>12 DEF PlatformsAreKept
      <4>2. QED
        BY <1>6, <4>1
    <3>3. QED
      BY <1>8, <2>3, <3>1, <3>2 DEF Precede, Below
  <2>4. /\ Precede(Written, ToSet(worker.hand) \cup Waiting \cup ToSet(queue))'
        /\ Precede(ToSet(worker.hand) \cup Waiting, ToSet(queue))'
        /\ worker'.pc = "send" => Precede(ToSet(worker.hand), Waiting)'
    BY <1>2, <1>10, <2>2, <2>3 DEF Precede, ToSet
  <2>5. InOrder(queue)' /\ InOrder(worker.hand)' /\ \A q \in Platforms : InOrder(buffers[q])'
    BY <1>1, <1>2, <1>3, <1>8 DEF InLine, InOrder
  <2>6. worker'.pc # "took"
    BY <1>8
  <2>7. QED
    BY <2>4, <2>5, <2>6 DEF InLine
<1>15. WrittenOnceInOrder' /\ LedgerIsComplete'
  BY <1>1, <1>2, <1>10 DEF WrittenOnceInOrder, LedgerIsComplete
<1>16. StopIsConsistent' /\ WorkerIsConsistent'
  BY <1>1, <1>2, <1>3, <1>4, <1>8 DEF StopIsConsistent, WorkerIsConsistent
<1>17. QED
  BY <1>11, <1>13, <1>14, <1>15, <1>16 DEF UpdaterInv

(* A payload that is next in line is written in order, and once.           *)
LEMMA WritingKeeps ==
  ASSUME UpdaterTypeOK, UpdaterInv, NEW p \in Platforms, NEW payload \in Seq(Nat),
         ToSet(payload) \subseteq ToSet(worker.hand) \cup Waiting,
         \A a \in ToSet(payload) : accepted[a] = p,
         InOrder(payload), WritesPayload(p, payload),
         UNCHANGED <<accepted, queue, processed>>
  PROVE  /\ WrittenOnceInOrder' /\ LedgerIsComplete' /\ Written' = Written \cup ToSet(payload)
         /\ \A q \in Platforms : \A a \in ToSet(written'[q]) : a \in Ids /\ accepted[a] = q
<1>1. /\ NothingLost /\ PlatformsAreKept /\ LedgerIsComplete /\ WrittenOnceInOrder
      /\ Precede(Written, ToSet(worker.hand) \cup Waiting \cup ToSet(queue))
  BY DEF UpdaterInv, InLine
<1>2. ToSet(payload) \subseteq Ids
  BY <1>1, Held
<1>3. /\ written'[p] = written[p] \o payload
      /\ ToSet(written'[p]) = ToSet(written[p]) \cup ToSet(payload)
      /\ \A q \in Platforms : q # p => written'[q] = written[q]
      /\ Written' = Written \cup ToSet(payload)
      /\ failed' \cup pending' = failed \cup pending \cup ToSet(payload)
  BY <1>2, WriteEffect
<1>4. InOrder(written'[p])
  <2>1. ToSet(written[p]) \subseteq Written /\ written[p] \in Seq(Nat)
    BY Typed DEF Written
  <2>2. Below(ToSet(written[p]), ToSet(payload))
    BY <1>1, <2>1 DEF Precede, Below, PlatformsAreKept
  <2>3. InOrder(written[p])
    BY <1>1 DEF WrittenOnceInOrder, InOrder
  <2>4. QED
    BY <1>3, <2>1, <2>2, <2>3, Joined
<1>5. WrittenOnceInOrder'
  BY <1>1, <1>3, <1>4 DEF WrittenOnceInOrder, InOrder
<1>6. LedgerIsComplete'
  BY <1>1, <1>3 DEF LedgerIsComplete
<1>7. \A q \in Platforms : \A a \in ToSet(written'[q]) : a \in Ids /\ accepted[a] = q
  BY <1>1, <1>2, <1>3 DEF PlatformsAreKept
<1>8. QED
  BY <1>3, <1>5, <1>6, <1>7

LEMMA WriteKeeps ==
  ASSUME UpdaterTypeOK, UpdaterInv, WorkerSends
  PROVE  UpdaterInv'
<1>1. /\ NothingLost /\ StopIsConsistent /\ WorkerIsConsistent /\ PlatformsAreKept
      /\ LedgerIsComplete /\ InLine /\ WrittenOnceInOrder
  BY DEF UpdaterInv
<1>2. PICK n \in 1..Len(worker.hand) : WorkerWrites(n)
  BY <1>1, WriteStep
<1> DEFINE p == worker.platform
           payload == FirstOf(worker.hand, n)
           rest == After(worker.hand, n)
<1>3. /\ worker.pc = "send" /\ WritesPayload(p, payload)
      /\ UNCHANGED <<accepted, running, queue, buffers, stop, processed>>
      /\ \/ worker'.pc = "send" /\ worker'.hand = rest /\ worker'.platform = p
         \/ n = Len(worker.hand) /\ worker'.pc = "loop" /\ worker'.hand = <<>>
  BY <1>2 DEF WorkerWrites, IsWorker
<1>4. /\ p \in Platforms /\ worker.hand \in Seq(Nat) /\ n \in 0..Len(worker.hand)
      /\ payload \in Seq(Nat) /\ rest \in Seq(Nat)
      /\ ToSet(worker.hand) = ToSet(payload) \cup ToSet(rest) /\ ToSet(worker.hand) \subseteq Ids
  BY <1>1, <1>3, WorkerSendTyped
<1>5. InOrder(payload) /\ InOrder(rest) /\ Below(ToSet(payload), ToSet(rest))
  BY <1>1, <1>4, Cut DEF InLine
<1>6. n = Len(worker.hand) => rest = <<>>
  BY <1>4, CutEnds
<1> HIDE DEF payload, rest, p
<1>7. worker'.hand = rest
  BY <1>3, <1>6
<1>8. \A a \in ToSet(payload) : accepted[a] = p
  BY <1>1, <1>4 DEF PlatformsAreKept, p
<1>9. /\ WrittenOnceInOrder' /\ LedgerIsComplete' /\ Written' = Written \cup ToSet(payload)
      /\ \A q \in Platforms : \A a \in ToSet(written'[q]) : a \in Ids /\ accepted[a] = q
  BY <1>3, <1>4, <1>5, <1>8, WritingKeeps
<1>10. Waiting' = Waiting /\ Ids' = Ids
  BY <1>3 DEF Waiting, Unwritten, ToSet, Ids
<1>11. NothingLost'
  <2>1. Ids = ToSet(queue) \cup ToSet(rest) \cup Waiting \cup Written'
    BY <1>1, <1>4, <1>9, Held
  <2>2. UNION {ToSet(Unwritten(q))' \cup ToSet(written'[q]) : q \in Platforms} = Waiting' \cup Written'
    BY DEF Waiting, Written, ToSet
  <2>3. QED
    BY <1>3, <1>7, <1>10, <2>1, <2>2 DEF NothingLost, ToSet
<1>12. PlatformsAreKept'
  <2>1. \A a \in ToSet(worker'.hand) : accepted'[a] = worker'.platform
    <3>1. \A a \in ToSet(rest) : accepted[a] = p
      BY <1>1, <1>4 DEF PlatformsAreKept, p
    <3>2. CASE worker'.platform = p
      BY <1>3, <1>7, <3>1, <3>2
    <3>3. CASE worker'.hand = <<>>
      BY <3>3, EmptyAndSingle
    <3>4. QED
      BY <1>3, <3>2, <3>3
  <2>2. QED
    BY <1>1, <1>3, <1>9, <1>10, <2>1 DEF PlatformsAreKept, ToSet
<1>13. InLine'
  <2>1. /\ Precede(Written, ToSet(worker.hand) \cup Waiting \cup ToSet(queue))
        /\ Precede(ToSet(worker.hand) \cup Waiting, ToSet(queue))
        /\ Precede(ToSet(worker.hand), Waiting)
    BY <1>1, <1>3 DEF InLine
  <2>2. Precede(ToSet(payload), ToSet(rest)) /\ Precede(ToSet(payload), Waiting)
        /\ Precede(ToSet(payload), ToSet(queue)) /\ Precede(ToSet(rest), Waiting)
    BY <1>4, <1>5, <2>1 DEF Precede, Below
  <2>3. /\ Precede(Written \cup ToSet(payload), ToSet(rest) \cup Waiting \cup ToSet(queue))
        /\ Precede(ToSet(rest) \cup Waiting, ToSet(queue))
    BY <1>4, <2>1, <2>2 DEF Precede
  <2>4. /\ Precede(Written, ToSet(worker.hand) \cup Waiting \cup ToSet(queue))'
        /\ Precede(ToSet(worker.hand) \cup Waiting, ToSet(queue))'
        /\ Precede(ToSet(worker.hand), Waiting)'
    BY <1>3, <1>7, <1>9, <1>10, <2>2, <2>3 DEF Precede, ToSet
  <2>5. InOrder(queue)' /\ InOrder(worker.hand)' /\ \A q \in Platforms : InOrder(buffers[q])'
    BY <1>1, <1>3, <1>5, <1>7 DEF InLine, InOrder
  <2>6. worker'.pc # "took"
    BY <1>3
  <2>7. QED
    BY <2>4, <2>5, <2>6 DEF InLine
<1>14. StopIsConsistent' /\ WorkerIsConsistent'
  <2>1. stop.pc \in {"idle", "join", "raised"}
    BY <1>1, <1>3, WorkerAlone
  <2>2. QED
    BY <1>1, <1>3, <1>4, <2>1 DEF StopIsConsistent, WorkerIsConsistent
<1>15. QED
  BY <1>9, <1>11, <1>12, <1>13, <1>14 DEF UpdaterInv

LEMMA SendsKeeps ==
  ASSUME UpdaterTypeOK, UpdaterInv, Sends
  PROVE  UpdaterInv'
<1>1. /\ NothingLost /\ StopIsConsistent /\ WorkerIsConsistent /\ PlatformsAreKept
      /\ LedgerIsComplete /\ InLine /\ WrittenOnceInOrder
  BY DEF UpdaterInv
<1> DEFINE p == stop.platform
           b == buffers[p]
           sent == stop.sent
<1>2. PICK n \in 1..Len(stop.hand) :
        /\ WritesPayload(p, FirstOf(stop.hand, n))
        /\ IsStop(stop', "send", After(stop.hand, n), p, sent + n, stop.left)
  BY DEF Sends
<1> DEFINE payload == FirstOf(stop.hand, n)
           rest == After(stop.hand, n)
<1>3. /\ stop.pc = "send" /\ WritesPayload(p, payload) /\ stop'.pc = "send" /\ stop'.hand = rest
      /\ stop'.platform = p /\ stop'.sent = sent + n /\ stop'.left = stop.left
      /\ UNCHANGED <<accepted, running, queue, buffers, worker, processed>>
  BY <1>2 DEF Sends, IsStop
<1>4. /\ p \in Platforms /\ stop.hand \in Seq(Nat) /\ n \in 0..Len(stop.hand)
      /\ payload \in Seq(Nat) /\ rest \in Seq(Nat)
      /\ ToSet(stop.hand) = ToSet(payload) \cup ToSet(rest) /\ ToSet(stop.hand) \subseteq Waiting
  BY <1>1, <1>3, SendTyped
<1>5. /\ sent \in 0..Len(b) /\ stop.hand = After(b, sent) /\ b \in Seq(Nat)
      /\ Unwritten(p) = stop.hand /\ \A q \in Platforms : q # p => Unwritten(q) = buffers[q]
  BY <1>1, <1>3, RestUnwritten, Typed DEF Unwritten
<1>6. InOrder(payload) /\ InOrder(rest) /\ Below(ToSet(payload), ToSet(rest))
  <2>1. InOrder(stop.hand)
    BY <1>1, <1>4, <1>5, UnwrittenIsBuffered DEF InLine
  <2>2. QED
    BY <1>4, <2>1, Cut
<1>7. sent + n \in 0..Len(b) /\ rest = After(b, sent + n)
  <2>1. n \in 1..Len(After(b, sent))
    BY <1>5
  <2> HIDE DEF b, sent
  <2>2. sent + n \in 0..Len(b) /\ After(After(b, sent), n) = After(b, sent + n)
    BY <1>5, <2>1, CutMore
  <2>3. QED
    BY <1>5, <2>2 DEF rest
<1>8. worker.pc = "dead" /\ ToSet(worker.hand) = {}
  BY <1>1, <1>3, EmptyAndSingle DEF StopIsConsistent, WorkerIsConsistent
<1>9. \A a \in ToSet(stop.hand) : accepted[a] = p
  BY <1>1, <1>4, <1>5, UnwrittenIsBuffered DEF PlatformsAreKept
<1> DEFINE later == [q \in Platforms |-> ToSet(Unwritten(q))']
<1>10. /\ Waiting' = UNION {later[q] : q \in Platforms} /\ later[p] = ToSet(rest)
       /\ \A q \in Platforms : q # p => later[q] = ToSet(Unwritten(q))
  <2>1. Waiting' = UNION {later[q] : q \in Platforms}
    BY DEF Waiting, Unwritten, ToSet
  <2>2. later[p] = ToSet(rest)
    BY <1>3, <1>4, <1>7 DEF Unwritten, ToSet
  <2>3. \A q \in Platforms : q # p => later[q] = ToSet(buffers[q])
    BY <1>3 DEF Unwritten, ToSet
  <2>4. QED
    BY <1>5, <2>1, <2>2, <2>3
<1> HIDE DEF later
<1> HIDE DEF payload, rest, sent, b
<1>11. /\ WrittenOnceInOrder' /\ LedgerIsComplete' /\ Written' = Written \cup ToSet(payload)
       /\ \A q \in Platforms : \A a \in ToSet(written'[q]) : a \in Ids /\ accepted[a] = q
  <2>1. ToSet(payload) \subseteq ToSet(worker.hand) \cup Waiting
    BY <1>4
  <2>2. \A a \in ToSet(payload) : accepted[a] = p
    BY <1>4, <1>9
  <2>3. QED
    BY <1>3, <1>4, <1>6, <2>1, <2>2, WritingKeeps
<1> HIDE DEF p
<1>12. Waiting = ToSet(payload) \cup Waiting'
  <2>1. ToSet(Unwritten(p)) = ToSet(payload) \cup later[p]
    BY <1>4, <1>5, <1>10
  <2>2. ASSUME NEW x
        PROVE  x \in Waiting <=> x \in ToSet(payload) \/ x \in Waiting'
    <3>1. /\ x \in Waiting <=> \E q \in Platforms : x \in ToSet(Unwritten(q))
          /\ x \in Waiting' <=> \E q \in Platforms : x \in later[q]
      BY <1>10 DEF Waiting
    <3>2. ASSUME NEW q \in Platforms
          PROVE  x \in ToSet(Unwritten(q)) <=> x \in later[q] \/ (q = p /\ x \in ToSet(payload))
      BY <1>10, <2>1
    <3>3. QED
      BY <1>4, <3>1, <3>2
  <2>3. QED
    BY <2>2
<1>13. NothingLost'
  <2>1. Ids = ToSet(queue) \cup ToSet(worker.hand) \cup Waiting' \cup Written'
    BY <1>1, <1>11, <1>12, Held
  <2>2. UNION {ToSet(Unwritten(q))' \cup ToSet(written'[q]) : q \in Platforms} = Waiting' \cup Written'
    BY DEF Waiting, Written, ToSet
  <2>3. QED
    BY <1>3, <2>1, <2>2 DEF NothingLost, ToSet, Ids
<1>14. PlatformsAreKept'
  BY <1>1, <1>3, <1>11 DEF PlatformsAreKept, ToSet, Ids
<1>15. InLine'
  <2>1. /\ Precede(Written, ToSet(worker.hand) \cup Waiting \cup ToSet(queue))
        /\ Precede(ToSet(worker.hand) \cup Waiting, ToSet(queue))
    BY <1>1 DEF InLine
  <2>2. Precede(ToSet(payload), Waiting')
    <3>1. \A c \in Waiting' : accepted[c] = p => c \in ToSet(rest)
      <4>1. \A q \in Platforms : q # p => \A c \in ToSet(Unwritten(q)) : accepted[c] = q
        BY <1>1, UnwrittenIsBuffered DEF PlatformsAreKept
      <4>2. SUFFICES ASSUME NEW c \in Waiting', accepted[c] = p
                     PROVE  c \in ToSet(rest)
        OBVIOUS
      <4>3. PICK q \in Platforms : c \in later[q]
        BY <1>10
      <4>4. q = p
        BY <1>10, <4>1, <4>2, <4>3
      <4>5. QED
        BY <1>10, <4>3, <4>4
    <3>2. QED
      BY <1>4, <1>6, <1>9, <3>1 DEF Precede, Below
  <2>3. /\ Precede(Written \cup ToSet(payload), ToSet(worker.hand) \cup Waiting' \cup ToSet(queue))
        /\ Precede(ToSet(worker.hand) \cup Waiting', ToSet(queue))
    BY <1>8, <1>12, <2>1, <2>2 DEF Precede
  <2>4. /\ Precede(Written, ToSet(worker.hand) \cup Waiting \cup ToSet(queue))'
        /\ Precede(ToSet(worker.hand) \cup Waiting, ToSet(queue))'
    BY <1>3, <1>11, <2>3 DEF Precede, ToSet
  <2>5. InOrder(queue)' /\ InOrder(worker.hand)' /\ \A q \in Platforms : InOrder(buffers[q])'
    BY <1>1, <1>3 DEF InLine, InOrder
  <2>6. worker'.pc \notin {"took", "send"}
    BY <1>3, <1>8
  <2>7. QED
    BY <2>4, <2>5, <2>6 DEF InLine
<1>16. StopIsConsistent'
  <2>1. sent + n <= Len(b)
    <3>1. Len(b) \in Nat
      BY <1>5, Members
    <3>2. QED
      BY <1>7, <3>1
  <2>2. /\ stop'.platform \in Platforms /\ stop'.sent <= Len(buffers'[stop'.platform])
        /\ stop'.hand = After(buffers'[stop'.platform], stop'.sent)
    BY <1>3, <1>4, <1>7, <2>1 DEF b, p
  <2>3. \A q \in Platforms \ (stop'.left \cup {stop'.platform}) : buffers'[q] = <<>>
    BY <1>1, <1>3 DEF StopIsConsistent, p
  <2>4. ~running' /\ worker'.pc = "dead"
    BY <1>1, <1>3 DEF StopIsConsistent
  <2>5. QED
    BY <1>3, <2>2, <2>3, <2>4 DEF StopIsConsistent
<1>17. WorkerIsConsistent'
  BY <1>1, <1>3 DEF WorkerIsConsistent
<1>18. QED
  BY <1>11, <1>13, <1>14, <1>15, <1>16, <1>17 DEF UpdaterInv

-----------------------------------------------------------------------------
(* The invariant *)

LEMMA InitHolds ==
  ASSUME UpdaterInit
  PROVE  UpdaterTypeOK /\ UpdaterInv
<1>1. /\ accepted = <<>> /\ running = TRUE /\ queue = <<>>
      /\ failed = {} /\ pending = {} /\ processed = {} /\ manager = "retained"
      /\ \A p \in Platforms : buffers[p] = <<>> /\ written[p] = <<>>
  BY DEF UpdaterInit
<1>2. IsWorker(worker, "loop", <<>>, NoPlatform) /\ IsStop(stop, "idle", <<>>, NoPlatform, 0, {})
  <2>1. <<>> \in Seq(Nat) /\ "loop" \in WorkerPC /\ "idle" \in StopPC /\ 0 \in Nat
    BY DEF WorkerPC, StopPC
  <2>2. Loop \in Worker /\ StopAt("idle") \in Stop
    BY <2>1 DEF Loop, StopAt, Worker, Stop
  <2>3. QED
    BY <2>2 DEF UpdaterInit, IsWorker, IsStop, Loop, StopAt
<1>3. UpdaterTypeOK
  <2>1. /\ <<>> \in Seq(Nat) /\ <<>> \in Seq(Platforms)
        /\ buffers \in [Platforms -> Seq(Nat)] /\ written \in [Platforms -> Seq(Nat)]
    BY DEF UpdaterInit
  <2>2. QED
    BY <1>1, <1>2, <2>1 DEF UpdaterTypeOK, IsWorker, IsStop, Worker, Stop
<1>4. /\ worker.pc = "loop" /\ worker.hand = <<>>
      /\ stop.pc = "idle" /\ stop.platform = NoPlatform
  BY <1>2 DEF IsWorker, IsStop
<1>5. ToSet(<<>>) = {} /\ InOrder(<<>>)
  BY EmptyAndSingle
<1>6. /\ Ids = {} /\ ToSet(queue) = {} /\ ToSet(worker.hand) = {}
      /\ \A p \in Platforms : ToSet(buffers[p]) = {} /\ ToSet(written[p]) = {}
  <2>1. Ids = {}
    BY <1>1 DEF Ids
  <2>2. QED
    BY <1>1, <1>4, <1>5, <2>1
<1>7. StopIsConsistent /\ WorkerIsConsistent
  BY <1>1, <1>4 DEF StopIsConsistent, WorkerIsConsistent
<1>8. Waiting = {} /\ Written = {}
  <2>1. \A p \in Platforms : Unwritten(p) = buffers[p]
    BY <1>4, <1>7, AllUnwritten
  <2>2. QED
    BY <1>6, <2>1 DEF Waiting, Written
<1>9. NothingLost
  BY <1>6, <1>8, NothingIsLost
<1>10. PlatformsAreKept
  BY <1>6 DEF PlatformsAreKept
<1>11. InLine
  BY <1>1, <1>4, <1>5, <1>6, <1>8 DEF InLine, Precede
<1>12. WrittenOnceInOrder
  <2>1. \A p \in Platforms : InOrder(written[p])
    BY <1>1, <1>5
  <2>2. QED
    BY <2>1 DEF WrittenOnceInOrder, InOrder
<1>13. LedgerIsComplete
  BY <1>1, <1>8 DEF LedgerIsComplete
<1>14. QED
  BY <1>3, <1>7, <1>9, <1>10, <1>11, <1>12, <1>13 DEF UpdaterInv

LEMMA StutterKeeps ==
  ASSUME UpdaterTypeOK, UpdaterInv, UNCHANGED updaterVars
  PROVE  UpdaterTypeOK' /\ UpdaterInv'
<1>1. /\ UNCHANGED <<accepted, running, queue, buffers, worker, stop, written>>
      /\ UNCHANGED <<failed, pending, processed, manager>>
  BY DEF updaterVars
<1>2. UpdaterTypeOK'
  BY <1>1 DEF UpdaterTypeOK, Ids
<1>3. Waiting' = Waiting /\ Written' = Written /\ Ids' = Ids
  BY <1>1 DEF Waiting, Written, Ids, Unwritten, ToSet
<1>4. NothingLost'
  <2>1. \A p \in Platforms : Unwritten(p)' = Unwritten(p)
    BY <1>1 DEF Unwritten
  <2>2. QED
    BY <1>1, <1>3, <2>1 DEF UpdaterInv, NothingLost, Unwritten, ToSet
<1>5. PlatformsAreKept' /\ WrittenOnceInOrder' /\ WorkerIsConsistent'
  BY <1>1, <1>3 DEF UpdaterInv, PlatformsAreKept, WrittenOnceInOrder, WorkerIsConsistent, ToSet
<1>6. InLine'
  BY <1>1, <1>3 DEF UpdaterInv, InLine, InOrder, Precede, ToSet
<1>7. StopIsConsistent' /\ LedgerIsComplete'
  BY <1>1, <1>3 DEF UpdaterInv, StopIsConsistent, LedgerIsComplete
<1>8. QED
  BY <1>2, <1>4, <1>5, <1>6, <1>7 DEF UpdaterInv

LEMMA NextKeeps ==
  ASSUME UpdaterTypeOK, UpdaterInv, UpdaterNext
  PROVE  UpdaterTypeOK' /\ UpdaterInv'
<1>1. UpdaterTypeOK'
  BY NextKeepsTypes
<1>2. WorkerIsConsistent /\ StopIsConsistent
  BY DEF UpdaterInv
<1>3. ASSUME NEW p \in Platforms, AddActivity(p)
      PROVE  UpdaterInv'
  BY <1>3, AddKeeps
<1>4. CASE WorkerStep
  BY <1>1, <1>4, TakeKeeps, BufferKeeps, WriteKeeps, OthersKeep DEF WorkerStep
<1>5. CASE StopBegins \/ StopStep
  BY <1>1, <1>2, <1>5, StopEffect, CalmKeeps, SendsKeeps
<1>6. CASE Discard \/ (\E a \in Ids : GraphProcesses(a))
  BY <1>1, <1>6, OthersKeep
<1>7. QED
  BY <1>1, <1>3, <1>4, <1>5, <1>6 DEF UpdaterNext

(* What an updater holds has its shape, and everything accepted is in line *)
(* by the order of its acceptance, from the graph back to the queue, over  *)
(* any retries of stop, failures of the graph and deadlines in between.    *)
THEOREM UpdaterInvHolds == UpdaterSpec => [](UpdaterTypeOK /\ UpdaterInv)
<1>1. UpdaterInit => UpdaterTypeOK /\ UpdaterInv
  BY InitHolds
<1>2. (UpdaterTypeOK /\ UpdaterInv) /\ [UpdaterNext]_updaterVars => (UpdaterTypeOK /\ UpdaterInv)'
  BY StutterKeeps, NextKeeps
<1>3. QED
  BY <1>1, <1>2, PTL DEF UpdaterSpec

(* No accepted activity falls out between the worker, the buffers and the  *)
(* flush of a stop.                                                        *)
THEOREM NoActivityIsLost == UpdaterSpec => []NothingLost
<1>1. UpdaterInv => NothingLost
  BY DEF UpdaterInv
<1>2. QED
  BY <1>1, UpdaterInvHolds, PTL

(* No activity is written twice, and those of a platform are written in    *)
(* the order of their acceptance.                                          *)
THEOREM EachIsWrittenOnceInOrder == UpdaterSpec => []WrittenOnceInOrder
<1>1. UpdaterInv => WrittenOnceInOrder
  BY DEF UpdaterInv
<1>2. QED
  BY <1>1, UpdaterInvHolds, PTL

-----------------------------------------------------------------------------
(* The refinement *)

Activities == 1..MaxActivities
Bounded == Len(accepted) <= MaxActivities

(* What the contract sees of a state, and what it may see of a step.       *)
View == <<Ids, running, Written, processed, manager = "removed">>

LEMMA ViewIs ==
  /\ Contract!ingestionVars = View
  /\ \A a : Contract!Accept(a) <=>
       /\ running /\ a \notin Ids /\ Ids' = Ids \cup {a} /\ running' = running
       /\ Written' = Written /\ processed' = processed
       /\ (manager = "removed")' = (manager = "removed")
  /\ Contract!Close <=>
       /\ running /\ running' = FALSE /\ Ids' = Ids
       /\ Written' = Written /\ processed' = processed
       /\ (manager = "removed")' = (manager = "removed")
  /\ \A S : Contract!Attempt(S) <=>
       /\ S \subseteq Ids \ Written /\ Written' = Written \cup S
       /\ Ids' = Ids /\ running' = running /\ processed' = processed
       /\ (manager = "removed")' = (manager = "removed")
  /\ \A S : Contract!Ingest(S) <=>
       /\ S \subseteq Written \ processed /\ processed' = processed \cup S
       /\ Ids' = Ids /\ running' = running /\ Written' = Written
       /\ (manager = "removed")' = (manager = "removed")
  /\ Contract!Finish <=>
       /\ ~running /\ Ids = processed /\ (manager = "removed")' = TRUE
       /\ Ids' = Ids /\ running' = running /\ Written' = Written /\ processed' = processed
BY DEF Contract!ingestionVars, Contract!Accept, Contract!Close, Contract!Attempt,
   Contract!Ingest, Contract!Finish, View, Written

LEMMA InitMaps ==
  ASSUME UpdaterInit
  PROVE  Contract!IngestionInit /\ Bounded
<1>1. /\ accepted = <<>> /\ running = TRUE /\ processed = {} /\ manager = "retained"
      /\ \A p \in Platforms : written[p] = <<>>
  BY DEF UpdaterInit
<1>2. Ids = {} /\ Len(accepted) = 0
  BY <1>1 DEF Ids
<1>3. Written = {}
  BY <1>1, EmptyAndSingle DEF Written
<1>4. (manager = "removed") = FALSE
  BY <1>1
<1>5. QED
  BY <1>1, <1>2, <1>3, <1>4 DEF Contract!IngestionInit, Bounded, Written

(* A payload of what is held is written for the first time.                *)
LEMMA AttemptMaps ==
  ASSUME UpdaterTypeOK, UpdaterInv, Bounded, NEW p \in Platforms, NEW payload \in Seq(Nat),
         ToSet(payload) \subseteq ToSet(worker.hand) \cup Waiting, WritesPayload(p, payload),
         UNCHANGED <<accepted, running, processed, manager>>
  PROVE  Contract!IngestionNext
<1>1. /\ NothingLost /\ Len(accepted) \in Nat
      /\ Precede(Written, ToSet(worker.hand) \cup Waiting \cup ToSet(queue))
  BY Typed DEF UpdaterInv, InLine
<1>2. ToSet(payload) \subseteq Ids
  BY <1>1, Held
<1>3. ASSUME NEW a \in ToSet(payload), a \in Written
      PROVE  FALSE
  <2>1. a < a
    BY <1>1, <1>3 DEF Precede
  <2>2. a \in Nat
    BY <1>2, <1>3, Typed
  <2>3. QED
    BY <2>1, <2>2
<1>4. ToSet(payload) \in SUBSET Activities
  BY <1>1, <1>2 DEF Bounded, Activities, Ids
<1>5. Written' = Written \cup ToSet(payload)
  BY <1>2, WriteEffect
<1>6. /\ Ids' = Ids /\ running' = running /\ processed' = processed
      /\ (manager = "removed")' = (manager = "removed")
  BY DEF Ids
<1>7. Contract!Attempt(ToSet(payload))
  BY <1>2, <1>3, <1>5, <1>6, ViewIs
<1>8. QED
  BY <1>4, <1>7 DEF Contract!IngestionNext, Activities

LEMMA AddMaps ==
  ASSUME UpdaterTypeOK, UpdaterInv, NEW p \in Platforms, AddActivity(p)
  PROVE  Contract!IngestionNext /\ Bounded'
<1> DEFINE next == Len(accepted) + 1
<1>1. /\ Ids' = Ids \cup {next} /\ next \notin Ids /\ Len(accepted') = next
  BY AddEffect DEF UpdaterInv
<1>2. next \in Activities /\ next <= MaxActivities
  BY Typed DEF AddActivity, Activities
<1> HIDE DEF next
<1>3. /\ running /\ running' = running /\ processed' = processed
      /\ (manager = "removed")' = (manager = "removed") /\ written' = written
  BY DEF AddActivity
<1>4. Written' = Written
  BY <1>3 DEF Written, ToSet
<1>5. Contract!Accept(next)
  BY <1>1, <1>3, <1>4, ViewIs
<1>6. QED
  BY <1>1, <1>2, <1>5 DEF Contract!IngestionNext, Bounded, Activities

LEMMA CalmMaps ==
  ASSUME UpdaterTypeOK, UpdaterInv, Bounded, CalmStep
  PROVE  Contract!IngestionNext \/ View' = View
<1>1. /\ NothingLost /\ StopIsConsistent /\ WorkerIsConsistent /\ LedgerIsComplete
  BY DEF UpdaterInv
<1>2. UNCHANGED <<accepted, queue, worker, written, processed, failed>>
  BY DEF CalmStep, StopsRunning, Joins, Drains, Skips, Copies, Drops, GivesUp, ChecksWell, Ends,
     Calm
<1>3. Written' = Written /\ Ids' = Ids /\ processed' = processed
  BY <1>2 DEF Written, Ids, ToSet
<1>4. CASE Ends
  <2>1. /\ stop.pc = "wait" /\ pending \subseteq processed /\ manager' = "removed"
        /\ running' = running
    BY <1>4 DEF Ends
  <2>2. /\ ~running /\ worker.pc = "dead" /\ stop.pc # "send" /\ failed = {}
        /\ \A p \in Platforms : buffers[p] = <<>>
    BY <1>1, <2>1 DEF StopIsConsistent
  <2>3. queue = <<>> /\ worker.hand = <<>>
    BY <1>1, <2>2 DEF WorkerIsConsistent
  <2>4. Waiting = {}
    <3>1. \A p \in Platforms : Unwritten(p) = <<>>
      BY <1>1, <2>2, AllUnwritten
    <3>2. QED
      BY <3>1, EmptyAndSingle DEF Waiting
  <2>5. Ids = Written
    BY <1>1, <2>3, <2>4, Held, EmptyAndSingle
  <2>6. Ids = processed
    <3>1. Written = failed \cup pending \cup processed
      BY <1>1 DEF LedgerIsComplete
    <3>2. QED
      BY <2>1, <2>2, <2>5, <3>1
  <2>7. (manager = "removed")' = TRUE
    BY <2>1
  <2>8. Contract!Finish
    BY <1>3, <2>1, <2>2, <2>6, <2>7, ViewIs
  <2>9. QED
    BY <2>8 DEF Contract!IngestionNext
<1>5. CASE StopsRunning
  <2>1. running' = FALSE /\ (manager = "removed")' = (manager = "removed")
    BY <1>5 DEF StopsRunning
  <2>2. CASE running
    <3>1. Contract!Close
      BY <1>3, <2>1, <2>2, ViewIs
    <3>2. QED
      BY <3>1 DEF Contract!IngestionNext
  <2>3. CASE ~running
    <3>1. running' = running
      BY <2>1, <2>3 DEF UpdaterTypeOK
    <3>2. QED
      BY <1>3, <2>1, <3>1 DEF View
  <2>4. QED
    BY <2>2, <2>3
<1>6. CASE UNCHANGED <<running, manager>>
  <2>1. (manager = "removed")' = (manager = "removed") /\ running' = running
    BY <1>6
  <2>2. QED
    BY <1>3, <2>1 DEF View
<1>7. QED
  BY <1>4, <1>5, <1>6 DEF CalmStep, Joins, Drains, Skips, Copies, Drops, GivesUp, ChecksWell

LEMMA NextMaps ==
  ASSUME UpdaterTypeOK, UpdaterInv, Bounded, [UpdaterNext]_updaterVars
  PROVE  (Contract!IngestionNext \/ View' = View) /\ Bounded'
<1>1. /\ NothingLost /\ StopIsConsistent /\ WorkerIsConsistent /\ LedgerIsComplete
  BY DEF UpdaterInv
<1>2. ASSUME NEW p \in Platforms, AddActivity(p)
      PROVE  Contract!IngestionNext /\ Bounded'
  BY <1>2, AddMaps
<1>3. ASSUME UNCHANGED accepted
      PROVE  Bounded'
  BY <1>3 DEF Bounded
<1>4. ASSUME UNCHANGED <<accepted, running, written, processed, manager>>
      PROVE  View' = View
  <2>1. (manager = "removed")' = (manager = "removed")
    BY <1>4
  <2>2. QED
    BY <1>4, <2>1 DEF View, Written, Ids, ToSet
<1>5. CASE WorkerTakes \/ WorkerBuffers \/ WorkerExits \/ UNCHANGED updaterVars
  BY <1>3, <1>4, <1>5 DEF WorkerTakes, WorkerBuffers, WorkerExits, updaterVars
<1>6. CASE WorkerSends
  <2>1. PICK n \in 1..Len(worker.hand) : WorkerWrites(n)
    BY <1>1, <1>6, WriteStep
  <2>2. /\ worker.platform \in Platforms /\ FirstOf(worker.hand, n) \in Seq(Nat)
        /\ ToSet(FirstOf(worker.hand, n)) \subseteq ToSet(worker.hand) \cup Waiting
    BY <1>1, <2>1, WorkerSendTyped DEF WorkerWrites
  <2>3. Contract!IngestionNext
    BY <2>1, <2>2, AttemptMaps DEF WorkerWrites
  <2>4. QED
    BY <1>3, <2>1, <2>3 DEF WorkerWrites
<1>7. CASE Sends
  <2>1. PICK n \in 1..Len(stop.hand) : WritesPayload(stop.platform, FirstOf(stop.hand, n))
    BY <1>7 DEF Sends
  <2>2. /\ stop.platform \in Platforms /\ FirstOf(stop.hand, n) \in Seq(Nat)
        /\ ToSet(FirstOf(stop.hand, n)) \subseteq ToSet(worker.hand) \cup Waiting
    BY <1>1, <1>7, SendTyped DEF Sends
  <2>3. Contract!IngestionNext
    BY <1>7, <2>1, <2>2, AttemptMaps DEF Sends
  <2>4. QED
    BY <1>3, <1>7, <2>3 DEF Sends
<1>8. CASE CalmStep
  <2>1. UNCHANGED accepted
    BY <1>8 DEF CalmStep, StopsRunning, Joins, Drains, Skips, Copies, Drops, GivesUp, ChecksWell,
       Ends, Calm
  <2>2. QED
    BY <1>3, <1>8, <2>1, CalmMaps
<1>9. CASE Discard
  <2>1. UNCHANGED <<accepted, running, written, processed>>
    BY <1>9 DEF Discard
  <2>2. (manager = "removed")' = (manager = "removed")
    BY <1>9 DEF Discard
  <2>3. QED
    BY <1>3, <2>1, <2>2 DEF View, Written, Ids, ToSet
<1>10. ASSUME NEW a \in Ids, GraphProcesses(a)
       PROVE  Contract!IngestionNext /\ Bounded'
  <2>1. /\ a \in pending \ processed /\ processed' = processed \cup {a}
        /\ UNCHANGED <<accepted, running, written, manager>>
    BY <1>10 DEF GraphProcesses
  <2>2. {a} \subseteq Written \ processed
    BY <1>1, <2>1 DEF LedgerIsComplete
  <2>3. /\ Ids' = Ids /\ running' = running /\ Written' = Written
        /\ (manager = "removed")' = (manager = "removed")
    BY <2>1 DEF Ids, Written, ToSet
  <2>4. Contract!Ingest({a})
    BY <2>1, <2>2, <2>3, ViewIs
  <2>5. {a} \in SUBSET Activities
    BY <1>10, Typed DEF Bounded, Activities, Ids
  <2>6. QED
    BY <1>3, <2>1, <2>4, <2>5 DEF Contract!IngestionNext, Activities
<1>11. CASE StopBegins \/ StopStep
  BY <1>1, <1>7, <1>8, <1>11, StopEffect
<1>12. QED
  BY <1>2, <1>5, <1>6, <1>9, <1>10, <1>11 DEF UpdaterNext, WorkerStep

(* The updater is what the runner that stops it relies on: each activity   *)
(* it accepted is written to the graph at most once, and it is removed     *)
(* from the manager only when the graph has processed all of them.         *)
THEOREM UpdaterImplementsIngestion == UpdaterSpec => ImplementsIngestion
<1>1. UpdaterInit => Contract!IngestionInit /\ Bounded
  BY InitMaps
<1>2. UpdaterTypeOK /\ UpdaterInv /\ Bounded /\ [UpdaterNext]_updaterVars
        => [Contract!IngestionNext]_(Contract!ingestionVars) /\ Bounded'
  <2>1. Contract!ingestionVars = View
    BY ViewIs
  <2>2. Contract!ingestionVars' = View'
    BY DEF Contract!ingestionVars, View, Written
  <2>3. QED
    BY <2>1, <2>2, NextMaps
<1>3. QED
  BY <1>1, <1>2, UpdaterInvHolds, PTL DEF UpdaterSpec, ImplementsIngestion, Contract!IngestionSpec
=============================================================================
