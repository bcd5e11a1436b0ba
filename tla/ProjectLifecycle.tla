-------------------------- MODULE ProjectLifecycle --------------------------
(***************************************************************************)
(* The projects of one user: created with their documents under a quota    *)
(* and an idempotency key, archived, restored, deleted and purged, while   *)
(* stages are started on them (backend/app/service.py, repository.py).     *)
(*                                                                         *)
(* The rows are in the database, the documents' contents in an object      *)
(* store that knows no transactions.  A step is a database transaction, a  *)
(* statement of one that waits for no lock before, or one call of the      *)
(* object store.                                                           *)
(*                                                                         *)
(* A project id is minted by one call of create_project, so Projects are   *)
(* also those calls; its object keys begin with ids minted by that call.   *)
(* A document weighs one unit.  duplicate_project is a call of             *)
(* create_project without a key.  A store's save and the look at what it   *)
(* stored are one step.                                                    *)
(***************************************************************************)
EXTENDS Naturals, FiniteSets

CONSTANTS
  Projects,   \* calls of create_project, and the projects they make
  Documents,  \* document ids
  Files,      \* Files[p]: the documents uploaded to p; none: a quick demo
  Keys,       \* idempotency keys
  KeyOf,      \* the key a call came with, or NoKey
  MaxActive,  \* max_active_projects
  MaxBytes,   \* max_total_upload_bytes
  Clients,    \* API requests that change or start something
  Purgers,    \* worker processes, in purge_due_projects
  Faulty,     \* processes die, the store and the database raise
  NoKey, NoProject

ASSUME LifecycleAssumption ==
  /\ IsFiniteSet(Projects) /\ IsFiniteSet(Documents)
  /\ Files \in [Projects -> SUBSET Documents]
  /\ KeyOf \in [Projects -> Keys \cup {NoKey}]
  /\ MaxActive \in Nat /\ MaxBytes \in Nat
  /\ Faulty \in BOOLEAN
  /\ NoKey \notin Keys /\ NoProject \notin Projects

VARIABLES
  project,  \* the status of the row, "absent" before and "purged" after it
  due,      \* due[p]: delete_after has passed
  busy,     \* the projects with a job queued, running or paused
  objects,  \* the objects in the store
  create,   \* how far each call of create_project is
  request,  \* how far each request is in set_project_status or put_job
  purge     \* how far each worker is in purge_due_projects

lifecycleVars == <<project, due, busy, objects, create, request, purge>>

ProjectStatus == {"active", "archived", "pending_delete"}
CreatePC == {"idle", "saving", "undoing", "done", "dead"}
Request == [pc: {"idle", "counted", "checked"}, project: Projects \cup {NoProject},
            status: ProjectStatus]
Purge == [due: SUBSET Projects, project: Projects \cup {NoProject}]
NoRequest == [pc |-> "idle", project |-> NoProject, status |-> "active"]
NoPurge == [due |-> {}, project |-> NoProject]

(* Types and foreign keys: a job has a simulation, hence a project. *)
LifecycleTypeOK ==
  /\ project \in [Projects -> ProjectStatus \cup {"absent", "purged"}]
  /\ due \in [Projects -> BOOLEAN]
  /\ busy \subseteq {p \in Projects : project[p] \in ProjectStatus}
  /\ objects \subseteq Projects \X Documents
  /\ create \in [Projects -> CreatePC]
  /\ request \in [Clients -> Request]
  /\ purge \in [Purgers -> Purge]

LifecycleInit ==
  /\ project = [p \in Projects |-> "absent"]
  /\ due = [p \in Projects |-> FALSE]
  /\ busy = {}
  /\ objects = {}
  /\ create = [p \in Projects |-> "idle"]
  /\ request = [c \in Clients |-> NoRequest]
  /\ purge = [w \in Purgers |-> NoPurge]

-----------------------------------------------------------------------------
(* What the queries of create_project_bundle see *)

Exists(p) == project[p] \in ProjectStatus
ObjectsOf(p) == {p} \X Files[p]

(* Mutant: the key of an archived or deleted project is forgotten.         *)
KeyTakenByActive(p) ==
  KeyOf[p] # NoKey /\ \E q \in Projects : project[q] = "active" /\ KeyOf[q] = KeyOf[p]

KeyTaken(p) ==
  KeyOf[p] # NoKey /\ \E q \in Projects : Exists(q) /\ KeyOf[q] = KeyOf[p]

(* The rows of the table documents: archived projects and those waiting    *)
(* for their deletion still count.                                         *)
DocumentRows == {o \in Projects \X Documents : Exists(o[1]) /\ o[2] \in Files[o[1]]}

(* Mutant: only the documents of active projects count.                    *)
ActiveWithinQuota(p) ==
  LET rows == {o \in DocumentRows : project[o[1]] = "active"} IN
  /\ Cardinality({q \in Projects : project[q] = "active"}) < MaxActive
  /\ Cardinality(rows) + Cardinality(Files[p]) <= MaxBytes

WithinQuota(p) ==
  /\ Cardinality({q \in Projects : project[q] = "active"}) < MaxActive
  /\ Cardinality(DocumentRows) + Cardinality(Files[p]) <= MaxBytes

-----------------------------------------------------------------------------
(* create_project *)

Creates(p, pc) == create' = [create EXCEPT ![p] = pc]

(* A call whose key is taken returns that project at once.                 *)
CreateBegins(p) ==
  /\ create[p] = "idle"
  /\ Creates(p, IF KeyTaken(p) THEN "done" ELSE "saving")
  /\ UNCHANGED <<project, due, busy, objects, request, purge>>

SavesDocument(p, d) ==
  /\ create[p] = "saving" /\ d \in Files[p] /\ <<p, d>> \notin objects
  /\ objects' = objects \cup {<<p, d>>}
  /\ UNCHANGED <<project, due, busy, create, request, purge>>

(* create_project_bundle: one transaction that holds the user's row.  The  *)
(* graph job of a project with documents is inserted with it.  No other    *)
(* writer takes a key, so the unique index has nothing to refuse.          *)
BundleCommits(p) ==
  /\ create[p] = "saving" /\ ObjectsOf(p) \subseteq objects
  /\ ~KeyTaken(p) /\ WithinQuota(p)
  /\ project' = [project EXCEPT ![p] = "active"]
  /\ busy' = IF Files[p] = {} THEN busy ELSE busy \cup {p}
  /\ Creates(p, "done")
  /\ UNCHANGED <<due, objects, request, purge>>

(* The key was taken meanwhile (its project is returned), or the quota is  *)
(* exceeded (an error): either way the objects go.                         *)
BundleRefused(p) ==
  /\ create[p] = "saving" /\ ObjectsOf(p) \subseteq objects
  /\ KeyTaken(p) \/ ~WithinQuota(p)
  /\ Creates(p, "undoing")
  /\ UNCHANGED <<project, due, busy, objects, request, purge>>

(* The upload is too large, or the store or the database raises. *)
CreateFails(p) ==
  /\ Faulty /\ create[p] = "saving"
  /\ Creates(p, "undoing")
  /\ UNCHANGED <<project, due, busy, objects, request, purge>>

UndoesDocument(p, d) ==
  /\ create[p] = "undoing" /\ <<p, d>> \in objects
  /\ objects' = objects \ {<<p, d>>}
  /\ UNCHANGED <<project, due, busy, create, request, purge>>

UndoEnds(p) ==
  /\ create[p] = "undoing" /\ objects \cap ObjectsOf(p) = {}
  /\ Creates(p, "done")
  /\ UNCHANGED <<project, due, busy, objects, request, purge>>

(* The process dies, or the store refuses a deletion: what was saved stays. *)
CreateDies(p) ==
  /\ Faulty /\ create[p] \in {"saving", "undoing"}
  /\ Creates(p, "dead")
  /\ UNCHANGED <<project, due, busy, objects, request, purge>>

-----------------------------------------------------------------------------
(* set_project_status: archive, restore, schedule the deletion *)

Locked(p) == \E w \in Purgers : purge[w].project = p

SourceStatuses(status) ==
  CASE status = "active"         -> {"archived", "pending_delete"}
    [] status = "archived"       -> {"active"}
    [] status = "pending_delete" -> {"active", "archived"}

(* The active jobs are counted; the caller gives up, or asks again, when   *)
(* there are any.                                                          *)
ChangeCounts(c, p, status) ==
  /\ request[c].pc = "idle"
  /\ Exists(p) /\ p \notin busy
  /\ request' = [request EXCEPT ![c] = [pc |-> "counted", project |-> p, status |-> status]]
  /\ UNCHANGED <<project, due, busy, objects, create, purge>>

(* Then the row is updated, after a purge that holds it, if it is still in *)
(* a source status.                                                        *)
ChangeUpdates(c) ==
  LET p == request[c].project IN
  /\ request[c].pc = "counted" /\ ~Locked(p)
  /\ IF project[p] \in SourceStatuses(request[c].status)
       THEN /\ project' = [project EXCEPT ![p] = request[c].status]
            /\ due' = [due EXCEPT ![p] = FALSE]
       ELSE UNCHANGED <<project, due>>
  /\ request' = [request EXCEPT ![c] = NoRequest]
  /\ UNCHANGED <<busy, objects, create, purge>>

-----------------------------------------------------------------------------
(* put_job: the simulation's row is locked, the project's only read *)

Starting(p) == \E c \in Clients : request[c].pc = "checked" /\ request[c].project = p

StartChecks(c, p) ==
  /\ request[c].pc = "idle"
  /\ project[p] = "active" /\ ~Starting(p)
  /\ request' = [request EXCEPT ![c] = [NoRequest EXCEPT !.pc = "checked", !.project = p]]
  /\ UNCHANGED <<project, due, busy, objects, create, purge>>

(* With a job there already the unique index refuses the insert. *)
StartInserts(c) ==
  /\ request[c].pc = "checked"
  /\ busy' = busy \cup {request[c].project}
  /\ request' = [request EXCEPT ![c] = NoRequest]
  /\ UNCHANGED <<project, due, objects, create, purge>>

(* The job completes, fails or is cancelled, whatever became of the project. *)
JobEnds(p) ==
  /\ p \in busy
  /\ busy' = busy \ {p}
  /\ UNCHANGED <<project, due, objects, create, request, purge>>

-----------------------------------------------------------------------------
(* purge_due_projects *)

TimePasses(p) ==
  /\ project[p] = "pending_delete" /\ ~due[p]
  /\ due' = [due EXCEPT ![p] = TRUE]
  /\ UNCHANGED <<project, busy, objects, create, request, purge>>

Due(p) == project[p] = "pending_delete" /\ due[p]

PurgeLists(w) ==
  /\ purge[w] = NoPurge
  /\ \E p \in Projects : Due(p)
  /\ purge' = [purge EXCEPT ![w].due = {p \in Projects : Due(p)}]
  /\ UNCHANGED <<project, due, busy, objects, create, request>>

(* Mutant: what was due when it was listed is due. *)
StillListed(p) == project[p] # "purged"

StillDue(p) == Due(p)

(* The row is locked and looked at again. *)
PurgeLocks(w, p) ==
  /\ purge[w].project = NoProject /\ p \in purge[w].due
  /\ ~Locked(p)
  /\ purge' = [purge EXCEPT ![w] = [due |-> @.due \ {p},
                                    project |-> IF StillDue(p) THEN p ELSE NoProject]]
  /\ UNCHANGED <<project, due, busy, objects, create, request>>

PurgeDeletes(w, d) ==
  /\ purge[w].project # NoProject /\ <<purge[w].project, d>> \in objects
  /\ objects' = objects \ {<<purge[w].project, d>>}
  /\ UNCHANGED <<project, due, busy, create, request, purge>>

(* Mutant: the rows go while objects are left. *)
Emptied(p) == Cardinality(objects \cap ObjectsOf(p)) <= 1

AllDeleted(p) == objects \cap ObjectsOf(p) = {}

(* The simulation and its jobs go with the project. *)
PurgeCommits(w) ==
  LET p == purge[w].project IN
  /\ p # NoProject /\ AllDeleted(p) /\ ~Starting(p)
  /\ project' = [project EXCEPT ![p] = "purged"]
  /\ busy' = busy \ {p}
  /\ purge' = [purge EXCEPT ![w].project = NoProject]
  /\ UNCHANGED <<due, objects, create, request>>

(* The store raises or the worker dies: the transaction is rolled back,    *)
(* the objects stay deleted, the worker begins anew.                       *)
PurgeFails(w) ==
  /\ Faulty /\ purge[w].project # NoProject
  /\ purge' = [purge EXCEPT ![w] = NoPurge]
  /\ UNCHANGED <<project, due, busy, objects, create, request>>

-----------------------------------------------------------------------------
CreateStep(p) ==
  \/ CreateBegins(p)
  \/ \E d \in Documents : SavesDocument(p, d) \/ UndoesDocument(p, d)
  \/ BundleCommits(p) \/ BundleRefused(p) \/ CreateFails(p)
  \/ UndoEnds(p) \/ CreateDies(p)

RequestStep(c) ==
  \/ \E p \in Projects, status \in ProjectStatus : ChangeCounts(c, p, status)
  \/ ChangeUpdates(c)
  \/ \E p \in Projects : StartChecks(c, p)
  \/ StartInserts(c)

PurgeStep(w) ==
  \/ PurgeLists(w) \/ PurgeCommits(w) \/ PurgeFails(w)
  \/ \E p \in Projects : PurgeLocks(w, p)
  \/ \E d \in Documents : PurgeDeletes(w, d)

LifecycleNext ==
  \/ \E p \in Projects : CreateStep(p)
  \/ \E c \in Clients : RequestStep(c)
  \/ \E w \in Purgers : PurgeStep(w)
  \/ \E p \in Projects : JobEnds(p)
  \/ \E p \in Projects : TimePasses(p)

LifecycleSpec == LifecycleInit /\ [][LifecycleNext]_lifecycleVars

-----------------------------------------------------------------------------
(* Safety *)

(* The documents of all projects together, archived ones and those waiting *)
(* for deletion included, never exceed the quota, whatever is created at   *)
(* the same time, restored or purged.                                      *)
BytesWithinQuota == Cardinality(DocumentRows) <= MaxBytes

(* Two calls with one key, however they overlap, leave one project.        *)
OneProjectPerKey ==
  \A p, q \in Projects :
    Exists(p) /\ Exists(q) /\ KeyOf[p] = KeyOf[q] /\ KeyOf[p] # NoKey => p = q

(* No object is left without a row: what is in the store belongs to a      *)
(* project, to a call that is not over, or to one that died.               *)
NoOrphans ==
  \A o \in objects : \/ Exists(o[1]) /\ o[2] \in Files[o[1]]
                     \/ create[o[1]] \in {"saving", "undoing", "dead"}

(* No step deletes a document of a project that is active or archived: a   *)
(* purge that listed a project before it was restored, or the cleanup of a *)
(* refused call, leaves it alone.                                          *)
DocumentsStay ==
  [][\A o \in objects \ objects' : project[o[1]] \notin {"active", "archived"}]_lifecycleVars

(* The inductive invariant: a project being purged waits for its deletion, *)
(* and one worker alone holds it; calls of create_project that are not     *)
(* over have no row; while put_job holds the simulation, its row stays.    *)
PurgeHoldsItsProject ==
  \A w \in Purgers : purge[w].project # NoProject =>
    /\ project[purge[w].project] = "pending_delete"
    /\ \A v \in Purgers : purge[v].project = purge[w].project => v = w

RowsComeLast ==
  \A p \in Projects : create[p] # "done" => project[p] = "absent"

RequestsKnowTheirProject ==
  \A c \in Clients :
    /\ request[c].pc # "idle" => request[c].project \in Projects
    /\ request[c].pc = "checked" => Exists(request[c].project)

LifecycleInv ==
  /\ PurgeHoldsItsProject
  /\ RequestsKnowTheirProject
  /\ RowsComeLast
  /\ \A o \in objects : o[2] \in Files[o[1]]
  /\ NoOrphans
  /\ OneProjectPerKey
  /\ BytesWithinQuota
=============================================================================
