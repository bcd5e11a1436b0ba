--------------------------- MODULE ApplicationProofs ---------------------------
(***************************************************************************)
(* Proofs about two parts of the application (src/backend/app): the life   *)
(* of projects and their documents, and the bridge that puts evidence into *)
(* a graph.                                                                *)
(*                                                                         *)
(* ProjectLifecycle, for any number of projects, documents, requests and   *)
(* purging workers, with all faults: the inductive invariant, the quota,   *)
(* one project per key, no orphaned objects, and documents that stay while *)
(* their project does.                                                     *)
(*                                                                         *)
(* OasisSync, for any number of executions, of calls of batch.add and of   *)
(* versions of the evidence: messages and items as sequences; then what a  *)
(* call of the bridge does to the bridge, and that what is known of graphs *)
(* and batches only grows; then each action, and the theorems.             *)
(***************************************************************************)
EXTENDS ProjectLifecycle, OasisSync, FiniteSetTheorems, TLAPS

USE LifecycleAssumption

LEMMA TypeInit == LifecycleInit => LifecycleTypeOK
  BY DEF LifecycleInit, LifecycleTypeOK, NoRequest, NoPurge, Request, Purge, ProjectStatus, CreatePC

(* A call of create_project keeps the types. *)
LEMMA TypeCreate ==
  ASSUME LifecycleTypeOK, LifecycleInv, NEW p \in Projects, CreateStep(p)
  PROVE  LifecycleTypeOK'
<1> USE DEF LifecycleTypeOK, Creates, CreatePC
<1>1. CASE CreateBegins(p)
  BY <1>1 DEF CreateBegins
<1>2. ASSUME NEW d \in Documents, SavesDocument(p, d) PROVE LifecycleTypeOK'
  BY <1>2 DEF SavesDocument
<1>3. ASSUME NEW d \in Documents, UndoesDocument(p, d) PROVE LifecycleTypeOK'
  BY <1>3 DEF UndoesDocument
<1>4. CASE BundleCommits(p)
  BY <1>4 DEF BundleCommits, ProjectStatus
<1>5. CASE BundleRefused(p)
  BY <1>5 DEF BundleRefused
<1>6. CASE CreateFails(p)
  BY <1>6 DEF CreateFails
<1>7. CASE UndoEnds(p)
  BY <1>7 DEF UndoEnds
<1>8. CASE CreateDies(p)
  BY <1>8 DEF CreateDies
<1>9. QED
  BY <1>1, <1>2, <1>3, <1>4, <1>5, <1>6, <1>7, <1>8 DEF CreateStep

(* So does a request; a job is inserted under the lock of its simulation.  *)
LEMMA TypeRequest ==
  ASSUME LifecycleTypeOK, LifecycleInv, NEW c \in Clients, RequestStep(c)
  PROVE  LifecycleTypeOK'
<1> USE DEF LifecycleTypeOK, Request, NoRequest, ProjectStatus
<1>1. ASSUME NEW p \in Projects, NEW status \in ProjectStatus, ChangeCounts(c, p, status)
      PROVE  LifecycleTypeOK'
  BY <1>1 DEF ChangeCounts
<1>2. CASE ChangeUpdates(c)
  <2>1. request[c].status \in ProjectStatus /\ request' \in [Clients -> Request]
    BY <1>2 DEF ChangeUpdates
  <2>2. /\ project' \in [Projects -> ProjectStatus \cup {"absent", "purged"}]
        /\ due' \in [Projects -> BOOLEAN]
        /\ \A p \in Projects : project[p] \in ProjectStatus => project'[p] \in ProjectStatus
    BY <1>2, <2>1 DEF ChangeUpdates
  <2>3. QED
    BY <1>2, <2>1, <2>2 DEF ChangeUpdates
<1>3. ASSUME NEW p \in Projects, StartChecks(c, p) PROVE LifecycleTypeOK'
  BY <1>3 DEF StartChecks
<1>4. CASE StartInserts(c)
  BY <1>4 DEF StartInserts, LifecycleInv, RequestsKnowTheirProject, Exists
<1>5. QED
  BY <1>1, <1>2, <1>3, <1>4 DEF RequestStep

(* So does a worker that purges. *)
LEMMA TypePurge ==
  ASSUME LifecycleTypeOK, NEW w \in Purgers, PurgeStep(w)
  PROVE  LifecycleTypeOK'
<1> USE DEF LifecycleTypeOK, Purge, NoPurge
<1>1. CASE PurgeLists(w)
  BY <1>1 DEF PurgeLists
<1>2. ASSUME NEW p \in Projects, PurgeLocks(w, p) PROVE LifecycleTypeOK'
  BY <1>2 DEF PurgeLocks
<1>3. ASSUME NEW d \in Documents, PurgeDeletes(w, d) PROVE LifecycleTypeOK'
  BY <1>3 DEF PurgeDeletes
<1>4. CASE PurgeCommits(w)
  BY <1>4 DEF PurgeCommits, ProjectStatus
<1>5. CASE PurgeFails(w)
  BY <1>5 DEF PurgeFails
<1>6. QED
  BY <1>1, <1>2, <1>3, <1>4, <1>5 DEF PurgeStep

LEMMA TypeStep ==
  ASSUME LifecycleTypeOK, LifecycleInv, [LifecycleNext]_lifecycleVars
  PROVE  LifecycleTypeOK'
<1>1. ASSUME NEW p \in Projects, JobEnds(p) PROVE LifecycleTypeOK'
  BY <1>1 DEF JobEnds, LifecycleTypeOK
<1>2. ASSUME NEW p \in Projects, TimePasses(p) PROVE LifecycleTypeOK'
  BY <1>2 DEF TimePasses, LifecycleTypeOK
<1>3. CASE UNCHANGED lifecycleVars
  BY <1>3 DEF lifecycleVars, LifecycleTypeOK
<1>4. QED
  BY <1>1, <1>2, <1>3, TypeCreate, TypeRequest, TypePurge DEF LifecycleNext

-----------------------------------------------------------------------------
(* How the rows move: a step makes at most one row, by committing a bundle; *)
(* it removes one only by committing a purge; else rows change from one     *)
(* status of an existing project to another, and not while they are locked. *)
RowMade(p) == BundleCommits(p)
RowGone(p) == \E w \in Purgers : purge[w].project = p /\ PurgeCommits(w)

LEMMA RowMoves ==
  ASSUME LifecycleTypeOK, LifecycleInv, [LifecycleNext]_lifecycleVars, NEW p \in Projects
  PROVE  \/ project'[p] = project[p]
         \/ RowMade(p) /\ project[p] = "absent" /\ project'[p] = "active"
         \/ RowGone(p) /\ project'[p] = "purged"
         \/ Exists(p) /\ Exists(p)' /\ ~Locked(p)
<1> DEFINE Moved == \/ project'[p] = project[p]
                    \/ RowMade(p) /\ project[p] = "absent" /\ project'[p] = "active"
                    \/ RowGone(p) /\ project'[p] = "purged"
                    \/ Exists(p) /\ Exists(p)' /\ ~Locked(p)
<1> USE DEF LifecycleTypeOK
<1>1. ASSUME NEW q \in Projects, BundleCommits(q) PROVE Moved
  <2>1. project[q] = "absent"
    BY <1>1 DEF BundleCommits, LifecycleInv, RowsComeLast
  <2>2. QED
    BY <1>1, <2>1 DEF BundleCommits, RowMade
<1>2. ASSUME NEW q \in Projects, CreateStep(q), ~BundleCommits(q) PROVE UNCHANGED project
  BY <1>2 DEF CreateStep, CreateBegins, SavesDocument, UndoesDocument, BundleRefused,
              CreateFails, UndoEnds, CreateDies
<1>3. ASSUME NEW c \in Clients, ChangeUpdates(c) PROVE Moved
  <2>1. CASE request[c].project # p
    BY <1>3, <2>1 DEF ChangeUpdates
  <2>2. CASE request[c].project = p
    <3>1. request[c].status \in ProjectStatus
      BY DEF Request
    <3>2. ~Locked(p)
      BY <1>3, <2>2 DEF ChangeUpdates
    <3>3. CASE project[p] \in SourceStatuses(request[c].status)
      <4>1. Exists(p)
        BY <3>1, <3>3 DEF SourceStatuses, ProjectStatus, Exists
      <4>2. Exists(p)'
        BY <1>3, <2>2, <3>1, <3>3 DEF ChangeUpdates, Exists
      <4>3. QED
        BY <3>2, <4>1, <4>2
    <3>4. CASE project[p] \notin SourceStatuses(request[c].status)
      BY <1>3, <2>2, <3>4 DEF ChangeUpdates
    <3>5. QED
      BY <3>3, <3>4
  <2>3. QED
    BY <2>1, <2>2
<1>4. ASSUME NEW c \in Clients, RequestStep(c), ~ChangeUpdates(c) PROVE UNCHANGED project
  BY <1>4 DEF RequestStep, ChangeCounts, StartChecks, StartInserts
<1>5. ASSUME NEW w \in Purgers, PurgeCommits(w) PROVE Moved
  BY <1>5 DEF PurgeCommits, RowGone
<1>6. ASSUME NEW w \in Purgers, PurgeStep(w), ~PurgeCommits(w) PROVE UNCHANGED project
  BY <1>6 DEF PurgeStep, PurgeLists, PurgeLocks, PurgeDeletes, PurgeFails
<1>7. ASSUME NEW q \in Projects, JobEnds(q) \/ TimePasses(q) PROVE UNCHANGED project
  BY <1>7 DEF JobEnds, TimePasses
<1>8. CASE UNCHANGED lifecycleVars
  BY <1>8 DEF lifecycleVars
<1> HIDE DEF LifecycleTypeOK
<1>9. QED
  BY <1>1, <1>2, <1>3, <1>4, <1>5, <1>6, <1>7, <1>8 DEF LifecycleNext

(* Only the call itself commits its bundle, and then it is over. *)
LEMMA CreateMoves ==
  ASSUME LifecycleTypeOK, [LifecycleNext]_lifecycleVars, NEW p \in Projects
  PROVE  \/ create'[p] = create[p] /\ ~RowMade(p)
         \/ CreateStep(p)
  BY DEF LifecycleTypeOK, LifecycleNext, lifecycleVars, CreateStep, CreateBegins,
         SavesDocument, UndoesDocument, BundleCommits, BundleRefused, CreateFails,
         UndoEnds, CreateDies, Creates, RequestStep, ChangeCounts, ChangeUpdates,
         StartChecks, StartInserts, PurgeStep, PurgeLists, PurgeLocks, PurgeDeletes,
         PurgeCommits, PurgeFails, JobEnds, TimePasses, RowMade, CreatePC

-----------------------------------------------------------------------------
(* The parts of the inductive invariant *)

LEMMA InvInit == LifecycleInit => LifecycleInv
<1> SUFFICES ASSUME LifecycleInit PROVE LifecycleInv
  OBVIOUS
<1>1. DocumentRows = {}
  BY DEF LifecycleInit, DocumentRows, Exists, ProjectStatus
<1>2. BytesWithinQuota
  BY <1>1, FS_EmptySet DEF BytesWithinQuota
<1>3. QED
  BY <1>2 DEF LifecycleInit, LifecycleInv, PurgeHoldsItsProject, RequestsKnowTheirProject,
              RowsComeLast, NoOrphans, OneProjectPerKey, Exists, ProjectStatus, NoRequest, NoPurge

(* A worker gets the lock of a row nobody holds and that is still due; a   *)
(* held row does not move, except by the commit that ends the purge.       *)
LEMMA LockStep ==
  ASSUME LifecycleTypeOK, LifecycleInv, [LifecycleNext]_lifecycleVars
  PROVE  PurgeHoldsItsProject'
<1> USE DEF LifecycleTypeOK, PurgeHoldsItsProject
<1>1. ASSUME NEW w \in Purgers, NEW p \in Projects, PurgeLocks(w, p)
      PROVE  PurgeHoldsItsProject'
  <2>1. purge'[w].project = IF StillDue(p) THEN p ELSE NoProject
    BY <1>1 DEF PurgeLocks, Purge
  <2>2. \A v \in Purgers : purge[v].project # p
    BY <1>1 DEF PurgeLocks, Locked
  <2>3. \A v \in Purgers \ {w} : purge'[v] = purge[v]
    BY <1>1 DEF PurgeLocks
  <2>4. QED
    BY <1>1, <2>1, <2>2, <2>3 DEF PurgeLocks, StillDue, Due, LifecycleInv
<1>2. ASSUME NEW w \in Purgers, PurgeCommits(w) PROVE PurgeHoldsItsProject'
  <2>1. purge'[w].project = NoProject /\ \A v \in Purgers \ {w} : purge'[v] = purge[v]
    BY <1>2 DEF PurgeCommits, Purge
  <2>2. \A v \in Purgers \ {w} : purge[v].project # NoProject =>
          purge[v].project # purge[w].project
    BY <1>2 DEF LifecycleInv
  <2>3. QED
    BY <1>2, <2>1, <2>2 DEF PurgeCommits, LifecycleInv, Purge
<1>3. ASSUME NEW w \in Purgers, PurgeLists(w) \/ PurgeFails(w) PROVE PurgeHoldsItsProject'
  <2>1. purge'[w].project = NoProject /\ \A v \in Purgers \ {w} : purge'[v] = purge[v]
    BY <1>3 DEF PurgeLists, PurgeFails, Purge, NoPurge
  <2>2. UNCHANGED project
    BY <1>3 DEF PurgeLists, PurgeFails
  <2>3. QED
    BY <2>1, <2>2 DEF LifecycleInv
<1>4. CASE UNCHANGED purge /\ \A w \in Purgers : ~PurgeCommits(w)
  <2>1. ASSUME NEW w \in Purgers, purge[w].project # NoProject
        PROVE  project'[purge[w].project] = "pending_delete"
    <3> DEFINE p == purge[w].project
    <3>1. p \in Projects /\ project[p] = "pending_delete" /\ Locked(p)
      BY <2>1 DEF LifecycleInv, Purge, Locked
    <3>2. QED
      BY <1>4, <3>1, RowMoves DEF RowGone
  <2>2. QED
    BY <1>4, <2>1 DEF LifecycleInv
<1>5. \/ UNCHANGED purge /\ \A w \in Purgers : ~PurgeCommits(w)
      \/ \E w \in Purgers : PurgeLists(w) \/ PurgeFails(w) \/ PurgeCommits(w)
      \/ \E w \in Purgers, p \in Projects : PurgeLocks(w, p)
  BY DEF LifecycleNext, lifecycleVars, CreateStep, CreateBegins,
         SavesDocument, UndoesDocument, BundleCommits, BundleRefused, CreateFails,
         UndoEnds, CreateDies, RequestStep, ChangeCounts, ChangeUpdates,
         StartChecks, StartInserts, PurgeStep, PurgeDeletes, JobEnds, TimePasses
<1>6. QED
  BY <1>1, <1>2, <1>3, <1>4, <1>5

(* While put_job holds the simulation its project's row is not removed.    *)
LEMMA RequestsKnowStep ==
  ASSUME LifecycleTypeOK, LifecycleInv, [LifecycleNext]_lifecycleVars
  PROVE  RequestsKnowTheirProject'
<1> USE DEF LifecycleTypeOK
<1>1. ASSUME NEW c \in Clients
      PROVE  \/ request'[c] = request[c]
             \/ RequestStep(c)
  BY DEF LifecycleNext, lifecycleVars, CreateStep, CreateBegins,
         SavesDocument, UndoesDocument, BundleCommits, BundleRefused, CreateFails,
         UndoEnds, CreateDies, RequestStep, ChangeCounts, ChangeUpdates,
         StartChecks, StartInserts, PurgeStep, PurgeLists, PurgeLocks, PurgeDeletes,
         PurgeCommits, PurgeFails, JobEnds, TimePasses
<1>2. ASSUME NEW c \in Clients, RequestStep(c)
      PROVE  /\ request'[c].pc # "idle" => request'[c].project \in Projects
             /\ request'[c].pc = "checked" => project'[request'[c].project] \in ProjectStatus
  <2>1. ASSUME NEW q \in Projects, NEW status \in ProjectStatus, ChangeCounts(c, q, status)
        PROVE  request'[c].pc = "counted" /\ request'[c].project = q
    BY <2>1 DEF ChangeCounts
  <2>2. CASE ChangeUpdates(c) \/ StartInserts(c)
    BY <2>2 DEF ChangeUpdates, StartInserts, NoRequest
  <2>3. ASSUME NEW q \in Projects, StartChecks(c, q)
        PROVE  request'[c].project = q /\ project'[q] = "active"
    BY <2>3 DEF StartChecks, NoRequest
  <2>4. QED
    BY <1>2, <2>1, <2>2, <2>3 DEF RequestStep, ProjectStatus
<1>3. ASSUME NEW c \in Clients, request'[c] = request[c]
      PROVE  /\ request'[c].pc # "idle" => request'[c].project \in Projects
             /\ request'[c].pc = "checked" => project'[request'[c].project] \in ProjectStatus
  <2>1. request[c].pc # "idle" => request[c].project \in Projects
    BY DEF LifecycleInv, RequestsKnowTheirProject
  <2>2. ASSUME request[c].pc = "checked", NEW p \in Projects, p = request[c].project
        PROVE  project'[p] \in ProjectStatus
    <3>1. project[p] \in ProjectStatus /\ Starting(p)
      BY <2>2 DEF LifecycleInv, RequestsKnowTheirProject, Starting, Exists
    <3>2. ~RowGone(p)
      BY <3>1 DEF RowGone, PurgeCommits
    <3>3. QED
      BY <3>1, <3>2, RowMoves DEF Exists, ProjectStatus
  <2>3. QED
    BY <1>3, <2>1, <2>2
<1>4. QED
  BY <1>1, <1>2, <1>3 DEF RequestsKnowTheirProject, Exists

(* Every row that exists is of a call that is done. *)
LEMMA RowsComeLastStep ==
  ASSUME LifecycleTypeOK, LifecycleInv, [LifecycleNext]_lifecycleVars
  PROVE  RowsComeLast'
<1> SUFFICES ASSUME NEW p \in Projects, create'[p] # "done" PROVE project'[p] = "absent"
  BY DEF RowsComeLast
<1>1. create[p] # "done" /\ ~RowMade(p)
  BY CreateMoves DEF LifecycleTypeOK, CreateStep, CreateBegins, SavesDocument, UndoesDocument,
     BundleCommits, BundleRefused, CreateFails, UndoEnds, CreateDies, Creates, RowMade
<1>2. project[p] = "absent"
  BY <1>1 DEF LifecycleInv, RowsComeLast
<1>3. ~RowGone(p)
  BY <1>2 DEF RowGone, LifecycleInv, PurgeHoldsItsProject, PurgeCommits
<1>4. QED
  BY <1>1, <1>2, <1>3, RowMoves DEF Exists, ProjectStatus

(* How the store moves: a call saves files of its own, and deletes only     *)
(* while it undoes; a purge deletes objects of the row it holds.           *)
LEMMA ObjectsMove ==
  ASSUME LifecycleTypeOK, [LifecycleNext]_lifecycleVars, NEW o \in Projects \X Documents
  PROVE  \/ o \in objects' <=> o \in objects
         \/ o \in objects' /\ o[2] \in Files[o[1]] /\ create[o[1]] = "saving" /\ UNCHANGED create
         \/ o \notin objects' /\ create[o[1]] = "undoing"
         \/ o \notin objects' /\ \E w \in Purgers : purge[w].project = o[1]
<1>1. ASSUME NEW p \in Projects, NEW d \in Documents, SavesDocument(p, d)
      PROVE  \/ o \in objects' <=> o \in objects
             \/ o \in objects' /\ o[2] \in Files[o[1]] /\ create[o[1]] = "saving" /\ UNCHANGED create
  BY <1>1 DEF SavesDocument
<1>2. ASSUME NEW p \in Projects, NEW d \in Documents, UndoesDocument(p, d)
      PROVE  \/ o \in objects' <=> o \in objects
             \/ o \notin objects' /\ create[o[1]] = "undoing"
  BY <1>2 DEF UndoesDocument
<1>3. ASSUME NEW w \in Purgers, NEW d \in Documents, PurgeDeletes(w, d)
      PROVE  \/ o \in objects' <=> o \in objects
             \/ o \notin objects' /\ purge[w].project = o[1]
  BY <1>3 DEF PurgeDeletes
<1>4. \/ UNCHANGED objects
      \/ \E p \in Projects, d \in Documents : SavesDocument(p, d) \/ UndoesDocument(p, d)
      \/ \E w \in Purgers, d \in Documents : PurgeDeletes(w, d)
  BY DEF LifecycleNext, lifecycleVars, CreateStep, CreateBegins, BundleCommits, BundleRefused,
         CreateFails, UndoEnds, CreateDies, RequestStep, ChangeCounts, ChangeUpdates,
         StartChecks, StartInserts, PurgeStep, PurgeLists, PurgeLocks,
         PurgeCommits, PurgeFails, JobEnds, TimePasses
<1>5. QED
  BY <1>1, <1>2, <1>3, <1>4

(* An object comes from a call that goes on to make its row, or undoes, or *)
(* dies; the row goes only when its objects are gone.                      *)
LEMMA OrphanStep ==
  ASSUME LifecycleTypeOK, LifecycleInv, [LifecycleNext]_lifecycleVars
  PROVE  (\A o \in objects : o[2] \in Files[o[1]])' /\ NoOrphans'
<1> SUFFICES ASSUME NEW o \in Projects \X Documents, o \in objects'
             PROVE  /\ o[2] \in Files[o[1]]
                    /\ \/ project'[o[1]] \in ProjectStatus
                       \/ create'[o[1]] \in {"saving", "undoing", "dead"}
  BY TypeStep DEF LifecycleTypeOK, NoOrphans, Exists
<1> DEFINE p == o[1]
<1>1. p \in Projects /\ o[2] \in Documents /\ o = <<p, o[2]>>
  OBVIOUS
<1>2. CASE o \notin objects
  BY <1>1, <1>2, ObjectsMove
<1>3. CASE o \in objects
  <2>1. o[2] \in Files[p] /\ o \in objects \cap ObjectsOf(p)
    BY <1>1, <1>3 DEF LifecycleInv, ObjectsOf
  <2>2. CASE project[p] \in ProjectStatus
    <3>1. ~RowGone(p)
      BY <2>1 DEF RowGone, PurgeCommits, AllDeleted
    <3>2. project'[p] \in ProjectStatus
      BY <1>1, <2>2, <3>1, RowMoves DEF Exists, ProjectStatus
    <3>3. QED
      BY <2>1, <3>2
  <2>3. CASE create[p] \in {"saving", "undoing", "dead"}
    <3>1. CASE create'[p] = create[p]
      BY <2>1, <2>3, <3>1
    <3>2. CASE CreateStep(p)
      BY <1>1, <2>1, <2>3, <3>2
         DEF LifecycleTypeOK, CreateStep, CreateBegins, SavesDocument, UndoesDocument,
             BundleCommits, BundleRefused, CreateFails, UndoEnds, CreateDies, Creates, ProjectStatus
    <3>3. QED
      BY <1>1, <3>1, <3>2, CreateMoves
  <2>4. QED
    BY <1>3, <2>2, <2>3 DEF LifecycleInv, NoOrphans, Exists
<1>4. QED
  BY <1>2, <1>3

(* A step makes one row at most. *)
LEMMA OneRowMade ==
  ASSUME LifecycleTypeOK, LifecycleInv, [LifecycleNext]_lifecycleVars,
         NEW p \in Projects, RowMade(p), NEW q \in Projects \ {p}
  PROVE  project'[q] = project[q]
  BY DEF RowMade, BundleCommits, LifecycleTypeOK

LEMMA RowsStay ==
  ASSUME LifecycleTypeOK, LifecycleInv, [LifecycleNext]_lifecycleVars,
         NEW p \in Projects, Exists(p)', ~Exists(p)
  PROVE  RowMade(p)
  BY RowMoves DEF Exists, ProjectStatus, LifecycleTypeOK

(* The key is looked up in the transaction that takes it. *)
LEMMA KeyStep ==
  ASSUME LifecycleTypeOK, LifecycleInv, [LifecycleNext]_lifecycleVars
  PROVE  OneProjectPerKey'
<1> SUFFICES ASSUME NEW p \in Projects, NEW q \in Projects, Exists(p)', Exists(q)',
                    KeyOf[p] = KeyOf[q], KeyOf[p] # NoKey
             PROVE  p = q
  BY DEF OneProjectPerKey
<1>1. CASE Exists(p) /\ Exists(q)
  BY <1>1 DEF LifecycleInv, OneProjectPerKey
<1>2. ASSUME NEW a \in Projects, NEW b \in Projects, Exists(b)', ~Exists(a), Exists(a)',
             KeyOf[a] = KeyOf[b], KeyOf[a] # NoKey, a # b
      PROVE  FALSE
  <2>1. RowMade(a)
    BY <1>2, RowsStay
  <2>2. Exists(b)
    BY <1>2, <2>1, OneRowMade DEF Exists
  <2>3. QED
    BY <1>2, <2>1, <2>2 DEF RowMade, BundleCommits, KeyTaken
<1>3. QED
  BY <1>1, <1>2

LEMMA RowsAreFinite == IsFiniteSet(DocumentRows) /\ Cardinality(DocumentRows) \in Nat
<1>1. IsFiniteSet(Projects \X Documents)
  BY FS_Product
<1>2. DocumentRows \in SUBSET (Projects \X Documents)
  BY DEF DocumentRows
<1>3. IsFiniteSet(DocumentRows)
  BY <1>1, <1>2, FS_Subset
<1>4. QED
  BY <1>3, FS_CardinalityType

LEMMA FilesWeigh ==
  ASSUME NEW p \in Projects
  PROVE  /\ IsFiniteSet(ObjectsOf(p)) /\ Cardinality(ObjectsOf(p)) = Cardinality(Files[p])
         /\ Cardinality(Files[p]) \in Nat
<1>1. IsFiniteSet(Files[p]) /\ Cardinality(Files[p]) \in Nat
  BY FS_Subset, FS_CardinalityType
<1>2. IsFiniteSet({p}) /\ Cardinality({p}) = 1
  BY FS_Singleton
<1>3. IsFiniteSet(ObjectsOf(p)) /\ Cardinality(ObjectsOf(p)) = Cardinality({p}) * Cardinality(Files[p])
  BY <1>1, <1>2, FS_Product DEF ObjectsOf
<1>4. QED
  BY <1>1, <1>2, <1>3

(* A bundle adds the documents its transaction weighed; nothing else adds. *)
LEMMA QuotaStep ==
  ASSUME LifecycleTypeOK, LifecycleInv, [LifecycleNext]_lifecycleVars
  PROVE  BytesWithinQuota'
<1>1. CASE \A p \in Projects : ~RowMade(p)
  <2>1. \A p \in Projects : Exists(p)' => Exists(p)
    BY <1>1, RowsStay
  <2>2. DocumentRows' \in SUBSET DocumentRows
    BY <2>1 DEF DocumentRows
  <2>3. Cardinality(DocumentRows') <= Cardinality(DocumentRows)
    BY <2>2, RowsAreFinite, FS_Subset
  <2>4. Cardinality(DocumentRows') \in Nat
    BY <2>2, RowsAreFinite, FS_Subset, FS_CardinalityType
  <2>5. QED
    BY <2>3, <2>4, RowsAreFinite DEF LifecycleInv, BytesWithinQuota
<1>2. ASSUME NEW p \in Projects, RowMade(p) PROVE BytesWithinQuota'
  <2>1. \A q \in Projects : Exists(q)' => Exists(q) \/ q = p
    BY <1>2, OneRowMade DEF Exists
  <2>2. DocumentRows' \in SUBSET (DocumentRows \cup ObjectsOf(p))
    BY <2>1 DEF DocumentRows, ObjectsOf
  <2>3. /\ IsFiniteSet(DocumentRows \cup ObjectsOf(p))
        /\ Cardinality(DocumentRows \cup ObjectsOf(p))
             = Cardinality(DocumentRows) + Cardinality(ObjectsOf(p))
               - Cardinality(DocumentRows \cap ObjectsOf(p))
    BY RowsAreFinite, FilesWeigh, FS_Union
  <2>4. Cardinality(DocumentRows \cap ObjectsOf(p)) \in Nat
    <3>1. DocumentRows \cap ObjectsOf(p) \in SUBSET DocumentRows
      OBVIOUS
    <3>2. QED
      BY <3>1, RowsAreFinite, FS_Subset, FS_CardinalityType
  <2>5. /\ Cardinality(DocumentRows') <= Cardinality(DocumentRows \cup ObjectsOf(p))
        /\ Cardinality(DocumentRows') \in Nat
    BY <2>2, <2>3, FS_Subset, FS_CardinalityType
  <2>6. Cardinality(DocumentRows) + Cardinality(Files[p]) <= MaxBytes
    BY <1>2 DEF RowMade, BundleCommits, WithinQuota
  <2>7. QED
    BY <2>3, <2>4, <2>5, <2>6, RowsAreFinite, FilesWeigh DEF BytesWithinQuota
<1>3. QED
  BY <1>1, <1>2

LEMMA InvStep ==
  ASSUME LifecycleTypeOK, LifecycleInv, [LifecycleNext]_lifecycleVars
  PROVE  LifecycleInv'
  BY LockStep, RequestsKnowStep, RowsComeLastStep, OrphanStep, KeyStep, QuotaStep
     DEF LifecycleInv

-----------------------------------------------------------------------------
(* The theorems *)

LEMMA AllHolds == LifecycleSpec => [](LifecycleTypeOK /\ LifecycleInv)
<1>1. LifecycleInit => LifecycleTypeOK /\ LifecycleInv
  BY TypeInit, InvInit
<1>2. LifecycleTypeOK /\ LifecycleInv /\ [LifecycleNext]_lifecycleVars
        => LifecycleTypeOK' /\ LifecycleInv'
  BY TypeStep, InvStep
<1>3. QED
  BY <1>1, <1>2, PTL DEF LifecycleSpec

(* The types and foreign keys of the tables and of the calls in progress.  *)
THEOREM LifecycleTypeCorrect == LifecycleSpec => []LifecycleTypeOK
  BY AllHolds, PTL

(* The inductive invariant of create, archive, restore and purge. *)
THEOREM LifecycleInvHolds == LifecycleSpec => []LifecycleInv
  BY AllHolds, PTL

(* No interleaving of creations, restores and purges exceeds the quota on  *)
(* stored documents.                                                       *)
THEOREM QuotaHolds == LifecycleSpec => []BytesWithinQuota
<1>1. LifecycleInv => BytesWithinQuota
  BY DEF LifecycleInv
<1>2. QED
  BY <1>1, LifecycleInvHolds, PTL

(* Overlapping calls with one idempotency key leave one project. *)
THEOREM KeysAreUnique == LifecycleSpec => []OneProjectPerKey
<1>1. LifecycleInv => OneProjectPerKey
  BY DEF LifecycleInv
<1>2. QED
  BY <1>1, LifecycleInvHolds, PTL

(* Only a call that died leaves objects without a row. *)
THEOREM OrphansAreOfDeadCalls == LifecycleSpec => []NoOrphans
<1>1. LifecycleInv => NoOrphans
  BY DEF LifecycleInv
<1>2. QED
  BY <1>1, LifecycleInvHolds, PTL

(* A step that deletes an object deletes none of a project that is active  *)
(* or archived, however old the worker's list of due projects is.          *)
THEOREM DocumentsAreKept == LifecycleSpec => DocumentsStay
<1>1. LifecycleTypeOK /\ LifecycleInv /\ [LifecycleNext]_lifecycleVars
        => [\A o \in objects \ objects' : project[o[1]] \notin {"active", "archived"}]_lifecycleVars
  <2> SUFFICES ASSUME LifecycleTypeOK, LifecycleInv, [LifecycleNext]_lifecycleVars,
                      NEW o \in objects, o \notin objects'
               PROVE  project[o[1]] \notin {"active", "archived"}
    OBVIOUS
  <2>1. o \in Projects \X Documents
    BY DEF LifecycleTypeOK
  <2>2. create[o[1]] = "undoing" \/ \E w \in Purgers : purge[w].project = o[1]
    BY <2>1, ObjectsMove
  <2>3. QED
    BY <2>1, <2>2 DEF LifecycleInv, RowsComeLast, PurgeHoldsItsProject
<1>2. QED
  BY <1>1, AllHolds, PTL DEF LifecycleSpec, DocumentsStay

HIDE LifecycleAssumption

-----------------------------------------------------------------------------
(***************************************************************************)
(* The bridge: OasisSync                                                   *)
(***************************************************************************)
USE SyncAssumption

-----------------------------------------------------------------------------
(* Messages *)

Elems(s) == {s[i] : i \in 1..Len(s)}

LEMMA NothingTold == Elems(<<>>) = {}
BY DEF Elems

LEMMA TellsOne ==
  ASSUME NEW m
  PROVE  Elems(<<m>>) = {m}
BY DEF Elems

LEMMA TellsTwo ==
  ASSUME NEW m, NEW n
  PROVE  Elems(<<m, n>>) = {m, n}
<1>1. Len(<<m, n>>) = 2 /\ 1..2 = {1, 2} /\ <<m, n>>[1] = m /\ <<m, n>>[2] = n
  OBVIOUS
<1>2. QED
  BY <1>1 DEF Elems

LEMMA TellsMore ==
  ASSUME NEW s \in Seq(Message), NEW t \in Seq(Message)
  PROVE  /\ s \o t \in Seq(Message) /\ Len(s \o t) = Len(s) + Len(t)
         /\ Elems(s \o t) \subseteq Elems(s) \cup Elems(t)
<1>1. s \o t \in Seq(Message) /\ Len(s \o t) = Len(s) + Len(t)
  OBVIOUS
<1>2. ASSUME NEW i \in 1..Len(s \o t)
      PROVE  (s \o t)[i] \in Elems(s) \cup Elems(t)
  <2>1. CASE i <= Len(s)
    <3>1. i \in 1..Len(s) /\ (s \o t)[i] = s[i]
      BY <2>1
    <3>2. QED
      BY <3>1 DEF Elems
  <2>2. CASE i > Len(s)
    <3>1. i - Len(s) \in 1..Len(t) /\ (s \o t)[i] = t[i - Len(s)]
      BY <1>1, <2>2
    <3>2. QED
      BY <3>1 DEF Elems
  <2>3. QED
    BY <1>1, <2>1, <2>2
<1>3. QED
  BY <1>1, <1>2 DEF Elems

LEMMA TellsFirst ==
  ASSUME NEW s \in Seq(Message), s # <<>>
  PROVE  /\ Head(s) \in Elems(s) /\ Head(s) \in Message
         /\ Tail(s) \in Seq(Message) /\ Len(Tail(s)) = Len(s) - 1 /\ Len(s) \in Nat
         /\ Elems(Tail(s)) \subseteq Elems(s)
<1>1. /\ Len(s) \in Nat /\ Len(s) >= 1 /\ Head(s) = s[1] /\ s[1] \in Message
      /\ Tail(s) \in Seq(Message) /\ Len(Tail(s)) = Len(s) - 1
  OBVIOUS
<1>2. \A i \in 1..Len(Tail(s)) : i + 1 \in 1..Len(s) /\ Tail(s)[i] = s[i + 1]
  BY <1>1
<1>3. Head(s) \in Elems(s)
  <2>1. 1 \in 1..Len(s)
    BY <1>1
  <2>2. QED
    BY <1>1, <2>1 DEF Elems
<1>4. Elems(Tail(s)) \subseteq Elems(s)
  BY <1>2 DEF Elems
<1>5. QED
  BY <1>1, <1>3, <1>4

LEMMA Milestones ==
  ASSUME NEW early \in BOOLEAN, NEW batch \in Ids
  PROVE  /\ Milestone(early, batch) \in Message
         /\ Milestone(early, batch).sync.batch = batch
         /\ Milestone(early, batch).kind = "milestone"
BY DEF Milestone, Message, Sync

LEMMA Answers ==
  /\ NoSync \in Sync /\ NoSync.batch = 0
  /\ Result \in Message /\ Result.sync.batch = 0 /\ Result.kind = "result"
  /\ Error \in Message /\ Error.sync.batch = 0 /\ Error.kind = "error"
BY DEF Result, Error, NoSync, Message, Sync, Ids

-----------------------------------------------------------------------------
(* The items of a batch *)

Items == Seq(1..Groups)

LEMMA UptoNone ==
  /\ <<>> \in Items /\ Upto(0) = <<>> /\ Full(<<>>, 0)
<1>1. <<>> \in Items /\ Len(<<>>) = 0
  BY DEF Items
<1>2. Upto(0) = <<>>
  BY DEF Upto
<1>3. QED
  BY <1>1, <1>2 DEF Full

LEMMA UptoMore ==
  ASSUME NEW k \in 1..Groups
  PROVE  /\ Upto(k - 1) \in Items /\ Len(Upto(k - 1)) = k - 1
         /\ Append(Upto(k - 1), k) = Upto(k)
<1>1. k - 1 \in Nat /\ k \in Nat /\ k - 1 + 1 = k
  OBVIOUS
<1>2. Upto(k - 1) \in Items /\ Len(Upto(k - 1)) = k - 1
  BY <1>1 DEF Upto, Items
<1>3. Upto(k) \in Items /\ Len(Upto(k)) = k
  BY <1>1 DEF Upto, Items
<1>4. Append(Upto(k - 1), k) \in Items /\ Len(Append(Upto(k - 1), k)) = k
  BY <1>1, <1>2 DEF Items
<1>5. ASSUME NEW i \in 1..k
      PROVE  Append(Upto(k - 1), k)[i] = i
  <2>1. CASE i = k
    BY <1>1, <1>2, <2>1 DEF Items
  <2>2. CASE i # k
    <3>1. i \in 1..(k - 1)
      BY <2>2
    <3>2. Append(Upto(k - 1), k)[i] = Upto(k - 1)[i]
      BY <1>2, <3>1 DEF Items
    <3>3. QED
      BY <3>1, <3>2 DEF Upto
  <2>3. QED
    BY <2>1, <2>2
<1>6. \A i \in 1..k : Upto(k)[i] = i
  BY DEF Upto
<1>7. QED
  BY <1>1, <1>2, <1>3, <1>4, <1>5, <1>6 DEF Items

(* Another group does not undo what is full, and the next one makes it     *)
(* full one further.                                                       *)
LEMMA FullStays ==
  ASSUME NEW s \in Items, NEW k \in Nat, NEW j \in 1..Groups, Full(s, k)
  PROVE  Append(s, j) \in Items /\ Full(Append(s, j), k)
<1>1. Append(s, j) \in Items /\ Len(Append(s, j)) = Len(s) + 1 /\ Len(s) \in Nat
  BY DEF Items
<1>2. QED
  BY <1>1 DEF Full

LEMMA FullNext ==
  ASSUME NEW s \in Items, NEW k \in 1..Groups, Full(s, k - 1)
  PROVE  Full(Append(s, k), k)
<1>1. Append(s, k) \in Items /\ Len(Append(s, k)) = Len(s) + 1 /\ Len(s) \in Nat
  BY DEF Items
<1>2. CASE Len(s) = k - 1
  <2>1. s = Upto(k - 1)
    BY <1>2 DEF Full
  <2>2. Append(s, k) = Upto(k) /\ Len(Append(s, k)) = k
    BY <1>1, <1>2, <2>1, UptoMore
  <2>3. QED
    BY <2>2 DEF Full
<1>3. CASE Len(s) # k - 1
  <2>1. Len(s) > k - 1
    BY <1>1, <1>3 DEF Full
  <2>2. Len(Append(s, k)) > k
    BY <1>1, <2>1
  <2>3. QED
    BY <2>2 DEF Full
<1>4. QED
  BY <1>2, <1>3

LEMMA UptoIsFull ==
  ASSUME NEW k \in Nat
  PROVE  Len(Upto(k)) = k /\ Full(Upto(k), k)
BY DEF Upto, Full

-----------------------------------------------------------------------------
(* Types *)

LEMMA Numbers ==
  /\ Groups \in Nat \ {0} /\ MaxAhead \in Nat /\ MaxExecs \in Nat
  /\ 0 \in Ids /\ Execs \subseteq Ids /\ Execs = Ids \ {0}
  /\ 1 \in 1..Groups /\ Groups \in 1..Groups
  /\ \A i \in Inputs : i.evidence \in Nat
BY DEF Ids, Execs

Calling == {"create", "ontology", "batch", "add", "process", "wait"}

LEMMA NewBridge ==
  /\ NoBridge \in Bridge /\ NoBridge.pc = "none" /\ NoBridge.batch = 0 /\ NoBridge.group = 1
  /\ NoBridge.out = <<>>
<1>1. <<>> \in Seq(Message)
  OBVIOUS
<1>2. QED
  BY <1>1, Numbers DEF NoBridge, Bridge

(* What a call of the bridge does to it, whoever is left to read: it goes  *)
(* on with the batch it has now, or ends.                                  *)
Continues(e, pc, batch, group, ms) ==
  /\ bridge' \in [Execs -> Bridge] /\ \A d \in Execs \ {e} : bridge'[d] = bridge[d]
  /\ bridge'[e].batch = batch /\ bridge'[e].pc \in {pc, "ended"}
  /\ bridge'[e].pc = "add" => bridge'[e].group = group
  /\ Len(bridge'[e].out) <= MaxAhead + 2
  /\ Told(e)' \subseteq Told(e) \cup Elems(ms)

LEMMA GoingOn ==
  ASSUME SyncTypeOK, NEW e \in Execs, NEW pc \in Calling \cup {"ended"}, NEW batch \in Ids,
         NEW group \in 1..Groups, NEW ms \in Seq(Message), Len(ms) <= 2,
         Len(bridge[e].out) <= MaxAhead, GoesOn(e, pc, batch, group, ms)
  PROVE  Continues(e, pc, batch, group, ms)
<1> DEFINE out == bridge[e].out
           n == IF pc = "add" THEN group ELSE 1
<1>1. /\ out \in Seq(Message) /\ Len(out) \in Nat /\ Len(ms) \in Nat /\ bridge[e] \in Bridge
      /\ bridge \in [Execs -> Bridge]
  BY DEF SyncTypeOK, Bridge
<1>2. n \in 1..Groups /\ (pc = "add" => n = group)
  BY Numbers
<1>3. /\ out \o ms \in Seq(Message) /\ Len(out \o ms) = Len(out) + Len(ms)
      /\ Elems(out \o ms) \subseteq Elems(out) \cup Elems(ms)
  BY <1>1, TellsMore
<1>4. <<>> \in Seq(Message) /\ Len(<<>>) = 0 /\ Elems(<<>>) = {}
  BY NothingTold
<1>5. pc \in {"none", "create", "ontology", "batch", "add", "process", "wait", "ended"}
  BY DEF Calling
<1>6. Len(out \o ms) <= MaxAhead + 2 /\ 0 <= MaxAhead + 2
  BY <1>1, <1>3, Numbers
<1>7. Told(e) = Elems(out)
  BY DEF Told, Elems
<1> HIDE DEF n
<1>8. ASSUME NEW B \in Bridge, bridge' = [bridge EXCEPT ![e] = B],
             B.batch = batch, B.pc \in {pc, "ended"}, B.pc = "add" => B.group = group,
             Len(B.out) <= MaxAhead + 2, Elems(B.out) \subseteq Elems(out) \cup Elems(ms)
      PROVE  Continues(e, pc, batch, group, ms)
  <2>1. /\ bridge' \in [Execs -> Bridge] /\ \A d \in Execs \ {e} : bridge'[d] = bridge[d]
        /\ bridge'[e] = B
    BY <1>1, <1>8
  <2>2. Told(e)' = Elems(B.out)
    BY <2>1 DEF Told, Elems
  <2>3. QED
    BY <1>7, <1>8, <2>1, <2>2 DEF Continues
<1>9. CASE exec[e].pc = "call"
  <2> DEFINE B == [pc |-> pc, batch |-> batch, group |-> n, out |-> out \o ms]
  <2>1. /\ B \in Bridge
        /\ B.pc = pc /\ B.batch = batch /\ B.group = n /\ B.out = out \o ms
    BY <1>2, <1>3, <1>5 DEF Bridge
  <2>2. bridge' = [bridge EXCEPT ![e] = B]
    BY <1>9 DEF GoesOn, n
  <2> HIDE DEF B
  <2>3. QED
    BY <1>2, <1>3, <1>6, <1>8, <2>1, <2>2
<1>10. CASE exec[e].pc = "dead"
  <2> DEFINE B == [NoBridge EXCEPT !.pc = "ended", !.batch = batch]
  <2>1. B \in Bridge /\ B.pc = "ended" /\ B.batch = batch /\ B.out = <<>>
    BY NewBridge DEF Bridge, NoBridge
  <2>2. bridge' = [bridge EXCEPT ![e] = B]
    BY <1>10 DEF GoesOn
  <2> HIDE DEF B
  <2>3. QED
    BY <1>4, <1>6, <1>8, <2>1, <2>2
<1>11. CASE exec[e].pc \notin {"call", "dead"}
  <2> DEFINE B == [pc |-> pc, batch |-> batch, group |-> n, out |-> <<>>]
  <2>1. /\ B \in Bridge
        /\ B.pc = pc /\ B.batch = batch /\ B.group = n /\ B.out = <<>>
    BY <1>2, <1>4, <1>5 DEF Bridge
  <2>2. bridge' = [bridge EXCEPT ![e] = B]
    BY <1>11 DEF GoesOn, n
  <2> HIDE DEF B
  <2>3. QED
    BY <1>2, <1>4, <1>6, <1>8, <2>1, <2>2
<1>12. QED
  BY <1>9, <1>10, <1>11

(* It reports a failure, and keeps its batch.                              *)
LEMMA Failing ==
  ASSUME SyncTypeOK, NEW e \in Execs, Len(bridge[e].out) <= MaxAhead, Fails(e)
  PROVE  /\ bridge' \in [Execs -> Bridge] /\ \A d \in Execs \ {e} : bridge'[d] = bridge[d]
         /\ bridge'[e].batch = bridge[e].batch /\ bridge'[e].pc = "ended"
         /\ Len(bridge'[e].out) <= MaxAhead + 2
         /\ Told(e)' \subseteq Told(e) \cup {Error}
<1>1. bridge[e].batch \in Ids /\ bridge[e].group \in 1..Groups
  BY DEF SyncTypeOK, Bridge
<1>2. PICK batch \in Ids, group \in 1..Groups :
        batch = bridge[e].batch /\ group = bridge[e].group
  BY <1>1
<1>3. PICK ms \in Seq(Message) : ms = <<Error>> /\ Len(ms) <= 2 /\ Elems(ms) = {Error}
  <2>1. <<Error>> \in Seq(Message) /\ Len(<<Error>>) <= 2 /\ Elems(<<Error>>) = {Error}
    BY Answers, TellsOne
  <2>2. QED
    BY <2>1
<1>4. PICK pc \in Calling \cup {"ended"} : pc = "ended"
  OBVIOUS
<1>5. GoesOn(e, pc, batch, group, ms)
  BY <1>2, <1>3, <1>4 DEF Fails, GoesOn
<1>6. Continues(e, pc, batch, group, ms)
  BY <1>2, <1>3, <1>4, <1>5, GoingOn
<1>7. QED
  BY <1>2, <1>3, <1>4, <1>6 DEF Continues

-----------------------------------------------------------------------------
(* What is known only grows                                                *)

Grows ==
  /\ ReservedFor \subseteq ReservedFor'
  /\ BatchesFor \subseteq BatchesFor' /\ Ingested \subseteq Ingested'

LEMMA ReservationsGrow ==
  ASSUME \A d \in Execs : exec[d].pc # "idle" =>
           exec'[d].pc # "idle" /\ exec'[d].input = exec[d].input
  PROVE  ReservedFor \subseteq ReservedFor'
BY DEF ReservedFor, Evidence

LEMMA SameBatches ==
  ASSUME UNCHANGED batches
  PROVE  /\ BatchesFor' = BatchesFor /\ Ingested' = Ingested
         /\ \A b \in Execs : (HandedOver(b)' <=> HandedOver(b)) /\ (Complete(b)' <=> Complete(b))
<1>1. \A b \in Execs : (HandedOver(b)' <=> HandedOver(b)) /\ (Complete(b)' <=> Complete(b))
  BY DEF HandedOver, Complete
<1>2. BatchesFor' = BatchesFor
  BY DEF BatchesFor
<1>3. Ingested' = Ingested
  BY DEF Ingested, Complete
<1>4. QED
  BY <1>1, <1>2, <1>3

(* A batch stays what it was made for, a succeeded one is not touched, and *)
(* groups are only added.                                                  *)
Kept(b) ==
  batches[b].status # "none" =>
    /\ batches'[b].status # "none"
    /\ batches'[b].graph = batches[b].graph /\ batches'[b].input = batches[b].input
    /\ batches[b].status = "succeeded" => batches'[b] = batches[b]
    /\ \/ batches'[b].items = batches[b].items
       \/ \E j \in 1..Groups : batches'[b].items = Append(batches[b].items, j)

LEMMA KnownBatchesGrow ==
  ASSUME \A b \in Execs : Kept(b)
  PROVE  BatchesFor \subseteq BatchesFor' /\ Ingested \subseteq Ingested'
<1>1. BatchesFor \subseteq BatchesFor'
  BY DEF BatchesFor, Kept
<1>2. \A b \in Execs : batches[b].status = "succeeded" => batches'[b] = batches[b]
  BY DEF Kept
<1>3. \A b \in Execs :
        batches[b].status = "succeeded" /\ Complete(b) =>
          batches'[b].status = "succeeded" /\ Complete(b)'
  BY <1>2 DEF Complete
<1>4. Ingested \subseteq Ingested'
  BY <1>2, <1>3 DEF Ingested
<1>5. QED
  BY <1>1, <1>4

LEMMA RowKnows ==
  ASSUME Grows, MappingKnows, UNCHANGED mapping
  PROVE  MappingKnows'
BY DEF Grows, MappingKnows

LEMMA ExecStillKnows ==
  ASSUME Grows, NEW d \in Execs, ExecKnows(d), exec'[d] = exec[d]
  PROVE  ExecKnows(d)'
BY DEF Grows, ExecKnows, Evidence

LEMMA BridgeStillKnows ==
  ASSUME Grows, NEW d \in Execs, BridgeKnows(d), exec'[d] = exec[d], bridge'[d] = bridge[d],
         batches[d].status = "none" => batches'[d].status = "none"
  PROVE  BridgeKnows(d)'
<1>1. Told(d)' = Told(d)
  BY DEF Told
<1>2. QED
  BY <1>1 DEF Grows, BridgeKnows, Evidence

(* Groups added beside do not undo what a bridge has added.                *)
LEMMA StillAdded ==
  ASSUME SyncTypeOK, NEW d \in Execs, BridgeKnows(d), AddedInStep(d), \A b \in Execs : Kept(b),
         bridge'[d] = bridge[d]
  PROVE  AddedInStep(d)'
<1>1. CASE bridge[d].pc \in {"add", "process"}
  <2>1. PICK b \in Execs : b = bridge[d].batch /\ batches[b].status # "none"
    <3>1. <<bridge[d].batch, exec[d].graph, Evidence(d)>> \in BatchesFor
      BY <1>1 DEF BridgeKnows
    <3>2. QED
      BY <3>1 DEF BatchesFor
  <2>2. /\ batches[b].items \in Items
        /\ bridge[d].group \in 1..Groups /\ bridge[d].group - 1 \in Nat /\ Groups \in Nat
    BY DEF SyncTypeOK, Batch, Items, Bridge
  <2>3. \/ batches'[b].items = batches[b].items
        \/ \E j \in 1..Groups : batches'[b].items = Append(batches[b].items, j)
    BY <2>1 DEF Kept
  <2>4. \A k \in Nat : Full(batches[b].items, k) => Full(batches'[b].items, k)
    <3>1. PICK s \in Items : s = batches[b].items
      BY <2>2
    <3>2. PICK t : t = batches'[b].items
      OBVIOUS
    <3>3. \A k \in Nat : Full(s, k) => Full(t, k)
      BY <2>3, <3>1, <3>2, FullStays
    <3>4. QED
      BY <3>1, <3>2, <3>3 DEF Full
  <2>5. QED
    BY <1>1, <2>1, <2>2, <2>4 DEF AddedInStep
<1>2. CASE bridge[d].pc \notin {"add", "process"}
  BY <1>2 DEF AddedInStep
<1>3. QED
  BY <1>1, <1>2

LEMMA HandedOverStaysFull ==
  ASSUME SyncTypeOK, NEW b \in Execs, Kept(b), HandedOver(b), Full(batches[b].items, Groups)
  PROVE  Full(batches'[b].items, Groups)
<1>1. PICK s \in Items : s = batches[b].items
  BY DEF SyncTypeOK, Batch, Items
<1>2. PICK t : t = batches'[b].items
  OBVIOUS
<1>3. Full(s, Groups)
  BY <1>1 DEF Full
<1>4. t = s \/ \E j \in 1..Groups : t = Append(s, j)
  BY <1>1, <1>2 DEF Kept, HandedOver
<1>5. Full(t, Groups)
  BY <1>3, <1>4, FullStays, Numbers
<1>6. QED
  BY <1>2, <1>5 DEF Full

LEMMA AloneBefore ==
  ASSUME \A d \in Execs : bridge[d].batch # 0 => bridge'[d].batch = bridge[d].batch,
         NEW b \in Execs, Alone(b)'
  PROVE  Alone(b)
BY Numbers DEF Alone

(* A step that neither adds nor hands over.                                *)
LEMMA StillAddedOnce ==
  ASSUME NEW b \in Execs, AddedOnce(b), Alone(b)' => Alone(b),
         batches[b].status # "none", batches'[b].items = batches[b].items,
         HandedOver(b)' => HandedOver(b),
         bridge'[b].batch = b /\ bridge'[b].pc \in {"add", "process"} =>
           /\ bridge[b].batch = b /\ bridge'[b].pc = bridge[b].pc
           /\ bridge'[b].group = bridge[b].group
  PROVE  AddedOnce(b)'
<1>1. Complete(b)' <=> Complete(b)
  BY DEF Complete
<1>2. QED
  BY <1>1 DEF AddedOnce

-----------------------------------------------------------------------------
(* What remains to be shown of a step: of an execution, and of a bridge    *)

LEMMA OfExecutions ==
  ASSUME SyncTypeOK, SyncInv, NEW e \in Execs, UNCHANGED batches,
         \A d \in Execs \ {e} : exec'[d] = exec[d] /\ bridge'[d] = bridge[d],
         exec'[e].pc # "idle",
         exec[e].pc # "idle" => exec'[e].input = exec[e].input,
         batches[e].status # "none" =>
           exec'[e].graph = exec[e].graph /\ exec'[e].input = exec[e].input,
         \/ /\ bridge'[e].batch = bridge[e].batch /\ bridge'[e].group = bridge[e].group
            /\ bridge'[e].pc \in {bridge[e].pc, "ended"}
         \/ /\ bridge[e].batch = 0 /\ bridge'[e].batch = 0
            /\ bridge'[e].pc \in {"create", "ontology"},
         Grows => MappingKnows' /\ ExecKnows(e)' /\ BridgeKnows(e)'
  PROVE  SyncInv'
<1>1. Grows
  <2>1. \A d \in Execs : exec[d].pc # "idle" => exec'[d].pc # "idle" /\ exec'[d].input = exec[d].input
    OBVIOUS
  <2>2. QED
    BY <2>1, ReservationsGrow, SameBatches DEF Grows
<1>2. MappingKnows'
  BY <1>1
<1>3. ASSUME NEW d \in Execs
      PROVE  ExecKnows(d)' /\ BridgeKnows(d)'
  <2>1. CASE d = e
    BY <1>1, <2>1
  <2>2. CASE d # e
    <3>1. exec'[d] = exec[d] /\ bridge'[d] = bridge[d] /\ ExecKnows(d) /\ BridgeKnows(d)
      BY <2>2 DEF SyncInv
    <3>2. QED
      BY <1>1, <3>1, ExecStillKnows, BridgeStillKnows
  <2>3. QED
    BY <2>1, <2>2
<1>4. ASSUME NEW d \in Execs
      PROVE  BatchIsOwn(d)'
  <2>1. BatchIsOwn(d)
    BY DEF SyncInv
  <2>2. CASE d = e
    BY <2>1, <2>2 DEF BatchIsOwn
  <2>3. CASE d # e
    BY <2>1, <2>3 DEF BatchIsOwn
  <2>4. QED
    BY <2>2, <2>3
<1>5. ASSUME NEW d \in Execs
      PROVE  /\ bridge[d].batch # 0 => bridge'[d].batch = bridge[d].batch
             /\ bridge'[d].pc \in {"add", "process"} =>
                  /\ bridge'[d].batch = bridge[d].batch /\ bridge'[d].group = bridge[d].group
                  /\ bridge'[d].pc = bridge[d].pc
  <2>1. CASE d = e
    BY <2>1
  <2>2. CASE d # e
    BY <2>2
  <2>3. QED
    BY <2>1, <2>2
<1>6. ASSUME NEW d \in Execs
      PROVE  AddedInStep(d)'
  <2>1. AddedInStep(d)
    BY DEF SyncInv
  <2>2. QED
    BY <1>5, <2>1 DEF AddedInStep
<1>7. ASSUME NEW d \in Execs
      PROVE  AddedOnce(d)'
  <2>1. AddedOnce(d)
    BY DEF SyncInv
  <2>2. Alone(d)' => Alone(d)
    BY <1>5, AloneBefore
  <2>3. CASE batches[d].status # "none"
    <3>1. HandedOver(d)' => HandedOver(d)
      BY SameBatches
    <3>2. QED
      BY <1>5, <2>1, <2>2, <2>3, <3>1, StillAddedOnce
  <2>4. CASE batches[d].status = "none"
    BY <2>4 DEF AddedOnce
  <2>5. QED
    BY <2>3, <2>4
<1>8. ASSUME NEW d \in Execs, HandedOver(d)'
      PROVE  Full(batches'[d].items, Groups)
  <2>1. HandedOver(d)
    BY <1>8, SameBatches
  <2>2. Full(batches[d].items, Groups)
    BY <2>1 DEF SyncInv
  <2>3. QED
    BY <2>2
<1>9. \A d \in Execs : HandedOver(d)' => Full(batches[d].items, Groups)'
  BY <1>8
<1>10. QED
  BY <1>2, <1>3, <1>4, <1>6, <1>7, <1>9 DEF SyncInv

(* A step of bridge e: what it does to the other bridges, and to batches.  *)
LEMMA OfBridges ==
  ASSUME SyncTypeOK, SyncInv, NEW e \in Execs, UNCHANGED <<mapping, exec>>,
         \A b \in Execs : Kept(b),
         \A d \in Execs \ {e} : bridge'[d] = bridge[d],
         \A b \in Execs \ {e} : batches[b].status = "none" => batches'[b].status = "none",
         bridge[e].batch # 0 => bridge'[e].batch = bridge[e].batch,
         BatchIsOwn(e)',
         Grows => BridgeKnows(e)',
         AddedInStep(e)',
         \A b \in Execs : HandedOver(b)' => HandedOver(b) \/ Full(batches'[b].items, Groups),
         \A b \in Execs : Alone(b) => AddedOnce(b)'
  PROVE  SyncInv'
<1>1. Grows
  BY ReservationsGrow, KnownBatchesGrow DEF Grows
<1>2. MappingKnows'
  BY <1>1, RowKnows DEF SyncInv
<1>3. ASSUME NEW d \in Execs
      PROVE  ExecKnows(d)' /\ BridgeKnows(d)'
  <2>1. ExecKnows(d)'
    BY <1>1, ExecStillKnows DEF SyncInv
  <2>2. CASE d = e
    BY <1>1, <2>1, <2>2
  <2>3. CASE d # e
    <3>1. bridge'[d] = bridge[d] /\ exec'[d] = exec[d] /\ BridgeKnows(d)
      BY <2>3 DEF SyncInv
    <3>2. batches[d].status = "none" => batches'[d].status = "none"
      BY <2>3
    <3>3. QED
      BY <1>1, <2>1, <3>1, <3>2, BridgeStillKnows
  <2>4. QED
    BY <2>2, <2>3
<1>4. ASSUME NEW d \in Execs
      PROVE  BatchIsOwn(d)'
  <2>1. CASE d = e
    BY <2>1
  <2>2. CASE d # e
    <3>1. BatchIsOwn(d) /\ Kept(d) /\ (batches[d].status = "none" => batches'[d].status = "none")
      BY <2>2 DEF SyncInv
    <3>2. QED
      BY <3>1 DEF BatchIsOwn, Kept
  <2>3. QED
    BY <2>1, <2>2
<1>5. ASSUME NEW d \in Execs
      PROVE  AddedInStep(d)'
  <2>1. CASE d = e
    BY <2>1
  <2>2. CASE d # e
    <3>1. bridge'[d] = bridge[d] /\ BridgeKnows(d) /\ AddedInStep(d)
      BY <2>2 DEF SyncInv
    <3>2. QED
      BY <3>1, StillAdded
  <2>3. QED
    BY <2>1, <2>2
<1>6. ASSUME NEW d \in Execs
      PROVE  AddedOnce(d)'
  <2>1. \A f \in Execs : bridge[f].batch # 0 => bridge'[f].batch = bridge[f].batch
    OBVIOUS
  <2>2. CASE Alone(d)'
    BY <2>1, <2>2, AloneBefore
  <2>3. CASE ~Alone(d)'
    BY <2>3 DEF AddedOnce
  <2>4. QED
    BY <2>2, <2>3
<1>7. ASSUME NEW d \in Execs, HandedOver(d)'
      PROVE  Full(batches'[d].items, Groups)
  <2>1. CASE HandedOver(d)
    <3>1. Full(batches[d].items, Groups) /\ Kept(d)
      BY <2>1 DEF SyncInv
    <3>2. QED
      BY <2>1, <3>1, HandedOverStaysFull
  <2>2. CASE ~HandedOver(d)
    BY <1>7, <2>2
  <2>3. QED
    BY <2>1, <2>2
<1>8. \A d \in Execs : HandedOver(d)' => Full(batches[d].items, Groups)'
  BY <1>7
<1>9. QED
  BY <1>2, <1>3, <1>4, <1>5, <1>6, <1>8 DEF SyncInv

-----------------------------------------------------------------------------
(* The execution's actions                                                 *)

LEMMA OwnTypes ==
  ASSUME SyncTypeOK, NEW e \in Execs
  PROVE  /\ exec[e] \in Exec /\ bridge[e] \in Bridge /\ batches[e] \in Batch
         /\ exec \in [Execs -> Exec] /\ bridge \in [Execs -> Bridge]
         /\ batches \in [Execs -> Batch]
         /\ exec[e].sync \in Sync /\ exec[e].input \in Inputs /\ exec[e].graph \in Ids
         /\ mapping \in Mapping /\ mapping.sync \in Sync /\ mapping.input \in Inputs
         /\ mapping.graph \in Ids
         /\ bridge[e].out \in Seq(Message)
BY DEF SyncTypeOK, Exec, Bridge, Mapping

LEMMA ToldNothing ==
  ASSUME NEW e \in Execs, bridge[e].out = <<>>
  PROVE  Told(e) = {}
BY DEF Told

LEMMA ExecBeginsKeeps ==
  ASSUME SyncTypeOK, SyncInv, NEW e \in Execs, NEW i \in Inputs, ExecBegins(e, i)
  PROVE  SyncTypeOK' /\ SyncInv'
<1>1. /\ exec[e].pc = "idle" /\ UNCHANGED <<mapping, bridge, graphs, batches>>
      /\ exec' = [exec EXCEPT ![e].pc = "look", ![e].input = i]
  BY DEF ExecBegins
<1>2. exec[e] \in Exec /\ exec \in [Execs -> Exec]
  BY OwnTypes
<1>3. /\ exec' \in [Execs -> Exec] /\ \A d \in Execs \ {e} : exec'[d] = exec[d]
      /\ exec'[e].pc = "look" /\ exec'[e].graph = exec[e].graph
      /\ exec'[e].sync = exec[e].sync
  BY <1>1, <1>2 DEF Exec
<1>4. SyncTypeOK'
  BY <1>1, <1>3 DEF SyncTypeOK
<1>5. ExecKnows(e) /\ BridgeKnows(e) /\ MappingKnows
  BY DEF SyncInv
<1>6. /\ bridge[e].pc = "none" /\ bridge[e].batch = 0 /\ bridge[e].out = <<>>
      /\ batches[e].status = "none" /\ exec[e].graph = 0 /\ exec[e].sync.batch = 0
  BY <1>1, <1>5 DEF ExecKnows, BridgeKnows
<1>7. ExecKnows(e)'
  BY <1>3, <1>6 DEF ExecKnows
<1>8. BridgeKnows(e)'
  <2>1. Told(e)' = {}
    BY <1>1, <1>6 DEF Told
  <2>2. QED
    BY <1>1, <1>3, <1>6, <2>1 DEF BridgeKnows
<1>9. Grows => MappingKnows'
  BY <1>1, <1>5, RowKnows
<1>10. QED
  BY <1>1, <1>3, <1>4, <1>6, <1>7, <1>8, <1>9, OfExecutions

LEMMA LooksKeeps ==
  ASSUME SyncTypeOK, SyncInv, NEW e \in Execs, Looks(e)
  PROVE  SyncTypeOK' /\ SyncInv'
<1> DEFINE x == exec'[e]
<1>1. exec[e].pc = "look" /\ UNCHANGED <<mapping, bridge, graphs, batches>>
  BY DEF Looks
<1>2. /\ exec[e] \in Exec /\ exec \in [Execs -> Exec]
      /\ mapping.sync \in Sync /\ mapping.graph \in Ids /\ mapping.input \in Inputs
  BY OwnTypes
<1>3. ExecKnows(e) /\ BridgeKnows(e) /\ MappingKnows
  BY DEF SyncInv
<1>4. /\ bridge[e].pc = "none" /\ bridge[e].batch = 0 /\ bridge[e].out = <<>>
      /\ batches[e].status = "none" /\ exec[e].graph = 0 /\ exec[e].sync.batch = 0
  BY <1>1, <1>3 DEF ExecKnows, BridgeKnows
<1>5. /\ exec' \in [Execs -> Exec] /\ \A d \in Execs \ {e} : exec'[d] = exec[d]
      /\ x.input = exec[e].input
      /\ \/ /\ UpToDate(e) /\ x.pc = "prepare" /\ x.graph = mapping.graph
            /\ x.sync = mapping.sync
         \/ /\ Resumable(e) /\ x.pc = "reserve" /\ x.graph = mapping.graph
            /\ x.sync = mapping.sync
         \/ x.pc = "reserve" /\ x.graph = e /\ x.sync = exec[e].sync
  <2>1. CASE UpToDate(e)
    <3>1. exec' = [exec EXCEPT ![e] = [@ EXCEPT !.pc = "prepare", !.graph = mapping.graph,
                                                !.sync = mapping.sync]]
      BY <2>1 DEF Looks
    <3>2. QED
      BY <1>2, <2>1, <3>1 DEF Exec
  <2>2. CASE ~UpToDate(e) /\ Resumable(e)
    <3>1. exec' = [exec EXCEPT ![e] = [@ EXCEPT !.pc = "reserve", !.graph = mapping.graph,
                                       !.resumed = TRUE, !.sync = mapping.sync]]
      BY <2>2 DEF Looks
    <3>2. QED
      BY <1>2, <2>2, <3>1 DEF Exec
  <2>3. CASE ~UpToDate(e) /\ ~Resumable(e)
    <3>1. exec' = [exec EXCEPT ![e] = [@ EXCEPT !.pc = "reserve", !.graph = e]]
      BY <2>3 DEF Looks
    <3>2. QED
      BY <1>2, <2>3, <3>1, Numbers DEF Exec
  <2>4. QED
    BY <2>1, <2>2, <2>3
<1>6. SyncTypeOK'
  BY <1>1, <1>5 DEF SyncTypeOK
<1> HIDE DEF x
<1>7. x.pc \in {"prepare", "reserve"}
  BY <1>5
<1>8. /\ <<e, Evidence(e)>> \in ReservedFor /\ e # 0
      /\ UpToDate(e) \/ Resumable(e) => mapping.input.evidence = Evidence(e)
      /\ UpToDate(e) => mapping.status \in {"graph_ready", "ready"}
      /\ Resumable(e) => mapping.graph # 0
  BY <1>1, Numbers DEF ReservedFor, UpToDate, Resumable, Evidence
<1>9. /\ x.graph # 0 => <<x.graph, Evidence(e)>> \in ReservedFor
      /\ x.sync.batch # 0 => <<x.sync.batch, x.graph, Evidence(e)>> \in BatchesFor
      /\ x.pc = "prepare" => <<x.graph, Evidence(e)>> \in Ingested
      /\ x.pc = "reserve" => x.graph # 0
  BY <1>3, <1>4, <1>5, <1>8 DEF MappingKnows
<1>10. Evidence(e)' = Evidence(e)
  BY <1>5 DEF Evidence, x
<1>11. ASSUME Grows
       PROVE  ExecKnows(e)'
  BY <1>7, <1>9, <1>10, <1>11 DEF ExecKnows, Grows, x
<1>12. BridgeKnows(e)'
  <2>1. Told(e)' = {}
    BY <1>1, <1>4 DEF Told
  <2>2. QED
    BY <1>1, <1>4, <1>7, <1>9, <2>1 DEF BridgeKnows, x
<1>13. Grows => MappingKnows'
  BY <1>1, <1>3, RowKnows
<1>14. QED
  <2>1. exec'[e].pc # "idle" /\ exec'[e].input = exec[e].input
    BY <1>5, <1>7 DEF x
  <2>2. QED
    BY <1>1, <1>4, <1>5, <1>6, <1>11, <1>12, <1>13, <2>1, OfExecutions

(* What an execution writes of its graph.                                  *)
LEMMA WritesWhatItKnows ==
  ASSUME SyncTypeOK, NEW e \in Execs, ExecKnows(e), Grows,
         NEW status \in {"creating", "graph_ready", "ready"}, NEW sync \in Sync,
         Writes(e, status, sync),
         sync.batch # 0 => <<sync.batch, exec[e].graph, Evidence(e)>> \in BatchesFor,
         status # "creating" => <<exec[e].graph, Evidence(e)>> \in Ingested
  PROVE  MappingKnows'
<1>1. /\ mapping'.graph = exec[e].graph /\ mapping'.input = exec[e].input
      /\ mapping'.sync = sync /\ mapping'.status = status
  BY DEF Writes
<1>2. exec[e].graph # 0 => <<exec[e].graph, Evidence(e)>> \in ReservedFor'
  BY DEF ExecKnows, Grows
<1>3. sync.batch # 0 => <<sync.batch, exec[e].graph, Evidence(e)>> \in BatchesFor'
  BY DEF Grows
<1>4. status # "creating" => <<exec[e].graph, Evidence(e)>> \in Ingested'
  BY DEF Grows
<1>5. QED
  BY <1>1, <1>2, <1>3, <1>4 DEF MappingKnows, Evidence

LEMMA WritesAMapping ==
  ASSUME SyncTypeOK, NEW e \in Execs,
         NEW status \in {"creating", "graph_ready", "ready"}, NEW sync \in Sync,
         Writes(e, status, sync)
  PROVE  mapping' \in Mapping
BY OwnTypes DEF Writes, Mapping

LEMMA GoesTo ==
  ASSUME SyncTypeOK, NEW e \in Execs,
         NEW pc \in {"call", "publish", "prepare", "ready", "done", "failed", "dead"},
         Goes(e, pc)
  PROVE  /\ exec' \in [Execs -> Exec] /\ \A d \in Execs \ {e} : exec'[d] = exec[d]
         /\ exec'[e].pc = pc /\ exec'[e].input = exec[e].input
         /\ exec'[e].graph = exec[e].graph /\ exec'[e].sync = exec[e].sync
BY OwnTypes DEF Goes, Exec

LEMMA ReservesKeeps ==
  ASSUME SyncTypeOK, SyncInv, NEW e \in Execs, Reserves(e)
  PROVE  SyncTypeOK' /\ SyncInv'
<1>1. /\ exec[e].pc = "reserve" /\ UNCHANGED <<graphs, batches>> /\ Goes(e, "call")
      /\ Writes(e, "creating", exec[e].sync)
  BY DEF Reserves
<1>2. ExecKnows(e) /\ BridgeKnows(e)
  BY DEF SyncInv
<1>3. PICK sync \in Sync : sync = exec[e].sync
  BY OwnTypes
<1>4. Writes(e, "creating", sync)
  BY <1>1, <1>3
<1>5. /\ exec' \in [Execs -> Exec] /\ \A d \in Execs \ {e} : exec'[d] = exec[d]
      /\ exec'[e].pc = "call" /\ exec'[e].input = exec[e].input
      /\ exec'[e].graph = exec[e].graph /\ exec'[e].sync = exec[e].sync
  BY <1>1, GoesTo
<1>6. mapping' \in Mapping
  BY <1>4, WritesAMapping
<1>7. PICK early \in BOOLEAN : early = ~GraphExists(e)
  BY DEF GraphExists
<1>8. PICK m \in Message : /\ m = Milestone(early, 0)
                           /\ m.sync.batch = 0 /\ m.kind = "milestone"
  BY Milestones, Numbers
<1>9. /\ bridge' \in [Execs -> Bridge] /\ \A d \in Execs \ {e} : bridge'[d] = bridge[d]
      /\ bridge'[e].pc \in {"create", "ontology"} /\ bridge'[e].batch = 0
      /\ bridge'[e].out = <<m>>
  <2>1. PICK pc \in {"create", "ontology"} : pc = IF GraphExists(e) THEN "ontology" ELSE "create"
    OBVIOUS
  <2>2. bridge' = [bridge EXCEPT ![e] = [NoBridge EXCEPT !.pc = pc, !.out = <<m>>]]
    BY <1>7, <1>8, <2>1 DEF Reserves
  <2>3. <<m>> \in Seq(Message)
    OBVIOUS
  <2>4. QED
    BY <2>2, <2>3, NewBridge, OwnTypes DEF Bridge
<1>10. SyncTypeOK'
  <2>1. Len(<<m>>) <= MaxAhead + 2
    BY Numbers
  <2>2. \A d \in Execs : Len(bridge'[d].out) <= MaxAhead + 2
    BY <1>9, <2>1 DEF SyncTypeOK
  <2>3. QED
    BY <1>1, <1>5, <1>6, <1>9, <2>2 DEF SyncTypeOK
<1>11. /\ bridge[e].pc = "none" /\ bridge[e].batch = 0 /\ batches[e].status = "none"
       /\ exec[e].graph # 0
  BY <1>1, <1>2 DEF BridgeKnows
<1>12. ASSUME Grows
       PROVE  MappingKnows' /\ ExecKnows(e)' /\ BridgeKnows(e)'
  <2>1. sync.batch # 0 => <<sync.batch, exec[e].graph, Evidence(e)>> \in BatchesFor
    BY <1>2, <1>3 DEF ExecKnows
  <2>2. MappingKnows'
    BY <1>2, <1>4, <1>12, <2>1, WritesWhatItKnows
  <2>3. ExecKnows(e)'
    BY <1>2, <1>5, <1>12 DEF ExecKnows, Grows, Evidence
  <2>4. Told(e)' = {m}
    <3>1. Told(e)' = Elems(<<m>>)
      BY <1>9 DEF Told, Elems
    <3>2. QED
      BY <3>1, TellsOne
  <2>5. BridgeKnows(e)'
    BY <1>1, <1>5, <1>8, <1>9, <1>11, <2>4 DEF BridgeKnows
  <2>6. QED
    BY <2>2, <2>3, <2>5
<1>13. QED
  BY <1>1, <1>5, <1>9, <1>10, <1>11, <1>12, OfExecutions

(* Of an execution that waits for its bridge, and reads what it says or    *)
(* gives up.                                                               *)
LEMMA OfReaders ==
  ASSUME SyncTypeOK, SyncInv, NEW e \in Execs, exec[e].pc = "call", UNCHANGED batches,
         \A d \in Execs \ {e} : exec'[d] = exec[d] /\ bridge'[d] = bridge[d],
         exec'[e].pc \in {"call", "publish", "failed"}, exec'[e].input = exec[e].input,
         exec'[e].graph = exec[e].graph, exec'[e].sync = exec[e].sync,
         exec'[e].pc = "publish" => <<exec[e].graph, Evidence(e)>> \in Ingested,
         bridge'[e].batch = bridge[e].batch, bridge'[e].group = bridge[e].group,
         bridge'[e].pc = bridge[e].pc \/ (bridge'[e].pc = "ended" /\ exec[e].graph # 0),
         Told(e)' \subseteq Told(e), bridge'[e].pc = "none" => bridge'[e].out = <<>>,
         Grows => MappingKnows'
  PROVE  SyncInv'
<1>1. ExecKnows(e) /\ BridgeKnows(e)
  BY DEF SyncInv
<1>2. ASSUME Grows
      PROVE  ExecKnows(e)'
  BY <1>1, <1>2 DEF ExecKnows, Grows, Evidence
<1>3. ASSUME Grows
      PROVE  BridgeKnows(e)'
  BY <1>1, <1>3 DEF BridgeKnows, Grows, Evidence
<1>4. QED
  BY <1>2, <1>3, OfExecutions

LEMMA WritesMilestoneKeeps ==
  ASSUME SyncTypeOK, SyncInv, NEW e \in Execs, WritesMilestone(e)
  PROVE  SyncTypeOK' /\ SyncInv'
<1> DEFINE out == bridge[e].out
<1>1. /\ exec[e].pc = "call" /\ out # <<>> /\ Head(out).kind = "milestone"
      /\ bridge' = [bridge EXCEPT ![e].out = Tail(@)] /\ UNCHANGED <<graphs, batches>>
      /\ \/ Writes(e, "creating", Head(out).sync) /\ UNCHANGED exec
         \/ Writes(e, "creating", Head(out).sync) /\ Goes(e, "failed")
         \/ Goes(e, "failed") /\ UNCHANGED mapping
  BY DEF WritesMilestone
<1>2. /\ out \in Seq(Message) /\ bridge[e] \in Bridge /\ bridge \in [Execs -> Bridge]
      /\ exec \in [Execs -> Exec] /\ mapping \in Mapping
  BY OwnTypes
<1>3. /\ Head(out) \in Elems(out) /\ Head(out) \in Message
      /\ Tail(out) \in Seq(Message) /\ Len(Tail(out)) = Len(out) - 1 /\ Len(out) \in Nat
      /\ Elems(Tail(out)) \subseteq Elems(out)
  BY <1>1, <1>2, TellsFirst
<1>4. Told(e) = Elems(out)
  BY DEF Told, Elems
<1>5. PICK sync \in Sync : sync = Head(out).sync
  BY <1>3 DEF Message
<1>6. /\ bridge' \in [Execs -> Bridge] /\ \A d \in Execs \ {e} : bridge'[d] = bridge[d]
      /\ bridge'[e].pc = bridge[e].pc /\ bridge'[e].batch = bridge[e].batch
      /\ bridge'[e].group = bridge[e].group /\ bridge'[e].out = Tail(out)
  BY <1>1, <1>2, <1>3 DEF Bridge
<1>7. ExecKnows(e) /\ BridgeKnows(e) /\ MappingKnows
  BY DEF SyncInv
<1>8. sync.batch # 0 => <<sync.batch, exec[e].graph, Evidence(e)>> \in BatchesFor
  BY <1>3, <1>4, <1>5, <1>7 DEF BridgeKnows
<1>9. Told(e)' \subseteq Told(e)
  <2>1. Told(e)' = Elems(Tail(out))
    BY <1>6 DEF Told, Elems
  <2>2. QED
    BY <1>3, <1>4, <2>1
<1>10. bridge[e].pc # "none"
  BY <1>1, <1>7 DEF BridgeKnows
<1>11. /\ exec' \in [Execs -> Exec] /\ \A d \in Execs \ {e} : exec'[d] = exec[d]
       /\ exec'[e].pc \in {"call", "failed"} /\ exec'[e].input = exec[e].input
       /\ exec'[e].graph = exec[e].graph /\ exec'[e].sync = exec[e].sync
  <2>1. CASE Goes(e, "failed")
    BY <2>1, GoesTo
  <2>2. CASE UNCHANGED exec
    BY <1>1, <1>2, <2>2
  <2>3. QED
    BY <1>1, <2>1, <2>2
<1>12. Writes(e, "creating", sync) \/ UNCHANGED mapping
  BY <1>1, <1>5
<1> HIDE DEF out
<1>13. Grows => MappingKnows'
  <2>1. CASE Writes(e, "creating", sync)
    BY <1>7, <1>8, <2>1, WritesWhatItKnows
  <2>2. CASE UNCHANGED mapping
    BY <1>7, <2>2, RowKnows
  <2>3. QED
    BY <1>12, <2>1, <2>2
<1>14. mapping' \in Mapping
  BY <1>2, <1>12, WritesAMapping
<1>15. SyncTypeOK'
  <2>1. \A d \in Execs : Len(bridge'[d].out) <= MaxAhead + 2
    <3>1. Len(bridge[e].out) <= MaxAhead + 2
      BY DEF SyncTypeOK
    <3>2. Len(bridge'[e].out) <= MaxAhead + 2
      BY <1>3, <1>6, <3>1, Numbers DEF out
    <3>3. QED
      BY <1>6, <3>2 DEF SyncTypeOK
  <2>2. QED
    BY <1>1, <1>6, <1>11, <1>14, <2>1 DEF SyncTypeOK
<1>16. /\ exec'[e].pc \in {"call", "publish", "failed"} /\ exec'[e].pc # "publish"
       /\ bridge'[e].pc # "none" /\ exec[e].pc = "call" /\ UNCHANGED batches
  BY <1>1, <1>6, <1>10, <1>11
<1>17. SyncInv'
  BY <1>6, <1>9, <1>11, <1>13, <1>16, OfReaders
<1>18. QED
  BY <1>15, <1>17

LEMMA CallReturnsKeeps ==
  ASSUME SyncTypeOK, SyncInv, NEW e \in Execs, CallReturns(e)
  PROVE  SyncTypeOK' /\ SyncInv'
<1> DEFINE out == bridge[e].out
<1>1. /\ exec[e].pc = "call" /\ out # <<>>
      /\ bridge' = [bridge EXCEPT ![e].out = <<>>] /\ UNCHANGED <<mapping, graphs, batches>>
      /\ Goes(e, IF Head(out).kind = "result" THEN "publish" ELSE "failed")
  BY DEF CallReturns
<1>2. /\ out \in Seq(Message) /\ bridge[e] \in Bridge /\ bridge \in [Execs -> Bridge]
  BY OwnTypes
<1>3. Head(out) \in Elems(out)
  BY <1>1, <1>2, TellsFirst
<1>4. Told(e) = Elems(out)
  BY DEF Told, Elems
<1>5. ExecKnows(e) /\ BridgeKnows(e) /\ MappingKnows
  BY DEF SyncInv
<1>6. PICK pc \in {"publish", "failed"} :
        pc = IF Head(out).kind = "result" THEN "publish" ELSE "failed"
  OBVIOUS
<1>7. pc = "publish" => <<exec[e].graph, Evidence(e)>> \in Ingested
  BY <1>3, <1>4, <1>5, <1>6 DEF BridgeKnows
<1>8. /\ exec' \in [Execs -> Exec] /\ \A d \in Execs \ {e} : exec'[d] = exec[d]
      /\ exec'[e].pc = pc /\ exec'[e].input = exec[e].input
      /\ exec'[e].graph = exec[e].graph /\ exec'[e].sync = exec[e].sync
  <2>1. Goes(e, pc)
    BY <1>1, <1>6
  <2>2. QED
    BY <2>1, GoesTo
<1>9. /\ bridge' \in [Execs -> Bridge] /\ \A d \in Execs \ {e} : bridge'[d] = bridge[d]
      /\ bridge'[e].pc = bridge[e].pc /\ bridge'[e].batch = bridge[e].batch
      /\ bridge'[e].group = bridge[e].group /\ bridge'[e].out = <<>>
  <2>1. <<>> \in Seq(Message)
    OBVIOUS
  <2>2. QED
    BY <1>1, <1>2, <2>1 DEF Bridge
<1> HIDE DEF out
<1>10. Told(e)' = {}
  BY <1>9 DEF Told
<1>11. SyncTypeOK'
  <2>1. Len(<<>>) <= MaxAhead + 2
    BY Numbers
  <2>2. \A d \in Execs : Len(bridge'[d].out) <= MaxAhead + 2
    BY <1>9, <2>1 DEF SyncTypeOK
  <2>3. QED
    BY <1>1, <1>8, <1>9, <2>2 DEF SyncTypeOK
<1>12. Grows => MappingKnows'
  BY <1>1, <1>5, RowKnows
<1>13. /\ exec'[e].pc \in {"call", "publish", "failed"} /\ Told(e)' \subseteq Told(e)
       /\ exec'[e].pc = "publish" => <<exec[e].graph, Evidence(e)>> \in Ingested
       /\ exec[e].pc = "call" /\ UNCHANGED batches
  BY <1>1, <1>7, <1>8, <1>10
<1>14. SyncInv'
  BY <1>8, <1>9, <1>12, <1>13, OfReaders
<1>15. QED
  BY <1>11, <1>14

LEMMA CallTimesOutKeeps ==
  ASSUME SyncTypeOK, SyncInv, NEW e \in Execs, CallTimesOut(e)
  PROVE  SyncTypeOK' /\ SyncInv'
<1>1. /\ exec[e].pc = "call" /\ UNCHANGED <<mapping, graphs, batches>> /\ Goes(e, "failed")
      /\ bridge' = [bridge EXCEPT ![e].pc = "ended", ![e].out = <<>>]
  BY DEF CallTimesOut
<1>2. ExecKnows(e) /\ BridgeKnows(e) /\ MappingKnows
  BY DEF SyncInv
<1>3. /\ exec' \in [Execs -> Exec] /\ \A d \in Execs \ {e} : exec'[d] = exec[d]
      /\ exec'[e].pc = "failed" /\ exec'[e].input = exec[e].input
      /\ exec'[e].graph = exec[e].graph /\ exec'[e].sync = exec[e].sync
  BY <1>1, GoesTo
<1>4. /\ bridge' \in [Execs -> Bridge] /\ \A d \in Execs \ {e} : bridge'[d] = bridge[d]
      /\ bridge'[e].pc = "ended" /\ bridge'[e].batch = bridge[e].batch
      /\ bridge'[e].group = bridge[e].group /\ bridge'[e].out = <<>>
  <2>1. <<>> \in Seq(Message)
    OBVIOUS
  <2>2. QED
    BY <1>1, <2>1, OwnTypes DEF Bridge
<1>5. Told(e)' = {}
  BY <1>4 DEF Told
<1>6. SyncTypeOK'
  <2>1. Len(<<>>) <= MaxAhead + 2
    BY Numbers
  <2>2. \A d \in Execs : Len(bridge'[d].out) <= MaxAhead + 2
    BY <1>4, <2>1 DEF SyncTypeOK
  <2>3. QED
    BY <1>1, <1>3, <1>4, <2>2 DEF SyncTypeOK
<1>7. exec[e].graph # 0
  BY <1>1, <1>2 DEF BridgeKnows
<1>8. Grows => MappingKnows'
  BY <1>1, <1>2, RowKnows
<1>9. QED
  BY <1>1, <1>3, <1>4, <1>5, <1>6, <1>7, <1>8, OfReaders

(* Of an execution without its bridge.                                     *)
LEMMA OfWriters ==
  ASSUME SyncTypeOK, SyncInv, NEW e \in Execs, exec[e].pc # "idle",
         UNCHANGED <<bridge, batches>>, \A d \in Execs \ {e} : exec'[d] = exec[d],
         exec'[e].pc \in {"prepare", "ready", "done", "failed", "dead"},
         exec'[e].pc \in {"prepare", "ready"} => exec[e].pc \in {"publish", "prepare"},
         exec'[e].input = exec[e].input, exec'[e].graph = exec[e].graph,
         exec'[e].sync.batch # 0 => exec'[e].sync = exec[e].sync,
         Grows => MappingKnows'
  PROVE  SyncInv'
<1>1. ExecKnows(e) /\ BridgeKnows(e)
  BY DEF SyncInv
<1>2. ASSUME Grows
      PROVE  ExecKnows(e)'
  BY <1>1, <1>2 DEF ExecKnows, Grows, Evidence
<1>3. Told(e)' = Told(e)
  BY DEF Told
<1>4. ASSUME Grows
      PROVE  BridgeKnows(e)'
  BY <1>1, <1>3, <1>4 DEF BridgeKnows, Grows, Evidence
<1>5. \A d \in Execs \ {e} : exec'[d] = exec[d] /\ bridge'[d] = bridge[d]
  OBVIOUS
<1>6. /\ bridge'[e].batch = bridge[e].batch /\ bridge'[e].group = bridge[e].group
      /\ bridge'[e].pc \in {bridge[e].pc, "ended"} /\ exec'[e].pc # "idle"
  OBVIOUS
<1>7. QED
  BY <1>2, <1>4, <1>5, <1>6, OfExecutions

LEMMA PublishesGraphKeeps ==
  ASSUME SyncTypeOK, SyncInv, NEW e \in Execs, PublishesGraph(e)
  PROVE  SyncTypeOK' /\ SyncInv'
<1>1. PICK sync \in Sync : sync = [early |-> FALSE, batch |-> 0]
  BY Numbers DEF Sync
<1>2. /\ exec[e].pc = "publish" /\ UNCHANGED <<bridge, graphs, batches>>
      /\ Writes(e, "graph_ready", sync)
      /\ exec' = [exec EXCEPT ![e].pc = "prepare", ![e].sync = sync]
  BY <1>1 DEF PublishesGraph
<1>3. /\ exec' \in [Execs -> Exec] /\ \A d \in Execs \ {e} : exec'[d] = exec[d]
      /\ exec'[e].pc = "prepare" /\ exec'[e].input = exec[e].input
      /\ exec'[e].graph = exec[e].graph /\ exec'[e].sync = sync
  BY <1>2, OwnTypes DEF Exec
<1>4. PICK status \in {"creating", "graph_ready", "ready"} : status = "graph_ready"
  OBVIOUS
<1>5. Writes(e, status, sync)
  BY <1>2, <1>4
<1>6. SyncTypeOK'
  <2>1. mapping' \in Mapping
    BY <1>5, WritesAMapping
  <2>2. QED
    BY <1>2, <1>3, <2>1 DEF SyncTypeOK
<1>7. ExecKnows(e)
  BY DEF SyncInv
<1>8. /\ <<exec[e].graph, Evidence(e)>> \in Ingested /\ sync.batch = 0
  BY <1>1, <1>2, <1>7 DEF ExecKnows
<1>9. Grows => MappingKnows'
  BY <1>5, <1>7, <1>8, WritesWhatItKnows
<1>10. exec'[e].sync.batch = 0 /\ UNCHANGED <<bridge, batches>>
  BY <1>2, <1>3, <1>8
<1>11. SyncInv'
  BY <1>2, <1>3, <1>9, <1>10, OfWriters
<1>12. QED
  BY <1>6, <1>11

LEMMA PreparesKeeps ==
  ASSUME SyncTypeOK, SyncInv, NEW e \in Execs, Prepares(e)
  PROVE  SyncTypeOK' /\ SyncInv'
<1>1. exec[e].pc = "prepare" /\ UNCHANGED <<mapping, bridge, graphs, batches>>
  BY DEF Prepares
<1>2. PICK pc \in {"ready", "failed"} : Goes(e, pc)
  BY DEF Prepares, Calls
<1>3. /\ exec' \in [Execs -> Exec] /\ \A d \in Execs \ {e} : exec'[d] = exec[d]
      /\ exec'[e].pc = pc /\ exec'[e].input = exec[e].input
      /\ exec'[e].graph = exec[e].graph /\ exec'[e].sync = exec[e].sync
  BY <1>2, GoesTo
<1>4. SyncTypeOK'
  BY <1>1, <1>3 DEF SyncTypeOK
<1>5. Grows => MappingKnows'
  BY <1>1, RowKnows DEF SyncInv
<1>6. SyncInv'
  BY <1>1, <1>3, <1>5, OfWriters
<1>7. QED
  BY <1>4, <1>6

LEMMA MarksReadyKeeps ==
  ASSUME SyncTypeOK, SyncInv, NEW e \in Execs, MarksReady(e)
  PROVE  SyncTypeOK' /\ SyncInv'
<1>1. PICK sync \in Sync : sync = exec[e].sync
  BY OwnTypes
<1>2. /\ exec[e].pc = "ready" /\ UNCHANGED <<bridge, graphs, batches>>
      /\ Writes(e, "ready", sync) /\ Goes(e, "done")
  BY <1>1 DEF MarksReady
<1>3. /\ exec' \in [Execs -> Exec] /\ \A d \in Execs \ {e} : exec'[d] = exec[d]
      /\ exec'[e].pc = "done" /\ exec'[e].input = exec[e].input
      /\ exec'[e].graph = exec[e].graph /\ exec'[e].sync = exec[e].sync
  BY <1>2, GoesTo
<1>4. PICK status \in {"creating", "graph_ready", "ready"} : status = "ready"
  OBVIOUS
<1>5. Writes(e, status, sync)
  BY <1>2, <1>4
<1>6. SyncTypeOK'
  <2>1. mapping' \in Mapping
    BY <1>5, WritesAMapping
  <2>2. QED
    BY <1>2, <1>3, <2>1 DEF SyncTypeOK
<1>7. ExecKnows(e)
  BY DEF SyncInv
<1>8. /\ <<exec[e].graph, Evidence(e)>> \in Ingested
      /\ sync.batch # 0 => <<sync.batch, exec[e].graph, Evidence(e)>> \in BatchesFor
  BY <1>1, <1>2, <1>7 DEF ExecKnows
<1>9. Grows => MappingKnows'
  BY <1>5, <1>7, <1>8, WritesWhatItKnows
<1>10. UNCHANGED <<bridge, batches>> /\ exec[e].pc # "idle"
  BY <1>2
<1>11. SyncInv'
  BY <1>3, <1>9, <1>10, OfWriters
<1>12. QED
  BY <1>6, <1>11

LEMMA WorkerDiesKeeps ==
  ASSUME SyncTypeOK, SyncInv, NEW e \in Execs, WorkerDies(e)
  PROVE  SyncTypeOK' /\ SyncInv'
<1>1. /\ exec[e].pc # "idle" /\ UNCHANGED <<mapping, bridge, graphs, batches>>
      /\ Goes(e, "dead")
  BY DEF WorkerDies
<1>2. /\ exec' \in [Execs -> Exec] /\ \A d \in Execs \ {e} : exec'[d] = exec[d]
      /\ exec'[e].pc = "dead" /\ exec'[e].input = exec[e].input
      /\ exec'[e].graph = exec[e].graph /\ exec'[e].sync = exec[e].sync
  BY <1>1, GoesTo
<1>3. SyncTypeOK'
  BY <1>1, <1>2 DEF SyncTypeOK
<1>4. Grows => MappingKnows'
  BY <1>1, RowKnows DEF SyncInv
<1>5. SyncInv'
  BY <1>1, <1>2, <1>4, OfWriters
<1>6. QED
  BY <1>3, <1>5

-----------------------------------------------------------------------------
(* The bridge's calls of Zep                                               *)

LEMMA SameKept ==
  ASSUME UNCHANGED batches
  PROVE  \A b \in Execs : Kept(b)
BY DEF Kept

LEMMA HasItsBatch ==
  ASSUME SyncInv, NEW e \in Execs, bridge[e].batch # 0
  PROVE  /\ bridge[e].batch \in Execs /\ batches[bridge[e].batch].status # "none"
         /\ batches[bridge[e].batch].graph = exec[e].graph
         /\ batches[bridge[e].batch].input.evidence = Evidence(e)
<1>1. <<bridge[e].batch, exec[e].graph, Evidence(e)>> \in BatchesFor
  BY DEF SyncInv, BridgeKnows
<1>2. QED
  BY <1>1 DEF BatchesFor

LEMMA OnceElsewhere ==
  ASSUME SyncInv, NEW b \in Execs, Alone(b), batches'[b] = batches[b], bridge'[b] = bridge[b]
  PROVE  AddedOnce(b)'
<1>1. AddedOnce(b)
  BY DEF SyncInv
<1>2. CASE batches[b].status = "none"
  BY <1>2 DEF AddedOnce
<1>3. CASE batches[b].status # "none"
  <2>1. HandedOver(b)' => HandedOver(b)
    BY DEF HandedOver
  <2>2. QED
    BY <1>1, <1>3, <2>1, StillAddedOnce
<1>4. QED
  BY <1>2, <1>3

LEMMA OnceApart ==
  ASSUME SyncInv, NEW e \in Execs, Alone(e), batches'[e] = batches[e],
         bridge'[e].batch # e \/ bridge'[e].pc \notin {"add", "process"}
  PROVE  AddedOnce(e)'
<1>1. AddedOnce(e)
  BY DEF SyncInv
<1>2. CASE batches[e].status = "none"
  BY <1>2 DEF AddedOnce
<1>3. CASE batches[e].status # "none"
  <2>1. HandedOver(e)' => HandedOver(e)
    BY DEF HandedOver
  <2>2. QED
    BY <1>1, <1>3, <2>1, StillAddedOnce
<1>4. QED
  BY <1>2, <1>3

(* The batch in hand, and the one the execution makes, are all it touches. *)
LEMMA OfBridgeSteps ==
  ASSUME SyncTypeOK, SyncInv, NEW e \in Execs, UNCHANGED <<mapping, exec>>,
         \A b \in Execs : Kept(b),
         \A b \in Execs \ {e} : b # bridge[e].batch => batches'[b] = batches[b],
         \A d \in Execs \ {e} : bridge'[d] = bridge[d],
         bridge[e].batch # 0 => bridge'[e].batch = bridge[e].batch,
         BatchIsOwn(e)',
         Grows => BridgeKnows(e)',
         AddedInStep(e)',
         \A b \in Execs : HandedOver(b)' => HandedOver(b) \/ Full(batches'[b].items, Groups),
         Alone(e) => AddedOnce(e)'
  PROVE  SyncInv'
<1>1. ASSUME NEW b \in Execs \ {e}, batches[b].status = "none"
      PROVE  batches'[b].status = "none"
  <2>1. b # bridge[e].batch
    BY <1>1, HasItsBatch, Numbers
  <2>2. QED
    BY <1>1, <2>1
<1>2. ASSUME NEW b \in Execs, Alone(b)
      PROVE  AddedOnce(b)'
  <2>1. CASE b = e
    BY <1>2, <2>1
  <2>2. CASE b # e
    <3>1. b # bridge[e].batch
      BY <1>2, <2>2 DEF Alone
    <3>2. batches'[b] = batches[b] /\ bridge'[b] = bridge[b]
      BY <2>2, <3>1
    <3>3. QED
      BY <1>2, <3>2, OnceElsewhere
  <2>3. QED
    BY <2>1, <2>2
<1>3. QED
  BY <1>1, <1>2, OfBridges

(* A call that leaves the batches alone.                                   *)
LEMMA OfCalls ==
  ASSUME SyncTypeOK, SyncInv, NEW e \in Execs, UNCHANGED <<mapping, exec, batches>>,
         \A d \in Execs \ {e} : bridge'[d] = bridge[d],
         bridge[e].batch # 0 => bridge'[e].batch = bridge[e].batch,
         bridge'[e].pc \notin {"add", "process"},
         Grows => BridgeKnows(e)'
  PROVE  SyncInv'
<1>1. \A b \in Execs : Kept(b)
  BY SameKept
<1>2. BatchIsOwn(e)'
  BY DEF SyncInv, BatchIsOwn
<1>3. AddedInStep(e)'
  BY DEF AddedInStep
<1>4. \A b \in Execs : HandedOver(b)' => HandedOver(b)
  BY SameBatches
<1>5. Alone(e) => AddedOnce(e)'
  BY OnceApart
<1>6. QED
  BY <1>1, <1>2, <1>3, <1>4, <1>5, OfBridgeSteps

(* What the bridge then has and reports is what is known at Zep.           *)
LEMMA GoingOnKnows ==
  ASSUME SyncInv, NEW e \in Execs, Grows, UNCHANGED exec, bridge[e].pc # "none",
         NEW pc \in Calling \cup {"ended"}, NEW batch \in Ids, NEW group \in 1..Groups,
         NEW ms \in Seq(Message), Continues(e, pc, batch, group, ms),
         pc \in {"create", "ontology", "batch"} => batch = 0 /\ batches'[e].status = "none",
         pc \in {"add", "process", "wait"} => batch # 0,
         batch # 0 => <<batch, exec[e].graph, Evidence(e)>> \in BatchesFor',
         \A m \in Elems(ms) :
           /\ m.sync.batch # 0 => <<m.sync.batch, exec[e].graph, Evidence(e)>> \in BatchesFor'
           /\ m.kind = "result" => <<exec[e].graph, Evidence(e)>> \in Ingested'
  PROVE  BridgeKnows(e)'
<1>1. BridgeKnows(e)
  BY DEF SyncInv
<1>2. exec[e].pc \notin {"idle", "look", "reserve"} /\ exec[e].graph # 0
  BY <1>1 DEF BridgeKnows
<1>3. Evidence(e)' = Evidence(e)
  BY DEF Evidence
<1>4. bridge'[e].pc \in {pc, "ended"} /\ bridge'[e].pc # "none" /\ bridge'[e].batch = batch
  BY DEF Continues, Calling
<1>5. ASSUME NEW m \in Told(e)'
      PROVE  /\ m.sync.batch # 0 => <<m.sync.batch, exec[e].graph, Evidence(e)>> \in BatchesFor'
             /\ m.kind = "result" => <<exec[e].graph, Evidence(e)>> \in Ingested'
  <2>1. CASE m \in Told(e)
    BY <1>1, <2>1 DEF BridgeKnows, Grows
  <2>2. CASE m \in Elems(ms)
    BY <2>2
  <2>3. QED
    BY <1>5, <2>1, <2>2 DEF Continues
<1>6. QED
  BY <1>2, <1>3, <1>4, <1>5 DEF BridgeKnows

LEMMA FailingKnows ==
  ASSUME SyncTypeOK, SyncInv, NEW e \in Execs, Grows, UNCHANGED exec, bridge[e].pc # "none",
         Len(bridge[e].out) <= MaxAhead, Fails(e)
  PROVE  BridgeKnows(e)'
<1>1. /\ bridge'[e].batch = bridge[e].batch /\ bridge'[e].pc = "ended"
      /\ Told(e)' \subseteq Told(e) \cup {Error}
  BY Failing
<1>2. BridgeKnows(e)
  BY DEF SyncInv
<1>3. Evidence(e)' = Evidence(e)
  BY DEF Evidence
<1>4. Error.sync.batch = 0 /\ Error.kind # "result"
  BY Answers
<1>5. QED
  BY <1>1, <1>2, <1>3, <1>4 DEF BridgeKnows, Grows

LEMMA TypeAfterCall ==
  ASSUME SyncTypeOK, NEW e \in Execs, UNCHANGED <<mapping, exec>>, graphs' \subseteq Execs,
         batches' \in [Execs -> Batch], bridge' \in [Execs -> Bridge],
         \A d \in Execs \ {e} : bridge'[d] = bridge[d],
         Len(bridge'[e].out) <= MaxAhead + 2
  PROVE  SyncTypeOK'
BY DEF SyncTypeOK

(* A call that fails without a trace in the batches.                       *)
LEMMA FailsKeeps ==
  ASSUME SyncTypeOK, SyncInv, NEW e \in Execs, UNCHANGED <<mapping, exec, batches>>,
         graphs' \subseteq Execs, bridge[e].pc # "none", Len(bridge[e].out) <= MaxAhead,
         Fails(e)
  PROVE  SyncTypeOK' /\ SyncInv'
<1>1. /\ bridge' \in [Execs -> Bridge] /\ \A d \in Execs \ {e} : bridge'[d] = bridge[d]
      /\ bridge'[e].batch = bridge[e].batch /\ bridge'[e].pc = "ended"
      /\ Len(bridge'[e].out) <= MaxAhead + 2
  BY Failing
<1>2. SyncTypeOK'
  <2>1. batches' \in [Execs -> Batch]
    BY OwnTypes
  <2>2. QED
    BY <1>1, <2>1, TypeAfterCall
<1>3. Grows => BridgeKnows(e)'
  BY FailingKnows
<1>4. SyncInv'
  BY <1>1, <1>3, OfCalls
<1>5. QED
  BY <1>2, <1>4

(* A call that goes on without touching the batches.                       *)
LEMMA GoesOnKeeps ==
  ASSUME SyncTypeOK, SyncInv, NEW e \in Execs, UNCHANGED <<mapping, exec, batches>>,
         graphs' \subseteq Execs, bridge[e].pc # "none", Len(bridge[e].out) <= MaxAhead,
         NEW pc \in Calling \cup {"ended"}, NEW batch \in Ids, NEW group \in 1..Groups,
         NEW ms \in Seq(Message), Len(ms) <= 2, GoesOn(e, pc, batch, group, ms),
         pc \notin {"add", "process"},
         bridge[e].batch # 0 => batch = bridge[e].batch,
         pc \in {"create", "ontology", "batch"} => batch = 0 /\ batches[e].status = "none",
         pc = "wait" => batch # 0,
         batch # 0 => <<batch, exec[e].graph, Evidence(e)>> \in BatchesFor,
         \A m \in Elems(ms) :
           /\ m.sync.batch # 0 => <<m.sync.batch, exec[e].graph, Evidence(e)>> \in BatchesFor
           /\ m.kind = "result" => <<exec[e].graph, Evidence(e)>> \in Ingested
  PROVE  SyncTypeOK' /\ SyncInv'
<1>1. Continues(e, pc, batch, group, ms)
  BY GoingOn
<1>2. /\ bridge' \in [Execs -> Bridge] /\ \A d \in Execs \ {e} : bridge'[d] = bridge[d]
      /\ bridge'[e].batch = batch /\ bridge'[e].pc \in {pc, "ended"}
      /\ Len(bridge'[e].out) <= MaxAhead + 2
  BY <1>1 DEF Continues
<1>3. SyncTypeOK'
  <2>1. batches' \in [Execs -> Batch]
    BY OwnTypes
  <2>2. QED
    BY <1>2, <2>1, TypeAfterCall
<1>4. BatchesFor' = BatchesFor /\ Ingested' = Ingested
  BY SameBatches
<1>5. pc \in {"create", "ontology", "batch"} => batch = 0 /\ batches'[e].status = "none"
  OBVIOUS
<1>6. pc \in {"add", "process", "wait"} => batch # 0
  OBVIOUS
<1>7. Grows => BridgeKnows(e)'
  BY <1>1, <1>4, <1>5, <1>6, GoingOnKnows
<1>8. SyncInv'
  BY <1>2, <1>7, OfCalls
<1>9. QED
  BY <1>3, <1>8

LEMMA OneMilestone ==
  ASSUME NEW batch \in Ids
  PROVE  \E ms \in Seq(Message) :
           /\ ms = <<Milestone(FALSE, batch)>> /\ Len(ms) <= 2
           /\ \A m \in Elems(ms) : m.sync.batch = batch /\ m.kind # "result"
<1>1. PICK m \in Message :
        m = Milestone(FALSE, batch) /\ m.sync.batch = batch /\ m.kind = "milestone"
  BY Milestones
<1>2. PICK ms : ms = <<m>>
  OBVIOUS
<1>3. ms \in Seq(Message) /\ Len(ms) <= 2
  BY <1>2
<1>4. Elems(ms) = {m}
  BY <1>2, TellsOne
<1>5. QED
  BY <1>1, <1>2, <1>3, <1>4

LEMMA CallTypes ==
  ASSUME SyncTypeOK, SyncInv, NEW e \in Execs, bridge[e].pc # "none"
  PROVE  /\ BridgeKnows(e) /\ ExecKnows(e) /\ exec[e].graph \in Execs
         /\ bridge[e].batch \in Ids /\ bridge[e].group \in 1..Groups
         /\ graphs \subseteq Execs /\ exec[e].sync.batch \in Ids
<1>1. BridgeKnows(e) /\ ExecKnows(e)
  BY DEF SyncInv
<1>2. exec[e].graph # 0
  BY <1>1 DEF BridgeKnows
<1>3. QED
  BY <1>1, <1>2, OwnTypes, Numbers DEF SyncTypeOK, Bridge, Sync

LEMMA CreatesGraphKeeps ==
  ASSUME SyncTypeOK, SyncInv, NEW e \in Execs, CreatesGraph(e)
  PROVE  SyncTypeOK' /\ SyncInv'
<1>1. /\ bridge[e].pc = "create" /\ Len(bridge[e].out) <= MaxAhead
      /\ UNCHANGED <<mapping, exec, batches>>
      /\ graphs' \subseteq graphs \cup {exec[e].graph}
  BY DEF CreatesGraph, At
<1>2. /\ BridgeKnows(e) /\ exec[e].graph \in Execs /\ graphs \subseteq Execs
  BY <1>1, CallTypes
<1>3. graphs' \subseteq Execs
  BY <1>1, <1>2
<1>4. bridge[e].batch = 0 /\ batches[e].status = "none" /\ bridge[e].pc # "none"
  BY <1>1, <1>2 DEF BridgeKnows
<1>5. CASE Fails(e)
  BY <1>1, <1>3, <1>4, <1>5, FailsKeeps
<1>6. CASE GoesOn(e, "ontology", 0, 1, <<Milestone(FALSE, 0)>>)
  <2>1. PICK ms \in Seq(Message) :
          /\ ms = <<Milestone(FALSE, 0)>> /\ Len(ms) <= 2
          /\ \A m \in Elems(ms) : m.sync.batch = 0 /\ m.kind # "result"
    BY OneMilestone, Numbers
  <2>2. PICK pc \in Calling \cup {"ended"} : pc = "ontology"
    BY DEF Calling
  <2>3. PICK batch \in Ids : batch = 0
    BY Numbers
  <2>4. PICK group \in 1..Groups : group = 1
    BY Numbers
  <2>5. GoesOn(e, pc, batch, group, ms)
    BY <1>6, <2>1, <2>2, <2>3, <2>4
  <2>6. /\ pc \notin {"add", "process", "wait"} /\ bridge[e].batch = 0 /\ batch = 0
        /\ batches[e].status = "none"
    BY <1>4, <2>2, <2>3
  <2>7. \A m \in Elems(ms) :
          /\ m.sync.batch # 0 => <<m.sync.batch, exec[e].graph, Evidence(e)>> \in BatchesFor
          /\ m.kind = "result" => <<exec[e].graph, Evidence(e)>> \in Ingested
    BY <2>1
  <2>8. Len(ms) <= 2
    BY <2>1
  <2>9. QED
    BY <1>1, <1>3, <1>4, <2>5, <2>6, <2>7, <2>8, GoesOnKeeps
<1>7. QED
  BY <1>5, <1>6 DEF CreatesGraph

LEMMA SetsOntologyKeeps ==
  ASSUME SyncTypeOK, SyncInv, NEW e \in Execs, SetsOntology(e)
  PROVE  SyncTypeOK' /\ SyncInv'
<1>1. /\ bridge[e].pc = "ontology" /\ Len(bridge[e].out) <= MaxAhead
      /\ UNCHANGED <<mapping, exec, graphs, batches>>
  BY DEF SetsOntology, At
<1>2. /\ BridgeKnows(e) /\ ExecKnows(e) /\ graphs \subseteq Execs /\ exec[e].sync.batch \in Ids
  BY <1>1, CallTypes
<1>3. /\ bridge[e].batch = 0 /\ batches[e].status = "none" /\ bridge[e].pc # "none"
      /\ graphs' \subseteq Execs
  BY <1>1, <1>2 DEF BridgeKnows
<1>4. PICK batch \in Ids : batch = IF GraphExists(e) THEN exec[e].sync.batch ELSE 0
  BY <1>2, Numbers
<1>5. PICK pc \in Calling \cup {"ended"} :
        /\ pc = IF GraphExists(e) /\ exec[e].sync.batch # 0 THEN "wait" ELSE "batch"
  BY DEF Calling
<1>6. CASE Fails(e)
  BY <1>1, <1>3, <1>6, FailsKeeps
<1>7. CASE GoesOn(e, IF GraphExists(e) /\ exec[e].sync.batch # 0 THEN "wait" ELSE "batch",
                  IF GraphExists(e) THEN exec[e].sync.batch ELSE 0, 1,
                  <<Milestone(FALSE, IF GraphExists(e) THEN exec[e].sync.batch ELSE 0)>>)
  <2>1. PICK ms \in Seq(Message) :
          /\ ms = <<Milestone(FALSE, batch)>> /\ Len(ms) <= 2
          /\ \A m \in Elems(ms) : m.sync.batch = batch /\ m.kind # "result"
    BY OneMilestone
  <2>2. PICK group \in 1..Groups : group = 1
    BY Numbers
  <2>3. GoesOn(e, pc, batch, group, ms)
    BY <1>4, <1>5, <1>7, <2>1, <2>2 DEF GoesOn
  <2>4. batch # 0 => <<batch, exec[e].graph, Evidence(e)>> \in BatchesFor
    BY <1>2, <1>4 DEF ExecKnows
  <2>5. /\ pc \in {"create", "ontology", "batch"} => batch = 0 /\ batches[e].status = "none"
        /\ pc = "wait" => batch # 0
        /\ pc \notin {"add", "process"}
    BY <1>3, <1>4, <1>5
  <2>6. \A m \in Elems(ms) :
          /\ m.sync.batch # 0 => <<m.sync.batch, exec[e].graph, Evidence(e)>> \in BatchesFor
          /\ m.kind = "result" => <<exec[e].graph, Evidence(e)>> \in Ingested
    BY <2>1, <2>4
  <2>7. Len(ms) <= 2
    BY <2>1
  <2>8. QED
    BY <1>1, <1>3, <2>3, <2>4, <2>5, <2>6, <2>7, GoesOnKeeps
<1>8. QED
  BY <1>6, <1>7 DEF SetsOntology

LEMMA PollsBatchKeeps ==
  ASSUME SyncTypeOK, SyncInv, NEW e \in Execs, PollsBatch(e)
  PROVE  SyncTypeOK' /\ SyncInv'
<1>1. /\ bridge[e].pc = "wait" /\ Len(bridge[e].out) <= MaxAhead
      /\ UNCHANGED <<mapping, exec, graphs, batches>>
  BY DEF PollsBatch, At
<1>2. /\ BridgeKnows(e) /\ graphs \subseteq Execs
      /\ bridge[e].batch \in Ids /\ bridge[e].group \in 1..Groups
  BY <1>1, CallTypes
<1>3. /\ bridge[e].batch # 0 /\ bridge[e].pc # "none" /\ graphs' \subseteq Execs
      /\ <<bridge[e].batch, exec[e].graph, Evidence(e)>> \in BatchesFor
  BY <1>1, <1>2 DEF BridgeKnows
<1>4. PICK batch \in Ids, group \in 1..Groups :
        batch = bridge[e].batch /\ group = bridge[e].group
  BY <1>2
<1>5. PICK told \in Ids :
        /\ told \in {0, batch}
        /\ GoesOn(e, "wait", batch, group, <<Milestone(FALSE, told)>>)
  BY <1>4, Numbers DEF PollsBatch, GoesOn
<1>6. PICK ms \in Seq(Message) :
        /\ ms = <<Milestone(FALSE, told)>> /\ Len(ms) <= 2
        /\ \A m \in Elems(ms) : m.sync.batch = told /\ m.kind # "result"
  BY OneMilestone
<1>7. PICK pc \in Calling \cup {"ended"} : pc = "wait"
  BY DEF Calling
<1>8. GoesOn(e, pc, batch, group, ms)
  BY <1>5, <1>6, <1>7
<1>9. /\ pc \notin {"create", "ontology", "batch", "add", "process"} /\ batch # 0
      /\ bridge[e].batch # 0 => batch = bridge[e].batch
      /\ <<batch, exec[e].graph, Evidence(e)>> \in BatchesFor
  BY <1>3, <1>4, <1>7
<1>10. \A m \in Elems(ms) :
         /\ m.sync.batch # 0 => <<m.sync.batch, exec[e].graph, Evidence(e)>> \in BatchesFor
         /\ m.kind = "result" => <<exec[e].graph, Evidence(e)>> \in Ingested
  BY <1>5, <1>6, <1>9
<1>11. Len(ms) <= 2
  BY <1>6
<1>12. QED
  BY <1>1, <1>3, <1>8, <1>9, <1>10, <1>11, GoesOnKeeps

LEMMA FindsBatchFinishedKeeps ==
  ASSUME SyncTypeOK, SyncInv, NEW e \in Execs, FindsBatchFinished(e)
  PROVE  SyncTypeOK' /\ SyncInv'
<1>1. /\ bridge[e].pc = "wait" /\ Len(bridge[e].out) <= MaxAhead
      /\ UNCHANGED <<mapping, exec, graphs, batches>>
  BY DEF FindsBatchFinished, At
<1>2. /\ BridgeKnows(e) /\ graphs \subseteq Execs
      /\ bridge[e].batch \in Ids /\ bridge[e].group \in 1..Groups
  BY <1>1, CallTypes
<1>3. /\ bridge[e].batch # 0 /\ bridge[e].pc # "none" /\ graphs' \subseteq Execs
      /\ <<bridge[e].batch, exec[e].graph, Evidence(e)>> \in BatchesFor
  BY <1>1, <1>2 DEF BridgeKnows
<1>4. PICK batch \in Execs, group \in 1..Groups :
        batch = bridge[e].batch /\ group = bridge[e].group
  BY <1>2, <1>3, Numbers
<1>5. CASE Fails(e)
  BY <1>1, <1>3, <1>5, FailsKeeps
<1>6. CASE /\ batches[batch].status = "succeeded" /\ Len(batches[batch].items) = Groups
           /\ GoesOn(e, "ended", batch, group, <<Milestone(FALSE, 0), Result>>)
  <2>1. <<exec[e].graph, Evidence(e)>> \in Ingested
    <3>1. Full(batches[batch].items, Groups)
      BY <1>6 DEF SyncInv, HandedOver
    <3>2. Complete(batch)
      BY <1>6, <3>1 DEF Full, Complete, Upto
    <3>3. /\ batches[batch].graph = exec[e].graph
          /\ batches[batch].input.evidence = Evidence(e)
      BY <1>3, <1>4, HasItsBatch
    <3>4. QED
      BY <1>6, <3>2, <3>3 DEF Ingested
  <2>2. PICK m \in Message : /\ m = Milestone(FALSE, 0)
                             /\ m.sync.batch = 0 /\ m.kind = "milestone"
    BY Milestones, Numbers
  <2>3. PICK ms : ms = <<m, Result>>
    OBVIOUS
  <2>4. ms \in Seq(Message) /\ Len(ms) <= 2
    <3>1. PICK r \in Message : r = Result
      BY Answers
    <3>2. <<m, r>> \in Seq(Message) /\ Len(<<m, r>>) <= 2
      OBVIOUS
    <3>3. QED
      BY <2>3, <3>1, <3>2
  <2>5. Elems(ms) = {m, Result}
    BY <2>3, TellsTwo
  <2>6. PICK pc \in Calling \cup {"ended"} : pc = "ended"
    OBVIOUS
  <2>7. GoesOn(e, pc, batch, group, ms)
    BY <1>6, <2>2, <2>3, <2>6
  <2>8. /\ pc \notin Calling /\ batch \in Ids
        /\ bridge[e].batch # 0 => batch = bridge[e].batch
        /\ <<batch, exec[e].graph, Evidence(e)>> \in BatchesFor
    BY <1>3, <1>4, <2>6, Numbers DEF Calling
  <2>9. \A n \in Elems(ms) :
          /\ n.sync.batch # 0 => <<n.sync.batch, exec[e].graph, Evidence(e)>> \in BatchesFor
          /\ n.kind = "result" => <<exec[e].graph, Evidence(e)>> \in Ingested
    BY <2>1, <2>2, <2>5, Answers
  <2>10. pc \notin {"create", "ontology", "batch", "add", "process", "wait"}
    BY <2>6
  <2>11. QED
    BY <1>1, <1>3, <2>4, <2>7, <2>8, <2>9, <2>10, GoesOnKeeps
<1>7. QED
  <2>1. \/ /\ batches[batch].status = "succeeded" /\ Len(batches[batch].items) = Groups
           /\ GoesOn(e, "ended", batch, group, <<Milestone(FALSE, 0), Result>>)
        \/ Fails(e)
    BY <1>4 DEF FindsBatchFinished, GoesOn
  <2>2. QED
    BY <1>5, <1>6, <2>1

(* What the calls do to the batches.                                       *)
LEMMA Making ==
  ASSUME SyncTypeOK, NEW e \in Execs, batches[e].status = "none",
         batches' = [batches EXCEPT ![e] = [status |-> "draft", graph |-> exec[e].graph,
                                            input |-> exec[e].input, items |-> <<>>]]
  PROVE  /\ batches' \in [Execs -> Batch] /\ \A b \in Execs \ {e} : batches'[b] = batches[b]
         /\ batches'[e].status = "draft" /\ batches'[e].graph = exec[e].graph
         /\ batches'[e].input = exec[e].input /\ batches'[e].items = <<>>
         /\ \A b \in Execs : Kept(b)
<1>1. <<>> \in Seq(1..Groups)
  OBVIOUS
<1>2. /\ batches' \in [Execs -> Batch] /\ \A b \in Execs \ {e} : batches'[b] = batches[b]
      /\ batches'[e].status = "draft" /\ batches'[e].graph = exec[e].graph
      /\ batches'[e].input = exec[e].input /\ batches'[e].items = <<>>
  BY <1>1, OwnTypes DEF Batch
<1>3. ASSUME NEW b \in Execs
      PROVE  Kept(b)
  <2>1. CASE b = e
    BY <2>1 DEF Kept
  <2>2. CASE b # e
    BY <1>2, <2>2 DEF Kept
  <2>3. QED
    BY <2>1, <2>2
<1>4. QED
  BY <1>2, <1>3

LEMMA Adding ==
  ASSUME SyncTypeOK, NEW e \in Execs, NEW c \in Execs, c = bridge[e].batch,
         batches[c].status = "draft", batches' = Added(e)
  PROVE  /\ batches' \in [Execs -> Batch] /\ \A b \in Execs \ {c} : batches'[b] = batches[b]
         /\ batches'[c].status = "draft" /\ batches'[c].graph = batches[c].graph
         /\ batches'[c].input = batches[c].input
         /\ batches'[c].items = Append(batches[c].items, bridge[e].group)
         /\ \A b \in Execs : Kept(b)
<1>1. batches' = [batches EXCEPT ![c].items = Append(@, bridge[e].group)]
  BY DEF Added
<1>2. /\ batches \in [Execs -> Batch] /\ batches[c] \in Batch
      /\ bridge[e].group \in 1..Groups /\ batches[c].items \in Seq(1..Groups)
  BY DEF SyncTypeOK, Bridge, Batch
<1>3. Append(batches[c].items, bridge[e].group) \in Seq(1..Groups)
  BY <1>2
<1>4. PICK items \in Seq(1..Groups) : items = Append(batches[c].items, bridge[e].group)
  BY <1>3
<1>5. batches' = [batches EXCEPT ![c].items = items]
  BY <1>1, <1>4
<1>6. /\ batches' \in [Execs -> Batch] /\ \A b \in Execs \ {c} : batches'[b] = batches[b]
      /\ batches'[c].status = "draft" /\ batches'[c].graph = batches[c].graph
      /\ batches'[c].input = batches[c].input /\ batches'[c].items = items
  <2>1. /\ \A b \in Execs \ {c} : batches'[b] = batches[b]
        /\ batches'[c] = [batches[c] EXCEPT !.items = items] /\ DOMAIN batches' = Execs
        /\ batches' = [b \in Execs |-> batches'[b]]
    BY <1>2, <1>5
  <2>2. PICK new : new = [batches[c] EXCEPT !.items = items]
    OBVIOUS
  <2>3. /\ new \in Batch /\ new.status = "draft" /\ new.graph = batches[c].graph
        /\ new.input = batches[c].input /\ new.items = items
    BY <1>2, <2>2 DEF Batch
  <2>4. batches' \in [Execs -> Batch]
    BY <1>2, <2>1, <2>2, <2>3
  <2>5. QED
    BY <2>1, <2>2, <2>3, <2>4
<1>7. ASSUME NEW b \in Execs
      PROVE  Kept(b)
  <2>1. CASE b = c
    BY <1>2, <1>4, <1>6, <2>1 DEF Kept
  <2>2. CASE b # c
    BY <1>6, <2>2 DEF Kept
  <2>3. QED
    BY <2>1, <2>2
<1>8. QED
  BY <1>4, <1>6, <1>7

LEMMA Queueing ==
  ASSUME SyncTypeOK, NEW c \in Execs, batches[c].status # "none",
         NEW status \in {"queued", "succeeded", "failed"},
         batches[c].status = "succeeded" => status = "succeeded",
         batches' = [batches EXCEPT ![c].status = status]
  PROVE  /\ batches' \in [Execs -> Batch] /\ \A b \in Execs \ {c} : batches'[b] = batches[b]
         /\ batches'[c].status = status /\ batches'[c].graph = batches[c].graph
         /\ batches'[c].input = batches[c].input /\ batches'[c].items = batches[c].items
         /\ \A b \in Execs : Kept(b)
<1>1. batches \in [Execs -> Batch] /\ batches[c] \in Batch
  BY OwnTypes
<1>2. /\ batches' \in [Execs -> Batch] /\ \A b \in Execs \ {c} : batches'[b] = batches[b]
      /\ batches'[c].status = status /\ batches'[c].graph = batches[c].graph
      /\ batches'[c].input = batches[c].input /\ batches'[c].items = batches[c].items
      /\ status = batches[c].status => batches'[c] = batches[c]
  BY <1>1 DEF Batch
<1>3. ASSUME NEW b \in Execs
      PROVE  Kept(b)
  <2>1. CASE b = c
    BY <1>2, <2>1 DEF Kept
  <2>2. CASE b # c
    BY <1>2, <2>2 DEF Kept
  <2>3. QED
    BY <2>1, <2>2
<1>4. QED
  BY <1>2, <1>3

LEMMA FullNone ==
  ASSUME NEW s \in Items
  PROVE  Full(s, 0)
<1>1. Len(s) \in Nat /\ (Len(s) = 0 => s = <<>>)
  BY DEF Items
<1>2. QED
  BY <1>1, UptoNone DEF Full

LEMMA CreatesBatchKeeps ==
  ASSUME SyncTypeOK, SyncInv, NEW e \in Execs, CreatesBatch(e)
  PROVE  SyncTypeOK' /\ SyncInv'
<1> DEFINE made == [batches EXCEPT ![e] = [status |-> "draft", graph |-> exec[e].graph,
                                           input |-> exec[e].input, items |-> <<>>]]
<1>1. /\ bridge[e].pc = "batch" /\ Len(bridge[e].out) <= MaxAhead
      /\ UNCHANGED <<mapping, exec, graphs>>
  BY DEF CreatesBatch, At
<1>2. BridgeKnows(e) /\ graphs \subseteq Execs
  BY <1>1, CallTypes
<1>3. /\ bridge[e].batch = 0 /\ batches[e].status = "none" /\ bridge[e].pc # "none"
      /\ graphs' \subseteq Execs
  BY <1>1, <1>2 DEF BridgeKnows
<1>4. batches' = made \/ UNCHANGED batches
  BY DEF CreatesBatch
<1>5. /\ batches' \in [Execs -> Batch] /\ \A b \in Execs \ {e} : batches'[b] = batches[b]
      /\ \A b \in Execs : Kept(b)
      /\ \/ /\ batches'[e].status = "draft" /\ batches'[e].graph = exec[e].graph
            /\ batches'[e].input = exec[e].input /\ batches'[e].items = <<>>
         \/ batches'[e].status = "none"
  <2>1. CASE batches' = made
    BY <1>3, <2>1, Making
  <2>2. CASE UNCHANGED batches
    BY <1>3, <2>2, SameKept, OwnTypes
  <2>3. QED
    BY <1>4, <2>1, <2>2
<1>6. BatchIsOwn(e)'
  BY <1>1, <1>5 DEF BatchIsOwn
<1>7. \A b \in Execs : HandedOver(b)' => HandedOver(b)
  BY <1>5 DEF HandedOver
<1>8. CASE Fails(e)
  <2>1. /\ bridge' \in [Execs -> Bridge] /\ \A d \in Execs \ {e} : bridge'[d] = bridge[d]
        /\ bridge'[e].batch = bridge[e].batch /\ bridge'[e].pc = "ended"
        /\ Len(bridge'[e].out) <= MaxAhead + 2
    BY <1>1, <1>8, Failing
  <2>2. SyncTypeOK'
    BY <1>1, <1>3, <1>5, <2>1, TypeAfterCall
  <2>3. Grows => BridgeKnows(e)'
    BY <1>1, <1>3, <1>8, FailingKnows
  <2>4. AddedInStep(e)'
    BY <2>1 DEF AddedInStep
  <2>5. AddedOnce(e)'
    BY <1>5, <2>1 DEF AddedOnce, HandedOver
  <2>6. SyncInv'
    BY <1>1, <1>3, <1>5, <1>6, <1>7, <2>1, <2>3, <2>4, <2>5, OfBridgeSteps
  <2>7. QED
    BY <2>2, <2>6
<1>9. ASSUME NEW b \in Execs, HasBatch(e, b), <<b, exec[e].graph, Evidence(e)>> \in BatchesFor'
      PROVE  SyncTypeOK' /\ SyncInv'
  <2>1. b \in Ids /\ b # 0
    BY Numbers
  <2>2. PICK m \in Message : /\ m = Milestone(FALSE, b)
                             /\ m.sync.batch = b /\ m.kind = "milestone"
    BY <2>1, Milestones
  <2>3. PICK n \in Message : /\ n = Milestone(FALSE, 0)
                             /\ n.sync.batch = 0 /\ n.kind = "milestone"
    BY Milestones, Numbers
  <2>4. PICK ms : ms = <<m, n>>
    OBVIOUS
  <2>5. ms \in Seq(Message) /\ Len(ms) <= 2 /\ Elems(ms) = {m, n}
    BY <2>4, TellsTwo
  <2>6. PICK pc \in Calling \cup {"ended"} : pc = "add"
    BY DEF Calling
  <2>7. PICK group \in 1..Groups : group = 1
    BY Numbers
  <2>8. Continues(e, pc, b, group, ms)
    <3>1. GoesOn(e, pc, b, group, ms)
      BY <1>9, <2>2, <2>3, <2>4, <2>6, <2>7 DEF HasBatch
    <3>2. QED
      BY <1>1, <2>1, <2>5, <3>1, GoingOn
  <2>9. /\ bridge' \in [Execs -> Bridge] /\ \A d \in Execs \ {e} : bridge'[d] = bridge[d]
        /\ bridge'[e].batch = b /\ bridge'[e].pc \in {"add", "ended"}
        /\ bridge'[e].pc = "add" => bridge'[e].group = 1
        /\ Len(bridge'[e].out) <= MaxAhead + 2
    BY <2>6, <2>7, <2>8 DEF Continues
  <2>10. SyncTypeOK'
    BY <1>1, <1>3, <1>5, <2>9, TypeAfterCall
  <2>11. Grows => BridgeKnows(e)'
    <3>1. \A o \in Elems(ms) :
            /\ o.sync.batch # 0 => <<o.sync.batch, exec[e].graph, Evidence(e)>> \in BatchesFor'
            /\ o.kind = "result" => <<exec[e].graph, Evidence(e)>> \in Ingested'
      BY <1>9, <2>2, <2>3, <2>5
    <3>2. pc \notin {"create", "ontology", "batch"}
      BY <2>6
    <3>3. QED
      BY <1>1, <1>3, <1>9, <2>1, <2>5, <2>8, <3>1, <3>2, GoingOnKnows
  <2>12. AddedInStep(e)'
    <3>1. PICK s \in Items : s = batches'[b].items
      BY <1>5 DEF Batch, Items
    <3>2. Full(s, 0)
      BY FullNone
    <3>3. QED
      BY <2>9, <3>1, <3>2 DEF AddedInStep, Full
  <2>13. AddedOnce(e)'
    <3>1. bridge'[e].pc = "add" => bridge'[e].group - 1 = 0
      BY <2>9
    <3>2. QED
      BY <1>5, <2>9, <3>1, UptoNone DEF AddedOnce, HandedOver
  <2>14. SyncInv'
    BY <1>1, <1>3, <1>5, <1>6, <1>7, <2>9, <2>11, <2>12, <2>13, OfBridgeSteps
  <2>15. QED
    BY <2>10, <2>14
<1>10. CASE batches' = made /\ HasBatch(e, e)
  <2>1. batches'[e].status = "draft"
    BY <1>10, OwnTypes
  <2>2. <<e, exec[e].graph, Evidence(e)>> \in BatchesFor'
    BY <1>5, <2>1 DEF BatchesFor, Evidence
  <2>3. QED
    BY <1>9, <1>10, <2>2
<1>11. ASSUME NEW b \in Execs, SameOperation(e, batches') = {b}, HasBatch(e, b)
       PROVE  SyncTypeOK' /\ SyncInv'
  <2>1. /\ batches'[b].status # "none" /\ batches'[b].graph = exec[e].graph
        /\ batches'[b].input.evidence = Evidence(e)
    BY <1>11 DEF SameOperation, Evidence
  <2>2. <<b, exec[e].graph, Evidence(e)>> \in BatchesFor'
    BY <2>1 DEF BatchesFor
  <2>3. QED
    BY <1>9, <1>11, <2>2
<1>12. \/ batches' = made /\ HasBatch(e, e)
       \/ \E b \in Execs : SameOperation(e, batches') = {b} /\ HasBatch(e, b)
       \/ Fails(e)
  BY DEF CreatesBatch
<1>13. QED
  BY <1>8, <1>10, <1>11, <1>12

LEMMA AddsGroupKeeps ==
  ASSUME SyncTypeOK, SyncInv, NEW e \in Execs, AddsGroup(e)
  PROVE  SyncTypeOK' /\ SyncInv'
<1>1. /\ bridge[e].pc = "add" /\ Len(bridge[e].out) <= MaxAhead
      /\ UNCHANGED <<mapping, exec, graphs>>
  BY DEF AddsGroup, At
<1>2. BridgeKnows(e) /\ AddedInStep(e) /\ AddedOnce(e) /\ BatchIsOwn(e) /\ graphs \subseteq Execs
  BY <1>1, CallTypes DEF SyncInv
<1>3. /\ bridge[e].batch # 0 /\ bridge[e].pc # "none" /\ graphs' \subseteq Execs
      /\ <<bridge[e].batch, exec[e].graph, Evidence(e)>> \in BatchesFor
  BY <1>1, <1>2 DEF BridgeKnows
<1>4. PICK c \in Execs, k \in 1..Groups : c = bridge[e].batch /\ k = bridge[e].group
  BY <1>3, HasItsBatch DEF SyncTypeOK, Bridge
<1>5. PICK s \in Items : s = batches[c].items
  BY DEF SyncTypeOK, Batch, Items
<1>6. Full(s, k - 1)
  BY <1>1, <1>2, <1>4, <1>5 DEF AddedInStep, Full
<1>7. CASE UNCHANGED batches /\ Fails(e)
  BY <1>1, <1>3, <1>7, FailsKeeps
<1>8. ASSUME batches[c].status = "draft", batches' = Added(e), AfterAdding(e) \/ Fails(e)
      PROVE  SyncTypeOK' /\ SyncInv'
  <2>1. /\ batches' \in [Execs -> Batch] /\ \A b \in Execs \ {c} : batches'[b] = batches[b]
        /\ batches'[c].status = "draft" /\ batches'[c].graph = batches[c].graph
        /\ batches'[c].input = batches[c].input
        /\ batches'[c].items = Append(s, k)
        /\ \A b \in Execs : Kept(b)
    BY <1>4, <1>5, <1>8, Adding
  <2>2. BatchIsOwn(e)'
    <3>1. CASE c = e
      BY <1>1, <1>2, <1>8, <2>1, <3>1 DEF BatchIsOwn
    <3>2. CASE c # e
      BY <1>1, <1>2, <2>1, <3>2 DEF BatchIsOwn
    <3>3. QED
      BY <3>1, <3>2
  <2>3. \A b \in Execs : HandedOver(b)' => HandedOver(b)
    BY <2>1 DEF HandedOver
  <2>4. \A b \in Execs \ {e} : b # bridge[e].batch => batches'[b] = batches[b]
    BY <1>4, <2>1
  <2>5. CASE Fails(e)
    <3>1. /\ bridge' \in [Execs -> Bridge] /\ \A d \in Execs \ {e} : bridge'[d] = bridge[d]
          /\ bridge'[e].batch = bridge[e].batch /\ bridge'[e].pc = "ended"
          /\ Len(bridge'[e].out) <= MaxAhead + 2
      BY <1>1, <2>5, Failing
    <3>2. SyncTypeOK'
      BY <1>1, <1>3, <2>1, <3>1, TypeAfterCall
    <3>3. Grows => BridgeKnows(e)'
      BY <1>1, <1>3, <2>5, FailingKnows
    <3>4. AddedInStep(e)'
      BY <3>1 DEF AddedInStep
    <3>5. Alone(e) => AddedOnce(e)'
      <4>1. CASE c = e
        BY <2>1, <3>1, <4>1 DEF AddedOnce, HandedOver
      <4>2. CASE c # e
        BY <2>1, <3>1, <4>2, OnceApart
      <4>3. QED
        BY <4>1, <4>2
    <3>6. SyncInv'
      BY <1>1, <2>1, <2>2, <2>3, <2>4, <3>1, <3>3, <3>4, <3>5, OfBridgeSteps
    <3>7. QED
      BY <3>2, <3>6
  <2>6. ASSUME NEW pc \in {"add", "process"}, NEW group \in 1..Groups, NEW ms \in Seq(Message),
               Len(ms) <= 2, \A m \in Elems(ms) : m.sync.batch = 0 /\ m.kind # "result",
               GoesOn(e, pc, c, group, ms),
               \/ pc = "add" /\ group - 1 = k
               \/ pc = "process" /\ k = Groups
        PROVE  SyncTypeOK' /\ SyncInv'
    <3>1. pc \in Calling \cup {"ended"} /\ c \in Ids /\ c # 0
      BY Numbers DEF Calling
    <3>2. Continues(e, pc, c, group, ms)
      BY <1>1, <2>6, <3>1, GoingOn
    <3>3. /\ bridge' \in [Execs -> Bridge] /\ \A d \in Execs \ {e} : bridge'[d] = bridge[d]
          /\ bridge'[e].batch = c /\ bridge'[e].pc \in {pc, "ended"}
          /\ bridge'[e].pc = "add" => bridge'[e].group = group
          /\ Len(bridge'[e].out) <= MaxAhead + 2
      BY <3>2 DEF Continues
    <3>4. SyncTypeOK'
      BY <1>1, <1>3, <2>1, <3>3, TypeAfterCall
    <3>5. Grows => BridgeKnows(e)'
      <4>1. ASSUME Grows
            PROVE  <<c, exec[e].graph, Evidence(e)>> \in BatchesFor'
        BY <1>3, <1>4, <4>1 DEF Grows
      <4>2. pc \notin {"create", "ontology", "batch"}
        OBVIOUS
      <4>3. QED
        BY <1>1, <1>3, <2>6, <3>1, <3>2, <4>1, <4>2, GoingOnKnows
    <3>6. Full(Append(s, k), k)
      BY <1>6, FullNext
    <3>7. AddedInStep(e)'
      <4>1. bridge'[e].pc = "add" => Full(Append(s, k), bridge'[e].group - 1)
        BY <2>6, <3>3, <3>6
      <4>2. bridge'[e].pc = "process" => Full(Append(s, k), Groups)
        BY <2>6, <3>3, <3>6
      <4>3. batches'[bridge'[e].batch].items = Append(s, k)
        BY <2>1, <3>3
      <4>4. QED
        BY <4>1, <4>2, <4>3 DEF AddedInStep
    <3>8. Alone(e) => AddedOnce(e)'
      <4>1. CASE c # e
        BY <2>1, <3>3, <4>1, OnceApart
      <4>2. ASSUME c = e, Alone(e)
            PROVE  AddedOnce(e)'
        <5>1. s = Upto(k - 1)
          BY <1>1, <1>2, <1>4, <1>5, <1>8, <4>2 DEF AddedOnce
        <5>2. batches'[e].items = Upto(k)
          BY <2>1, <4>2, <5>1, UptoMore
        <5>3. bridge'[e].pc = "add" => batches'[e].items = Upto(bridge'[e].group - 1)
          BY <2>6, <3>3, <5>2
        <5>4. bridge'[e].pc = "process" => Complete(e)'
          BY <2>6, <3>3, <5>2 DEF Complete, Upto
        <5>5. ~HandedOver(e)'
          BY <2>1, <4>2 DEF HandedOver
        <5>6. QED
          BY <5>3, <5>4, <5>5 DEF AddedOnce
      <4>3. QED
        BY <4>1, <4>2
    <3>9. SyncInv'
      <4>1. bridge[e].batch # 0 => bridge'[e].batch = bridge[e].batch
        BY <1>4, <3>3
      <4>2. QED
        BY <1>1, <2>1, <2>2, <2>3, <2>4, <3>3, <3>5, <3>7, <3>8, <4>1, OfBridgeSteps
    <3>10. QED
      BY <3>4, <3>9
  <2>7. CASE k < Groups /\ GoesOn(e, "add", c, k + 1, <<Milestone(FALSE, 0)>>)
    <3>1. PICK ms \in Seq(Message) :
            /\ ms = <<Milestone(FALSE, 0)>> /\ Len(ms) <= 2
            /\ \A m \in Elems(ms) : m.sync.batch = 0 /\ m.kind # "result"
      BY OneMilestone, Numbers
    <3>2. k + 1 \in 1..Groups /\ (k + 1) - 1 = k
      BY <2>7, Numbers
    <3>3. PICK group \in 1..Groups : group = k + 1 /\ group - 1 = k
      BY <3>2
    <3>4. GoesOn(e, "add", c, group, ms)
      BY <2>7, <3>1, <3>3
    <3>5. QED
      BY <2>6, <3>1, <3>3, <3>4
  <2>8. CASE k = Groups /\ GoesOn(e, "process", c, 1, <<>>)
    <3>1. PICK ms \in Seq(Message) : ms = <<>>
      <4>1. <<>> \in Seq(Message)
        OBVIOUS
      <4>2. QED
        BY <4>1
    <3>2. Len(ms) <= 2 /\ \A m \in Elems(ms) : m.sync.batch = 0 /\ m.kind # "result"
      BY <3>1, NothingTold
    <3>3. PICK group \in 1..Groups : group = 1
      BY Numbers
    <3>4. GoesOn(e, "process", c, group, ms)
      BY <2>8, <3>1, <3>3
    <3>5. QED
      BY <2>6, <2>8, <3>2, <3>4
  <2>9. QED
    <3>1. ASSUME AfterAdding(e)
          PROVE  \/ k < Groups /\ GoesOn(e, "add", c, k + 1, <<Milestone(FALSE, 0)>>)
                 \/ k = Groups /\ GoesOn(e, "process", c, 1, <<>>)
      <4>1. CASE k < Groups
        BY <1>4, <3>1, <4>1 DEF AfterAdding, GoesOn
      <4>2. CASE ~(k < Groups)
        <5>1. k = Groups
          BY <4>2, Numbers
        <5>2. GoesOn(e, "process", c, 1, <<>>)
          BY <1>4, <3>1, <4>2 DEF AfterAdding, GoesOn
        <5>3. QED
          BY <5>1, <5>2
      <4>3. QED
        BY <4>1, <4>2
    <3>2. QED
      BY <1>8, <2>5, <2>7, <2>8, <3>1
<1>9. QED
  <2>1. \/ batches[c].status = "draft" /\ batches' = Added(e) /\ (AfterAdding(e) \/ Fails(e))
        \/ UNCHANGED batches /\ Fails(e)
    BY <1>4 DEF AddsGroup
  <2>2. QED
    BY <1>7, <1>8, <2>1

LEMMA HandsOverKeeps ==
  ASSUME SyncTypeOK, SyncInv, NEW e \in Execs, HandsOver(e)
  PROVE  SyncTypeOK' /\ SyncInv'
<1>1. /\ bridge[e].pc = "process" /\ Len(bridge[e].out) <= MaxAhead
      /\ UNCHANGED <<mapping, exec, graphs>>
  BY DEF HandsOver, At
<1>2. BridgeKnows(e) /\ AddedInStep(e) /\ AddedOnce(e) /\ BatchIsOwn(e) /\ graphs \subseteq Execs
  BY <1>1, CallTypes DEF SyncInv
<1>3. /\ bridge[e].batch # 0 /\ bridge[e].pc # "none" /\ graphs' \subseteq Execs
      /\ <<bridge[e].batch, exec[e].graph, Evidence(e)>> \in BatchesFor
  BY <1>1, <1>2 DEF BridgeKnows
<1>4. PICK c \in Execs : c = bridge[e].batch /\ batches[c].status # "none"
  BY <1>3, HasItsBatch
<1>5. batches[c].status \in {"draft", "queued", "succeeded", "failed"}
  BY <1>4, OwnTypes DEF SyncTypeOK, Batch
<1>6. PICK status \in {"queued", "succeeded", "failed"} :
        status = IF batches[c].status = "draft" THEN "queued" ELSE batches[c].status
  BY <1>5
<1>7. Full(batches[c].items, Groups)
  BY <1>1, <1>2, <1>4 DEF AddedInStep
<1>8. batches' = [batches EXCEPT ![c].status = status] \/ UNCHANGED batches
  BY <1>4, <1>6 DEF HandsOver
<1>9. /\ batches' \in [Execs -> Batch] /\ \A b \in Execs \ {c} : batches'[b] = batches[b]
      /\ batches'[c].graph = batches[c].graph /\ batches'[c].input = batches[c].input
      /\ batches'[c].items = batches[c].items /\ batches'[c].status # "none"
      /\ \A b \in Execs : Kept(b)
  <2>1. CASE batches' = [batches EXCEPT ![c].status = status]
    <3>1. batches[c].status = "succeeded" => status = "succeeded"
      BY <1>6
    <3>2. QED
      BY <1>4, <2>1, <3>1, Queueing
  <2>2. CASE UNCHANGED batches
    BY <1>4, <2>2, SameKept, OwnTypes
  <2>3. QED
    BY <1>8, <2>1, <2>2
<1>10. BatchIsOwn(e)'
  <2>1. CASE c = e
    BY <1>1, <1>2, <1>4, <1>9, <2>1 DEF BatchIsOwn
  <2>2. CASE c # e
    BY <1>1, <1>2, <1>9, <2>2 DEF BatchIsOwn
  <2>3. QED
    BY <2>1, <2>2
<1>11. \A b \in Execs : HandedOver(b)' => HandedOver(b) \/ Full(batches'[b].items, Groups)
  <2>1. Full(batches'[c].items, Groups)
    BY <1>7, <1>9
  <2>2. \A b \in Execs \ {c} : HandedOver(b)' => HandedOver(b)
    BY <1>9 DEF HandedOver
  <2>3. QED
    BY <2>1, <2>2
<1>12. \A b \in Execs \ {e} : b # bridge[e].batch => batches'[b] = batches[b]
  BY <1>4, <1>9
<1>13. ASSUME bridge' \in [Execs -> Bridge], \A d \in Execs \ {e} : bridge'[d] = bridge[d],
              bridge'[e].batch = bridge[e].batch, bridge'[e].pc \notin {"add", "process"},
              Len(bridge'[e].out) <= MaxAhead + 2, Grows => BridgeKnows(e)'
       PROVE  SyncTypeOK' /\ SyncInv'
  <2>1. SyncTypeOK'
    BY <1>1, <1>3, <1>9, <1>13, TypeAfterCall
  <2>2. AddedInStep(e)'
    BY <1>13 DEF AddedInStep
  <2>3. Alone(e) => AddedOnce(e)'
    <3>1. CASE c # e
      BY <1>9, <1>13, <3>1, OnceApart
    <3>2. ASSUME c = e, Alone(e)
          PROVE  AddedOnce(e)'
      <4>1. Complete(e)
        BY <1>1, <1>2, <1>4, <3>2 DEF AddedOnce
      <4>2. Complete(e)'
        BY <1>9, <3>2, <4>1 DEF Complete
      <4>3. QED
        BY <1>13, <4>2 DEF AddedOnce
    <3>3. QED
      BY <3>1, <3>2
  <2>4. SyncInv'
    BY <1>1, <1>9, <1>10, <1>11, <1>12, <1>13, <2>2, <2>3, OfBridgeSteps
  <2>5. QED
    BY <2>1, <2>4
<1>14. CASE Fails(e)
  <2>1. /\ bridge' \in [Execs -> Bridge] /\ \A d \in Execs \ {e} : bridge'[d] = bridge[d]
        /\ bridge'[e].batch = bridge[e].batch /\ bridge'[e].pc = "ended"
        /\ Len(bridge'[e].out) <= MaxAhead + 2
    BY <1>1, <1>14, Failing
  <2>2. Grows => BridgeKnows(e)'
    BY <1>1, <1>3, <1>14, FailingKnows
  <2>3. QED
    BY <1>13, <2>1, <2>2
<1>15. CASE GoesOn(e, "wait", c, Groups, <<Milestone(FALSE, c)>>)
  <2>1. PICK ms \in Seq(Message) :
          /\ ms = <<Milestone(FALSE, c)>> /\ Len(ms) <= 2
          /\ \A m \in Elems(ms) : m.sync.batch = c /\ m.kind # "result"
    BY OneMilestone, Numbers
  <2>2. PICK pc \in Calling \cup {"ended"} : pc = "wait"
    BY DEF Calling
  <2>3. PICK group \in 1..Groups : group = Groups
    BY Numbers
  <2>4. c \in Ids /\ c # 0
    BY Numbers
  <2>5. Continues(e, pc, c, group, ms)
    <3>1. GoesOn(e, pc, c, group, ms)
      BY <1>15, <2>1, <2>2, <2>3
    <3>2. QED
      BY <1>1, <2>1, <2>4, <3>1, GoingOn
  <2>6. /\ bridge' \in [Execs -> Bridge] /\ \A d \in Execs \ {e} : bridge'[d] = bridge[d]
        /\ bridge'[e].batch = c /\ bridge'[e].pc \in {"wait", "ended"}
        /\ Len(bridge'[e].out) <= MaxAhead + 2
    BY <2>2, <2>5 DEF Continues
  <2>7. ASSUME Grows
        PROVE  BridgeKnows(e)'
    <3>1. <<c, exec[e].graph, Evidence(e)>> \in BatchesFor'
      BY <1>3, <1>4, <2>7 DEF Grows
    <3>2. \A m \in Elems(ms) :
            /\ m.sync.batch # 0 => <<m.sync.batch, exec[e].graph, Evidence(e)>> \in BatchesFor'
            /\ m.kind = "result" => <<exec[e].graph, Evidence(e)>> \in Ingested'
      BY <2>1, <3>1
    <3>3. pc \notin {"create", "ontology", "batch"}
      BY <2>2
    <3>4. QED
      BY <1>1, <1>3, <2>4, <2>5, <2>7, <3>1, <3>2, <3>3, GoingOnKnows
  <2>8. bridge'[e].batch = bridge[e].batch /\ bridge'[e].pc \notin {"add", "process"}
    BY <1>4, <2>6
  <2>9. QED
    BY <1>13, <2>6, <2>7, <2>8
<1>16. QED
  <2>1. Fails(e) \/ GoesOn(e, "wait", c, Groups, <<Milestone(FALSE, c)>>)
    BY <1>4 DEF HandsOver, GoesOn
  <2>2. QED
    BY <1>14, <1>15, <2>1

LEMMA ZepFinishesKeeps ==
  ASSUME SyncTypeOK, SyncInv, NEW b \in Execs, ZepFinishes(b)
  PROVE  SyncTypeOK' /\ SyncInv'
<1>1. /\ batches[b].status = "queued" /\ UNCHANGED <<mapping, exec, bridge, graphs>>
  BY DEF ZepFinishes
<1>2. PICK how \in {"succeeded", "failed"} : batches' = [batches EXCEPT ![b].status = how]
  BY DEF ZepFinishes
<1>3. /\ batches' \in [Execs -> Batch] /\ \A c \in Execs \ {b} : batches'[c] = batches[c]
      /\ batches'[b].status = how /\ batches'[b].graph = batches[b].graph
      /\ batches'[b].input = batches[b].input /\ batches'[b].items = batches[b].items
      /\ \A c \in Execs : Kept(c)
  <2>1. PICK status \in {"queued", "succeeded", "failed"} : status = how
    OBVIOUS
  <2>2. batches[b].status # "none" /\ batches[b].status # "succeeded"
    BY <1>1
  <2>3. batches' = [batches EXCEPT ![b].status = status]
    BY <1>2, <2>1
  <2>4. QED
    BY <2>1, <2>2, <2>3, Queueing
<1>4. SyncTypeOK'
  BY <1>1, <1>3 DEF SyncTypeOK
<1>5. BatchIsOwn(b)'
  <2>1. BatchIsOwn(b)
    BY DEF SyncInv
  <2>2. QED
    BY <1>1, <1>3, <2>1 DEF BatchIsOwn
<1>6. \A c \in Execs : HandedOver(c)' => HandedOver(c)
  BY <1>1, <1>3 DEF HandedOver
<1>7. BridgeKnows(b) /\ AddedInStep(b) /\ AddedOnce(b)
  BY DEF SyncInv
<1>8. Grows => BridgeKnows(b)'
  BY <1>1, <1>7, BridgeStillKnows
<1>9. AddedInStep(b)'
  BY <1>1, <1>3, <1>7, StillAdded
<1>10. Alone(b) => AddedOnce(b)'
  <2>1. batches[b].status # "none" /\ (HandedOver(b)' => HandedOver(b))
    BY <1>1, <1>6
  <2>2. QED
    BY <1>1, <1>3, <1>7, <2>1, StillAddedOnce
<1>11. /\ \A c \in Execs \ {b} : c # bridge[b].batch => batches'[c] = batches[c]
       /\ \A d \in Execs \ {b} : bridge'[d] = bridge[d]
       /\ bridge[b].batch # 0 => bridge'[b].batch = bridge[b].batch
  BY <1>1, <1>3
<1>12. SyncInv'
  BY <1>1, <1>3, <1>5, <1>6, <1>8, <1>9, <1>10, <1>11, OfBridgeSteps
<1>13. QED
  BY <1>4, <1>12

-----------------------------------------------------------------------------
(* Every step                                                              *)

LEMMA SyncInitHolds ==
  ASSUME SyncInit
  PROVE  SyncTypeOK /\ SyncInv
<1>1. /\ mapping.status = "none" /\ mapping.graph = 0 /\ mapping.sync = NoSync
      /\ mapping = [status |-> "none", graph |-> 0, input |-> NoInput, sync |-> NoSync]
  BY DEF SyncInit
<1>2. NoInput \in Inputs
  BY DEF NoInput
<1>3. mapping \in Mapping
  BY <1>1, <1>2, Answers, Numbers DEF Mapping
<1>4. ASSUME NEW e \in Execs
      PROVE  /\ exec[e].pc = "idle" /\ exec[e].graph = 0 /\ exec[e].sync = NoSync
             /\ bridge[e] = NoBridge /\ batches[e].status = "none"
             /\ Len(bridge[e].out) <= MaxAhead + 2 /\ bridge[e].out = <<>>
  <2>1. exec[e].pc = "idle" /\ exec[e].graph = 0 /\ exec[e].sync = NoSync
    BY DEF SyncInit
  <2>2. bridge[e] = NoBridge /\ batches[e].status = "none"
    BY DEF SyncInit
  <2>3. Len(<<>>) <= MaxAhead + 2
    BY Numbers
  <2>4. QED
    BY <2>1, <2>2, <2>3, NewBridge
<1>5. SyncTypeOK
  <2>1. <<>> \in Seq(1..Groups)
    OBVIOUS
  <2>2. [pc |-> "idle", input |-> NoInput, graph |-> 0, resumed |-> FALSE, sync |-> NoSync]
          \in Exec
    BY <1>2, Answers, Numbers DEF Exec
  <2>3. [status |-> "none", graph |-> 0, input |-> NoInput, items |-> <<>>] \in Batch
    BY <1>2, <2>1, Numbers DEF Batch
  <2>4. exec \in [Execs -> Exec]
    BY <2>2 DEF SyncInit
  <2>5. bridge \in [Execs -> Bridge] /\ graphs \subseteq Execs
    BY NewBridge DEF SyncInit
  <2>6. batches \in [Execs -> Batch]
    BY <2>3 DEF SyncInit
  <2>7. QED
    BY <1>3, <1>4, <2>4, <2>5, <2>6 DEF SyncTypeOK
<1>6. MappingKnows
  BY <1>1, Answers DEF MappingKnows
<1>7. ASSUME NEW e \in Execs
      PROVE  /\ ExecKnows(e) /\ BridgeKnows(e) /\ BatchIsOwn(e)
             /\ AddedInStep(e) /\ AddedOnce(e) /\ ~HandedOver(e)
  <2>1. ExecKnows(e)
    BY <1>4, Answers DEF ExecKnows
  <2>2. BridgeKnows(e)
    BY <1>4, ToldNothing, NewBridge DEF BridgeKnows
  <2>3. QED
    BY <1>4, <2>1, <2>2, NewBridge DEF BatchIsOwn, AddedInStep, AddedOnce, HandedOver
<1>8. QED
  BY <1>5, <1>6, <1>7 DEF SyncInv

LEMMA StutterKeeps ==
  ASSUME SyncTypeOK, SyncInv, UNCHANGED syncVars
  PROVE  SyncTypeOK' /\ SyncInv'
<1>1. UNCHANGED <<mapping, exec, bridge, graphs, batches>>
  BY DEF syncVars
<1>2. /\ ReservedFor' = ReservedFor /\ BatchesFor' = BatchesFor /\ Ingested' = Ingested
  BY <1>1, SameBatches DEF ReservedFor, Evidence
<1>3. SyncTypeOK'
  BY <1>1 DEF SyncTypeOK
<1>4. Grows
  BY <1>2 DEF Grows
<1>5. MappingKnows'
  BY <1>1, <1>4, RowKnows DEF SyncInv
<1>6. ASSUME NEW e \in Execs
      PROVE  /\ ExecKnows(e)' /\ BridgeKnows(e)' /\ BatchIsOwn(e)' /\ AddedInStep(e)'
             /\ AddedOnce(e)' /\ (HandedOver(e)' => Full(batches[e].items, Groups)')
  <2>1. ExecKnows(e)' /\ BridgeKnows(e)'
    BY <1>1, <1>4, ExecStillKnows, BridgeStillKnows DEF SyncInv
  <2>2. BatchIsOwn(e)'
    BY <1>1 DEF SyncInv, BatchIsOwn
  <2>3. AddedInStep(e)'
    BY <1>1 DEF SyncInv, AddedInStep
  <2>4. AddedOnce(e)'
    BY <1>1 DEF SyncInv, AddedOnce, Alone, HandedOver, Complete
  <2>5. HandedOver(e)' => Full(batches[e].items, Groups)'
    BY <1>1 DEF SyncInv, HandedOver
  <2>6. QED
    BY <2>1, <2>2, <2>3, <2>4, <2>5
<1>7. QED
  BY <1>3, <1>5, <1>6 DEF SyncInv

LEMMA SyncStepKeeps ==
  ASSUME SyncTypeOK, SyncInv, [SyncNext]_syncVars
  PROVE  SyncTypeOK' /\ SyncInv'
<1>1. CASE UNCHANGED syncVars
  BY <1>1, StutterKeeps
<1>2. ASSUME NEW e \in Execs, NEW i \in Inputs, ExecBegins(e, i)
      PROVE  SyncTypeOK' /\ SyncInv'
  BY <1>2, ExecBeginsKeeps
<1>3. ASSUME NEW e \in Execs, ExecStep(e)
      PROVE  SyncTypeOK' /\ SyncInv'
  BY <1>3, LooksKeeps, ReservesKeeps, WritesMilestoneKeeps, CallReturnsKeeps,
     CallTimesOutKeeps, PublishesGraphKeeps, PreparesKeeps, MarksReadyKeeps DEF ExecStep
<1>4. ASSUME NEW e \in Execs, WorkerDies(e)
      PROVE  SyncTypeOK' /\ SyncInv'
  BY <1>4, WorkerDiesKeeps
<1>5. ASSUME NEW e \in Execs, BridgeStep(e)
      PROVE  SyncTypeOK' /\ SyncInv'
  BY <1>5, CreatesGraphKeeps, SetsOntologyKeeps, CreatesBatchKeeps, AddsGroupKeeps,
     HandsOverKeeps, PollsBatchKeeps, FindsBatchFinishedKeeps DEF BridgeStep
<1>6. ASSUME NEW b \in Execs, ZepFinishes(b)
      PROVE  SyncTypeOK' /\ SyncInv'
  BY <1>6, ZepFinishesKeeps
<1>7. QED
  BY <1>1, <1>2, <1>3, <1>4, <1>5, <1>6 DEF SyncNext

-----------------------------------------------------------------------------
(* Theorems                                                                *)

(* The types, and that what the row, the executions and the messages of    *)
(* the bridges say of a graph is true of it and of the evidence they say   *)
(* it for, at every step of _prepare_oasis_environment and its bridge.     *)
THEOREM SyncInvHolds == SyncSpec => [](SyncTypeOK /\ SyncInv)
<1>1. SyncInit => SyncTypeOK /\ SyncInv
  BY SyncInitHolds
<1>2. SyncTypeOK /\ SyncInv /\ [SyncNext]_syncVars => (SyncTypeOK /\ SyncInv)'
  BY SyncStepKeeps
<1>3. QED
  BY <1>1, <1>2, PTL DEF SyncSpec

(* A row becomes graph_ready or ready only for a graph that has ingested   *)
(* the evidence of that row in full and once in one batch, whatever        *)
(* replies were lost, workers died and executions overlapped.              *)
THEOREM ReadyIsCompleteHolds == SyncSpec => []ReadyIsComplete
<1>1. SyncInv => ReadyIsComplete
  <2> SUFFICES ASSUME SyncInv, mapping.status \in {"graph_ready", "ready"}
               PROVE  \E b \in Execs :
                        /\ batches[b].graph = mapping.graph /\ batches[b].status = "succeeded"
                        /\ batches[b].input.evidence = mapping.input.evidence /\ Complete(b)
    BY DEF ReadyIsComplete
  <2>1. <<mapping.graph, mapping.input.evidence>> \in Ingested
    BY DEF SyncInv, MappingKnows
  <2>2. QED
    BY <2>1 DEF Ingested
<1>2. QED
  BY <1>1, SyncInvHolds, PTL

(* No graph receives the evidence of two versions: what                    *)
(* _prepare_oasis_environment lets a later execution resume was reserved   *)
(* for the same evidence.                                                  *)
THEOREM OneEvidencePerGraphHolds == SyncSpec => []OneEvidencePerGraph
<1>1. SyncInv => OneEvidencePerGraph
  <2> SUFFICES ASSUME SyncInv, NEW b \in Execs, NEW c \in Execs, HandedOver(b), HandedOver(c),
                      batches[b].graph = batches[c].graph
               PROVE  batches[b].input.evidence = batches[c].input.evidence
    BY DEF OneEvidencePerGraph
  <2>1. ASSUME NEW d \in Execs, HandedOver(d)
        PROVE  /\ batches[d].graph \in Execs
               /\ batches[d].input.evidence = Evidence(batches[d].graph)
    <3>1. batches[d].graph = exec[d].graph /\ batches[d].input = exec[d].input
      BY <2>1 DEF SyncInv, BatchIsOwn, HandedOver
    <3>2. exec[d].graph # 0
      <4>1. bridge[d].pc # "none"
        BY <2>1 DEF SyncInv, BridgeKnows, HandedOver
      <4>2. QED
        BY <4>1 DEF SyncInv, BridgeKnows
    <3>3. <<exec[d].graph, Evidence(d)>> \in ReservedFor
      BY <3>2 DEF SyncInv, ExecKnows
    <3>4. QED
      BY <3>1, <3>3 DEF ReservedFor, Evidence
  <2>2. QED
    BY <2>1 DEF Evidence
<1>2. QED
  BY <1>1, SyncInvHolds, PTL

(* Lost replies of batch.create, batch.add and batch.process do not make   *)
(* an execution repeat what it did: a batch that no other one took up is   *)
(* handed over with every chunk once, in order.                            *)
THEOREM OncePerAttemptHolds == SyncSpec => []OncePerAttempt
<1>1. SyncInv => OncePerAttempt
  <2> SUFFICES ASSUME SyncInv, NEW b \in Execs, HandedOver(b), Alone(b)
               PROVE  Complete(b)
    BY DEF OncePerAttempt, Alone
  <2>1. AddedOnce(b) /\ batches[b].status # "none"
    BY DEF SyncInv, HandedOver
  <2>2. QED
    BY <2>1 DEF AddedOnce
<1>2. QED
  BY <1>1, SyncInvHolds, PTL

=============================================================================
