--------------------------- MODULE MemoryUpdater ---------------------------
(***************************************************************************)
(* The updater of the graph memory of one simulation                       *)
(* (oasis_engine_runtime/app/services/zep_graph_memory_updater.py).        *)
(*                                                                         *)
(* The monitor thread of the simulation adds activities; a worker thread   *)
(* batches them by platform and writes each batch to the graph; a call of  *)
(* stop() closes the door, waits for the worker, writes what is left and   *)
(* waits until the graph has processed it.  A stop that raises is called   *)
(* again.  Stops are serialised by the finalization lock of the runner.    *)
(*                                                                         *)
(* An activity is its number in the order of acceptance.  Activities that  *)
(* are filtered before the queue (DO_NOTHING, failed actions) leave no     *)
(* trace.  How a batch is split into payloads depends on the length of its *)
(* texts: any non-empty prefix may be the next payload.                    *)
(***************************************************************************)
EXTENDS Naturals, Sequences

CONSTANTS
  Platforms,      \* the platforms of the simulation
  BatchSize,      \* BATCH_SIZE
  MaxActivities,  \* bound: activities offered
  NoPlatform

ASSUME UpdaterAssumption ==
  /\ BatchSize \in Nat \ {0}
  /\ MaxActivities \in Nat
  /\ NoPlatform \notin Platforms

VARIABLES
  accepted,   \* the platform of each accepted activity
  running,    \* _running: add_activity accepts
  queue,      \* _activity_queue
  buffers,    \* _platform_buffers
  worker,     \* the worker thread: where it is, what it holds
  stop,       \* the call of stop(): where it is, what it holds
  written,    \* per platform, the activities passed to graph.add, in order
  failed,     \* _failed_batches
  pending,    \* _pending_episode_uuids
  processed,  \* what the graph has processed
  manager     \* the manager's entry: retained, removed or discarded

updaterVars == <<accepted, running, queue, buffers, worker, stop, written,
                 failed, pending, processed, manager>>

Ids == 1..Len(accepted)
ToSet(s) == {s[i] : i \in DOMAIN s}
FirstOf(s, n) == SubSeq(s, 1, n)
After(s, n) == SubSeq(s, n + 1, Len(s))

WorkerPC == {"loop", "took", "send", "dead"}
StopPC == {"idle", "join", "drain", "flush", "send", "wait", "done", "raised"}

UpdaterTypeOK ==
  /\ accepted \in Seq(Platforms)
  /\ running \in BOOLEAN
  /\ queue \in Seq(Nat)
  /\ buffers \in [Platforms -> Seq(Nat)]
  /\ worker \in [pc: WorkerPC, hand: Seq(Nat), platform: Platforms \cup {NoPlatform}]
  /\ stop \in [pc: StopPC, hand: Seq(Nat), platform: Platforms \cup {NoPlatform},
               sent: Nat, left: SUBSET Platforms]
  /\ written \in [Platforms -> Seq(Nat)]
  /\ failed \subseteq Ids /\ pending \subseteq Ids /\ processed \subseteq Ids
  /\ manager \in {"retained", "removed", "discarded"}

Loop == [pc |-> "loop", hand |-> <<>>, platform |-> NoPlatform]
StopAt(pc) == [pc |-> pc, hand |-> <<>>, platform |-> NoPlatform, sent |-> 0, left |-> {}]

UpdaterInit ==
  /\ accepted = <<>> /\ running = TRUE
  /\ queue = <<>>
  /\ buffers = [p \in Platforms |-> <<>>]
  /\ worker = Loop
  /\ stop = StopAt("idle")
  /\ written = [p \in Platforms |-> <<>>]
  /\ failed = {} /\ pending = {} /\ processed = {}
  /\ manager = "retained"

-----------------------------------------------------------------------------
(* The producer: check and enqueue under the acceptance lock *)

AddActivity(p) ==
  /\ running /\ Len(accepted) < MaxActivities
  /\ accepted' = Append(accepted, p)
  /\ queue' = Append(queue, Len(accepted) + 1)
  /\ UNCHANGED <<running, buffers, worker, stop, written, failed, pending, processed,
                 manager>>

-----------------------------------------------------------------------------
(* One payload of graph.add.  A failure may have reached the graph or not: *)
(* it is recorded and never written again.                                 *)

WritesPayload(p, payload) ==
  /\ written' = [written EXCEPT ![p] = @ \o payload]
  /\ \/ pending' = pending \cup ToSet(payload) /\ UNCHANGED failed
     \/ failed' = failed \cup ToSet(payload) /\ UNCHANGED pending

-----------------------------------------------------------------------------
(* The worker *)

WorkerTakes ==
  /\ worker.pc = "loop" /\ queue # <<>>
  /\ worker' = [pc |-> "took", hand |-> <<Head(queue)>>, platform |-> accepted[Head(queue)]]
  /\ queue' = Tail(queue)
  /\ UNCHANGED <<accepted, running, buffers, stop, written, failed, pending, processed,
                 manager>>

(* Into the buffer; a full buffer yields a batch.                          *)
WorkerBuffers ==
  /\ worker.pc = "took"
  /\ LET p == worker.platform
         full == buffers[p] \o worker.hand IN
     IF Len(full) >= BatchSize
       THEN /\ worker' = [pc |-> "send", hand |-> FirstOf(full, BatchSize), platform |-> p]
            /\ buffers' = [buffers EXCEPT ![p] = After(full, BatchSize)]
       ELSE /\ worker' = Loop
            /\ buffers' = [buffers EXCEPT ![p] = full]
  /\ UNCHANGED <<accepted, running, queue, stop, written, failed, pending, processed,
                 manager>>

WorkerSends ==
  /\ worker.pc = "send"
  /\ \E n \in 1..Len(worker.hand) :
       /\ WritesPayload(worker.platform, FirstOf(worker.hand, n))
       /\ worker' = IF n = Len(worker.hand) THEN Loop
                    ELSE [worker EXCEPT !.hand = After(@, n)]
  /\ UNCHANGED <<accepted, running, queue, buffers, stop, processed, manager>>

WorkerExits ==
  /\ worker.pc = "loop" /\ ~running /\ queue = <<>>
  /\ worker' = [Loop EXCEPT !.pc = "dead"]
  /\ UNCHANGED <<accepted, running, queue, buffers, stop, written, failed, pending,
                 processed, manager>>

WorkerStep == WorkerTakes \/ WorkerBuffers \/ WorkerSends \/ WorkerExits

-----------------------------------------------------------------------------
(* stop(), called by stop_updater; a call that raised is repeated *)

(* Mutant: the queue and the buffers are flushed beside the worker.        *)
StopBeginsAtFlush ==
  /\ stop.pc \in {"idle", "raised"} /\ manager = "retained"
  /\ running' = FALSE
  /\ stop' = StopAt("drain")
  /\ UNCHANGED <<accepted, queue, buffers, worker, written, failed, pending, processed,
                 manager>>

StopBegins ==
  /\ stop.pc \in {"idle", "raised"} /\ manager = "retained"
  /\ running' = FALSE
  /\ stop' = StopAt("join")
  /\ UNCHANGED <<accepted, queue, buffers, worker, written, failed, pending, processed,
                 manager>>

Raises ==
  /\ stop' = StopAt("raised")
  /\ UNCHANGED <<accepted, running, queue, worker, written, failed, pending, processed,
                 manager>>

StopJoins ==
  /\ stop.pc = "join" /\ worker.pc = "dead"
  /\ stop' = StopAt("drain")
  /\ UNCHANGED <<accepted, running, queue, buffers, worker, written, failed, pending,
                 processed, manager>>

StopJoinTimesOut ==
  /\ stop.pc = "join" /\ worker.pc # "dead"
  /\ Raises /\ UNCHANGED buffers

(* _flush_remaining: first the queue, one by one, into the buffers.        *)
StopDrainsQueue ==
  /\ stop.pc = "drain"
  /\ IF queue = <<>>
       THEN /\ stop' = [StopAt("flush") EXCEPT !.left = Platforms]
            /\ UNCHANGED <<queue, buffers>>
       ELSE /\ buffers' = [buffers EXCEPT ![accepted[Head(queue)]] = Append(@, Head(queue))]
            /\ queue' = Tail(queue)
            /\ UNCHANGED stop
  /\ UNCHANGED <<accepted, running, worker, written, failed, pending, processed,
                 manager>>

(* ... then platform by platform a copy of the buffer.                     *)
StopCopiesBuffer(p) ==
  /\ stop.pc = "flush" /\ p \in stop.left
  /\ stop' = IF buffers[p] = <<>>
             THEN [stop EXCEPT !.left = @ \ {p}]
             ELSE [stop EXCEPT !.pc = "send", !.hand = buffers[p], !.platform = p,
                               !.sent = 0, !.left = @ \ {p}]
  /\ UNCHANGED <<accepted, running, queue, buffers, worker, written, failed, pending,
                 processed, manager>>

StopSends ==
  /\ stop.pc = "send" /\ stop.hand # <<>>
  /\ \E n \in 1..Len(stop.hand) :
       /\ WritesPayload(stop.platform, FirstOf(stop.hand, n))
       /\ stop' = [stop EXCEPT !.hand = After(@, n), !.sent = @ + n]
  /\ UNCHANGED <<accepted, running, queue, buffers, worker, processed, manager>>

DropSent == buffers' = [buffers EXCEPT ![stop.platform] = After(@, stop.sent)]

StopFlushed ==
  /\ stop.pc = "send" /\ stop.hand = <<>>
  /\ DropSent
  /\ stop' = [StopAt("flush") EXCEPT !.left = stop.left]
  /\ UNCHANGED <<accepted, running, queue, worker, written, failed, pending, processed,
                 manager>>

(* The deadline, before a buffer or before one of its payloads: what was   *)
(* written of the buffer leaves it.                                        *)
StopDeadline ==
  \/ /\ stop.pc = "flush" /\ \E p \in stop.left : buffers[p] # <<>>
     /\ Raises /\ UNCHANGED buffers
  \/ /\ stop.pc = "send" /\ stop.hand # <<>>
     /\ Raises /\ DropSent

(* Mutant: failed batches do not fail the stop.                            *)
StopIgnoresFailures ==
  /\ stop.pc = "flush" /\ stop.left = {}
  /\ stop' = StopAt("wait")
  /\ UNCHANGED <<accepted, running, queue, buffers, worker, written, failed, pending,
                 processed, manager>>

StopChecksFailures ==
  /\ stop.pc = "flush" /\ stop.left = {}
  /\ stop' = StopAt(IF failed = {} THEN "wait" ELSE "raised")
  /\ UNCHANGED <<accepted, running, queue, buffers, worker, written, failed, pending,
                 processed, manager>>

(* _wait_for_pending_episodes, then the manager forgets the updater.       *)
StopSucceeds ==
  /\ stop.pc = "wait" /\ pending \subseteq processed
  /\ pending' = {}
  /\ stop' = StopAt("done")
  /\ manager' = "removed"
  /\ UNCHANGED <<accepted, running, queue, buffers, worker, written, failed, processed>>

(* Mutant: the wait has no deadline.                                       *)
StopWaitsForEver == FALSE /\ UNCHANGED updaterVars

(* The deadline, or an episode that cannot be read after the retries.      *)
StopWaitFails ==
  /\ stop.pc = "wait" /\ pending # {}
  /\ Raises /\ UNCHANGED buffers

StopStep ==
  \/ StopJoins \/ StopJoinTimesOut \/ StopDrainsQueue
  \/ \E p \in Platforms : StopCopiesBuffer(p)
  \/ StopSends \/ StopFlushed \/ StopDeadline
  \/ StopChecksFailures \/ StopSucceeds \/ StopWaitFails

(* discard_inactive_updater, by the deletion of the graph of a failed run, *)
(* under the finalization lock.                                            *)
Discard ==
  /\ manager = "retained" /\ stop.pc \in {"idle", "raised"}
  /\ ~running /\ worker.pc = "dead"
  /\ manager' = "discarded"
  /\ UNCHANGED <<accepted, running, queue, buffers, worker, stop, written, failed,
                 pending, processed>>

-----------------------------------------------------------------------------
(* The graph *)

GraphProcesses(a) ==
  /\ a \in pending \ processed
  /\ processed' = processed \cup {a}
  /\ UNCHANGED <<accepted, running, queue, buffers, worker, stop, written, failed,
                 pending, manager>>

UpdaterNext ==
  \/ \E p \in Platforms : AddActivity(p)
  \/ WorkerStep
  \/ StopBegins \/ StopStep \/ Discard
  \/ \E a \in Ids : GraphProcesses(a)

UpdaterSpec == UpdaterInit /\ [][UpdaterNext]_updaterVars

(* Threads run; every call of the graph returns.  Nothing is assumed of    *)
(* the graph's processing, of producers, or of callers of stop.            *)
FairUpdaterSpec ==
  UpdaterSpec /\ WF_updaterVars(WorkerStep) /\ WF_updaterVars(StopStep)

-----------------------------------------------------------------------------
(* Properties *)

(* What the stop has copied and not written, and the rest of the buffer.   *)
Unwritten(p) == IF stop.platform = p THEN After(buffers[p], stop.sent) ELSE buffers[p]

(* Every accepted activity is in the queue, in the worker's hands, in a    *)
(* buffer, or was passed to the graph: nothing falls between the worker    *)
(* and the flush, whatever raised in between.                              *)
NothingLost ==
  Ids = ToSet(queue) \cup ToSet(worker.hand)
          \cup UNION {ToSet(Unwritten(p)) \cup ToSet(written[p]) : p \in Platforms}

(* graph.add has no idempotency key: no activity is passed to it twice,    *)
(* over retries of stop and a deadline in the middle of a flush, and those *)
(* of a platform are passed in the order in which they were accepted.      *)
WrittenOnceInOrder ==
  \A p \in Platforms : \A i, j \in DOMAIN written[p] :
    i < j => written[p][i] < written[p][j]

(* The contract the runner relies on.                                      *)
Contract == INSTANCE GraphIngestion WITH
  Activities <- 1..MaxActivities,
  accepted <- Ids,
  open <- running,
  attempted <- UNION {ToSet(written[p]) : p \in Platforms},
  ingested <- processed,
  finished <- manager = "removed"

ImplementsIngestion == Contract!IngestionSpec

(* Every call of stop returns or raises.                                   *)
StopSettles == stop.pc = "join" ~> stop.pc \in {"done", "raised"}

-----------------------------------------------------------------------------
(* The inductive invariant, in parts (ZepGraphProofs) *)

Waiting == UNION {ToSet(Unwritten(p)) : p \in Platforms}
Written == UNION {ToSet(written[p]) : p \in Platforms}

(* What is held for a platform was accepted for it.                        *)
PlatformsAreKept ==
  /\ \A a \in ToSet(worker.hand) : accepted[a] = worker.platform
  /\ \A p \in Platforms : \A a \in ToSet(buffers[p]) \cup ToSet(written[p]) :
       a \in Ids /\ accepted[a] = p

InOrder(s) == \A i, j \in DOMAIN s : i < j => s[i] < s[j]

(* Of one platform, each of S was accepted before each of T.               *)
Precede(S, T) == \A a \in S, b \in T : accepted[a] = accepted[b] => a < b

(* The order of acceptance runs from what was written over what a batch    *)
(* holds and the buffers to the queue; what has just been taken from the   *)
(* queue is last before it.                                                *)
InLine ==
  /\ InOrder(queue) /\ InOrder(worker.hand)
  /\ \A p \in Platforms : InOrder(buffers[p])
  /\ Precede(Written, ToSet(worker.hand) \cup Waiting \cup ToSet(queue))
  /\ Precede(ToSet(worker.hand) \cup Waiting, ToSet(queue))
  /\ worker.pc = "took" => Precede(Waiting, ToSet(worker.hand))
  /\ worker.pc = "send" => Precede(ToSet(worker.hand), Waiting)

(* What the threads hold goes with where they are.                         *)
WorkerIsConsistent ==
  /\ worker.pc \in {"loop", "dead"} => worker.hand = <<>>
  /\ worker.pc \in {"took", "send"} => worker.platform \in Platforms
  /\ worker.pc = "dead" => queue = <<>> /\ ~running

(* A stop past the join is alone, and what it goes past is empty; only     *)
(* while it sends does a buffer hold what was written.                     *)
StopIsConsistent ==
  /\ stop.pc # "idle" => ~running
  /\ stop.pc \notin {"idle", "join", "raised"} => worker.pc = "dead"
  /\ IF stop.pc = "send"
       THEN /\ stop.platform \in Platforms /\ stop.sent <= Len(buffers[stop.platform])
            /\ stop.hand = After(buffers[stop.platform], stop.sent)
       ELSE stop.platform = NoPlatform
  /\ stop.pc \in {"flush", "send"} =>
       \A p \in Platforms \ (stop.left \cup {stop.platform}) : buffers[p] = <<>>
  /\ stop.pc \in {"wait", "done"} => failed = {} /\ \A p \in Platforms : buffers[p] = <<>>

(* Each payload is accounted for.                                          *)
LedgerIsComplete == Written = failed \cup pending \cup processed

UpdaterInv ==
  /\ NothingLost
  /\ PlatformsAreKept
  /\ InLine
  /\ WrittenOnceInOrder
  /\ WorkerIsConsistent
  /\ StopIsConsistent
  /\ LedgerIsComplete
=============================================================================
