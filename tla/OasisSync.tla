----------------------------- MODULE OasisSync -----------------------------
(***************************************************************************)
(* The evidence of a simulation brought into its graph at Zep:             *)
(* _prepare_oasis_environment (backend/app/service.py), the bridge process *)
(* it starts (oasis_direct.py, oasis_direct_bridge.py) and the calls of    *)
(* Zep the bridge makes (services/graph_builder.py).                       *)
(*                                                                         *)
(* An execution is one attempt of the environment job.  It reads the       *)
(* mapping row of the simulation, reserves a graph there or resumes the    *)
(* reserved one, starts a bridge and writes each milestone the bridge      *)
(* reports into the row: what a later execution knows of this one.  The    *)
(* bridge does not wait for that.  A worker may die, a call may time out,  *)
(* a write of the row may fail, and an execution that lost its lease goes  *)
(* on beside the next.                                                     *)
(*                                                                         *)
(* A reply of Zep may be lost with or without effect of the call.  Graph   *)
(* and batch identifiers are the number of the execution that makes them:  *)
(* each makes at most one.  Consecutive milestones that leave the same     *)
(* row are one.                                                            *)
(***************************************************************************)
EXTENDS Naturals, Sequences, FiniteSets

CONSTANTS
  MaxExecs,   \* bound: executions
  Groups,     \* the number of calls of batch.add the evidence needs
  Inputs,     \* [evidence, revision]: what a mapping is made for
  MaxAhead,   \* bound: milestones reported and not yet written
  Overlap     \* an execution may begin while another goes on without its lease

ASSUME SyncAssumption ==
  /\ MaxExecs \in Nat /\ Groups \in Nat \ {0} /\ MaxAhead \in Nat
  /\ Inputs \subseteq [evidence: Nat, revision: Nat] /\ Inputs # {}
  /\ Overlap \in BOOLEAN

VARIABLES
  mapping,  \* the row of oasis_runtime_mappings
  exec,     \* exec[e]: the execution, with what it read and reserved
  bridge,   \* bridge[e]: its bridge process
  graphs,   \* the graphs at Zep
  batches   \* batches[b]: a batch at Zep, with the groups added to it

syncVars == <<mapping, exec, bridge, graphs, batches>>

Execs == 1..MaxExecs
Ids == 0..MaxExecs  \* 0: none

(* early: the graph may not exist yet, from the status of the last         *)
(* milestone; batch: the identifier in it.                                 *)
Sync == [early: BOOLEAN, batch: Ids]
Message == [kind: {"milestone", "result", "error"}, sync: Sync]
Mapping == [status: {"none", "creating", "graph_ready", "ready"}, graph: Ids,
            input: Inputs, sync: Sync]
Exec == [pc: {"idle", "look", "reserve", "call", "publish", "prepare", "ready",
              "done", "failed", "dead"},
         input: Inputs, graph: Ids, resumed: BOOLEAN, sync: Sync]
Bridge == [pc: {"none", "create", "ontology", "batch", "add", "process", "wait", "ended"},
           batch: Ids, group: 1..Groups, out: Seq(Message)]
Batch == [status: {"none", "draft", "queued", "succeeded", "failed"},
          graph: Ids, input: Inputs, items: Seq(1..Groups)]

NoSync == [early |-> TRUE, batch |-> 0]
NoBridge == [pc |-> "none", batch |-> 0, group |-> 1, out |-> <<>>]

SyncTypeOK ==
  /\ mapping \in Mapping
  /\ exec \in [Execs -> Exec] /\ bridge \in [Execs -> Bridge]
  /\ \A e \in Execs : Len(bridge[e].out) <= MaxAhead + 2
  /\ graphs \subseteq Execs /\ batches \in [Execs -> Batch]

NoInput == CHOOSE i \in Inputs : TRUE

SyncInit ==
  /\ mapping = [status |-> "none", graph |-> 0, input |-> NoInput, sync |-> NoSync]
  /\ exec = [e \in Execs |-> [pc |-> "idle", input |-> NoInput, graph |-> 0,
                              resumed |-> FALSE, sync |-> NoSync]]
  /\ bridge = [e \in Execs |-> NoBridge]
  /\ graphs = {}
  /\ batches = [b \in Execs |-> [status |-> "none", graph |-> 0, input |-> NoInput, items |-> <<>>]]

-----------------------------------------------------------------------------
(* The execution *)

Goes(e, pc) == exec' = [exec EXCEPT ![e].pc = pc]
Writes(e, status, sync) ==
  mapping' = [status |-> status, graph |-> exec[e].graph, input |-> exec[e].input, sync |-> sync]
Ended == {"done", "failed", "dead"}

(* The evidence and the revision are what the project has by then.        *)
ExecBegins(e, i) ==
  /\ exec[e].pc = "idle"
  /\ \A d \in 1..(e - 1) : exec[d].pc \in Ended \/ (Overlap /\ exec[d].pc # "idle")
  /\ exec' = [exec EXCEPT ![e].pc = "look", ![e].input = i]
  /\ UNCHANGED <<mapping, bridge, graphs, batches>>

UpToDate(e) == mapping.status \in {"graph_ready", "ready"} /\ mapping.input = exec[e].input

(* Mutant: whatever was interrupted is resumed.                            *)
ResumableAnyway(e) == mapping.status = "creating" /\ mapping.graph # 0

(* A reservation for the same evidence is resumed, of whatever revision.   *)
Resumable(e) ==
  /\ mapping.status = "creating" /\ mapping.graph # 0
  /\ mapping.input.evidence = exec[e].input.evidence

Looks(e) ==
  /\ exec[e].pc = "look"
  /\ exec' = [exec EXCEPT ![e] =
       IF UpToDate(e) THEN [@ EXCEPT !.pc = "prepare", !.graph = mapping.graph,
                                     !.sync = mapping.sync]
       ELSE IF Resumable(e) THEN [@ EXCEPT !.pc = "reserve", !.graph = mapping.graph,
                                     !.resumed = TRUE, !.sync = mapping.sync]
       ELSE [@ EXCEPT !.pc = "reserve", !.graph = e]]
  /\ UNCHANGED <<mapping, bridge, graphs, batches>>

GraphExists(e) == exec[e].resumed /\ ~exec[e].sync.early
Milestone(early, batch) == [kind |-> "milestone", sync |-> [early |-> early, batch |-> batch]]
Result == [kind |-> "result", sync |-> NoSync]
Error == [kind |-> "error", sync |-> NoSync]

(* The row is written, the bridge started; its first milestone says that   *)
(* it makes the graph, or that it resumes it.                              *)
Reserves(e) ==
  /\ exec[e].pc = "reserve"
  /\ Writes(e, "creating", exec[e].sync)
  /\ Goes(e, "call")
  /\ bridge' = [bridge EXCEPT ![e] =
       [NoBridge EXCEPT !.pc = IF GraphExists(e) THEN "ontology" ELSE "create",
                        !.out = <<Milestone(~GraphExists(e), 0)>>]]
  /\ UNCHANGED <<graphs, batches>>

(* _call_stream hands a milestone to _publish_runtime_graph_progress,      *)
(* which writes all of it, an absent batch too.                            *)
WritesMilestone(e) ==
  LET m == Head(bridge[e].out) IN
  /\ exec[e].pc = "call" /\ bridge[e].out # <<>> /\ m.kind = "milestone"
  /\ bridge' = [bridge EXCEPT ![e].out = Tail(@)]
  /\ \/ Writes(e, "creating", m.sync) /\ UNCHANGED exec
     \/ Writes(e, "creating", m.sync) /\ Goes(e, "failed")  \* the stage was not written
     \/ Goes(e, "failed") /\ UNCHANGED mapping              \* nor was the row
  /\ UNCHANGED <<graphs, batches>>

CallReturns(e) ==
  LET m == Head(bridge[e].out) IN
  /\ exec[e].pc = "call" /\ bridge[e].out # <<>> /\ m.kind # "milestone"
  /\ bridge' = [bridge EXCEPT ![e].out = <<>>]
  /\ Goes(e, IF m.kind = "result" THEN "publish" ELSE "failed")
  /\ UNCHANGED <<mapping, graphs, batches>>

(* The deadline of the call kills the bridge.                              *)
CallTimesOut(e) ==
  /\ exec[e].pc = "call"
  /\ bridge' = [bridge EXCEPT ![e].pc = "ended", ![e].out = <<>>]
  /\ Goes(e, "failed")
  /\ UNCHANGED <<mapping, graphs, batches>>

PublishesGraph(e) ==
  /\ exec[e].pc = "publish"
  /\ Writes(e, "graph_ready", [early |-> FALSE, batch |-> 0])
  /\ exec' = [exec EXCEPT ![e].pc = "prepare", ![e].sync = [early |-> FALSE, batch |-> 0]]
  /\ UNCHANGED <<bridge, graphs, batches>>

(* A call of the bridge without milestones: its answer, or an error of the *)
(* transport, of the bridge or of what it answers.                         *)
Calls(e, next) == Goes(e, next) \/ Goes(e, "failed")

(* prepare_environment, with the row as it was read or written before.     *)
Prepares(e) ==
  /\ exec[e].pc = "prepare" /\ Calls(e, "ready")
  /\ UNCHANGED <<mapping, bridge, graphs, batches>>

MarksReady(e) ==
  /\ exec[e].pc = "ready"
  /\ Writes(e, "ready", exec[e].sync)
  /\ Goes(e, "done")
  /\ UNCHANGED <<bridge, graphs, batches>>

(* The worker dies.  Its bridge goes on until it reports to nobody.        *)
WorkerDies(e) ==
  /\ exec[e].pc \notin Ended \cup {"idle"}
  /\ Goes(e, "dead")
  /\ UNCHANGED <<mapping, bridge, graphs, batches>>

-----------------------------------------------------------------------------
(* The bridge: a call of Zep, and what is reported after it.  The failed   *)
(* execution's reader still empties the pipe; a dead one's is gone.        *)

GoesOn(e, pc, batch, group, messages) ==
  bridge' = [bridge EXCEPT ![e] =
    IF exec[e].pc = "call"
      THEN [pc |-> pc, batch |-> batch, group |-> IF pc = "add" THEN group ELSE 1,
            out |-> bridge[e].out \o messages]
    ELSE IF exec[e].pc = "dead"
      THEN [NoBridge EXCEPT !.pc = "ended", !.batch = batch]
    ELSE [pc |-> pc, batch |-> batch, group |-> IF pc = "add" THEN group ELSE 1,
          out |-> <<>>]]

Fails(e) == GoesOn(e, "ended", bridge[e].batch, bridge[e].group, <<Error>>)
At(e, pc) == bridge[e].pc = pc /\ Len(bridge[e].out) <= MaxAhead

(* create_graph: a lost reply is settled by reading; an identifier that is *)
(* taken is refused.                                                       *)
CreatesGraph(e) ==
  LET g == exec[e].graph
      made == graphs' = graphs \cup {g} IN
  /\ At(e, "create")
  /\ \/ g \notin graphs /\ made /\ GoesOn(e, "ontology", 0, 1, <<Milestone(FALSE, 0)>>)
     \/ g \notin graphs /\ made /\ Fails(e)
     \/ UNCHANGED graphs /\ Fails(e)
  /\ UNCHANGED <<mapping, exec, batches>>

SetsOntology(e) ==
  LET held == exec[e].sync.batch IN
  /\ At(e, "ontology")
  /\ \/ GoesOn(e, IF GraphExists(e) /\ held # 0 THEN "wait" ELSE "batch",
               IF GraphExists(e) THEN held ELSE 0, 1,
               <<Milestone(FALSE, IF GraphExists(e) THEN held ELSE 0)>>)
     \/ Fails(e)
  /\ UNCHANGED <<mapping, exec, graphs, batches>>

(* The batches with the operation identifier of this evidence.             *)
SameOperation(e, bs) ==
  {b \in Execs : /\ bs[b].status # "none" /\ bs[b].graph = exec[e].graph
                 /\ bs[b].input.evidence = exec[e].input.evidence}

HasBatch(e, b) == GoesOn(e, "add", b, 1, <<Milestone(FALSE, b), Milestone(FALSE, 0)>>)

(* batch.create: after a lost reply the only batch of this operation is    *)
(* taken, be it of an earlier execution.                                   *)
CreatesBatch(e) ==
  LET made == [batches EXCEPT ![e] = [status |-> "draft", graph |-> exec[e].graph,
                                      input |-> exec[e].input, items |-> <<>>]] IN
  /\ At(e, "batch")
  /\ \/ batches' = made /\ HasBatch(e, e)
     \/ \E bs \in {made, batches} :
          /\ batches' = bs
          /\ \/ \E b \in Execs : SameOperation(e, bs) = {b} /\ HasBatch(e, b)
             \/ Fails(e)
  /\ UNCHANGED <<mapping, exec, graphs>>

Added(e) ==
  [batches EXCEPT ![bridge[e].batch].items = Append(@, bridge[e].group)]

AfterAdding(e) ==
  IF bridge[e].group < Groups
    THEN GoesOn(e, "add", bridge[e].batch, bridge[e].group + 1, <<Milestone(FALSE, 0)>>)
    ELSE GoesOn(e, "process", bridge[e].batch, 1, <<>>)

(* Mutant: a lost reply of batch.add is taken for a success.               *)
AddsUnconfirmed(e) ==
  /\ At(e, "add") /\ batches[bridge[e].batch].status = "draft"
  /\ \E bs \in {Added(e), batches} : batches' = bs /\ AfterAdding(e)
  /\ UNCHANGED <<mapping, exec, graphs>>

(* batch.add: after a lost reply the items of the batch are counted; what  *)
(* is not there in full, as often as expected, is not tried again.         *)
AddsGroup(e) ==
  LET b == bridge[e].batch
      complete == Added(e)[b].items = [i \in 1..bridge[e].group |-> i] IN
  /\ At(e, "add")
  /\ \/ batches[b].status = "draft" /\ batches' = Added(e) /\ AfterAdding(e)
     \/ /\ batches[b].status = "draft" /\ batches' = Added(e)
        /\ (complete /\ AfterAdding(e)) \/ Fails(e)
     \/ UNCHANGED batches /\ Fails(e)
  /\ UNCHANGED <<mapping, exec, graphs>>

(* batch.process: an error is settled by reading whether it is a draft.    *)
HandsOver(e) ==
  LET b == bridge[e].batch
      queued == [batches EXCEPT ![b].status = IF @ = "draft" THEN "queued" ELSE @] IN
  /\ At(e, "process")
  /\ \/ batches' = queued /\ GoesOn(e, "wait", b, Groups, <<Milestone(FALSE, b)>>)
     \/ batches' = queued /\ Fails(e)
     \/ UNCHANGED batches
        /\ IF batches[b].status = "draft" THEN Fails(e)
           ELSE GoesOn(e, "wait", b, Groups, <<Milestone(FALSE, b)>>)
  /\ UNCHANGED <<mapping, exec, graphs>>

(* A poll that finds the batch unfinished reports so, and that the         *)
(* topology cannot be read when it cannot.                                 *)
PollsBatch(e) ==
  /\ At(e, "wait") /\ batches[bridge[e].batch].status \in {"draft", "queued"}
  /\ \E batch \in {0, bridge[e].batch} :
       GoesOn(e, "wait", bridge[e].batch, bridge[e].group, <<Milestone(FALSE, batch)>>)
  /\ UNCHANGED <<mapping, exec, graphs, batches>>

(* Mutant: the items of a finished batch are not counted.                  *)
AcceptsAnyStatus(e) ==
  /\ At(e, "wait") /\ batches[bridge[e].batch].status \in {"succeeded", "failed"}
  /\ GoesOn(e, "ended", bridge[e].batch, bridge[e].group, <<Milestone(FALSE, 0), Result>>)
  /\ UNCHANGED <<mapping, exec, graphs, batches>>

(* _wait_for_batch: success, and as many items as there are chunks.        *)
FindsBatchFinished(e) ==
  LET b == batches[bridge[e].batch] IN
  /\ At(e, "wait") /\ b.status \in {"succeeded", "failed"}
  /\ \/ /\ b.status = "succeeded" /\ Len(b.items) = Groups
        /\ GoesOn(e, "ended", bridge[e].batch, bridge[e].group,
                  <<Milestone(FALSE, 0), Result>>)
     \/ Fails(e)
  /\ UNCHANGED <<mapping, exec, graphs, batches>>

ZepFinishes(b) ==
  /\ batches[b].status = "queued"
  /\ \E how \in {"succeeded", "failed"} : batches' = [batches EXCEPT ![b].status = how]
  /\ UNCHANGED <<mapping, exec, bridge, graphs>>

-----------------------------------------------------------------------------

BridgeStep(e) ==
  \/ CreatesGraph(e) \/ SetsOntology(e) \/ CreatesBatch(e) \/ AddsGroup(e)
  \/ HandsOver(e) \/ PollsBatch(e) \/ FindsBatchFinished(e)

ExecStep(e) ==
  \/ Looks(e) \/ Reserves(e) \/ WritesMilestone(e) \/ CallReturns(e) \/ CallTimesOut(e)
  \/ PublishesGraph(e) \/ Prepares(e) \/ MarksReady(e)

SyncNext ==
  \/ \E e \in Execs : (\E i \in Inputs : ExecBegins(e, i)) \/ ExecStep(e) \/ WorkerDies(e) \/ BridgeStep(e)
  \/ \E b \in Execs : ZepFinishes(b)

SyncSpec == SyncInit /\ [][SyncNext]_syncVars

-----------------------------------------------------------------------------
(* The inductive invariant, in parts (ApplicationProofs). What is known of *)
(* graphs and batches are sets that only grow: the graphs that an          *)
(* execution reserved first, the batches made, the evidence ingested.      *)

Evidence(e) == exec[e].input.evidence
Complete(b) == batches[b].items = [i \in 1..Groups |-> i]
HandedOver(b) == batches[b].status \in {"queued", "succeeded", "failed"}

ReservedFor == {<<e, Evidence(e)>> : e \in {d \in Execs : exec[d].pc # "idle"}}
BatchesFor ==
  {<<b, batches[b].graph, batches[b].input.evidence>> :
     b \in {c \in Execs : batches[c].status # "none"}}
Ingested ==
  {<<batches[b].graph, batches[b].input.evidence>> :
     b \in {c \in Execs : batches[c].status = "succeeded" /\ Complete(c)}}

(* What an execution, the row and a message say of a graph goes with the   *)
(* evidence they say it for.                                               *)
ExecKnows(e) ==
  /\ exec[e].pc \in {"idle", "look"} => exec[e].graph = 0 /\ exec[e].sync.batch = 0
  /\ exec[e].graph # 0 => <<exec[e].graph, Evidence(e)>> \in ReservedFor
  /\ exec[e].sync.batch # 0 => <<exec[e].sync.batch, exec[e].graph, Evidence(e)>> \in BatchesFor
  /\ exec[e].pc \in {"publish", "prepare", "ready"} =>
       <<exec[e].graph, Evidence(e)>> \in Ingested

MappingKnows ==
  /\ mapping.graph # 0 => <<mapping.graph, mapping.input.evidence>> \in ReservedFor
  /\ mapping.sync.batch # 0 =>
       <<mapping.sync.batch, mapping.graph, mapping.input.evidence>> \in BatchesFor
  /\ mapping.status \in {"graph_ready", "ready"} =>
       <<mapping.graph, mapping.input.evidence>> \in Ingested

Told(e) == {bridge[e].out[i] : i \in 1..Len(bridge[e].out)}

(* A bridge has a batch of its execution's graph, and makes at most one.   *)
BridgeKnows(e) ==
  /\ exec[e].pc \in {"idle", "look", "reserve"} => bridge[e].pc = "none"
  /\ exec[e].pc \in {"reserve", "call"} \/ bridge[e].pc # "none" => exec[e].graph # 0
  /\ bridge[e].pc = "none" => bridge[e].out = <<>>
  /\ bridge[e].pc \in {"none", "create", "ontology", "batch"} =>
       bridge[e].batch = 0 /\ batches[e].status = "none"
  /\ bridge[e].pc \in {"add", "process", "wait"} => bridge[e].batch # 0
  /\ bridge[e].batch # 0 => <<bridge[e].batch, exec[e].graph, Evidence(e)>> \in BatchesFor
  /\ \A m \in Told(e) :
       /\ m.sync.batch # 0 => <<m.sync.batch, exec[e].graph, Evidence(e)>> \in BatchesFor
       /\ m.kind = "result" => <<exec[e].graph, Evidence(e)>> \in Ingested

BatchIsOwn(b) ==
  batches[b].status # "none" =>
    batches[b].graph = exec[b].graph /\ batches[b].input = exec[b].input

(* The first k groups were added, whatever was added beside.               *)
Upto(k) == [i \in 1..k |-> i]
Full(s, k) == Len(s) >= k /\ (Len(s) = k => s = Upto(k))

AddedInStep(e) ==
  LET items == batches[bridge[e].batch].items IN
  /\ bridge[e].pc = "add" => Full(items, bridge[e].group - 1)
  /\ bridge[e].pc = "process" => Full(items, Groups)

(* A batch that no other execution took up has nothing twice.              *)
Alone(b) == \A e \in Execs \ {b} : bridge[e].batch # b
AddedOnce(b) ==
  batches[b].status # "none" /\ Alone(b) =>
    /\ HandedOver(b) => Complete(b)
    /\ bridge[b].batch = b =>
         /\ bridge[b].pc = "add" => batches[b].items = Upto(bridge[b].group - 1)
         /\ bridge[b].pc = "process" => Complete(b)

SyncInv ==
  /\ MappingKnows
  /\ \A e \in Execs :
       /\ ExecKnows(e) /\ BridgeKnows(e) /\ BatchIsOwn(e)
       /\ AddedInStep(e) /\ AddedOnce(e)
       /\ HandedOver(e) => Full(batches[e].items, Groups)

-----------------------------------------------------------------------------
(* Properties *)

(* A mapping is ready only for a graph that has ingested, in one batch and *)
(* once, all of the evidence whose hash stands beside it: over lost        *)
(* replies, resumed batches and executions that overwrite each other.      *)
ReadyIsComplete ==
  mapping.status \in {"graph_ready", "ready"} =>
    \E b \in Execs :
      /\ batches[b].graph = mapping.graph /\ batches[b].status = "succeeded"
      /\ batches[b].input.evidence = mapping.input.evidence /\ Complete(b)

(* No graph is given the evidence of two versions: a reservation is not    *)
(* resumed for other evidence.                                             *)
OneEvidencePerGraph ==
  \A b, c \in Execs :
    HandedOver(b) /\ HandedOver(c) /\ batches[b].graph = batches[c].graph
      => batches[b].input.evidence = batches[c].input.evidence

(* Lost replies do not make an execution repeat a call: what it hands over *)
(* has every chunk once, unless another execution took up the batch.       *)
OncePerAttempt ==
  \A b \in Execs :
    HandedOver(b) => Complete(b) \/ \E e \in Execs \ {b} : bridge[e].batch = b
=============================================================================
