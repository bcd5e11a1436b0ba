------------------------------ MODULE OasisRun ------------------------------
(***************************************************************************)
(* A simulation run by the worker: _run_oasis_simulation                   *)
(* (backend/app/service.py), the direct runtime it polls                   *)
(* (oasis_direct.py), the child process that plays the rounds on both      *)
(* platforms and logs the actions (scripts/run_parallel_simulation.py),    *)
(* the rows of oasis_actions and the final ingestion into the graph        *)
(* (ingest_actions, oasis_direct_bridge.py).                               *)
(*                                                                         *)
(* An execution is one attempt of the simulation job of a run.  It adopts  *)
(* the child that direct_runtime.json calls running, or replaces it, and   *)
(* polls: control, the new lines of the two logs, their ends, the verdict, *)
(* the rows.  A child has the number of the execution that started it, and *)
(* an action is [of, platform, nth] of its log.  Lines that are no actions *)
(* are left out.                                                           *)
(***************************************************************************)
EXTENDS Naturals, Sequences, FiniteSets

CONSTANTS
  MaxExecs,    \* bound: executions
  Runs,        \* the scenario runs of the simulation
  Order,       \* the platforms in the order of a snapshot
  Lines,       \* bound: actions of a child on a platform
  AtomicRead,  \* timing: no child logs between the two reads of one file
  Overlap      \* an execution may begin while another goes on without its lease

Platforms == {Order[i] : i \in 1..Len(Order)}

ASSUME RunAssumption ==
  /\ MaxExecs \in Nat \ {0} /\ Lines \in Nat \ {0} /\ Runs # {}
  /\ Order \in Seq(Platforms) /\ Order # <<>> /\ {AtomicRead, Overlap} \subseteq BOOLEAN

VARIABLES
  exec,        \* exec[e]: the execution, its cursor and what it holds
  control,     \* control[e]: what job_control_state tells it
  child,       \* child[c]: the process
  log,         \* log[c][p]: what it logged; the files are the last child's
  runtime,     \* direct_runtime.json
  rows,        \* rows[r]: the actions of run r in oasis_actions
  memory,      \* the actions in the graph at Zep
  checkpoint,  \* checkpoint[r]: the ingestion file of the run
  mapping,     \* the status in the mapping row
  result       \* result[r]: the published events, {} before

runVars == <<exec, control, child, log, runtime, rows, memory, checkpoint, mapping, result>>

Execs == 1..MaxExecs
Action == [of: Execs, platform: Platforms, nth: 1..Lines]

Exec == [pc: {"idle", "clear", "start", "poll", "read", "end", "judge", "append",
              "decide", "ingest", "finish", "done", "failed", "dead"},
         run: Runs, at: 1..Len(Order), cursor: [Platforms -> 0..Lines],
         got: SUBSET Action, kept: SUBSET Action, ended: SUBSET Platforms,
         verdict: {"running", "completed", "failed"}]
Runtime == [status: {"none", "running", "completed", "failed"}, child: 0..MaxExecs]

RunTypeOK ==
  /\ exec \in [Execs -> Exec] /\ control \in [Execs -> {"running", "other"}]
  /\ child \in [Execs -> {"none", "running", "waiting", "dead", "cut"}]
  /\ log \in [Execs -> [Platforms -> [n: 0..Lines, ended: BOOLEAN]]]
  /\ runtime \in Runtime
  /\ rows \in [Runs -> SUBSET Action] /\ result \in [Runs -> SUBSET Action]
  /\ memory \subseteq Action
  /\ checkpoint \in [Runs -> {"none", "running", "completed"}]
  /\ mapping \in {"ready", "running", "completed", "failed"}

NoRun == CHOOSE r \in Runs : TRUE
Fresh(r) == [pc |-> "idle", run |-> r, at |-> 1, cursor |-> [p \in Platforms |-> 0],
             got |-> {}, kept |-> {}, ended |-> {}, verdict |-> "running"]

RunInit ==
  /\ exec = [e \in Execs |-> Fresh(NoRun)]
  /\ control = [e \in Execs |-> "running"]
  /\ child = [c \in Execs |-> "none"]
  /\ log = [c \in Execs |-> [p \in Platforms |-> [n |-> 0, ended |-> FALSE]]]
  /\ runtime = [status |-> "none", child |-> 0]
  /\ rows = [r \in Runs |-> {}] /\ result = [r \in Runs |-> {}]
  /\ memory = {} /\ checkpoint = [r \in Runs |-> "none"] /\ mapping = "ready"

-----------------------------------------------------------------------------
(* The child *)

Alive(c) == c # 0 /\ child[c] \in {"running", "waiting"}
Whole(c) == {a \in Action : a.of = c /\ a.nth <= log[c][a.platform].n}

(* The assumption on time: a file is read for its new lines and again for  *)
(* its end, at once.                                                       *)
MayLog == AtomicRead => \A e \in Execs : exec[e].pc # "end"

LogsRound(c, p) ==
  /\ child[c] = "running" /\ ~log[c][p].ended /\ log[c][p].n < Lines /\ MayLog
  /\ log' = [log EXCEPT ![c][p].n = @ + 1]
  /\ UNCHANGED <<exec, control, child, runtime, rows, memory, checkpoint, mapping, result>>

(* The loop of a platform is over; after both the child waits for commands. *)
LogsEnd(c, p) ==
  /\ child[c] = "running" /\ ~log[c][p].ended /\ MayLog
  /\ log' = [log EXCEPT ![c][p].ended = TRUE]
  /\ child' = [child EXCEPT ![c] =
       IF \A q \in Platforms \ {p} : log[c][q].ended THEN "waiting" ELSE @]
  /\ UNCHANGED <<exec, control, runtime, rows, memory, checkpoint, mapping, result>>

(* A hard timeout of a step, an error, or the machine.                     *)
ChildDies(c) ==
  /\ Alive(c)
  /\ child' = [child EXCEPT ![c] = "dead"]
  /\ UNCHANGED <<exec, control, log, runtime, rows, memory, checkpoint, mapping, result>>

(* stop_simulation.  A waiting child answers close_env; one that plays     *)
(* does not, and SIGTERM lets it leave its loops and log their ends unless *)
(* SIGKILL comes first.                                                    *)
Stops(c) ==
  IF ~Alive(c) THEN UNCHANGED <<child, log>>
  ELSE \/ child' = [child EXCEPT ![c] = "dead"] /\ UNCHANGED log
       \/ /\ child[c] = "running"
          /\ child' = [child EXCEPT ![c] = "cut"]
          /\ log' = [log EXCEPT ![c] = [p \in Platforms |-> [@[p] EXCEPT !.ended = TRUE]]]

-----------------------------------------------------------------------------
(* The execution *)

Ended == {"done", "failed", "dead"}

(* What an execution held is gone when it ends.                            *)
Goes(e, pc) ==
  exec' = IF pc \in Ended THEN [exec EXCEPT ![e] = [Fresh(@.run) EXCEPT !.pc = pc]]
          ELSE [exec EXCEPT ![e].pc = pc]

ExecBegins(e, r) ==
  /\ exec[e].pc = "idle" /\ result[r] = {}
  /\ \A d \in 1..(e - 1) : exec[d].pc \in Ended \/ (Overlap /\ exec[d].pc # "idle")
  /\ exec' = [exec EXCEPT ![e] = [Fresh(r) EXCEPT !.pc = "clear"]]
  /\ control' = [d \in Execs |-> IF d < e THEN "other" ELSE control[d]]
  /\ UNCHANGED <<child, log, runtime, rows, memory, checkpoint, mapping, result>>

(* Mutant: the rows of an earlier attempt stay.                            *)
KeepsRows(e) ==
  /\ exec[e].pc = "clear" /\ Goes(e, "start")
  /\ UNCHANGED <<control, child, log, runtime, rows, memory, checkpoint, mapping, result>>

ClearsRows(e) ==
  /\ exec[e].pc = "clear" /\ Goes(e, "start")
  /\ rows' = [rows EXCEPT ![exec[e].run] = {}]
  /\ UNCHANGED <<control, child, log, runtime, memory, checkpoint, mapping, result>>

(* Mutant: a child that is not called running is left to itself.           *)
StartsBeside(e) ==
  /\ exec[e].pc = "start" /\ Goes(e, "poll") /\ mapping' = "running"
  /\ IF runtime.status = "running" /\ Alive(runtime.child) THEN UNCHANGED <<runtime, child>>
     ELSE /\ runtime' = [status |-> "running", child |-> e]
          /\ child' = [child EXCEPT ![e] = "running"]
  /\ UNCHANGED <<control, log, rows, memory, checkpoint, result>>

(* start_simulation: a live child called running is adopted, any other     *)
(* live one stopped; the logs are unlinked and a child started.            *)
StartsChild(e) ==
  LET old == runtime.child IN
  /\ exec[e].pc = "start" /\ Goes(e, "poll") /\ mapping' = "running"
  /\ IF runtime.status = "running" /\ Alive(old) THEN UNCHANGED <<runtime, child>>
     ELSE /\ runtime' = [status |-> "running", child |-> e]
          /\ child' = [c \in Execs |-> IF c = e THEN "running"
                                       ELSE IF c = old /\ Alive(c) THEN "dead" ELSE child[c]]
  /\ UNCHANGED <<control, log, rows, memory, checkpoint, result>>

ControlChanges(e) ==
  /\ exec[e].pc \notin Ended \cup {"idle"} /\ control[e] = "running"
  /\ control' = [control EXCEPT ![e] = "other"]
  /\ UNCHANGED <<exec, child, log, runtime, rows, memory, checkpoint, mapping, result>>

(* The beginning of a poll.                                                *)
ChecksControl(e) ==
  /\ exec[e].pc = "poll"
  /\ IF control[e] = "running"
       THEN /\ exec' = [exec EXCEPT ![e] = [exec[e] EXCEPT
                    !.pc = "read", !.at = 1, !.got = {}, !.ended = {}]]
            /\ UNCHANGED <<child, log, mapping>>
       ELSE Stops(runtime.child) /\ Goes(e, "failed") /\ mapping' = "failed"
  /\ UNCHANGED <<control, runtime, rows, memory, checkpoint, result>>

(* _read_log from the cursor to the end of the file.                       *)
ReadsLog(e) ==
  LET p == Order[exec[e].at]
      n == log[runtime.child][p].n
      from == exec[e].cursor[p] IN
  /\ exec[e].pc = "read"
  /\ exec' = [exec EXCEPT ![e] = [exec[e] EXCEPT
       !.pc = "end", !.cursor[p] = IF n > from THEN n ELSE from,
       !.got = @ \cup {[of |-> runtime.child, platform |-> p, nth |-> i] : i \in (from + 1)..n}]]
  /\ UNCHANGED <<control, child, log, runtime, rows, memory, checkpoint, mapping, result>>

(* _read_all_log: is there a simulation_end?                               *)
LooksForEnd(e) ==
  LET p == Order[exec[e].at]
      last == exec[e].at = Len(Order) IN
  /\ exec[e].pc = "end"
  /\ exec' = [exec EXCEPT ![e] = [exec[e] EXCEPT
       !.ended = IF log[runtime.child][p].ended THEN @ \cup {p} ELSE @,
       !.pc = IF last THEN "judge" ELSE "read", !.at = IF last THEN 1 ELSE @ + 1]]
  /\ UNCHANGED <<control, child, log, runtime, rows, memory, checkpoint, mapping, result>>

Verdict(e, v) ==
  /\ exec' = [exec EXCEPT ![e].pc = "append", ![e].verdict = v]
  /\ runtime' = IF v = "running" THEN runtime ELSE [runtime EXCEPT !.status = v]

(* Mutant: the end of one platform is the end of the run.                  *)
JudgesByOne(e) ==
  /\ exec[e].pc = "judge"
  /\ Verdict(e, IF exec[e].ended # {} THEN "completed"
                ELSE IF Alive(runtime.child) THEN "running" ELSE "failed")
  /\ UNCHANGED <<control, child, log, rows, memory, checkpoint, mapping, result>>

(* The rest of simulation_snapshot: the run's time is up, both platforms   *)
(* ended, the child is gone, it is stale, or it goes on.                   *)
Judges(e) ==
  LET both == exec[e].ended = Platforms IN
  /\ exec[e].pc = "judge"
  /\ \/ Stops(runtime.child) /\ Verdict(e, "failed")
     \/ both /\ Verdict(e, "completed") /\ UNCHANGED <<child, log>>
     \/ /\ ~both /\ UNCHANGED <<child, log>>
        /\ Verdict(e, IF Alive(runtime.child) THEN "running" ELSE "failed")
  /\ UNCHANGED <<control, rows, memory, checkpoint, mapping, result>>

(* append_oasis_actions; what is there already is left.                    *)
AppendsRows(e) ==
  /\ exec[e].pc = "append"
  /\ rows' = [rows EXCEPT ![exec[e].run] = @ \cup exec[e].got]
  /\ exec' = [exec EXCEPT ![e] = [exec[e] EXCEPT !.pc = "decide",
       !.kept = @ \cup exec[e].got, !.got = {}, !.ended = {}]]
  /\ UNCHANGED <<control, child, log, runtime, memory, checkpoint, mapping, result>>

(* The mapping gets the status of the snapshot.  A completed run without   *)
(* rows is a failure of the provider.                                      *)
Decides(e) ==
  LET x == exec[e]
      empty == rows[x.run] = {} IN
  /\ x.pc = "decide"
  /\ IF x.verdict = "running" THEN Goes(e, "poll") /\ mapping' = "running"
     ELSE IF x.verdict = "failed" \/ empty THEN Goes(e, "failed") /\ mapping' = "failed"
     ELSE Goes(e, IF x.kept = {} THEN "finish" ELSE "ingest") /\ mapping' = "completed"
  /\ UNCHANGED <<control, child, log, runtime, rows, memory, checkpoint, result>>

(* Mutant: the checkpoint is completed before the updater has drained.     *)
ChecksInFirst(e) ==
  LET x == exec[e] IN
  /\ x.pc = "ingest"
  /\ \/ checkpoint[x.run] = "completed" /\ Goes(e, "finish") /\ UNCHANGED <<memory, checkpoint, mapping>>
     \/ /\ checkpoint[x.run] # "completed"
        /\ checkpoint' = [checkpoint EXCEPT ![x.run] = "completed"]
        /\ \/ memory' = memory \cup x.kept /\ Goes(e, "finish") /\ UNCHANGED mapping
           \/ UNCHANGED memory /\ Goes(e, "failed") /\ mapping' = "failed"
  /\ UNCHANGED <<control, child, log, runtime, rows, result>>

(* ingest_actions of the bridge, once per run: a completed checkpoint is   *)
(* the answer.  Otherwise all that the execution holds is given to an      *)
(* updater and drained; the bridge or the call may fail before the end or  *)
(* after it.                                                               *)
Ingests(e) ==
  LET x == exec[e] IN
  /\ x.pc = "ingest"
  /\ \/ checkpoint[x.run] = "completed" /\ Goes(e, "finish") /\ UNCHANGED <<memory, checkpoint, mapping>>
     \/ /\ checkpoint[x.run] # "completed"
        /\ \/ /\ memory' = memory \cup x.kept
              /\ checkpoint' = [checkpoint EXCEPT ![x.run] = "completed"]
              /\ \/ Goes(e, "finish") /\ UNCHANGED mapping
                 \/ Goes(e, "failed") /\ mapping' = "failed"
           \/ /\ \E p \in Platforms :
                   memory' \in {memory, memory \cup {a \in x.kept : a.platform = p}}
              /\ checkpoint' = [checkpoint EXCEPT ![x.run] = "running"]
              /\ Goes(e, "failed") /\ mapping' = "failed"
  /\ UNCHANGED <<control, child, log, runtime, rows, result>>

(* The rows of the run are the events of its result.                       *)
Finishes(e) ==
  /\ exec[e].pc = "finish" /\ Goes(e, "done")
  /\ mapping' = "completed"
  /\ result' = [result EXCEPT ![exec[e].run] = rows[exec[e].run]]
  /\ UNCHANGED <<control, child, log, runtime, rows, memory, checkpoint>>

(* A statement of the database or a call of the bridge raises: the child   *)
(* is not stopped.                                                         *)
ExecFails(e) ==
  /\ exec[e].pc \in {"start", "poll", "append", "decide", "finish"} /\ Goes(e, "failed")
  /\ mapping' \in {mapping, "failed"}
  /\ UNCHANGED <<control, child, log, runtime, rows, memory, checkpoint, result>>

WorkerDies(e) ==
  /\ exec[e].pc \notin Ended \cup {"idle"} /\ Goes(e, "dead")
  /\ UNCHANGED <<control, child, log, runtime, rows, memory, checkpoint, mapping, result>>

-----------------------------------------------------------------------------

RunExec(e) ==
  \/ ClearsRows(e) \/ StartsChild(e) \/ ChecksControl(e) \/ ReadsLog(e) \/ LooksForEnd(e)
  \/ Judges(e) \/ AppendsRows(e) \/ Decides(e) \/ Ingests(e) \/ Finishes(e)

RunNext ==
  \/ \E e \in Execs :
       \/ (\E r \in Runs : ExecBegins(e, r)) \/ RunExec(e)
       \/ ControlChanges(e) \/ ExecFails(e) \/ WorkerDies(e)
  \/ \E c \in Execs : (\E p \in Platforms : LogsRound(c, p) \/ LogsEnd(c, p)) \/ ChildDies(c)

RunSpec == RunInit /\ [][RunNext]_runVars

-----------------------------------------------------------------------------
(* Properties *)

(* Attempts that adopt a child, or replace one, neither mix the actions of *)
(* two children in the rows of a run nor leave a gap on a platform.        *)
RowsArePrefix ==
  \A r \in Runs : \E c \in Execs : \E n \in [Platforms -> 0..Lines] :
    rows[r] = {a \in Action : a.of = c /\ a.nth <= n[a.platform]}

(* A published run has every action of one child that came to its own end: *)
(* not of one that was stopped, and not short of its last lines.           *)
ResultIsWhole ==
  \A r \in Runs : result[r] # {} =>
    \E c \in Execs : /\ result[r] = Whole(c) /\ child[c] # "cut"
                     /\ \A p \in Platforms : log[c][p].ended

(* The graph has heard of a published run: of all that one of its attempts *)
(* observed, whatever calls failed and were retried.                       *)
IngestedBeforeResult ==
  \A r \in Runs : result[r] # {} =>
    /\ checkpoint[r] = "completed"
    /\ \E c \in Execs : Whole(c) # {} /\ Whole(c) \subseteq memory

(* No attempt starts a child beside a live one.                            *)
OneWriter == Cardinality({c \in Execs : Alive(c)}) <= 1
=============================================================================
