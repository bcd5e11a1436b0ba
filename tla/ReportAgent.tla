---------------------------- MODULE ReportAgent ----------------------------
(***************************************************************************)
(* Reports of a simulation: the endpoint that starts one                   *)
(* (oasis_engine_runtime/app/api/report.py), the agent that plans an       *)
(* outline and writes section after section in a loop of thought, tool and *)
(* observation (services/report_agent.py), and the files of the report.    *)
(*                                                                         *)
(* Every request has a report id of its own, so a thread, a task, a reader *)
(* of the graph and a folder are named by the report.  `run' counts the    *)
(* finished runs of the simulation; what reports and runs owe each other   *)
(* about the graph is GraphLifecycle's, here a run ends only while no      *)
(* report holds the graph.  What a section says is left out: its content   *)
(* is its number and the run it was written from.                          *)
(***************************************************************************)
EXTENDS Naturals, Sequences, FiniteSets

CONSTANTS
  Reports,      \* report ids, one for each request
  MaxSections,  \* bound: sections of an outline
  MaxTools,     \* REPORT_AGENT_MAX_TOOL_CALLS, for one section
  MaxReflect,   \* REPORT_AGENT_MAX_REFLECTION_ROUNDS
  MaxRuns,      \* bound: finished runs
  MaxCrashes,   \* bound: restarts of the server
  Torn,         \* a write of a file may fail or be cut short
  DeletesBusy   \* a report may be deleted while it is being written

ASSUME ReportAssumption ==
  /\ {MaxTools, MaxReflect, MaxCrashes} \subseteq Nat /\ {MaxSections, MaxRuns} \subseteq Nat \ {0}
  /\ {Torn, DeletesBusy} \subseteq BOOLEAN

VARIABLES
  agent,    \* agent[r]: the thread of r
  disk,     \* disk[r]: the folder of r
  task,     \* task[r]: the task of r, in memory
  readers,  \* the reports registered as readers of the graph
  run,      \* finished runs
  crashes

reportVars == <<agent, disk, task, readers, run, crashes>>

Smaller(a, b) == IF a < b THEN a ELSE b
Larger(a, b) == IF a < b THEN b ELSE a
MinTools == Smaller(2, MaxTools)
MaxIterations == Larger(2, MaxTools + MaxReflect)

Content == [section: 1..MaxSections, run: 1..MaxRuns]
NoContent == [section |-> 0, run |-> 0]

AgentPC == {"idle", "begin", "pending", "plan", "outline", "progress", "ask", "forced", "save",
            "assemble", "complete", "told", "fail", "return", "task", "release", "ended", "dead"}
Agent == [pc: AgentPC,
          status: {"pending", "completed", "failed"},
          outline: 0..MaxSections, section: 1..MaxSections, iteration: 0..(MaxIterations - 1),
          tools: 0..MaxTools, conflicts: 0..2, how: {"none", "answered", "forced"}]
Folder == [meta: {"absent", "torn", "pending", "planning", "completed", "failed"},
           saved: [1..MaxSections -> Content \cup {NoContent}],
           full: UNION {[1..n -> Content] : n \in 0..MaxSections},
           progress: {"none", "pending", "planning", "generating", "completed", "failed"}]

Idle == [pc |-> "idle", status |-> "pending", outline |-> 0, section |-> 1, iteration |-> 0,
         tools |-> 0, conflicts |-> 0, how |-> "none"]
Empty == [meta |-> "absent", saved |-> [i \in 1..MaxSections |-> NoContent], full |-> <<>>,
          progress |-> "none"]

ReportTypeOK ==
  /\ agent \in [Reports -> Agent] /\ disk \in [Reports -> Folder]
  /\ task \in [Reports -> {"none", "pending", "processing", "completed", "failed"}]
  /\ readers \subseteq Reports /\ run \in 1..MaxRuns /\ crashes \in 0..MaxCrashes

ReportInit ==
  /\ agent = [r \in Reports |-> Idle] /\ disk = [r \in Reports |-> Empty]
  /\ task = [r \in Reports |-> "none"] /\ readers = {} /\ run = 1 /\ crashes = 0

Working(r) == agent[r].pc \notin {"idle", "ended", "dead"}
Goes(r, pc) == agent' = [agent EXCEPT ![r].pc = pc]

-----------------------------------------------------------------------------
(* The endpoint *)

(* The listing has no order: the first report of the simulation decides.   *)
(* A torn one that comes first raises, and nothing is started.             *)
NoneToReuse ==
  LET present == {r \in Reports : disk[r].meta # "absent"}
  IN  present = {} \/ \E first \in present : disk[first].meta \notin {"torn", "completed"}

(* Mutant: the graph is read without a lease.                              *)
TakesNoLease(r) == readers' = readers
TakesLease(r) == readers' = readers \cup {r}

Request(r, force) ==
  /\ agent[r].pc = "idle" /\ (force \/ NoneToReuse)
  /\ task' = [task EXCEPT ![r] = "pending"]
  /\ \/ Goes(r, "begin") /\ TakesLease(r)
     \/ Goes(r, "ended") /\ UNCHANGED readers   \* the thread cannot be started
  /\ UNCHANGED <<disk, run, crashes>>

Delete(r) ==
  /\ disk[r] # Empty /\ (DeletesBusy \/ ~Working(r))
  /\ disk' = [disk EXCEPT ![r] = Empty]
  /\ UNCHANGED <<agent, task, readers, run, crashes>>

-----------------------------------------------------------------------------
(* Writing files.  A write that fails raises into the agent, and may have  *)
(* truncated meta.json.                                                    *)

SavesReport(r, status, next) ==
  \/ disk' = [disk EXCEPT ![r].meta = status] /\ Goes(r, next)
  \/ Torn /\ disk' = [disk EXCEPT ![r].meta = "torn"] /\ Goes(r, "fail")

Begin(r) ==
  /\ agent[r].pc = "begin" /\ task' = [task EXCEPT ![r] = "processing"]
  /\ \/ Goes(r, "pending") /\ disk' = [disk EXCEPT ![r].progress = "pending"]
     \/ Goes(r, "fail") /\ UNCHANGED disk
  /\ UNCHANGED <<readers, run, crashes>>

SavePending(r) ==
  /\ agent[r].pc = "pending" /\ SavesReport(r, "pending", "plan")
  /\ UNCHANGED <<task, readers, run, crashes>>

(* The context of the simulation cannot be had: that raises.  An LLM that  *)
(* fails gives the outline of the code, any other one its own, which may   *)
(* have no section at all.                                                 *)
PlanOutline(r) ==
  /\ agent[r].pc = "plan"
  /\ disk' = [disk EXCEPT ![r].progress = "planning"]
  /\ \/ Goes(r, "fail")
     \/ \E n \in 0..MaxSections :
          agent' = [agent EXCEPT ![r].pc = "outline", ![r].outline = n]
  /\ UNCHANGED <<task, readers, run, crashes>>

NextSection(t) ==
  IF t.section < t.outline
    THEN [Idle EXCEPT !.pc = "progress", !.section = t.section + 1, !.outline = t.outline]
    ELSE [Idle EXCEPT !.pc = "assemble"]

SaveOutline(r) ==
  /\ agent[r].pc = "outline"
  /\ SavesReport(r, "planning", IF agent[r].outline = 0 THEN "assemble" ELSE "progress")
  /\ UNCHANGED <<task, readers, run, crashes>>

StartSection(r) ==
  /\ agent[r].pc = "progress" /\ Goes(r, "ask")
  /\ disk' = [disk EXCEPT ![r].progress = "generating"]
  /\ UNCHANGED <<task, readers, run, crashes>>

-----------------------------------------------------------------------------
(* The loop of one section: each action is one reply of the LLM.           *)

Reply(r, t) ==
  /\ agent[r].pc = "ask" /\ agent' = [agent EXCEPT ![r] = t]
  /\ UNCHANGED <<disk, task, readers, run, crashes>>

Again(t) ==
  IF t.iteration + 1 < MaxIterations THEN [t EXCEPT !.iteration = @ + 1]
  ELSE [t EXCEPT !.pc = "forced"]

(* A final answer, or text without a prefix, is accepted after enough tools. *)
Accepts(t) ==
  IF t.tools < MinTools THEN Again(t) ELSE [t EXCEPT !.pc = "save", !.how = "answered"]

(* Only the first call of a reply is run, whatever comes of it is text.    *)
RunsTool(t) == Again(IF t.tools >= MaxTools THEN t ELSE [t EXCEPT !.tools = @ + 1])

LLMFails(r) == Reply(r, [agent[r] EXCEPT !.pc = "forced"])
RepliesNothing(r) == Reply(r, Again(agent[r]))
RepliesAnswer(r) == Reply(r, Accepts(agent[r]))
RepliesToolCall(r) == Reply(r, RunsTool(agent[r]))

(* A call that names no tool raises, once it would be run.                 *)
RepliesMalformedCall(r) ==
  /\ agent[r].tools < MaxTools /\ Reply(r, [agent[r] EXCEPT !.pc = "fail"])

(* Mutant: a conflict is answered within the iteration.                    *)
ConflictForever(r) ==
  Reply(r, IF agent[r].conflicts < 2 THEN [agent[r] EXCEPT !.conflicts = @ + 1]
           ELSE [agent[r] EXCEPT !.conflicts = 0])

(* A tool call and a final answer in one reply: twice it is sent back, the *)
(* third time it is cut after its first call, which may leave no call.     *)
RepliesConflict(r) ==
  LET t == agent[r]
      cut == [t EXCEPT !.conflicts = 0]
  IN  IF t.conflicts < 2 THEN Reply(r, Again([t EXCEPT !.conflicts = @ + 1]))
      ELSE Reply(r, RunsTool(cut)) \/ Reply(r, Accepts(cut))

(* The last request; if it fails too, the text of the section says so.     *)
ForcesFinal(r) ==
  /\ agent[r].pc = "forced"
  /\ agent' = [agent EXCEPT ![r].pc = "save", ![r].how = "forced"]
  /\ UNCHANGED <<disk, task, readers, run, crashes>>

SaveSection(r) ==
  LET t == agent[r]
      content == [section |-> t.section, run |-> run]
  IN  /\ t.pc = "save"
      /\ \/ /\ disk' = [disk EXCEPT ![r].saved[t.section] = content,
                                     ![r].progress = "generating"]
            /\ agent' = [agent EXCEPT ![r] = NextSection(t)]
         \/ Torn /\ Goes(r, "fail") /\ UNCHANGED disk
      /\ UNCHANGED <<task, readers, run, crashes>>

-----------------------------------------------------------------------------
(* The end of the report *)

(* The section files there are, in the order of their numbers.             *)
Found(saved) ==
  LET numbers == {i \in 1..MaxSections : saved[i] # NoContent}
      Nth(n) == CHOOSE i \in numbers : Cardinality({k \in numbers : k < i}) = n - 1
  IN  [n \in 1..Cardinality(numbers) |-> saved[Nth(n)]]

(* full_report.md is made of the section files found, by their names.      *)
Assemble(r) ==
  /\ agent[r].pc = "assemble"
  /\ \/ /\ disk' = [disk EXCEPT ![r].full = Found(disk[r].saved)]
        /\ agent' = [agent EXCEPT ![r].pc = "complete", ![r].status = "completed"]
     \/ Torn /\ Goes(r, "fail") /\ UNCHANGED disk
  /\ UNCHANGED <<task, readers, run, crashes>>

SaveCompleted(r) ==
  /\ agent[r].pc = "complete" /\ SavesReport(r, "completed", "told")
  /\ UNCHANGED <<task, readers, run, crashes>>

TellCompleted(r) ==
  /\ agent[r].pc = "told"
  /\ \/ Goes(r, "return") /\ disk' = [disk EXCEPT ![r].progress = "completed"]
     \/ Torn /\ Goes(r, "fail") /\ UNCHANGED disk
  /\ UNCHANGED <<task, readers, run, crashes>>

(* The handler of generate_report; what fails while it saves is ignored.   *)
SaveFailed(r) ==
  /\ agent[r].pc = "fail"
  /\ agent' = [agent EXCEPT ![r] = [Idle EXCEPT !.pc = "return", !.status = "failed"]]
  /\ \/ disk' = [disk EXCEPT ![r].meta = "failed", ![r].progress = "failed"]
     \/ Torn /\ disk' = [disk EXCEPT ![r].meta = "torn"]
     \/ Torn /\ disk' = [disk EXCEPT ![r].meta = "failed"]
  /\ UNCHANGED <<task, readers, run, crashes>>

(* Mutant: run_generate goes on when it cannot save.                       *)
SaveReturnedAnyway(r) ==
  /\ agent[r].pc = "return" /\ Goes(r, "task")
  /\ disk' = [disk EXCEPT ![r].meta = agent[r].status] \/ disk' = [disk EXCEPT ![r].meta = "torn"]
  /\ UNCHANGED <<task, readers, run, crashes>>

(* run_generate saves the report it was given once more.                   *)
SaveReturned(r) ==
  /\ agent[r].pc = "return"
  /\ \/ /\ disk' = [disk EXCEPT ![r].meta = agent[r].status] /\ Goes(r, "task")
        /\ UNCHANGED task
     \/ /\ Torn /\ disk' = [disk EXCEPT ![r].meta = "torn"] /\ Goes(r, "release")
        /\ task' = [task EXCEPT ![r] = "failed"]
  /\ UNCHANGED <<readers, run, crashes>>

SettleTask(r) ==
  /\ agent[r].pc = "task" /\ Goes(r, "release")
  /\ task' = [task EXCEPT ![r] = IF agent[r].status = "completed" THEN "completed" ELSE "failed"]
  /\ UNCHANGED <<disk, readers, run, crashes>>

Release(r) ==
  /\ agent[r].pc = "release"
  /\ agent' = [agent EXCEPT ![r] = [Idle EXCEPT !.pc = "ended"]]
  /\ readers' = readers \ {r}
  /\ UNCHANGED <<disk, task, run, crashes>>

-----------------------------------------------------------------------------
(* The simulation runs again; the start refuses a graph with readers.      *)
RunsAgain ==
  /\ run < MaxRuns /\ readers = {} /\ run' = run + 1
  /\ UNCHANGED <<agent, disk, task, readers, crashes>>

Saving == {"pending", "outline", "complete", "fail", "return"}

(* Threads, tasks and leases are memory; a file may be half written.       *)
ServerRestarts ==
  /\ crashes < MaxCrashes /\ crashes' = crashes + 1
  /\ \E torn \in SUBSET {r \in Reports : Torn /\ agent[r].pc \in Saving} :
       disk' = [r \in Reports |-> IF r \in torn THEN [disk[r] EXCEPT !.meta = "torn"] ELSE disk[r]]
  /\ agent' = [r \in Reports |-> IF Working(r) THEN [Idle EXCEPT !.pc = "dead"] ELSE agent[r]]
  /\ task' = [r \in Reports |-> "none"] /\ readers' = {}
  /\ UNCHANGED run

Step(r) ==
  \/ Begin(r) \/ SavePending(r) \/ PlanOutline(r) \/ SaveOutline(r) \/ StartSection(r)
  \/ LLMFails(r) \/ RepliesNothing(r) \/ RepliesAnswer(r) \/ RepliesToolCall(r)
  \/ RepliesMalformedCall(r) \/ RepliesConflict(r) \/ ForcesFinal(r) \/ SaveSection(r)
  \/ Assemble(r) \/ SaveCompleted(r) \/ TellCompleted(r) \/ SaveFailed(r)
  \/ SaveReturned(r) \/ SettleTask(r) \/ Release(r)

ReportNext ==
  \/ \E r \in Reports : \/ \E force \in BOOLEAN : Request(r, force)
                         \/ Delete(r) \/ Step(r)
  \/ RunsAgain \/ ServerRestarts

ReportSpec == ReportInit /\ [][ReportNext]_reportVars

(* The requests to the LLM and to Zep end: both clients have timeouts.     *)
FairReportSpec == ReportSpec /\ \A r \in Reports : WF_reportVars(Step(r))

-----------------------------------------------------------------------------
(* A report that its file or its progress calls completed is the sections  *)
(* of its outline in their order, and all of them were written from one    *)
(* run of the simulation, although the endpoint returns while the agent    *)
(* still reads (assemble_full_report, register_graph_reader).              *)
CompletedIsWhole ==
  \A r \in Reports : disk[r].meta = "completed" \/ disk[r].progress = "completed" =>
    LET full == disk[r].full
    IN  /\ \A i \in 1..MaxSections : disk[r].saved[i] # NoContent <=> i <= Len(full)
        /\ \A i \in 1..Len(full) : full[i].section = i /\ full[i].run = full[1].run

(* An answer the loop accepted was given after enough tools and no more    *)
(* than the budget, through conflicts, empty replies and cut-off replies   *)
(* (_generate_section_react).                                              *)
AnswersAreGrounded ==
  \A r \in Reports : agent[r].how = "answered" => agent[r].tools \in MinTools..MaxTools

(* A task that says completed has a report behind it that says so too      *)
(* (run_generate saves first), unless that was deleted since.              *)
TaskHasReport ==
  \A r \in Reports : task[r] = "completed" => disk[r] = Empty \/ disk[r].meta = "completed"

(* However the LLM replies, a report that was started comes to its end and *)
(* gives the graph back.                                                   *)
EveryReportEnds ==
  \A r \in Reports : Working(r) ~> (~Working(r) /\ r \notin readers)
=============================================================================
