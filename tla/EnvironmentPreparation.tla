----------------------- MODULE EnvironmentPreparation -----------------------
(***************************************************************************)
(* Preparing the environment of a simulation: the endpoint and its thread  *)
(* (oasis_engine_runtime/app/api/simulation.py), which reads the entities  *)
(* of the graph, makes one profile for each in a pool of workers and one   *)
(* configuration for all (services/simulation_manager.py,                  *)
(* oasis_profile_generator.py, simulation_config_generator.py), and the    *)
(* check that decides from the files whether an environment is prepared.   *)
(*                                                                         *)
(* An attempt is one request with its thread and its task.  Of a file the  *)
(* model keeps the attempt that wrote it and the agents it names, of the   *)
(* posters of the initial posts those that are no agents; agents are       *)
(* numbered from 0, as in the code.                                        *)
(***************************************************************************)
EXTENDS Integers, FiniteSets, Sequences

CONSTANTS
  Attempts,     \* the requests
  MaxEntities,  \* bound: entities of the graph
  Parallel,     \* parallel_profile_count
  BatchSize,    \* AGENTS_PER_BATCH
  MaxTries,     \* max_attempts of a persona
  MaxPosts,     \* bound: initial posts
  MaxCrashes,   \* bound: restarts of the server
  Overlap,      \* a request may arrive while another one is prepared
  AtomicCheck   \* the check corrects state.json before the thread resets it

ASSUME PreparationAssumption ==
  /\ {MaxEntities, Parallel, BatchSize, MaxTries} \subseteq Nat \ {0}
  /\ {MaxPosts, MaxCrashes} \subseteq Nat
  /\ {Overlap, AtomicCheck} \subseteq BOOLEAN

VARIABLES
  attempt,  \* attempt[a]: the request and the thread of a
  worker,   \* worker[i]: the future of the profile of entity i
  state,    \* state.json
  files,    \* the profiles of both platforms and the configuration
  task,     \* task[a], in memory
  flips,    \* a check has read "preparing" and is about to write "ready"
  crashes

prepVars == <<attempt, worker, state, files, task, flips, crashes>>

None == "none"
Ids == 0..(MaxEntities - 1)
Count(n) == 0..(n - 1)
Hours == 0..(MaxEntities + 5)

State == [is: {"torn", "whole"}, status: {"created", "preparing", "ready", "failed"},
          config: BOOLEAN]
Profiles == [is: {"absent", "torn", "whole"}, of: Attempts \cup {None}, agents: SUBSET Ids]
Config == [is: {"absent", "torn", "whole"}, of: Attempts \cup {None}, agents: SUBSET Ids,
           least: Hours, most: Hours, strays: SUBSET Ids]

AttemptPC == {"idle", "asked", "spawned", "reset", "read", "profiles", "count", "reddit",
              "twitter", "time", "events", "batch", "write", "ready", "complete",
              "fail", "taskfail", "again", "ended", "dead"}
Attempt == [pc: AttemptPC,
            status: {"created", "preparing", "ready", "failed"}, config: BOOLEAN,
            entities: 0..MaxEntities, llm: BOOLEAN, posts: 0..MaxPosts,
            batches: 0..MaxEntities, agents: SUBSET Ids, least: Hours, most: Hours]
Worker == [pc: {"none", "queued", "context", "ask", "made", "collected"}, tries: 0..MaxTries]

PrepTypeOK ==
  /\ attempt \in [Attempts -> Attempt] /\ worker \in [Ids -> Worker]
  /\ state \in State
  /\ files \in [reddit: Profiles, twitter: Profiles, config: Config]
  /\ task \in [Attempts -> {"none", "pending", "processing", "completed", "failed"}]
  /\ flips \in BOOLEAN /\ crashes \in 0..MaxCrashes

Idle == [pc |-> "idle", status |-> "created", config |-> FALSE, entities |-> 0, llm |-> FALSE,
         posts |-> 0, batches |-> 0, agents |-> {}, least |-> 0, most |-> 0]
NoWorkers == [i \in Ids |-> [pc |-> "none", tries |-> 0]]
NoProfiles == [is |-> "absent", of |-> None, agents |-> {}]
NoConfig == [is |-> "absent", of |-> None, agents |-> {}, least |-> 0, most |-> 0, strays |-> {}]

PrepInit ==
  /\ attempt = [a \in Attempts |-> Idle] /\ worker = NoWorkers
  /\ state = [is |-> "whole", status |-> "created", config |-> FALSE]
  /\ files = [reddit |-> NoProfiles, twitter |-> NoProfiles, config |-> NoConfig]
  /\ task = [a \in Attempts |-> "none"] /\ flips = FALSE /\ crashes = 0

Working(a) == attempt[a].pc \notin {"idle", "ended", "dead"}
Goes(a, pc) == attempt' = [attempt EXCEPT ![a].pc = pc]

-----------------------------------------------------------------------------
(* The check *)

(* Only the profiles that are counted are parsed.                          *)
Prepared ==
  /\ files.reddit.is = "whole" /\ files.twitter.is # "absent" /\ files.config.is # "absent"
  /\ state.is = "whole" /\ state.status # "created" /\ state.config

CheckReads ==
  /\ Prepared /\ state.status = "preparing" /\ ~flips /\ flips' = TRUE
  /\ UNCHANGED <<attempt, worker, state, files, task, crashes>>

CheckWrites ==
  /\ flips /\ flips' = FALSE
  /\ \/ state' = [is |-> "whole", status |-> "ready", config |-> TRUE]
     \/ state' = [state EXCEPT !.is = "torn"]
  /\ UNCHANGED <<attempt, worker, files, task, crashes>>

-----------------------------------------------------------------------------
(* The request *)

Request(a, force) ==
  /\ attempt[a].pc = "idle" /\ state.is = "whole"
  /\ Overlap \/ \A b \in Attempts : ~Working(b)
  /\ force \/ ~Prepared
  /\ attempt' = [attempt EXCEPT ![a] =
       [Idle EXCEPT !.pc = "asked", !.status = state.status, !.config = state.config]]
  /\ UNCHANGED <<worker, state, files, task, flips, crashes>>

(* state.json is saved whole, from the object of this attempt; a save that *)
(* fails may have truncated the file before.                               *)
SavesState(a, record, next, failing) ==
  \/ /\ state' = [is |-> "whole", status |-> record.status, config |-> record.config]
     /\ attempt' = [attempt EXCEPT ![a] = [record EXCEPT !.pc = next]]
  \/ /\ state' \in {state, [state EXCEPT !.is = "torn"]}
     /\ attempt' = [attempt EXCEPT ![a] = [record EXCEPT !.pc = failing]]

(* The preview of the entities may fail, which is ignored; the flag of the *)
(* preparation before is saved along with the new status.                  *)
SavesPreparing(a) ==
  /\ attempt[a].pc = "asked" /\ task' = [task EXCEPT ![a] = "pending"]
  /\ SavesState(a, [attempt[a] EXCEPT !.status = "preparing"], "spawned", "ended")
  /\ UNCHANGED <<worker, files, flips, crashes>>

-----------------------------------------------------------------------------
(* The thread *)

Begins(a) ==
  /\ attempt[a].pc = "spawned" /\ Goes(a, "reset") /\ task' = [task EXCEPT ![a] = "processing"]
  /\ UNCHANGED <<worker, state, files, flips, crashes>>

(* Mutant: the flag of the preparation before is kept.                     *)
ResetsStatusOnly(a) ==
  /\ attempt[a].pc = "reset" /\ (AtomicCheck => ~flips)
  /\ SavesState(a, attempt[a], "read", "fail")
  /\ UNCHANGED <<worker, files, task, flips, crashes>>

ResetsState(a) ==
  /\ attempt[a].pc = "reset" /\ (AtomicCheck => ~flips)
  /\ SavesState(a, [attempt[a] EXCEPT !.status = "preparing", !.config = FALSE], "read", "fail")
  /\ UNCHANGED <<worker, files, task, flips, crashes>>

(* Zep fails for good, or no node has a label of its own: both raise.      *)
ReadsEntities(a) ==
  /\ attempt[a].pc = "read"
  /\ \/ Goes(a, "fail") /\ UNCHANGED worker
     \/ \E n \in 1..MaxEntities :
          /\ attempt' = [attempt EXCEPT ![a].pc = "profiles", ![a].entities = n]
          /\ worker' = [i \in Ids |-> [pc |-> IF i < n THEN "queued" ELSE "none", tries |-> 0]]
  /\ UNCHANGED <<state, files, task, flips, crashes>>

-----------------------------------------------------------------------------
(* The pool.  One attempt at a time has a pool, unless requests overlap,   *)
(* which the runs leave out.                                               *)

Running == {i \in Ids : worker[i].pc \in {"context", "ask"}}

WorkerMoves(i, pc, tries) ==
  /\ worker' = [worker EXCEPT ![i] = [pc |-> pc, tries |-> tries]]
  /\ UNCHANGED <<attempt, state, files, task, flips, crashes>>

WorkerBegins(i) ==
  /\ worker[i].pc = "queued" /\ Cardinality(Running) < Parallel
  /\ WorkerMoves(i, "context", 0)

(* Searching the graph for context may raise, or the LLM is not used: the  *)
(* profile is a plain one.                                                 *)
WorkerBuildsContext(i) ==
  worker[i].pc = "context" /\ \E pc \in {"ask", "made"} : WorkerMoves(i, pc, 0)

(* Mutant: the count of tries starts over.                                 *)
WorkerStartsOver(i) ==
  /\ worker[i].pc = "ask"
  /\ \/ WorkerMoves(i, "made", worker[i].tries)
     \/ WorkerMoves(i, "ask", IF worker[i].tries + 1 < MaxTries THEN worker[i].tries + 1 ELSE 0)

(* A reply that can be read or repaired makes the profile.                 *)
WorkerAsks(i) ==
  /\ worker[i].pc = "ask"
  /\ \/ WorkerMoves(i, "made", worker[i].tries)
     \/ worker[i].tries + 1 < MaxTries /\ WorkerMoves(i, "ask", worker[i].tries + 1)

(* After the last try, the rules make it.                                  *)
WorkerUsesRules(i) ==
  /\ worker[i].pc = "ask" /\ worker[i].tries + 1 = MaxTries
  /\ WorkerMoves(i, "made", 0)

(* Results come in any order and are put in their place; what is there is  *)
(* written at once, and a write that fails is only logged.                 *)
CollectsProfile(a, i) ==
  /\ attempt[a].pc = "profiles" /\ worker[i].pc = "made"
  /\ worker' = [worker EXCEPT ![i].pc = "collected"]
  /\ LET there == {k \in Ids : worker[k].pc = "collected"} \cup {i}
     IN  files' \in {[files EXCEPT !.reddit = [is |-> is, of |-> a, agents |-> there]] :
                     is \in {"whole", "torn"}}
  /\ UNCHANGED <<attempt, state, task, flips, crashes>>

PoolEnds(a) ==
  /\ attempt[a].pc = "profiles"
  /\ \A i \in Count(attempt[a].entities) : worker[i].pc = "collected"
  /\ Goes(a, "count") /\ worker' = NoWorkers
  /\ UNCHANGED <<state, files, task, flips, crashes>>

SavesCount(a) ==
  /\ attempt[a].pc = "count" /\ SavesState(a, attempt[a], "reddit", "fail")
  /\ UNCHANGED <<worker, files, task, flips, crashes>>

SavesProfiles(a, platform, next) ==
  /\ attempt[a].pc = platform
  /\ \E is \in {"whole", "torn"} :
       /\ files' = [files EXCEPT ![platform] =
            [is |-> is, of |-> a, agents |-> Count(attempt[a].entities)]]
       /\ Goes(a, IF is = "whole" THEN next ELSE "fail")
  /\ UNCHANGED <<worker, state, task, flips, crashes>>

SavesRedditJson(a) == SavesProfiles(a, "reddit", "twitter")
SavesTwitterCsv(a) == SavesProfiles(a, "twitter", "time")

-----------------------------------------------------------------------------
(* The configuration *)

Larger(x, y) == IF x < y THEN y ELSE x
Smaller(x, y) == IF x < y THEN x ELSE y

DefaultTimeConfig(n) == [least |-> Larger(1, n \div 15), most |-> Larger(5, n \div 5)]

(* Mutant: least and most are not compared with one another.               *)
ParseEach(answer, n) ==
  LET least == IF answer.least > n THEN Larger(1, n \div 10) ELSE answer.least
      most == IF answer.most > n THEN Larger(least + 1, n \div 2) ELSE answer.most
  IN  [least |-> least, most |-> most]

(* How many agents are active in an hour, made consistent.                 *)
ParseTimeConfig(answer, n) ==
  LET least == IF answer.least > n THEN Larger(1, n \div 10) ELSE answer.least
      most == IF answer.most > n THEN Larger(least + 1, n \div 2) ELSE answer.most
  IN  [least |-> IF least >= most THEN Larger(1, most \div 2) ELSE least, most |-> most]

Configures(a, record) ==
  /\ attempt' = [attempt EXCEPT ![a] = record]
  /\ UNCHANGED <<worker, state, files, task, flips, crashes>>

(* The LLM is used on demand.  One that fails is replaced by defaults, one *)
(* that answers in another shape raises out of the configuration.          *)
GeneratesTime(a) ==
  /\ attempt[a].pc = "time"
  /\ LET n == attempt[a].entities
         Timed(llm, answer) == LET range == ParseTimeConfig(answer, n)
           IN [attempt[a] EXCEPT !.pc = "events", !.llm = llm,
                                 !.least = range.least, !.most = range.most]
     IN  \/ \E llm \in BOOLEAN : Configures(a, Timed(llm, DefaultTimeConfig(n)))
         \/ \E answer \in [least: 1..(n + 1), most: 1..(n + 1)] : Configures(a, Timed(TRUE, answer))
         \/ Configures(a, [attempt[a] EXCEPT !.pc = "fail"])

GeneratesEvents(a) ==
  /\ attempt[a].pc = "events"
  /\ \E posts \in IF attempt[a].llm THEN 0..MaxPosts ELSE {0} :
       Configures(a, [attempt[a] EXCEPT !.pc = "batch", !.posts = posts])

Due(first, n) == first..(Smaller(first + BatchSize, n) - 1)

(* The agents of the batch that begins with entity `first': those the LLM  *)
(* answered for and, by a rule, those it left out.                         *)
Batch(first, n, answered) == (Due(first, n) \cap answered) \cup (Due(first, n) \ answered)

GeneratesBatch(a) ==
  LET t == attempt[a]
      first == t.batches * BatchSize
  IN  /\ t.pc = "batch"
      /\ IF first < t.entities
           THEN \E answered \in IF t.llm THEN SUBSET Due(first, t.entities) ELSE {{}} :
                  Configures(a, [t EXCEPT !.agents = @ \cup Batch(first, t.entities, answered),
                                          !.batches = @ + 1])
           ELSE Configures(a, [t EXCEPT !.pc = "write"])

(* The posters of the posts: posts of a type that agents have go round     *)
(* those agents, others to an alias of the type, the rest to the agent     *)
(* with the most influence.  `holders' maps a type to the agents that      *)
(* serve it, `star' is the influential one.                                *)
Posters(types, holders, star) ==
  LET Turn(i) == Cardinality({k \in 1..(i - 1) : types[k] = types[i]})
                   % Cardinality(holders[types[i]])
      Poster(i) ==
        IF holders[types[i]] = {} THEN star
        ELSE CHOOSE x \in holders[types[i]] :
               Cardinality({y \in holders[types[i]] : y < x}) = Turn(i)
  IN  {Poster(i) : i \in DOMAIN types}

WritesConfig(a) ==
  LET t == attempt[a]
      Written(is, posters) == [is |-> is, of |-> a, agents |-> t.agents, least |-> t.least,
                               most |-> t.most, strays |-> posters \ t.agents]
  IN  /\ t.pc = "write"
      /\ \E types \in [1..t.posts -> {"held", "other"}],
            held \in SUBSET t.agents, star \in t.agents :
           LET posters == Posters(types, [held |-> held, other |-> {}], star)
           IN  \/ /\ files' = [files EXCEPT !.config = Written("whole", posters)]
                  /\ attempt' = [attempt EXCEPT ![a].pc = "ready", ![a].config = TRUE]
               \/ /\ files' = [files EXCEPT !.config = Written("torn", posters)]
                  /\ Goes(a, "fail")
      /\ UNCHANGED <<worker, state, task, flips, crashes>>

-----------------------------------------------------------------------------
(* The end of an attempt *)

SavesReady(a) ==
  /\ attempt[a].pc = "ready"
  /\ SavesState(a, [attempt[a] EXCEPT !.status = "ready"], "complete", "fail")
  /\ UNCHANGED <<worker, files, task, flips, crashes>>

CompletesTask(a) ==
  /\ attempt[a].pc = "complete"
  /\ attempt' = [attempt EXCEPT ![a] = [Idle EXCEPT !.pc = "ended"]]
  /\ task' = [task EXCEPT ![a] = "completed"]
  /\ UNCHANGED <<worker, state, files, flips, crashes>>

SavesFailed(a) ==
  /\ attempt[a].pc = "fail"
  /\ SavesState(a, [attempt[a] EXCEPT !.status = "failed"], "taskfail", "taskfail")
  /\ UNCHANGED <<worker, files, task, flips, crashes>>

FailsTask(a) ==
  /\ attempt[a].pc = "taskfail" /\ Goes(a, "again") /\ task' = [task EXCEPT ![a] = "failed"]
  /\ UNCHANGED <<worker, state, files, flips, crashes>>

(* run_prepare saves the same object once more.                            *)
SavesFailedAgain(a) ==
  /\ attempt[a].pc = "again"
  /\ SavesState(a, [Idle EXCEPT !.status = "failed", !.config = attempt[a].config],
                "ended", "ended")
  /\ UNCHANGED <<worker, files, task, flips, crashes>>

Writing == {"asked", "reset", "count", "ready", "fail", "again"}

(* Threads, tasks and checks are memory; a file may be half written.       *)
ServerRestarts ==
  /\ crashes < MaxCrashes /\ crashes' = crashes + 1
  /\ attempt' = [a \in Attempts |-> IF Working(a) THEN [Idle EXCEPT !.pc = "dead"] ELSE attempt[a]]
  /\ worker' = NoWorkers /\ task' = [a \in Attempts |-> "none"] /\ flips' = FALSE
  /\ \E torn \in BOOLEAN :
       /\ torn => flips \/ \E a \in Attempts : attempt[a].pc \in Writing
       /\ state' = IF torn THEN [state EXCEPT !.is = "torn"] ELSE state
  /\ UNCHANGED files

ThreadStep(a) ==
  \/ SavesPreparing(a) \/ Begins(a) \/ ResetsState(a) \/ ReadsEntities(a)
  \/ \E i \in Ids : CollectsProfile(a, i)
  \/ PoolEnds(a) \/ SavesCount(a) \/ SavesRedditJson(a) \/ SavesTwitterCsv(a)
  \/ GeneratesTime(a) \/ GeneratesEvents(a) \/ GeneratesBatch(a) \/ WritesConfig(a)
  \/ SavesReady(a) \/ CompletesTask(a)
  \/ SavesFailed(a) \/ FailsTask(a) \/ SavesFailedAgain(a)

WorkerStep(i) ==
  WorkerBegins(i) \/ WorkerBuildsContext(i) \/ WorkerAsks(i) \/ WorkerUsesRules(i)

PrepNext ==
  \/ CheckReads \/ CheckWrites \/ ServerRestarts
  \/ \E a \in Attempts : ThreadStep(a) \/ \E force \in BOOLEAN : Request(a, force)
  \/ \E i \in Ids : WorkerStep(i)

PrepSpec == PrepInit /\ [][PrepNext]_prepVars

(* The requests to the LLM and to Zep have timeouts, and checks are short. *)
FairPrepSpec ==
  /\ PrepSpec /\ WF_prepVars(CheckWrites)
  /\ \A a \in Attempts : WF_prepVars(ThreadStep(a))
  /\ \A i \in Ids : WF_prepVars(WorkerStep(i))

-----------------------------------------------------------------------------
(* What the check calls prepared is one environment: both lists of         *)
(* profiles and the configuration are whole, of the same attempt, name the *)
(* same agents from 0 on, and posts have posters among them.  That covers  *)
(* partial lists written on the way, forced preparations over prepared     *)
(* environments, failures at every step and restarts                       *)
(* (_check_simulation_prepared).                                           *)
PreparedIsWhole ==
  Prepared =>
    /\ \A name \in DOMAIN files : files[name].is = "whole" /\ files[name].of = files.config.of
    /\ \E n \in 1..MaxEntities :
         \A name \in DOMAIN files : files[name].agents = Count(n)
    /\ files.config.strays = {}

(* From any positive answer of the LLM the range of agents per hour is one *)
(* to draw from, and at most one more than there are (_parse_time_config). *)
RangeIsUsable ==
  LET config == files.config
      n == Cardinality(config.agents)
  IN  config.is = "whole" =>
        /\ 1 <= config.least /\ config.least <= config.most
        /\ config.least <= n /\ config.most <= n + 1

(* However the LLM and Zep answer, a preparation ends and its task says    *)
(* how, unless the server restarted or state.json could not be written     *)
(* before the thread began.                                                *)
PreparationSettles ==
  \A a \in Attempts :
    task[a] = "processing" ~> task[a] \in {"completed", "failed"} \/ attempt[a].pc = "dead"
=============================================================================
