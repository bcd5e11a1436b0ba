-------------------------- MODULE SimulationRunner --------------------------
(***************************************************************************)
(* One simulation under the runner of the engine                           *)
(* (oasis_engine_runtime/app/services/simulation_runner.py, and the start  *)
(* and stop requests of app/api/simulation.py).                            *)
(*                                                                         *)
(* Each claim of start_simulation makes a new run: a child process that    *)
(* writes actions to the log of the simulation, a monitor thread that      *)
(* reads the log and hands the actions to the updater of the graph memory, *)
(* and that updater.  Requests start and stop runs beside the monitor; the *)
(* finalization lock serialises parts of both.  The server may crash: the  *)
(* run state is on disk and the children are in sessions of their own, so  *)
(* both survive it.                                                        *)
(*                                                                         *)
(* A step is what one thread does under the lock, or between two things    *)
(* another thread can see.  One log stands for those of both platforms.    *)
(* The updater is seen through its promise (GraphIngestion): a door, what  *)
(* it accepted, and a stop that drains it or raises.                       *)
(***************************************************************************)
EXTENDS Naturals, Sequences, FiniteSets

CONSTANTS
  Clients,        \* request threads
  MaxStarts,      \* bound: claims of start_simulation
  MaxLines,       \* bound: lines of the log
  MaxCrashes,     \* bound: crashes of the server
  Faults,         \* the disk raises in the monitor's loop
  PromptCleanup,  \* a monitor's last statements precede a later publication
  NoLock

ASSUME RunnerAssumption ==
  /\ IsFiniteSet(Clients) /\ NoLock \notin Clients \cup {0} /\ 0 \notin Clients
  /\ MaxStarts \in Nat /\ MaxLines \in Nat /\ MaxCrashes \in Nat
  /\ Faults \in BOOLEAN /\ PromptCleanup \in BOOLEAN

VARIABLES
  status,    \* runner_status of the run state, in memory and on disk
  runs,      \* the number of claims so far; runs are numbered by it
  memory,    \* memory[g]: run g was started with graph memory
  flag,      \* _graph_memory_enabled
  manual,    \* _manual_stop_requests
  process,   \* _processes: a run, or 0
  watcher,   \* _monitor_threads: a run, or 0
  updater,   \* the manager's entry: a run, or 0
  lock,      \* holder of the finalization lock
  log,       \* the run whose child wrote each line of the action log
  child,     \* child[g]: the process of run g
  monitor,   \* monitor[g]: where the monitor of run g is
  door,      \* door[g]: the updater of run g
  accepted,  \* accepted[g]: the lines the updater of run g took
  ready,     \* the status of the simulation is READY: force does not apply
  lost,      \* runs of a server that has crashed or exited
  crashes,
  request    \* where each client's request is

serverVars == <<flag, manual, process, watcher, updater, lock>>
runVars == <<runs, memory, child, log, lost, crashes>>
runnerVars == <<status, ready, serverVars, runVars, monitor, door, accepted, request>>

Gens == 1..MaxStarts
Status == {"none", "starting", "running", "stopping", "stopped", "completed", "failed"}
Active == {"starting", "running", "stopping"}
Terminal == {"stopped", "completed", "failed"}
MonitorPC == {"none", "begin", "poll", "read", "final", "lock", "close", "drain", "clean", "done"}
RequestPC == {"idle", "stop", "terminate", "join", "wait", "finish", "close", "drain",
              "clean", "claim", "create", "flag", "spawn", "publish", "abort", "fail",
              "shutdown", "release", "exit"}

Monitor == [pc: MonitorPC, child: 0..MaxStarts, sink: 0..MaxStarts,
            pos: 0..MaxLines, at: 0..MaxLines, failed: BOOLEAN, goal: Terminal]
Request == [pc: RequestPC, op: {"start", "restart", "stop", "shutdown"},
            memory: BOOLEAN, run: 0..MaxStarts, retry: BOOLEAN]

NoMonitor == [pc |-> "none", child |-> 0, sink |-> 0, pos |-> 0, at |-> 0,
              failed |-> FALSE, goal |-> "completed"]
NoRequest == [pc |-> "idle", op |-> "stop", memory |-> FALSE, run |-> 0, retry |-> FALSE]

RunnerTypeOK ==
  /\ status \in Status /\ runs \in 0..MaxStarts /\ ready \in BOOLEAN
  /\ memory \in [Gens -> BOOLEAN]
  /\ flag \in BOOLEAN /\ manual \in BOOLEAN
  /\ process \in 0..MaxStarts /\ watcher \in 0..MaxStarts /\ updater \in 0..MaxStarts
  /\ lock \in {NoLock, 0} \cup Clients
  /\ log \in Seq(Gens) /\ Len(log) <= MaxLines
  /\ child \in [Gens -> {"none", "alive", "exited", "failed"}]
  /\ monitor \in [Gens -> Monitor]
  /\ door \in [Gens -> {"none", "open", "closed"}]
  /\ accepted \in [Gens -> SUBSET (1..MaxLines)]
  /\ lost \subseteq Gens /\ crashes \in 0..MaxCrashes
  /\ request \in [Clients -> Request]

RunnerInit ==
  /\ status = "none" /\ runs = 0 /\ ready = TRUE
  /\ memory = [g \in Gens |-> FALSE]
  /\ flag = FALSE /\ manual = FALSE
  /\ process = 0 /\ watcher = 0 /\ updater = 0 /\ lock = NoLock
  /\ log = <<>>
  /\ child = [g \in Gens |-> "none"]
  /\ monitor = [g \in Gens |-> NoMonitor]
  /\ door = [g \in Gens |-> "none"]
  /\ accepted = [g \in Gens |-> {}]
  /\ lost = {} /\ crashes = 0
  /\ request = [c \in Clients |-> NoRequest]

Free == lock = NoLock
Replies(c) == request' = [request EXCEPT ![c] = NoRequest]
Goes(c, pc) == request' = [request EXCEPT ![c].pc = pc]
Alive(g) == g # 0 /\ child[g] = "alive"

-----------------------------------------------------------------------------
(* A stop of the updater, by the monitor or by a request, in two steps:    *)
(* the door closes, then the drain ends well or raises.                    *)

ClosesDoor ==
  door' = IF updater = 0 THEN door ELSE [door EXCEPT ![updater] = "closed"]

DrainSucceeds == updater' = 0 /\ flag' = FALSE
DrainRaises == updater # 0 /\ UNCHANGED <<updater, flag>>

-----------------------------------------------------------------------------
(* The child *)

ChildWrites(g) ==
  /\ child[g] = "alive" /\ Len(log) < MaxLines
  /\ log' = Append(log, g)
  /\ UNCHANGED <<ready, status, serverVars, runs, memory, child, lost, crashes,
                 monitor, door, accepted, request>>

ChildExits(g) ==
  /\ child[g] = "alive"
  /\ \E how \in {"exited", "failed"} : child' = [child EXCEPT ![g] = how]
  /\ UNCHANGED <<ready, status, serverVars, runs, memory, log, lost, crashes,
                 monitor, door, accepted, request>>

-----------------------------------------------------------------------------
(* The API: start, stop, and the end of the server *)

NeedsFinalization ==
  status \in {"running", "stopping"} \/ (status = "failed" /\ updater # 0)

(* force applies to a simulation that has left READY: the run is stopped   *)
(* if it has to be, and its logs go.  Otherwise the claim decides.         *)
StartRequested(c, force, mem) ==
  /\ request[c].pc = "idle" /\ runs < MaxStarts
  /\ ready \/ force \/ ~NeedsFinalization
  /\ request' = [request EXCEPT ![c] =
       [NoRequest EXCEPT !.pc = IF ready \/ ~force THEN "claim" ELSE
                                IF NeedsFinalization THEN "stop" ELSE "clean",
                         !.op = IF force THEN "restart" ELSE "start", !.memory = mem]]
  /\ ready' = (ready \/ ~force)
  /\ UNCHANGED <<status, serverVars, runVars, monitor, door, accepted>>

StopRequested(c) ==
  /\ request[c].pc = "idle" /\ status # "none"
  /\ Goes(c, "stop")
  /\ UNCHANGED <<ready, status, serverVars, runVars, monitor, door, accepted>>

(* close_env: the script was asked to end and the simulation is saved as   *)
(* completed; the run goes on until its child exits.                       *)
EnvClosed(c) ==
  /\ request[c].pc = "idle" /\ \E g \in Gens : Alive(g)
  /\ ready' = FALSE
  /\ UNCHANGED <<status, serverVars, runVars, monitor, door, accepted, request>>

(* cleanup_simulation_logs *)
LogsCleaned(c) ==
  /\ request[c].pc = "clean"
  /\ status' = "none" /\ log' = <<>>
  /\ accepted' = [g \in Gens |-> {}]  \* the lines are gone
  /\ Goes(c, "claim") /\ ready' = TRUE
  /\ UNCHANGED <<serverVars, runs, memory, child, lost, crashes, monitor, door>>

-----------------------------------------------------------------------------
(* start_simulation *)

StartClaims(c) ==
  /\ request[c].pc = "claim" /\ Free
  /\ IF status \in Active \/ updater # 0 \/ runs = MaxStarts
       THEN Replies(c) /\ UNCHANGED <<status, runs, memory, accepted>>
       ELSE /\ status' = "starting" /\ runs' = runs + 1
            /\ memory' = [memory EXCEPT ![runs + 1] = request[c].memory]
            /\ accepted' = [g \in Gens |-> {}]  \* what earlier runs wrote is settled
            /\ request' = [request EXCEPT ![c].pc = "create", ![c].run = runs + 1]
  /\ UNCHANGED <<ready, serverVars, child, log, lost, crashes, monitor, door>>

StartCreatesUpdater(c) ==
  /\ request[c].pc = "create"
  /\ LET g == request[c].run IN
     IF ~memory[g]
       THEN /\ flag' = FALSE /\ Goes(c, "spawn")
            /\ UNCHANGED <<updater, door>>
       ELSE \/ /\ updater' = g /\ door' = [door EXCEPT ![g] = "open"]
               /\ Goes(c, "flag") /\ UNCHANGED flag
            \/ /\ flag' = FALSE /\ Goes(c, "fail")
               /\ UNCHANGED <<updater, door>>
  /\ UNCHANGED <<ready, status, manual, process, watcher, lock, runVars, monitor,
                 accepted>>

StartSetsFlag(c) ==
  /\ request[c].pc = "flag"
  /\ flag' = TRUE /\ Goes(c, "spawn")
  /\ UNCHANGED <<ready, status, manual, process, watcher, updater, lock, runVars,
                 monitor, door, accepted>>

(* Popen, or the script is missing.                                        *)
StartSpawns(c) ==
  /\ request[c].pc = "spawn"
  /\ \/ child' = [child EXCEPT ![request[c].run] = "alive"] /\ Goes(c, "publish")
     \/ UNCHANGED child /\ Goes(c, "abort")
  /\ UNCHANGED <<ready, status, serverVars, runs, memory, log, lost, crashes,
                 monitor, door, accepted>>

StartPublishes(c) ==
  LET g == request[c].run IN
  /\ request[c].pc = "publish" /\ Free
  /\ PromptCleanup => \A h \in Gens : monitor[h].pc # "clean"
  /\ status' = "running" /\ process' = g /\ watcher' = g
  /\ monitor' = [monitor EXCEPT ![g].pc = "begin"]
  /\ Replies(c)
  /\ UNCHANGED <<ready, flag, manual, updater, lock, runVars, door, accepted>>

(* An exception after Popen: the child is terminated, nothing stays        *)
(* registered.                                                             *)
StartPublishFails(c) ==
  LET g == request[c].run IN
  /\ request[c].pc = "publish" /\ Free
  /\ child' = IF Alive(g) THEN [child EXCEPT ![g] = "failed"] ELSE child
  /\ process' = 0 /\ watcher' = 0
  /\ Goes(c, "abort")
  /\ UNCHANGED <<ready, status, flag, manual, updater, lock, runs, memory, log, lost,
                 crashes,
                 monitor, door, accepted>>

(* The failed start stops its updater without the lock ...                 *)
StartAborts(c) ==
  /\ request[c].pc = "abort"
  /\ IF flag THEN ClosesDoor /\ (DrainSucceeds \/ DrainRaises)
             ELSE UNCHANGED <<door, updater, flag>>
  /\ Goes(c, "fail")
  /\ UNCHANGED <<ready, status, manual, process, watcher, lock, runVars, monitor,
                 accepted>>

(* ... and publishes its failure under it.                                 *)
StartFails(c) ==
  /\ request[c].pc = "fail" /\ Free
  /\ status' = "failed" /\ Replies(c)
  /\ UNCHANGED <<ready, serverVars, runVars, monitor, door, accepted>>

-----------------------------------------------------------------------------
(* stop_simulation *)

(* What follows a stop: the reply, the rest of a restart or of a shutdown. *)
StopReturns(c) ==
  /\ CASE request[c].op = "restart"  -> Goes(c, "clean")
       [] request[c].op = "shutdown" -> Goes(c, "release")
       [] OTHER -> Replies(c)
  /\ ready' = (ready /\ request[c].op # "stop")

(* It raised: an error but for a simulation without a run to stop, or with *)
(* one that is still being stopped, leaves the simulation failed.          *)
StopRaises(c, error) ==
  /\ IF request[c].op = "shutdown" THEN Goes(c, "exit") ELSE Replies(c)
  /\ ready' = (ready /\ ~(error /\ request[c].op = "stop"))

StopLocks(c) ==
  LET retry == updater # 0 /\ status \in {"stopping", "failed"} IN
  /\ request[c].pc = "stop" /\ Free
  /\ IF status = "stopped"
       THEN StopReturns(c) /\ UNCHANGED <<status, manual, lock>>
     ELSE IF status \notin Active /\ ~retry
       THEN StopRaises(c, FALSE) /\ UNCHANGED <<status, manual, lock>>
     ELSE /\ status' = "stopping" /\ manual' = TRUE /\ lock' = c
          /\ request' = [request EXCEPT ![c].pc = "terminate", ![c].retry = retry]
          /\ UNCHANGED ready
  /\ UNCHANGED <<flag, process, watcher, updater, runVars, monitor, door, accepted>>

(* _terminate_process: back when the registered child is gone.             *)
StopTerminates(c) ==
  /\ request[c].pc = "terminate"
  /\ child' = IF Alive(process) THEN [child EXCEPT ![process] = "failed"] ELSE child
  /\ lock' = NoLock /\ Goes(c, "join")
  /\ UNCHANGED <<ready, status, flag, manual, process, watcher, updater, runs, memory,
                 log, lost,
                 crashes, monitor, door, accepted>>

(* Mutant: the request does not leave the drain to the monitor.            *)
StopNeverWaits(c) ==
  /\ request[c].pc = "join"
  /\ Goes(c, "finish")
  /\ UNCHANGED <<ready, status, serverVars, runVars, monitor, door, accepted>>

StopChoosesOwner(c) ==
  /\ request[c].pc = "join"
  /\ IF ~request[c].retry /\ watcher # 0 /\ monitor[watcher].pc # "done"
       THEN request' = [request EXCEPT ![c].pc = "wait", ![c].run = watcher]
       ELSE request' = [request EXCEPT ![c].pc = "finish", ![c].retry = FALSE]
  /\ UNCHANGED <<ready, status, serverVars, runVars, monitor, door, accepted>>

StopJoined(c) ==
  /\ request[c].pc = "wait" /\ monitor[request[c].run].pc = "done"
  /\ IF status = "stopped" THEN StopReturns(c) ELSE StopRaises(c, TRUE)
  /\ UNCHANGED <<status, serverVars, runVars, monitor, door, accepted>>

(* SimulationStopPending: the join outlasts every step of a monitor but    *)
(* the drain.                                                              *)
StopPending(c) ==
  /\ request[c].pc = "wait" /\ monitor[request[c].run].pc = "drain"
  /\ StopRaises(c, FALSE)
  /\ UNCHANGED <<status, serverVars, runVars, monitor, door, accepted>>

(* Without a monitor, the request itself drains and publishes.             *)
StopFinishes(c) ==
  /\ request[c].pc = "finish" /\ Free
  /\ IF flag
       THEN lock' = c /\ Goes(c, "close") /\ UNCHANGED <<status, manual, ready>>
       ELSE status' = "stopped" /\ manual' = FALSE /\ StopReturns(c) /\ UNCHANGED lock
  /\ UNCHANGED <<flag, process, watcher, updater, runVars, monitor, door, accepted>>

StopClosesDoor(c) ==
  /\ request[c].pc = "close"
  /\ ClosesDoor /\ Goes(c, "drain")
  /\ UNCHANGED <<ready, status, serverVars, runVars, monitor, accepted>>

StopDrains(c) ==
  /\ request[c].pc = "drain"
  /\ lock' = NoLock
  /\ \/ DrainSucceeds /\ status' = "stopped" /\ manual' = FALSE /\ StopReturns(c)
     \/ DrainRaises /\ status' = "failed" /\ UNCHANGED manual /\ StopRaises(c, TRUE)
  /\ UNCHANGED <<process, watcher, runVars, monitor, door, accepted>>

-----------------------------------------------------------------------------
(* _monitor_simulation *)

Moves(g, pc) == monitor' = [monitor EXCEPT ![g].pc = pc]
Leaves(g) ==
  monitor' = [monitor EXCEPT ![g] = [NoMonitor EXCEPT !.pc = "clean", !.failed = monitor[g].failed]]

MonitorBegins(g) ==
  /\ monitor[g].pc = "begin" /\ Free  \* started by the holder of the lock
  /\ IF process = 0 THEN Moves(g, "done")
     ELSE monitor' = [monitor EXCEPT ![g].pc = "poll", ![g].child = process]
  /\ UNCHANGED <<ready, status, serverVars, runVars, door, accepted, request>>

(* Mutant: the end of the simulation in the log ends the run.              *)
MonitorTrustsLog(g) ==
  /\ monitor[g].pc = "poll"
  /\ \E pc \in {"read", "final"} :
       monitor' = [monitor EXCEPT ![g].pc = pc,
                                  ![g].at = monitor[g].pos,
                                  ![g].sink = IF flag THEN updater ELSE 0]
  /\ UNCHANGED <<ready, status, serverVars, runVars, door, accepted, request>>

(* _read_action_log: the updater is looked up once per reading; a final    *)
(* reading follows the exit of the child.                                  *)
MonitorReads(g) ==
  /\ monitor[g].pc = "poll"
  /\ monitor' = [monitor EXCEPT
       ![g].pc = IF Alive(monitor[g].child) THEN "read" ELSE "final",
       ![g].at = monitor[g].pos,
       ![g].sink = IF flag THEN updater ELSE 0]
  /\ UNCHANGED <<ready, status, serverVars, runVars, door, accepted, request>>

AfterReading(g) == IF monitor[g].pc = "final" THEN "lock" ELSE "poll"

(* A line for a closed updater raises: the reading ends where it began.    *)
MonitorReadsLine(g) ==
  LET m == monitor[g] IN
  /\ m.pc \in {"read", "final"} /\ m.at < Len(log)
  /\ IF m.sink # 0 /\ door[m.sink] = "closed"
       THEN /\ monitor' = [monitor EXCEPT ![g].pc = AfterReading(g), ![g].at = m.pos]
            /\ UNCHANGED accepted
       ELSE /\ monitor' = [monitor EXCEPT ![g].at = m.at + 1]
            /\ accepted' = IF m.sink = 0 THEN accepted
                           ELSE [accepted EXCEPT ![m.sink] = @ \cup {m.at + 1}]
  /\ UNCHANGED <<ready, status, serverVars, runVars, door, request>>

MonitorReadsEnd(g) ==
  LET m == monitor[g] IN
  /\ m.pc \in {"read", "final"} /\ m.at >= Len(log)
  /\ monitor' = [monitor EXCEPT ![g].pc = AfterReading(g), ![g].pos = m.at]
  /\ UNCHANGED <<ready, status, serverVars, runVars, door, accepted, request>>

(* Saving the run state raises: the loop ends with the child alive.        *)
MonitorFails(g) ==
  /\ Faults /\ monitor[g].pc = "poll"
  /\ monitor' = [monitor EXCEPT ![g].pc = "lock", ![g].failed = TRUE]
  /\ UNCHANGED <<ready, status, serverVars, runVars, door, accepted, request>>

Verdict(g) ==
  IF manual THEN "stopped"
  ELSE IF monitor[g].failed \/ child[monitor[g].child] # "exited" THEN "failed"
  ELSE "completed"

(* Mutant: the verdict is published before the drain.                      *)
MonitorLocksNoBarrier(g) ==
  /\ monitor[g].pc = "lock" /\ Free
  /\ IF status \in {"stopped", "failed"}
       THEN Leaves(g) /\ manual' = FALSE /\ UNCHANGED <<status, lock>>
     ELSE IF flag
       THEN /\ status' = Verdict(g) /\ lock' = 0
            /\ monitor' = [monitor EXCEPT ![g].pc = "close", ![g].goal = Verdict(g)]
            /\ UNCHANGED manual
     ELSE /\ status' = Verdict(g) /\ manual' = FALSE
          /\ Leaves(g) /\ UNCHANGED lock
  /\ UNCHANGED <<ready, flag, process, watcher, updater, runVars, door, accepted,
                 request>>

MonitorLocks(g) ==
  /\ monitor[g].pc = "lock" /\ Free
  /\ IF status \in {"stopped", "failed"}
       THEN Leaves(g) /\ manual' = FALSE /\ UNCHANGED <<status, lock>>
     ELSE IF flag
       THEN /\ status' = "stopping" /\ lock' = 0
            /\ monitor' = [monitor EXCEPT ![g].pc = "close", ![g].goal = Verdict(g)]
            /\ UNCHANGED manual
     ELSE /\ status' = Verdict(g) /\ manual' = FALSE
          /\ Leaves(g) /\ UNCHANGED lock
  /\ UNCHANGED <<ready, flag, process, watcher, updater, runVars, door, accepted,
                 request>>

MonitorClosesDoor(g) ==
  /\ monitor[g].pc = "close"
  /\ ClosesDoor /\ Moves(g, "drain")
  /\ UNCHANGED <<ready, status, serverVars, runVars, accepted, request>>

(* Mutant: a drain that raised ends the monitor at the barrier.            *)
MonitorDrainRaisesOut(g) ==
  /\ monitor[g].pc = "drain"
  /\ \/ DrainSucceeds /\ status' = monitor[g].goal
     \/ DrainRaises /\ UNCHANGED status
  /\ lock' = NoLock /\ manual' = FALSE
  /\ Leaves(g)
  /\ UNCHANGED <<ready, process, watcher, runVars, door, accepted, request>>

MonitorDrains(g) ==
  /\ monitor[g].pc = "drain"
  /\ \/ DrainSucceeds /\ status' = monitor[g].goal
     \/ DrainRaises /\ status' = "failed"
  /\ lock' = NoLock /\ manual' = FALSE
  /\ Leaves(g)
  /\ UNCHANGED <<ready, process, watcher, runVars, door, accepted, request>>

(* The registrations go, whoever's they are by now; without the lock.      *)
MonitorCleans(g) ==
  /\ monitor[g].pc = "clean"
  /\ process' = 0 /\ watcher' = 0
  /\ Moves(g, "done")
  /\ UNCHANGED <<ready, status, flag, manual, updater, lock, runVars, door, accepted,
                 request>>

-----------------------------------------------------------------------------
(* The deletion of the graph of a failed run discards its updater *)

UpdaterDiscarded ==
  /\ Free /\ status = "failed" /\ updater # 0 /\ door[updater] = "closed"
  /\ updater' = 0
  /\ UNCHANGED <<ready, status, flag, manual, process, watcher, lock, runVars, monitor,
                 door,
                 accepted, request>>

-----------------------------------------------------------------------------
(* The end of the server *)

ServerGone ==
  /\ flag' = FALSE /\ manual' = FALSE
  /\ process' = 0 /\ watcher' = 0 /\ updater' = 0 /\ lock' = NoLock
  /\ monitor' = [g \in Gens |-> IF monitor[g].pc = "none" THEN monitor[g]
                                ELSE [NoMonitor EXCEPT !.pc = "done", !.failed = monitor[g].failed]]
  /\ door' = [g \in Gens |-> IF door[g] = "open" THEN "closed" ELSE door[g]]
  /\ request' = [c \in Clients |-> NoRequest]
  /\ lost' = {g \in Gens : g <= runs}
  /\ UNCHANGED <<ready, status, runs, memory, child, log, accepted>>

Crash ==
  /\ crashes < MaxCrashes /\ crashes' = crashes + 1
  /\ ServerGone

(* cleanup_all_simulations, by a signal or at exit: a premature terminal   *)
(* status becomes the barrier again, then the normal stop.                 *)
ShutdownRequested(c) ==
  /\ request[c].pc = "idle"
  /\ request' = [request EXCEPT ![c].pc = "shutdown", ![c].op = "shutdown"]
  /\ UNCHANGED <<ready, status, serverVars, runVars, monitor, door, accepted>>

ShutdownPrepares(c) ==
  LET retained == updater # 0 /\ status # "none" IN
  /\ request[c].pc = "shutdown"
  /\ flag' = (flag \/ retained)
  /\ status' = IF retained /\ status \in {"stopped", "completed"} THEN "stopping" ELSE status
  /\ Goes(c, IF status = "none" THEN "exit"
             ELSE IF Alive(process) \/ updater # 0 \/ status' \in Active THEN "stop"
             ELSE "release")
  /\ child' = IF status = "none" /\ Alive(process)
              THEN [child EXCEPT ![process] = "failed"] ELSE child
  /\ UNCHANGED <<ready, manual, process, watcher, updater, lock, runs, memory, log,
                 lost, crashes,
                 monitor, door, accepted>>

ShutdownReleases(c) ==
  /\ request[c].pc = "release"
  /\ IF status = "stopped" /\ ~Alive(process)
       THEN process' = 0 /\ watcher' = 0
       ELSE UNCHANGED <<process, watcher>>
  /\ Goes(c, "exit")
  /\ UNCHANGED <<ready, status, flag, manual, updater, lock, runVars, monitor, door,
                 accepted>>

ServerExits(c) ==
  /\ request[c].pc = "exit"
  /\ ServerGone /\ UNCHANGED crashes

-----------------------------------------------------------------------------

RequestStep(c) ==
  \/ LogsCleaned(c) \/ StartClaims(c) \/ StartCreatesUpdater(c) \/ StartSetsFlag(c)
  \/ StartSpawns(c) \/ StartPublishes(c) \/ StartPublishFails(c)
  \/ StartAborts(c) \/ StartFails(c)
  \/ StopLocks(c) \/ StopTerminates(c) \/ StopChoosesOwner(c)
  \/ StopJoined(c) \/ StopPending(c)
  \/ StopFinishes(c) \/ StopClosesDoor(c) \/ StopDrains(c)
  \/ ShutdownPrepares(c) \/ ShutdownReleases(c) \/ ServerExits(c)

MonitorStep(g) ==
  \/ MonitorBegins(g) \/ MonitorReads(g) \/ MonitorReadsLine(g) \/ MonitorReadsEnd(g)
  \/ MonitorLocks(g) \/ MonitorClosesDoor(g) \/ MonitorDrains(g) \/ MonitorCleans(g)

RunnerNext ==
  \/ \E c \in Clients :
       \/ \E force, mem \in BOOLEAN : StartRequested(c, force, mem)
       \/ StopRequested(c) \/ EnvClosed(c) \/ ShutdownRequested(c) \/ RequestStep(c)
  \/ \E g \in Gens : MonitorStep(g) \/ MonitorFails(g) \/ ChildWrites(g) \/ ChildExits(g)
  \/ UpdaterDiscarded
  \/ Crash

RunnerSpec == RunnerInit /\ [][RunnerNext]_runnerVars

(* Threads that have begun run on; children and callers owe nothing.       *)
FairRunnerSpec ==
  /\ RunnerSpec
  /\ \A c \in Clients : WF_runnerVars(RequestStep(c))
  /\ WF_runnerVars(\E g \in Gens : MonitorStep(g))

-----------------------------------------------------------------------------
(* Properties *)

(* The runs of this server whose monitor did not fail.                     *)
Mine == {g \in Gens : g \notin lost /\ ~monitor[g].failed}

(* A terminal status means that the child has exited, and that no other    *)
(* can be alive: restarts, retries and failed starts never leave two       *)
(* children on the files of one simulation, and a shutdown that stopped    *)
(* what it found leaves none.                                              *)
OneChild ==
  LET children == {g \in Mine : child[g] = "alive"} IN
  /\ Cardinality(children) <= 1
  /\ status \in Terminal => children = {}
  /\ (\E c \in Clients : request[c].pc = "release") => children = {}

(* The barrier: while an updater holds accepted activities the run is not  *)
(* shown as completed or stopped; reports and deletions rely on it.        *)
TerminalMeansDrained ==
  status \in {"completed", "stopped"} => updater = 0

(* What the child of a published run wrote up to its end reached the       *)
(* updater before it was drained: no stop cuts off the tail of the log.    *)
TailIngested ==
  \A g \in Mine :
    g = runs /\ memory[g] /\ status \in {"completed", "stopped"} /\ monitor[g].pc # "none"
      => \A i \in DOMAIN log : log[i] = g => i \in accepted[g]

(* A run at the barrier leaves it: the drain ends, well or not.            *)
StoppingEnds ==
  (status = "stopping") ~> (status # "stopping" \/ runs \in lost)
=============================================================================
