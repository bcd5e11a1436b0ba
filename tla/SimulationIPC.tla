--------------------------- MODULE SimulationIPC ---------------------------
(***************************************************************************)
(* Interviews of the agents of a finished simulation, by files.  Callers   *)
(* write a command and poll for its response: the endpoints of the engine  *)
(* and the interview tool of its report agent through the runner's client  *)
(* (api/simulation.py, services/zep_tools.py, simulation_runner.py,        *)
(* simulation_ipc.py), the application through a client of its own         *)
(* (backend/app/oasis_direct.py).  The environment that waits in the child *)
(* polls for commands, serves one at a time and answers                    *)
(* (scripts/run_parallel_simulation.py).                                   *)
(*                                                                         *)
(* A call has a command id of its own.  An environment is a child process; *)
(* the next one starts when the one before is gone (SimulationRunner).     *)
(* What is asked and answered is left out.                                 *)
(***************************************************************************)
EXTENDS Naturals, Sequences

CONSTANTS
  Calls,    \* the calls, each with a command of its own
  Closing,  \* those among them that close the environment
  MaxEnvs,  \* bound: environments of the simulation
  Kills     \* a child or a process with callers may be killed

ASSUME IpcAssumption ==
  /\ Closing \subseteq Calls /\ "none" \notin Calls
  /\ MaxEnvs \in Nat \ {0} /\ Kills \in BOOLEAN

VARIABLES
  call,      \* call[c]: where the caller is, or how its call ended
  command,   \* command[c]: its command file
  older,     \* older[c]: the commands that were written before that of c
  response,  \* response[c]: its response file
  status,    \* env_status.json
  env,       \* the child: number, step, the files it listed, the command it serves
  served     \* served[g]: the commands environment g has carried out

ipcVars == <<call, command, older, response, status, env, served>>

None == "none"
Results == {"completed", "failed"}
Waiting == {"waiting", "watching"}
Begun == {"listing", "asked", "check", "open"} \cup Waiting

Env == [number: 0..MaxEnvs, listed: SUBSET Calls, serves: Calls \cup {None},
        answer: Results,
        pc: {"down", "playing", "poll", "read", "serve", "answer", "write", "remove",
             "close", "leave"}]

IpcTypeOK ==
  /\ call \in [Calls -> {"idle", "dead"} \cup Begun \cup Results]
  /\ command \in [Calls -> {"absent", "torn", "whole"}]
  /\ older \in [Calls -> SUBSET Calls]
  /\ response \in [Calls -> {"absent", "torn"} \cup Results]
  /\ status \in {"absent", "alive", "stopped"}
  /\ env \in Env
  /\ served \in [1..MaxEnvs -> Seq(Calls)]

IpcInit ==
  /\ call = [c \in Calls |-> "idle"] /\ command = [c \in Calls |-> "absent"]
  /\ older = [c \in Calls |-> {}] /\ response = [c \in Calls |-> "absent"] /\ status = "absent"
  /\ env = [number |-> 0, listed |-> {}, serves |-> None, answer |-> "failed", pc |-> "down"]
  /\ served = [g \in 1..MaxEnvs |-> <<>>]

-----------------------------------------------------------------------------
(* How calls come to be.  A call that is refused or not answered raises:   *)
(* like an answer that says so, it has failed.                             *)

Moves(c, pc) ==
  /\ call' = [call EXCEPT ![c] = pc]
  /\ UNCHANGED <<command, older, response, status, env, served>>

Looks(c, alive, otherwise) == Moves(c, IF status = "alive" THEN alive ELSE otherwise)

Interview(c) == call[c] = "idle" /\ c \notin Closing
Close(c) == call[c] = "idle" /\ c \in Closing

InterviewsAgent(c) == Interview(c) /\ Looks(c, "asked", "failed")
InterviewsBatch(c) == Interview(c) /\ Looks(c, "asked", "failed")
InterviewsAll(c) == Interview(c) /\ Looks(c, "listing", "failed")

(* All agents are those of the configuration, which may be half written.   *)
ListsAgents(c) == call[c] = "listing" /\ \E pc \in {"asked", "failed"} : Moves(c, pc)

(* The tool asks no one when it finds no profiles; that is an answer, too. *)
LoadsProfiles(c) == \E pc \in {"asked", "completed"} : Moves(c, pc)
InterviewsForReport(c) == Interview(c) /\ LoadsProfiles(c)

ClosesEnvironment(c) == Close(c) /\ Moves(c, "asked")

(* The runner looks for itself; what does not run has been closed.         *)
AsksRunner(c) ==
  /\ call[c] = "asked"
  /\ Looks(c, "check", IF c \in Closing THEN "completed" ELSE "failed")

(* A close that gets no answer is taken to have worked.                    *)
GivenUp(c) == IF c \in Closing THEN "completed" ELSE "failed"

OpensCommand(c) ==
  /\ call[c] = "check" /\ call' = [call EXCEPT ![c] = "open"]
  /\ command' = [command EXCEPT ![c] = "torn"]
  /\ UNCHANGED <<older, response, status, env, served>>

(* The files are served by the time of their last write.                   *)
PutsCommand(c) ==
  /\ command' = [command EXCEPT ![c] = "whole"]
  /\ older' = [older EXCEPT ![c] = {d \in Calls : command[d] = "whole"}]

RemovesFile(c) ==
  /\ command' = [command EXCEPT ![c] = "absent"]
  /\ older' = [d \in Calls |-> IF d = c THEN {} ELSE older[d] \ {c}]

WritesCommand(c) ==
  /\ call[c] = "open" /\ call' = [call EXCEPT ![c] = "waiting"]
  /\ PutsCommand(c)
  /\ UNCHANGED <<response, status, env, served>>

(* The command goes first; when the environment has removed it already,    *)
(* that raises and the response stays.                                     *)
ReadsResponse(c) ==
  /\ call[c] = "waiting" /\ response[c] \in Results
  /\ call' = [call EXCEPT ![c] = response[c]]
  /\ RemovesFile(c)
  /\ response' = IF command[c] = "absent" THEN response ELSE [response EXCEPT ![c] = "absent"]
  /\ UNCHANGED <<status, env, served>>

(* Mutant: the command of a call that gave up is left behind.              *)
LeavesCommand(c) == call[c] = "waiting" /\ Moves(c, GivenUp(c))

TimesOut(c) ==
  /\ call[c] = "waiting" /\ call' = [call EXCEPT ![c] = GivenUp(c)]
  /\ RemovesFile(c)
  /\ UNCHANGED <<response, status, env, served>>

(* The application: its file is in place at once.  An interview looks at   *)
(* the status, and without an environment a provider answers; a stop does  *)
(* not look, and signals the child when it fails: ShutsDown and EnvDies.   *)
Places(c) ==
  /\ call' = [call EXCEPT ![c] = "watching"]
  /\ PutsCommand(c)
  /\ UNCHANGED <<response, status, env, served>>

InterviewsForService(c) ==
  Interview(c) /\ IF status = "alive" THEN Places(c) ELSE Moves(c, "completed")
StopsSimulation(c) == Close(c) /\ Places(c)

(* A response that is half written is taken for a failure and removed.     *)
ServiceReads(c) ==
  /\ call[c] = "watching" /\ response[c] # "absent"
  /\ call' = [call EXCEPT ![c] = IF response[c] = "completed" THEN "completed" ELSE "failed"]
  /\ RemovesFile(c)
  /\ response' = [response EXCEPT ![c] = "absent"]
  /\ UNCHANGED <<status, env, served>>

ServiceTimesOut(c) ==
  /\ call[c] = "watching" /\ call' = [call EXCEPT ![c] = "failed"]
  /\ RemovesFile(c)
  /\ UNCHANGED <<response, status, env, served>>

CallersDie ==
  /\ Kills
  /\ \E together \in {{"watching"}, Begun \ {"watching"}} :
       call' = [c \in Calls |-> IF call[c] \in together THEN "dead" ELSE call[c]]
  /\ UNCHANGED <<command, older, response, status, env, served>>

-----------------------------------------------------------------------------
(* The environment *)

Does(pc) == env' = [env EXCEPT !.pc = pc, !.listed = {}]

(* Starting over with force deletes the status of the child before.        *)
Starts ==
  /\ env.pc = "down" /\ env.number < MaxEnvs
  /\ env' = [env EXCEPT !.number = @ + 1, !.pc = "playing"]
  /\ status' \in {status, "absent"}
  /\ UNCHANGED <<call, command, older, response, served>>

BeginsWaiting ==
  /\ env.pc = "playing" /\ Does("poll") /\ status' = "alive"
  /\ UNCHANGED <<call, command, older, response, served>>

Lists ==
  /\ env.pc = "poll"
  /\ LET found == {c \in Calls : command[c] # "absent"}
     IN  found # {} /\ env' = [env EXCEPT !.pc = "read", !.listed = found]
  /\ UNCHANGED <<call, command, older, response, status, served>>

Begins(files) ==
  \E c \in files :
    /\ older[c] \cap files = {}
    /\ env' = [env EXCEPT !.pc = "serve", !.listed = {}, !.serves = c]

(* Mutant: a file that cannot be read ends the poll.                       *)
PicksUnlessTorn ==
  LET files == {c \in env.listed : command[c] = "whole"}
  IN  IF \E c \in env.listed : command[c] = "torn" THEN Does("poll") ELSE Begins(files)

(* The oldest command that can be read; none, and the next poll is due.    *)
Picks ==
  LET files == {c \in env.listed : command[c] = "whole"}
  IN  IF files = {} THEN Does("poll") ELSE Begins(files)

(* A listed file that has gone makes getmtime raise, out of the loop.      *)
Reads ==
  /\ env.pc = "read"
  /\ IF \E c \in env.listed : command[c] = "absent" THEN Does("close") ELSE Picks
  /\ UNCHANGED <<call, command, older, response, status, served>>

(* One interview or a batch succeeds when it does on one platform.         *)
InterviewAnswers ==
  {IF good = {} THEN "failed" ELSE "completed" : good \in SUBSET {"twitter", "reddit"}}

Serves ==
  /\ env.pc = "serve"
  /\ served' = [served EXCEPT ![env.number] = Append(@, env.serves)]
  /\ \E answer \in IF env.serves \in Closing THEN {"completed"} ELSE InterviewAnswers :
       env' = [env EXCEPT !.pc = "answer", !.answer = answer]
  /\ UNCHANGED <<call, command, older, response, status>>

OpensResponse ==
  /\ env.pc = "answer" /\ Does("write") /\ response' = [response EXCEPT ![env.serves] = "torn"]
  /\ UNCHANGED <<call, command, older, status, served>>

(* What is written to a file that was removed since stays unread.          *)
WritesResponse ==
  /\ env.pc = "write" /\ Does("remove")
  /\ response' = [response EXCEPT ![env.serves] = IF @ = "absent" THEN @ ELSE env.answer]
  /\ UNCHANGED <<call, command, older, status, served>>

(* Mutant: closing is a command like any other.                            *)
GoesOnPolling == "poll"
AfterServing == IF env.serves \in Closing THEN "close" ELSE "poll"

(* Mutant: the command is left to the caller to remove.                    *)
KeepsCommand ==
  /\ env.pc = "remove" /\ env' = [env EXCEPT !.pc = AfterServing, !.serves = None, !.answer = "failed"]
  /\ UNCHANGED <<call, command, older, response, status, served>>

RemovesCommand ==
  /\ env.pc = "remove" /\ env' = [env EXCEPT !.pc = AfterServing, !.serves = None, !.answer = "failed"]
  /\ RemovesFile(env.serves)
  /\ UNCHANGED <<call, response, status, served>>

(* A signal between two polls.                                             *)
ShutsDown ==
  /\ Kills /\ env.pc = "poll" /\ Does("close")
  /\ UNCHANGED <<call, command, older, response, status, served>>

TellsStopped ==
  /\ env.pc = "close" /\ Does("leave") /\ status' = "stopped"
  /\ UNCHANGED <<call, command, older, response, served>>

Gone == [env EXCEPT !.pc = "down", !.listed = {}, !.serves = None, !.answer = "failed"]

Leaves ==
  /\ env.pc = "leave" /\ env' = Gone
  /\ UNCHANGED <<call, command, older, response, status, served>>

EnvDies ==
  /\ Kills /\ env.pc # "down" /\ env' = Gone
  /\ UNCHANGED <<call, command, older, response, status, served>>

CallStep(c) ==
  \/ InterviewsAgent(c) \/ InterviewsBatch(c) \/ InterviewsAll(c) \/ ListsAgents(c)
  \/ InterviewsForReport(c) \/ ClosesEnvironment(c) \/ AsksRunner(c)
  \/ OpensCommand(c) \/ WritesCommand(c) \/ ReadsResponse(c) \/ TimesOut(c)
  \/ InterviewsForService(c) \/ StopsSimulation(c) \/ ServiceReads(c) \/ ServiceTimesOut(c)
EnvStep ==
  \/ BeginsWaiting \/ Lists \/ Reads \/ Serves \/ OpensResponse \/ WritesResponse
  \/ RemovesCommand \/ TellsStopped \/ Leaves

IpcNext ==
  \/ \E c \in Calls : CallStep(c)
  \/ EnvStep \/ Starts \/ ShutsDown \/ EnvDies \/ CallersDie

IpcSpec == IpcInit /\ [][IpcNext]_ipcVars

(* The loop of the environment sleeps half a second at most, an interview  *)
(* ends by the timeout of the model client, and so do rounds.              *)
FairIpcSpec == IpcSpec /\ WF_ipcVars(EnvStep)

-----------------------------------------------------------------------------
(* An environment carries out a command once, and none after the one that  *)
(* closes it, whatever is still in its directory (process_commands).       *)
ServesOnceThenCloses ==
  \A g \in 1..MaxEnvs : \A i, k \in 1..Len(served[g]) :
    i < k => served[g][i] # served[g][k] /\ served[g][i] \notin Closing

(* A command nobody waits for any more is not begun: a call that times out *)
(* takes its file along.  Only killed callers leave commands behind.       *)
ServesTheWaiting ==
  [][\A c \in Calls : env.pc = "read" /\ env'.serves = c => call[c] \in Waiting \cup {"dead"}]_ipcVars

(* A readable command is not stuck behind others, not even behind one that *)
(* a killed server left half written: it is served, taken back, or the     *)
(* environment goes (poll_command).                                        *)
NoCommandIsStuck ==
  \A c \in Calls : command[c] = "whole" /\ env.pc # "down" ~> command[c] # "whole" \/ env.pc = "down"

-----------------------------------------------------------------------------
(* The inductive invariant, in parts (SimulationIPCProofs) *)

(* A file is that of a caller that waits, that writes it, or that is dead. *)
CommandsHaveCallers ==
  \A c \in Calls : /\ command[c] = "whole" => call[c] \in Waiting \cup {"dead"}
                   /\ command[c] = "torn" => call[c] \in {"open", "dead"}

(* What the environment holds goes with its step.                          *)
EnvIsConsistent ==
  /\ env.pc # "down" => env.number # 0
  /\ env.serves # None <=> env.pc \in {"serve", "answer", "write", "remove"}
  /\ \A g \in 1..MaxEnvs : g > env.number => served[g] = <<>>

HasServed(c) == \E i \in 1..Len(served[env.number]) : served[env.number][i] = c

(* The call of a command that was carried out has left the states from     *)
(* which it writes one, and the file is gone or about to be removed.       *)
ServedIsOver ==
  env.pc # "down" =>
    \A c \in Calls : HasServed(c) =>
      /\ call[c] \in Waiting \cup {"dead"} \cup Results
      /\ command[c] = "absent" \/ (env.serves = c /\ env.pc # "serve")

ServesTheNew ==
  env.pc = "serve" => /\ ~HasServed(env.serves)
                      /\ call[env.serves] \in Waiting \cup {"dead"} \cup Results

(* Having carried out a closing, the environment comes to its end.         *)
ClosedForGood ==
  env.pc \notin {"down", "close", "leave"} =>
    \A c \in Closing : HasServed(c) => env.serves = c /\ env.pc # "serve"

IpcInv ==
  /\ CommandsHaveCallers
  /\ EnvIsConsistent
  /\ ServedIsOver
  /\ ServesTheNew
  /\ ClosedForGood
  /\ ServesOnceThenCloses
=============================================================================
