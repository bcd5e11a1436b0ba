------------------------- MODULE SimulationIPCProofs -------------------------
(***************************************************************************)
(* Proofs about SimulationIPC, for any number of calls and environments.   *)
(*                                                                         *)
(* The steps of the callers differ, for what is proved, only in what they  *)
(* do to one call and its command file, those of the environment in where  *)
(* they take it: first come these effects, with the types, then one lemma  *)
(* for each part of IpcInv.                                                *)
(***************************************************************************)
EXTENDS SimulationIPC, TLAPS

USE IpcAssumption

CallStates == {"idle", "dead"} \cup Begun \cup Results
Pcs == {"down", "playing", "poll", "read", "serve", "answer", "write", "remove",
        "close", "leave"}

(* The fields of the environment, as it is typed.                          *)
IsEnv(e, number, serves, answer, pc) ==
  /\ e \in Env
  /\ e.number = number /\ e.serves = serves /\ e.answer = answer /\ e.pc = pc

-----------------------------------------------------------------------------
(* What a step of a call does to it and to its command *)

(* It gets no further than to asking for the environment, or ends there.   *)
Asks(c) ==
  /\ call[c] \in {"idle", "listing", "asked"}
  /\ call'[c] \in {"listing", "asked", "check", "completed", "failed"}
  /\ command'[c] = command[c]

Opens(c) == call[c] = "check" /\ call'[c] = "open" /\ command'[c] = "torn"
Puts(c) == call[c] \in {"open", "idle"} /\ call'[c] \in Waiting /\ command'[c] = "whole"
Ends(c) == call[c] \in Waiting /\ call'[c] \in Results /\ command'[c] = "absent"

CallTypes ==
  /\ call \in [Calls -> CallStates]
  /\ command \in [Calls -> {"absent", "torn", "whole"}]
  /\ older \in [Calls -> SUBSET Calls]
  /\ response \in [Calls -> {"absent", "torn"} \cup Results]

(* The files of a command appear and go together with its age.             *)
LEMMA CommandFiles ==
  ASSUME IpcTypeOK, NEW c \in Calls
  PROVE  /\ PutsCommand(c) =>
              /\ command' \in [Calls -> {"absent", "torn", "whole"}]
              /\ older' \in [Calls -> SUBSET Calls] /\ command'[c] = "whole"
              /\ \A d \in Calls : d # c => command'[d] = command[d]
         /\ RemovesFile(c) =>
              /\ command' \in [Calls -> {"absent", "torn", "whole"}]
              /\ older' \in [Calls -> SUBSET Calls] /\ command'[c] = "absent"
              /\ \A d \in Calls : d # c => command'[d] = command[d]
<1>1. /\ command \in [Calls -> {"absent", "torn", "whole"}]
      /\ older \in [Calls -> SUBSET Calls]
  BY DEF IpcTypeOK
<1>2. ASSUME PutsCommand(c)
      PROVE  /\ command' \in [Calls -> {"absent", "torn", "whole"}]
             /\ older' \in [Calls -> SUBSET Calls] /\ command'[c] = "whole"
             /\ \A d \in Calls : d # c => command'[d] = command[d]
  <2>1. /\ command' = [command EXCEPT ![c] = "whole"]
        /\ older' = [older EXCEPT ![c] = {d \in Calls : command[d] = "whole"}]
    BY <1>2 DEF PutsCommand
  <2>2. older' \in [Calls -> SUBSET Calls]
    BY <1>1, <2>1
  <2>3. QED
    BY <1>1, <2>1, <2>2
<1>3. ASSUME RemovesFile(c)
      PROVE  /\ command' \in [Calls -> {"absent", "torn", "whole"}]
             /\ older' \in [Calls -> SUBSET Calls] /\ command'[c] = "absent"
             /\ \A d \in Calls : d # c => command'[d] = command[d]
  <2>1. /\ command' = [command EXCEPT ![c] = "absent"]
        /\ older' = [d \in Calls |-> IF d = c THEN {} ELSE older[d] \ {c}]
    BY <1>3 DEF RemovesFile
  <2>2. older' \in [Calls -> SUBSET Calls]
    BY <1>1, <2>1
  <2>3. QED
    BY <1>1, <2>1, <2>2
<1>4. QED
  BY <1>2, <1>3

(* A call that only moves on leaves the files alone.                       *)
LEMMA MovesEffect ==
  ASSUME IpcTypeOK, NEW c \in Calls, NEW pc \in CallStates, Moves(c, pc)
  PROVE  /\ UNCHANGED <<status, env, served>> /\ CallTypes'
         /\ \A d \in Calls : d # c => call'[d] = call[d]
         /\ call'[c] = pc /\ command' = command
BY DEF IpcTypeOK, Moves, CallTypes, CallStates

(* Every step of a caller is one of the four, and leaves the environment   *)
(* and the other calls alone.                                              *)
LEMMA CallEffect ==
  ASSUME IpcTypeOK, NEW c \in Calls, CallStep(c)
  PROVE  /\ UNCHANGED <<status, env, served>> /\ CallTypes'
         /\ \A d \in Calls : d # c => call'[d] = call[d] /\ command'[d] = command[d]
         /\ Asks(c) \/ Opens(c) \/ Puts(c) \/ Ends(c)
<1>1. ASSUME NEW pc \in {"listing", "asked", "check", "completed", "failed"}, Moves(c, pc),
             call[c] \in {"idle", "listing", "asked"}
      PROVE  /\ UNCHANGED <<status, env, served>> /\ CallTypes' /\ Asks(c)
             /\ \A d \in Calls : d # c => call'[d] = call[d] /\ command'[d] = command[d]
  BY <1>1, MovesEffect DEF CallStates, Begun, Results, Asks
<1>2. CASE InterviewsAgent(c) \/ InterviewsBatch(c) \/ InterviewsAll(c) \/ ListsAgents(c)
           \/ InterviewsForReport(c) \/ ClosesEnvironment(c) \/ AsksRunner(c)
           \/ (InterviewsForService(c) /\ status # "alive")
  <2>1. \E pc \in {"listing", "asked", "check", "completed", "failed"} :
          Moves(c, pc) /\ call[c] \in {"idle", "listing", "asked"}
    BY <1>2 DEF InterviewsAgent, InterviewsBatch, InterviewsAll, ListsAgents, LoadsProfiles,
       InterviewsForReport, ClosesEnvironment, AsksRunner, InterviewsForService, Interview,
       Close, Looks
  <2>2. QED
    BY <1>1, <2>1
<1>3. CASE OpensCommand(c)
  BY <1>3 DEF IpcTypeOK, OpensCommand, CallTypes, CallStates, Begun, Opens
<1>4. CASE WritesCommand(c) \/ StopsSimulation(c) \/ (InterviewsForService(c) /\ status = "alive")
  <2>1. /\ call[c] \in {"open", "idle"} /\ PutsCommand(c)
        /\ \E pc \in Waiting : call' = [call EXCEPT ![c] = pc]
        /\ UNCHANGED <<response, status, env, served>>
    BY <1>4 DEF WritesCommand, StopsSimulation, InterviewsForService, Interview, Close, Places,
       Waiting
  <2>2. QED
    BY <2>1, CommandFiles DEF IpcTypeOK, CallTypes, CallStates, Begun, Puts
<1>5. CASE ReadsResponse(c) \/ TimesOut(c) \/ ServiceReads(c) \/ ServiceTimesOut(c)
  <2>1. /\ call[c] \in Waiting /\ RemovesFile(c)
        /\ \E pc \in Results : call' = [call EXCEPT ![c] = pc]
        /\ response' \in [Calls -> {"absent", "torn"} \cup Results]
        /\ UNCHANGED <<status, env, served>>
    BY <1>5 DEF IpcTypeOK, ReadsResponse, TimesOut, ServiceReads, ServiceTimesOut, GivenUp,
       Waiting, Results
  <2>2. PICK pc \in Results : call' = [call EXCEPT ![c] = pc]
    BY <2>1
  <2>3. /\ call' \in [Calls -> CallStates] /\ call'[c] \in Results
        /\ \A d \in Calls : d # c => call'[d] = call[d]
    BY <2>2 DEF IpcTypeOK, CallStates
  <2>4. QED
    BY <2>1, <2>3, CommandFiles DEF CallTypes, Ends
<1>6. QED
  BY <1>2, <1>3, <1>4, <1>5 DEF CallStep

(* Callers die together, and their files stay.                             *)
LEMMA DeathEffect ==
  ASSUME IpcTypeOK, CallersDie
  PROVE  /\ UNCHANGED <<command, older, response, status, env, served>> /\ CallTypes'
         /\ \A c \in Calls : call'[c] = call[c] \/ (call[c] \in Begun /\ call'[c] = "dead")
<1>1. PICK together \in {{"watching"}, Begun \ {"watching"}} :
        call' = [c \in Calls |-> IF call[c] \in together THEN "dead" ELSE call[c]]
  BY DEF CallersDie
<1>2. together \subseteq Begun
  BY <1>1 DEF Begun, Waiting
<1>3. \A c \in Calls : call'[c] = call[c] \/ (call[c] \in Begun /\ call'[c] = "dead")
  BY <1>1, <1>2
<1>4. call' \in [Calls -> CallStates]
  BY <1>1 DEF IpcTypeOK, CallStates
<1>5. QED
  BY <1>3, <1>4 DEF CallersDie, IpcTypeOK, CallTypes

-----------------------------------------------------------------------------
(* Where a step of the environment takes it *)

EnvStarts ==
  /\ env.pc = "down" /\ env.number < MaxEnvs
  /\ IsEnv(env', env.number + 1, env.serves, env.answer, "playing")
  /\ UNCHANGED <<command, served>>

EnvMovesOn ==
  \E pc \in Pcs :
    /\ <<env.pc, pc>> \in {<<"playing", "poll">>, <<"poll", "read">>, <<"poll", "close">>,
         <<"read", "poll">>, <<"read", "close">>, <<"answer", "write">>, <<"write", "remove">>,
         <<"close", "leave">>}
    /\ IsEnv(env', env.number, env.serves, env.answer, pc)
    /\ UNCHANGED <<command, served>>

EnvPicks ==
  /\ env.pc = "read"
  /\ \E c \in Calls : command[c] = "whole" /\ IsEnv(env', env.number, c, env.answer, "serve")
  /\ UNCHANGED <<command, served>>

EnvCarriesOut ==
  /\ env.pc = "serve"
  /\ \E answer \in Results : IsEnv(env', env.number, env.serves, answer, "answer")
  /\ served' = [served EXCEPT ![env.number] = Append(@, env.serves)]
  /\ UNCHANGED command

EnvClears ==
  /\ env.pc = "remove"
  /\ IsEnv(env', env.number, None, "failed", IF env.serves \in Closing THEN "close" ELSE "poll")
  /\ RemovesFile(env.serves) /\ UNCHANGED served

EnvGoes ==
  /\ IsEnv(env', env.number, None, "failed", "down")
  /\ UNCHANGED <<command, served>>

(* One update of the environment leaves its other fields alone.            *)
LEMMA EnvFields ==
  ASSUME NEW e \in Env, NEW pc \in Pcs, NEW answer \in Results, NEW found \in SUBSET Calls,
         NEW serves \in Calls \cup {None}
  PROVE  /\ IsEnv([e EXCEPT !.pc = pc, !.listed = {}], e.number, e.serves, e.answer, pc)
         /\ IsEnv([e EXCEPT !.pc = pc, !.listed = found], e.number, e.serves, e.answer, pc)
         /\ IsEnv([e EXCEPT !.pc = pc, !.listed = {}, !.serves = serves],
                  e.number, serves, e.answer, pc)
         /\ IsEnv([e EXCEPT !.pc = pc, !.answer = answer], e.number, e.serves, answer, pc)
         /\ IsEnv([e EXCEPT !.pc = pc, !.serves = None, !.answer = answer],
                  e.number, None, answer, pc)
         /\ IsEnv([e EXCEPT !.pc = pc, !.listed = {}, !.serves = None, !.answer = answer],
                  e.number, None, answer, pc)
         /\ e.number < MaxEnvs =>
              IsEnv([e EXCEPT !.number = @ + 1, !.pc = pc], e.number + 1, e.serves, e.answer, pc)
<1> USE DEF Env, Pcs, IsEnv
<1>1. IsEnv([e EXCEPT !.pc = pc, !.listed = {}], e.number, e.serves, e.answer, pc)
  OBVIOUS
<1>2. IsEnv([e EXCEPT !.pc = pc, !.listed = found], e.number, e.serves, e.answer, pc)
  OBVIOUS
<1>3. IsEnv([e EXCEPT !.pc = pc, !.listed = {}, !.serves = serves],
            e.number, serves, e.answer, pc)
  OBVIOUS
<1>4. IsEnv([e EXCEPT !.pc = pc, !.answer = answer], e.number, e.serves, answer, pc)
  OBVIOUS
<1>5. IsEnv([e EXCEPT !.pc = pc, !.serves = None, !.answer = answer], e.number, None, answer, pc)
  OBVIOUS
<1>6. IsEnv([e EXCEPT !.pc = pc, !.listed = {}, !.serves = None, !.answer = answer],
            e.number, None, answer, pc)
  OBVIOUS
<1>7. ASSUME e.number < MaxEnvs
      PROVE  IsEnv([e EXCEPT !.number = @ + 1, !.pc = pc], e.number + 1, e.serves, e.answer, pc)
  <2>1. e.number + 1 \in 0..MaxEnvs
    <3>1. e.number \in 0..MaxEnvs
      OBVIOUS
    <3> HIDE DEF Env, Pcs, IsEnv
    <3>2. QED
      BY <1>7, <3>1
  <2> DEFINE next == e.number + 1
  <2>2. next \in 0..MaxEnvs
    BY <2>1
  <2> HIDE DEF next
  <2>3. IsEnv([e EXCEPT !.number = next, !.pc = pc], next, e.serves, e.answer, pc)
    BY <2>2
  <2>4. [e EXCEPT !.number = @ + 1, !.pc = pc] = [e EXCEPT !.number = next, !.pc = pc]
    BY DEF next
  <2>5. QED
    BY <2>3, <2>4 DEF next
<1>8. QED
  BY <1>1, <1>2, <1>3, <1>4, <1>5, <1>6, <1>7

(* Every step of the environment takes it to one of these places.          *)
LEMMA EnvEffect ==
  ASSUME IpcTypeOK, EnvStep \/ Starts \/ ShutsDown \/ EnvDies
  PROVE  /\ UNCHANGED call
         /\ \/ EnvStarts \/ EnvMovesOn \/ EnvPicks \/ EnvCarriesOut \/ EnvClears \/ EnvGoes
<1>1. env \in Env /\ "failed" \in Results /\ None \in Calls \cup {None}
  BY DEF IpcTypeOK, Results
<1>2. CASE Starts
  <2>1. /\ env.pc = "down" /\ env.number < MaxEnvs /\ UNCHANGED <<call, command, served>>
        /\ env' = [env EXCEPT !.number = @ + 1, !.pc = "playing"]
    BY <1>2 DEF Starts
  <2>2. IsEnv(env', env.number + 1, env.serves, env.answer, "playing")
    BY <1>1, <2>1, EnvFields DEF Pcs
  <2>3. QED
    BY <2>1, <2>2 DEF EnvStarts
<1>3. ASSUME NEW pc \in Pcs, Does(pc)
      PROVE  IsEnv(env', env.number, env.serves, env.answer, pc)
  BY <1>1, <1>3, EnvFields DEF Does
<1>4. CASE BeginsWaiting \/ OpensResponse \/ WritesResponse \/ ShutsDown \/ TellsStopped
  <2>1. /\ UNCHANGED <<call, command, served>>
        /\ \E pc \in Pcs :
             /\ <<env.pc, pc>> \in {<<"playing", "poll">>, <<"poll", "close">>,
                  <<"answer", "write">>, <<"write", "remove">>, <<"close", "leave">>}
             /\ Does(pc)
    BY <1>4 DEF BeginsWaiting, OpensResponse, WritesResponse, ShutsDown, TellsStopped, Pcs
  <2>2. QED
    BY <1>3, <2>1 DEF EnvMovesOn
<1>5. CASE Lists
  <2>1. PICK found \in SUBSET Calls : env' = [env EXCEPT !.pc = "read", !.listed = found]
    BY <1>5 DEF Lists
  <2>2. IsEnv(env', env.number, env.serves, env.answer, "read")
    BY <1>1, <2>1, EnvFields DEF Pcs
  <2>3. env.pc = "poll" /\ UNCHANGED <<call, command, served>>
    BY <1>5 DEF Lists
  <2>4. QED
    BY <2>2, <2>3 DEF EnvMovesOn, Pcs
<1>6. CASE Reads
  <2>1. env.pc = "read" /\ UNCHANGED <<call, command, served>>
    BY <1>6 DEF Reads
  <2>2. CASE Does("poll") \/ Does("close")
    BY <1>3, <2>1, <2>2 DEF EnvMovesOn, Pcs
  <2>3. CASE Begins({c \in env.listed : command[c] = "whole"})
    <3>1. PICK c \in env.listed : /\ command[c] = "whole"
                                  /\ env' = [env EXCEPT !.pc = "serve", !.listed = {}, !.serves = c]
      BY <2>3 DEF Begins
    <3>2. c \in Calls
      BY <1>1, <3>1 DEF Env
    <3>3. IsEnv(env', env.number, c, env.answer, "serve")
      BY <1>1, <3>1, <3>2, EnvFields DEF Pcs
    <3>4. QED
      BY <2>1, <3>1, <3>2, <3>3 DEF EnvPicks
  <2>4. QED
    BY <1>6, <2>2, <2>3 DEF Reads, Picks
<1>7. CASE Serves
  <2>1. PICK answer \in Results : env' = [env EXCEPT !.pc = "answer", !.answer = answer]
    BY <1>7 DEF Serves, InterviewAnswers, Results
  <2>2. IsEnv(env', env.number, env.serves, answer, "answer")
    BY <1>1, <2>1, EnvFields DEF Pcs
  <2>3. QED
    BY <1>7, <2>2 DEF Serves, EnvCarriesOut
<1>8. CASE RemovesCommand
  <2>1. AfterServing \in Pcs
    BY DEF AfterServing, Pcs
  <2>2. IsEnv(env', env.number, None, "failed", AfterServing)
    BY <1>1, <1>8, <2>1, EnvFields DEF RemovesCommand
  <2>3. QED
    BY <1>8, <2>2 DEF RemovesCommand, EnvClears, AfterServing
<1>9. CASE Leaves \/ EnvDies
  <2>1. env' = Gone /\ UNCHANGED <<call, command, served>>
    BY <1>9 DEF Leaves, EnvDies
  <2>2. IsEnv(env', env.number, None, "failed", "down")
    BY <1>1, <2>1, EnvFields DEF Gone, Pcs
  <2>3. QED
    BY <2>1, <2>2 DEF EnvGoes
<1>10. QED
  BY <1>2, <1>4, <1>5, <1>6, <1>7, <1>8, <1>9 DEF EnvStep

-----------------------------------------------------------------------------
(* Types *)

(* Removing a file keeps the types, whichever it is.                       *)
LEMMA RemovesTypes ==
  ASSUME IpcTypeOK, NEW c, RemovesFile(c)
  PROVE  /\ command' \in [Calls -> {"absent", "torn", "whole"}]
         /\ older' \in [Calls -> SUBSET Calls]
<1>1. command \in [Calls -> {"absent", "torn", "whole"}] /\ older \in [Calls -> SUBSET Calls]
  BY DEF IpcTypeOK
<1>2. older' \in [Calls -> SUBSET Calls]
  BY <1>1 DEF RemovesFile
<1>3. QED
  BY <1>1, <1>2 DEF RemovesFile

(* The environment writes status and responses of their types.             *)
LEMMA EnvFilesTyped ==
  ASSUME IpcTypeOK, EnvStep \/ Starts \/ ShutsDown \/ EnvDies
  PROVE  CallTypes' /\ status' \in {"absent", "alive", "stopped"}
<1>1. CallTypes /\ status \in {"absent", "alive", "stopped"} /\ env.answer \in Results
  BY DEF IpcTypeOK, CallTypes, CallStates, Env
<1>2. CASE BeginsWaiting \/ Lists \/ Reads \/ Serves \/ TellsStopped \/ Leaves \/ Starts
           \/ ShutsDown \/ EnvDies
  <2>1. UNCHANGED <<call, command, older, response>> /\ status' \in {status, "alive", "stopped", "absent"}
    BY <1>2 DEF BeginsWaiting, Lists, Reads, Serves, TellsStopped, Leaves, Starts, ShutsDown,
       EnvDies
  <2>2. QED
    BY <1>1, <2>1 DEF CallTypes
<1>3. CASE OpensResponse
  <2>1. /\ UNCHANGED <<call, command, older, status>>
        /\ response' = [response EXCEPT ![env.serves] = "torn"]
    BY <1>3 DEF OpensResponse
  <2>2. QED
    BY <1>1, <2>1 DEF CallTypes
<1>4. CASE WritesResponse
  <2>1. /\ UNCHANGED <<call, command, older, status>>
        /\ response' = [response EXCEPT ![env.serves] = IF @ = "absent" THEN @ ELSE env.answer]
    BY <1>4 DEF WritesResponse
  <2>2. QED
    BY <1>1, <2>1 DEF CallTypes
<1>5. CASE RemovesCommand
  <2>1. RemovesFile(env.serves) /\ UNCHANGED <<call, response, status>>
    BY <1>5 DEF RemovesCommand
  <2>2. QED
    BY <1>1, <2>1, RemovesTypes DEF CallTypes
<1>6. QED
  BY <1>2, <1>3, <1>4, <1>5 DEF EnvStep

(* What an environment has begun to serve is the command of a call.        *)
LEMMA ServesACall ==
  ASSUME IpcTypeOK, EnvIsConsistent, env.pc \in {"serve", "answer", "write", "remove"}
  PROVE  env.serves \in Calls /\ env.number \in 1..MaxEnvs
<1>1. env \in Env
  BY DEF IpcTypeOK
<1>2. env.serves \in Calls
  BY <1>1 DEF EnvIsConsistent, Env
<1>3. env.number \in 0..MaxEnvs /\ env.number # 0
  BY <1>1 DEF EnvIsConsistent, Env
<1>4. env.number \in 1..MaxEnvs
  BY <1>3
<1>5. QED
  BY <1>2, <1>4

LEMMA EnvKeepsTypes ==
  ASSUME IpcTypeOK, EnvIsConsistent, EnvStep \/ Starts \/ ShutsDown \/ EnvDies
  PROVE  IpcTypeOK'
<1>1. env' \in Env
  BY EnvEffect DEF EnvStarts, EnvMovesOn, EnvPicks, EnvCarriesOut, EnvClears, EnvGoes, IsEnv
<1>2. served' \in [1..MaxEnvs -> Seq(Calls)]
  <2>1. served \in [1..MaxEnvs -> Seq(Calls)]
    BY DEF IpcTypeOK
  <2>2. CASE EnvCarriesOut
    <3>1. env.serves \in Calls /\ env.number \in 1..MaxEnvs
      BY <2>2, ServesACall DEF EnvCarriesOut
    <3>2. Append(served[env.number], env.serves) \in Seq(Calls)
      BY <2>1, <3>1
    <3>3. served' = [served EXCEPT ![env.number] = Append(served[env.number], env.serves)]
      BY <2>2 DEF EnvCarriesOut
    <3>4. QED
      BY <2>1, <3>2, <3>3
  <2>3. CASE UNCHANGED served
    BY <2>1, <2>3
  <2>4. QED
    BY <2>2, <2>3, EnvEffect DEF EnvStarts, EnvMovesOn, EnvPicks, EnvClears, EnvGoes
<1>3. QED
  BY <1>1, <1>2, EnvFilesTyped DEF CallTypes, CallStates, IpcTypeOK

(* Every step keeps the types.                                             *)
LEMMA NextKeepsTypes ==
  ASSUME IpcTypeOK, EnvIsConsistent, IpcNext
  PROVE  IpcTypeOK'
<1>1. ASSUME UNCHANGED <<status, env, served>>, CallTypes'
      PROVE  IpcTypeOK'
  BY <1>1 DEF IpcTypeOK, CallTypes, CallStates
<1>2. ASSUME NEW c \in Calls, CallStep(c)
      PROVE  IpcTypeOK'
  BY <1>1, <1>2, CallEffect
<1>3. CASE CallersDie
  BY <1>1, <1>3, DeathEffect
<1>4. QED
  BY <1>2, <1>3, EnvKeepsTypes DEF IpcNext

-----------------------------------------------------------------------------
(* What has been carried out *)

(* It stays what it was as long as the environment and served do.          *)
LEMMA ServedStays ==
  ASSUME env'.number = env.number, served' = served, NEW c
  PROVE  HasServed(c)' <=> HasServed(c)
BY DEF HasServed

(* A new environment has carried out nothing.                              *)
LEMMA ServedAfresh ==
  ASSUME IpcTypeOK, EnvIsConsistent, EnvStarts, NEW c
  PROVE  ~HasServed(c)'
<1>1. env.number \in 0..MaxEnvs /\ env.number < MaxEnvs /\ env'.number = env.number + 1
  BY DEF IpcTypeOK, Env, EnvStarts, IsEnv
<1>2. env'.number \in 1..MaxEnvs /\ env'.number > env.number
  BY <1>1
<1>3. served'[env'.number] = <<>>
  BY <1>2 DEF EnvIsConsistent, EnvStarts
<1>4. QED
  BY <1>3 DEF HasServed

(* A command that is carried out is added at the end.                      *)
LEMMA ServedGrows ==
  ASSUME IpcTypeOK, EnvIsConsistent, EnvCarriesOut
  PROVE  /\ env'.number = env.number /\ env.number \in 1..MaxEnvs
         /\ Len(served'[env.number]) = Len(served[env.number]) + 1
         /\ Len(served[env.number]) \in Nat
         /\ \A i \in 1..Len(served[env.number]) : served'[env.number][i] = served[env.number][i]
         /\ served'[env.number][Len(served[env.number]) + 1] = env.serves
         /\ \A g \in 1..MaxEnvs : g # env.number => served'[g] = served[g]
<1>1. env.serves \in Calls /\ env.number \in 1..MaxEnvs
  BY ServesACall DEF EnvCarriesOut
<1> DEFINE n == env.number
           done == served[n]
<1>2. served \in [1..MaxEnvs -> Seq(Calls)] /\ done \in Seq(Calls)
  BY <1>1 DEF IpcTypeOK
<1>3. served' = [served EXCEPT ![n] = Append(done, env.serves)] /\ env'.number = n
  BY DEF EnvCarriesOut, IsEnv
<1>4. served'[n] = Append(done, env.serves)
  BY <1>1, <1>2, <1>3
<1>5. \A g \in 1..MaxEnvs : g # n => served'[g] = served[g]
  BY <1>2, <1>3
<1> HIDE DEF done, n
<1>6. /\ Len(Append(done, env.serves)) = Len(done) + 1 /\ Len(done) \in Nat
      /\ \A i \in 1..Len(done) : Append(done, env.serves)[i] = done[i]
      /\ Append(done, env.serves)[Len(done) + 1] = env.serves
  BY <1>1, <1>2
<1>7. QED
  BY <1>1, <1>3, <1>4, <1>5, <1>6 DEF done, n

LEMMA ServedNext ==
  ASSUME IpcTypeOK, EnvIsConsistent, EnvCarriesOut, NEW c
  PROVE  HasServed(c)' => HasServed(c) \/ c = env.serves
<1>1. ASSUME HasServed(c)'
      PROVE  HasServed(c) \/ c = env.serves
  <2>1. PICK i \in 1..Len(served'[env'.number]) : served'[env'.number][i] = c
    BY <1>1 DEF HasServed
  <2>2. /\ env'.number = env.number /\ Len(served[env.number]) \in Nat
        /\ Len(served'[env.number]) = Len(served[env.number]) + 1
    BY ServedGrows
  <2>3. i \in 1..Len(served[env.number]) \/ i = Len(served[env.number]) + 1
    BY <2>1, <2>2
  <2>4. QED
    BY <2>1, <2>2, <2>3, ServedGrows DEF HasServed
<1>2. QED
  BY <1>1

-----------------------------------------------------------------------------
(* What every caller's step leaves the environment *)

(* The steps of callers keep what IpcInv says of a call that is served:    *)
(* it has written its command, and does not write one again.               *)
LEMMA CallGoesOn ==
  ASSUME IpcTypeOK, CallersDie \/ \E c \in Calls : CallStep(c)
  PROVE  /\ UNCHANGED <<env, served>>
         /\ \A d \in Calls : call[d] \in Waiting \cup {"dead"} \cup Results =>
              /\ call'[d] \in Waiting \cup {"dead"} \cup Results
              /\ command[d] = "absent" => command'[d] = "absent"
<1>1. CASE CallersDie
  BY <1>1, DeathEffect
<1>2. ASSUME NEW c \in Calls, CallStep(c)
      PROVE  /\ UNCHANGED <<env, served>>
             /\ \A d \in Calls : call[d] \in Waiting \cup {"dead"} \cup Results =>
                  /\ call'[d] \in Waiting \cup {"dead"} \cup Results
                  /\ command[d] = "absent" => command'[d] = "absent"
  <2>1. UNCHANGED <<env, served>>
    BY <1>2, CallEffect
  <2>2. \A d \in Calls : d # c => call'[d] = call[d] /\ command'[d] = command[d]
    BY <1>2, CallEffect
  <2>3. ASSUME call[c] \in Waiting \cup {"dead"} \cup Results
        PROVE  /\ call'[c] \in Waiting \cup {"dead"} \cup Results
               /\ command[c] = "absent" => command'[c] = "absent"
    <3>1. Asks(c) \/ Opens(c) \/ Puts(c) \/ Ends(c)
      BY <1>2, CallEffect
    <3>2. Ends(c)
      BY <2>3, <3>1 DEF Asks, Opens, Puts, Waiting, Results
    <3>3. QED
      BY <3>2 DEF Ends
  <2>4. QED
    BY <2>1, <2>2, <2>3
<1>3. QED
  BY <1>1, <1>2

(* At a poll nothing is being served.                                      *)
LEMMA ServesNone ==
  ASSUME EnvIsConsistent, env.pc \notin {"serve", "answer", "write", "remove"}
  PROVE  env.serves = None /\ None \notin Calls
BY DEF EnvIsConsistent, None

-----------------------------------------------------------------------------
(* Each part of IpcInv is kept *)

LEMMA KeepsCallers ==
  ASSUME IpcTypeOK, IpcInv, IpcNext
  PROVE  CommandsHaveCallers'
<1>1. CommandsHaveCallers /\ EnvIsConsistent
  BY DEF IpcInv
<1>2. ASSUME NEW c \in Calls, CallStep(c)
      PROVE  CommandsHaveCallers'
  <2>1. \A d \in Calls : d # c => call'[d] = call[d] /\ command'[d] = command[d]
    BY <1>2, CallEffect
  <2>2. Asks(c) \/ Opens(c) \/ Puts(c) \/ Ends(c)
    BY <1>2, CallEffect
  <2>3. /\ command'[c] = "whole" => call'[c] \in Waiting \cup {"dead"}
        /\ command'[c] = "torn" => call'[c] \in {"open", "dead"}
    BY <1>1, <2>2 DEF CommandsHaveCallers, Asks, Opens, Puts, Ends, Waiting
  <2>4. QED
    BY <1>1, <2>1, <2>3 DEF CommandsHaveCallers
<1>3. CASE CallersDie
  BY <1>1, <1>3, DeathEffect DEF CommandsHaveCallers, Waiting, Begun
<1>4. CASE EnvStep \/ Starts \/ ShutsDown \/ EnvDies
  <2>1. UNCHANGED call
    BY <1>4, EnvEffect
  <2>2. CASE EnvClears
    <3>1. env.serves \in Calls
      BY <1>1, <2>2, ServesACall DEF EnvClears
    <3>2. command'[env.serves] = "absent" /\ \A d \in Calls : d # env.serves => command'[d] = command[d]
      BY <2>2, <3>1, CommandFiles DEF EnvClears
    <3>3. QED
      BY <1>1, <2>1, <3>1, <3>2 DEF CommandsHaveCallers
  <2>3. CASE UNCHANGED command
    BY <1>1, <2>1, <2>3 DEF CommandsHaveCallers
  <2>4. QED
    BY <1>4, <2>2, <2>3, EnvEffect DEF EnvStarts, EnvMovesOn, EnvPicks, EnvCarriesOut, EnvGoes
<1>5. QED
  BY <1>2, <1>3, <1>4 DEF IpcNext

LEMMA KeepsEnvConsistent ==
  ASSUME IpcTypeOK, IpcInv, IpcNext
  PROVE  EnvIsConsistent'
<1>1. EnvIsConsistent /\ env.number \in 0..MaxEnvs
  BY DEF IpcInv, IpcTypeOK, Env
<1>2. CASE CallersDie \/ \E c \in Calls : CallStep(c)
  BY <1>1, <1>2, CallGoesOn DEF EnvIsConsistent
<1>3. CASE EnvStarts
  <2>1. /\ env'.number = env.number + 1 /\ env'.serves = env.serves /\ env'.pc = "playing"
        /\ env.pc = "down" /\ served' = served
    BY <1>3 DEF EnvStarts, IsEnv
  <2>2. env'.number # 0 /\ \A g \in 1..MaxEnvs : g > env'.number => g > env.number
    BY <1>1, <2>1
  <2>3. QED
    BY <1>1, <2>1, <2>2 DEF EnvIsConsistent
<1>4. CASE EnvMovesOn
  BY <1>1, <1>4 DEF EnvMovesOn, IsEnv, EnvIsConsistent
<1>5. CASE EnvPicks
  BY <1>1, <1>5 DEF EnvPicks, IsEnv, EnvIsConsistent, None
<1>6. CASE EnvCarriesOut
  <2>1. /\ env'.number = env.number /\ env'.serves = env.serves /\ env'.pc = "answer"
        /\ env.pc = "serve"
    BY <1>6 DEF EnvCarriesOut, IsEnv
  <2>2. \A g \in 1..MaxEnvs : g > env.number => g # env.number
    BY <1>1
  <2>3. \A g \in 1..MaxEnvs : g # env.number => served'[g] = served[g]
    BY <1>1, <1>6, ServedGrows
  <2>4. QED
    BY <1>1, <2>1, <2>2, <2>3 DEF EnvIsConsistent
<1>7. CASE EnvClears
  BY <1>1, <1>7 DEF EnvClears, IsEnv, EnvIsConsistent
<1>8. CASE EnvGoes
  BY <1>1, <1>8 DEF EnvGoes, IsEnv, EnvIsConsistent
<1>9. QED
  BY <1>2, <1>3, <1>4, <1>5, <1>6, <1>7, <1>8, EnvEffect DEF IpcNext

LEMMA KeepsServedOver ==
  ASSUME IpcTypeOK, IpcInv, IpcNext
  PROVE  ServedIsOver'
<1>1. ServedIsOver /\ EnvIsConsistent /\ ServesTheNew
  BY DEF IpcInv
<1> SUFFICES ASSUME env'.pc # "down", NEW c \in Calls, HasServed(c)'
             PROVE  /\ call'[c] \in Waiting \cup {"dead"} \cup Results
                    /\ command'[c] = "absent" \/ (env'.serves = c /\ env'.pc # "serve")
  BY DEF ServedIsOver
<1>2. CASE CallersDie \/ \E d \in Calls : CallStep(d)
  <2>1. HasServed(c) /\ env' = env
    BY <1>2, CallGoesOn, ServedStays
  <2>2. QED
    BY <1>1, <1>2, <2>1, CallGoesOn DEF ServedIsOver
<1>3. CASE EnvStep \/ Starts \/ ShutsDown \/ EnvDies
  <2>1. UNCHANGED call
    BY <1>3, EnvEffect
  <2>2. CASE EnvStarts
    BY <1>1, <2>2, ServedAfresh
  <2>3. CASE EnvMovesOn
    <3>1. HasServed(c) /\ env.pc # "down" /\ env'.serves = env.serves /\ command' = command
      BY <2>3, ServedStays DEF EnvMovesOn, IsEnv
    <3>2. env'.pc # "serve"
      BY <2>3 DEF EnvMovesOn, IsEnv
    <3>3. QED
      BY <1>1, <2>1, <3>1, <3>2 DEF ServedIsOver
  <2>4. CASE EnvPicks
    <3>1. HasServed(c) /\ env.pc = "read" /\ command' = command
      BY <2>4, ServedStays DEF EnvPicks, IsEnv
    <3>2. env.serves # c
      BY <1>1, <3>1, ServesNone
    <3>3. QED
      BY <1>1, <2>1, <3>1, <3>2 DEF ServedIsOver
  <2>5. CASE EnvCarriesOut
    <3>1. /\ env.pc = "serve" /\ env'.serves = env.serves /\ env'.pc = "answer"
          /\ command' = command
      BY <2>5 DEF EnvCarriesOut, IsEnv
    <3>2. HasServed(c) \/ c = env.serves
      BY <1>1, <2>5, ServedNext
    <3>3. QED
      BY <1>1, <2>1, <3>1, <3>2 DEF ServedIsOver, ServesTheNew
  <2>6. CASE EnvClears
    <3>1. HasServed(c) /\ env.pc = "remove" /\ env.serves \in Calls
      BY <1>1, <2>6, ServedStays, ServesACall DEF EnvClears, IsEnv
    <3>2. command'[env.serves] = "absent" /\ \A d \in Calls : d # env.serves => command'[d] = command[d]
      BY <2>6, <3>1, CommandFiles DEF EnvClears
    <3>3. QED
      BY <1>1, <2>1, <3>1, <3>2 DEF ServedIsOver
  <2>7. CASE EnvGoes
    BY <2>7 DEF EnvGoes, IsEnv
  <2>8. QED
    BY <1>3, <2>2, <2>3, <2>4, <2>5, <2>6, <2>7, EnvEffect
<1>4. QED
  BY <1>2, <1>3 DEF IpcNext

LEMMA KeepsTheNew ==
  ASSUME IpcTypeOK, IpcInv, IpcNext
  PROVE  ServesTheNew'
<1>1. ServedIsOver /\ EnvIsConsistent /\ ServesTheNew /\ CommandsHaveCallers
  BY DEF IpcInv
<1> SUFFICES ASSUME env'.pc = "serve"
             PROVE  /\ ~HasServed(env.serves)'
                    /\ call'[env'.serves] \in Waiting \cup {"dead"} \cup Results
  BY DEF ServesTheNew
<1>2. CASE CallersDie \/ \E d \in Calls : CallStep(d)
  <2>1. env' = env /\ served' = served
    BY <1>2, CallGoesOn
  <2>2. env.serves \in Calls
    BY <1>1, <2>1, ServesACall
  <2>3. ~HasServed(env.serves)'
    BY <1>1, <2>1 DEF ServesTheNew, HasServed
  <2>4. QED
    BY <1>1, <1>2, <2>1, <2>2, <2>3, CallGoesOn DEF ServesTheNew
<1>3. CASE EnvStep \/ Starts \/ ShutsDown \/ EnvDies
  <2>1. EnvPicks /\ UNCHANGED call
    BY <1>3, EnvEffect DEF EnvStarts, EnvMovesOn, EnvCarriesOut, EnvClears, EnvGoes, IsEnv
  <2>2. PICK c \in Calls : command[c] = "whole" /\ IsEnv(env', env.number, c, env.answer, "serve")
    BY <2>1 DEF EnvPicks
  <2>3. env.pc = "read" /\ env'.number = env.number /\ env'.serves = c /\ served' = served
    BY <2>1, <2>2 DEF EnvPicks, IsEnv
  <2>4. ~HasServed(c)
    BY <1>1, <2>2, <2>3, ServesNone DEF ServedIsOver
  <2>5. ~HasServed(env.serves)'
    BY <2>3, <2>4 DEF HasServed
  <2>6. QED
    BY <1>1, <2>1, <2>2, <2>3, <2>5 DEF CommandsHaveCallers
<1>4. QED
  BY <1>2, <1>3 DEF IpcNext

LEMMA KeepsClosed ==
  ASSUME IpcTypeOK, IpcInv, IpcNext
  PROVE  ClosedForGood'
<1>1. ClosedForGood /\ EnvIsConsistent /\ Closing \subseteq Calls
  BY DEF IpcInv
<1> SUFFICES ASSUME env'.pc \notin {"down", "close", "leave"}, NEW c \in Closing, HasServed(c)'
             PROVE  env'.serves = c /\ env'.pc # "serve"
  BY DEF ClosedForGood
<1>2. CASE CallersDie \/ \E d \in Calls : CallStep(d)
  <2>1. HasServed(c) /\ env' = env
    BY <1>2, CallGoesOn, ServedStays
  <2>2. QED
    BY <1>1, <2>1 DEF ClosedForGood
<1>3. CASE EnvStarts
  BY <1>1, <1>3, ServedAfresh
<1>4. CASE EnvMovesOn
  <2>1. HasServed(c) /\ env'.serves = env.serves /\ env'.pc # "serve"
    BY <1>4, ServedStays DEF EnvMovesOn, IsEnv
  <2>2. env.pc \notin {"down", "close", "leave"}
    BY <1>4 DEF EnvMovesOn, IsEnv
  <2>3. QED
    BY <1>1, <2>1, <2>2 DEF ClosedForGood
<1>5. CASE EnvPicks
  <2>1. HasServed(c) /\ env.pc = "read"
    BY <1>5, ServedStays DEF EnvPicks, IsEnv
  <2>2. env.serves # c
    BY <1>1, <2>1, ServesNone
  <2>3. QED
    BY <1>1, <2>1, <2>2 DEF ClosedForGood
<1>6. CASE EnvCarriesOut
  <2>1. env.pc = "serve" /\ env'.serves = env.serves /\ env'.pc = "answer"
    BY <1>6 DEF EnvCarriesOut, IsEnv
  <2>2. HasServed(c) \/ c = env.serves
    BY <1>1, <1>6, ServedNext
  <2>3. QED
    BY <1>1, <2>1, <2>2 DEF ClosedForGood
<1>7. CASE EnvClears
  <2>1. HasServed(c) /\ env.pc = "remove"
    BY <1>7, ServedStays DEF EnvClears, IsEnv
  <2>2. env.serves \notin Closing
    BY <1>7 DEF EnvClears, IsEnv
  <2>3. QED
    BY <1>1, <2>1, <2>2 DEF ClosedForGood
<1>8. CASE EnvGoes
  BY <1>8 DEF EnvGoes, IsEnv
<1>9. QED
  BY <1>2, <1>3, <1>4, <1>5, <1>6, <1>7, <1>8, EnvEffect DEF IpcNext

LEMMA KeepsServesOnce ==
  ASSUME IpcTypeOK, IpcInv, IpcNext
  PROVE  ServesOnceThenCloses'
<1>1. /\ ServesOnceThenCloses /\ ServesTheNew /\ ClosedForGood /\ EnvIsConsistent
      /\ Closing \subseteq Calls
  BY DEF IpcInv
<1>2. CASE EnvCarriesOut
  <2> DEFINE n == env.number
             done == served[n]
             next == served'[n]
  <2>1. /\ n \in 1..MaxEnvs /\ Len(next) = Len(done) + 1 /\ Len(done) \in Nat
        /\ \A i \in 1..Len(done) : next[i] = done[i]
        /\ next[Len(done) + 1] = env.serves
        /\ \A g \in 1..MaxEnvs : g # n => served'[g] = served[g]
    BY <1>1, <1>2, ServedGrows
  <2>2. \A i \in 1..Len(done) : done[i] # env.serves /\ done[i] \notin Closing
    <3>1. ~HasServed(env.serves) /\ env.pc = "serve"
      BY <1>1, <1>2 DEF EnvCarriesOut, ServesTheNew
    <3>2. \A c \in Closing : ~HasServed(c)
      BY <1>1, <3>1 DEF ClosedForGood
    <3>3. QED
      BY <3>1, <3>2 DEF HasServed
  <2>3. \A i, k \in 1..Len(done) : i < k => done[i] # done[k] /\ done[i] \notin Closing
    BY <1>1, <2>1 DEF ServesOnceThenCloses
  <2> HIDE DEF n, done, next
  <2>4. \A i, k \in 1..Len(next) : i < k => next[i] # next[k] /\ next[i] \notin Closing
    <3> SUFFICES ASSUME NEW i \in 1..Len(next), NEW k \in 1..Len(next), i < k
                 PROVE  next[i] # next[k] /\ next[i] \notin Closing
      OBVIOUS
    <3>1. i \in 1..Len(done) /\ (k \in 1..Len(done) \/ k = Len(done) + 1)
      BY <2>1
    <3>2. next[i] = done[i]
      BY <2>1, <3>1
    <3>3. CASE k \in 1..Len(done)
      BY <2>1, <2>3, <3>1, <3>2, <3>3
    <3>4. CASE k = Len(done) + 1
      BY <2>1, <2>2, <3>1, <3>2, <3>4
    <3>5. QED
      BY <3>1, <3>3, <3>4
  <2>5. SUFFICES ASSUME NEW g \in 1..MaxEnvs
                 PROVE  \A i, k \in 1..Len(served'[g]) :
                          i < k => served'[g][i] # served'[g][k] /\ served'[g][i] \notin Closing
    BY DEF ServesOnceThenCloses
  <2>6. CASE g = n
    BY <2>4, <2>6 DEF next
  <2>7. CASE g # n
    BY <1>1, <2>1, <2>7 DEF ServesOnceThenCloses
  <2>8. QED
    BY <2>6, <2>7
<1>3. CASE UNCHANGED served
  BY <1>1, <1>3 DEF ServesOnceThenCloses
<1>4. QED
  BY <1>2, <1>3, CallGoesOn, EnvEffect
     DEF IpcNext, EnvStarts, EnvMovesOn, EnvPicks, EnvClears, EnvGoes

-----------------------------------------------------------------------------
(* The theorems *)

LEMMA InitHolds == IpcInit => IpcTypeOK /\ IpcInv
<1> SUFFICES ASSUME IpcInit
             PROVE  IpcTypeOK /\ IpcInv
  OBVIOUS
<1>1. 0 \in 0..MaxEnvs /\ <<>> \in Seq(Calls) /\ Len(<<>>) = 0
  OBVIOUS
<1>2. env \in Env /\ env.pc = "down" /\ env.number = 0 /\ env.serves = None
  BY <1>1 DEF IpcInit, Env, Results
<1>3. served \in [1..MaxEnvs -> Seq(Calls)] /\ \A g \in 1..MaxEnvs : served[g] = <<>>
  BY <1>1 DEF IpcInit
<1>4. IpcTypeOK
  BY <1>2, <1>3 DEF IpcInit, IpcTypeOK
<1>5. CommandsHaveCallers
  BY DEF IpcInit, CommandsHaveCallers
<1>6. EnvIsConsistent /\ ServedIsOver /\ ServesTheNew /\ ClosedForGood
  BY <1>2, <1>3 DEF EnvIsConsistent, ServedIsOver, ServesTheNew, ClosedForGood
<1>7. ServesOnceThenCloses
  <2>1. \A g \in 1..MaxEnvs : 1..Len(served[g]) = {}
    BY <1>1, <1>3
  <2>2. QED
    BY <2>1 DEF ServesOnceThenCloses
<1>8. QED
  BY <1>4, <1>5, <1>6, <1>7 DEF IpcInv

LEMMA StutterKeepsInv ==
  ASSUME IpcTypeOK, IpcInv, UNCHANGED ipcVars
  PROVE  IpcTypeOK' /\ IpcInv'
<1>1. UNCHANGED <<call, command, older, response, status, env, served>>
  BY DEF ipcVars
<1>2. IpcTypeOK'
  BY <1>1 DEF IpcTypeOK
<1>3. CommandsHaveCallers' /\ EnvIsConsistent' /\ ServesOnceThenCloses'
  BY <1>1 DEF IpcInv, CommandsHaveCallers, EnvIsConsistent, ServesOnceThenCloses
<1>4. ServedIsOver' /\ ServesTheNew' /\ ClosedForGood'
  BY <1>1 DEF IpcInv, ServedIsOver, ServesTheNew, ClosedForGood, HasServed
<1>5. QED
  BY <1>2, <1>3, <1>4 DEF IpcInv

LEMMA NextKeepsInv ==
  ASSUME IpcTypeOK, IpcInv, IpcNext
  PROVE  IpcInv'
BY KeepsCallers, KeepsEnvConsistent, KeepsServedOver, KeepsTheNew, KeepsClosed,
   KeepsServesOnce DEF IpcInv

(* In every reachable state the variables have their types and the parts   *)
(* of IpcInv hold, whatever callers, environments and the files that are   *)
(* left behind do (simulation_ipc.py, run_parallel_simulation.py).         *)
THEOREM IpcInvHolds == IpcSpec => [](IpcTypeOK /\ IpcInv)
<1>1. IpcInit => IpcTypeOK /\ IpcInv
  BY InitHolds
<1>2. (IpcTypeOK /\ IpcInv) /\ [IpcNext]_ipcVars => (IpcTypeOK /\ IpcInv)'
  <2>1. IpcInv => EnvIsConsistent
    BY DEF IpcInv
  <2>2. QED
    BY <2>1, NextKeepsTypes, NextKeepsInv, StutterKeepsInv
<1>3. QED
  BY <1>1, <1>2, PTL DEF IpcSpec

(* An environment carries out no command twice, and none after the one     *)
(* that closes it.                                                         *)
THEOREM ServedOnce == IpcSpec => []ServesOnceThenCloses
<1>1. IpcTypeOK /\ IpcInv => ServesOnceThenCloses
  BY DEF IpcInv
<1>2. QED
  BY <1>1, IpcInvHolds, PTL

(* What an environment begins to serve is the command of a caller that     *)
(* waits for it or that was killed.                                        *)
THEOREM ServedIsAwaited == IpcSpec => ServesTheWaiting
<1>1. ASSUME IpcTypeOK, IpcInv, IpcNext, NEW c \in Calls, env.pc = "read", env'.serves = c
      PROVE  call[c] \in Waiting \cup {"dead"}
  <2>1. CommandsHaveCallers /\ EnvIsConsistent
    BY <1>1 DEF IpcInv
  <2>2. env.serves # c /\ None # c
    BY <1>1, <2>1, ServesNone
  <2>3. EnvPicks
    BY <1>1, <2>2, CallGoesOn, EnvEffect
       DEF IpcNext, EnvStarts, EnvMovesOn, EnvCarriesOut, EnvClears, EnvGoes, IsEnv
  <2>4. command[c] = "whole"
    BY <1>1, <2>3 DEF EnvPicks, IsEnv
  <2>5. QED
    BY <2>1, <2>4 DEF CommandsHaveCallers
<1>2. ASSUME IpcTypeOK, IpcInv, [IpcNext]_ipcVars
      PROVE  [\A c \in Calls : env.pc = "read" /\ env'.serves = c => call[c] \in Waiting \cup {"dead"}]_ipcVars
  BY <1>1, <1>2
<1>3. QED
  BY <1>2, IpcInvHolds, PTL DEF IpcSpec, ServesTheWaiting

=============================================================================
