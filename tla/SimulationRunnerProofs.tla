----------------------- MODULE SimulationRunnerProofs -----------------------
(***************************************************************************)
(* Proofs about SimulationRunner, for any number of starts, of lines of    *)
(* the log and of crashes: the types, without a hypothesis; and, for one   *)
(* request at a time beside the monitors, whose last statements precede a  *)
(* later publication, that there is one child, that a terminal status      *)
(* means a drained updater, and that no stop cuts off the tail of the log. *)
(*                                                                         *)
(* First what the updates of a request and of a monitor leave in their     *)
(* fields, then the types, then the parts of the invariant in the order in *)
(* which they rest on each other.                                          *)
(***************************************************************************)
EXTENDS SimulationRunner, FiniteSetTheorems, TLAPS

USE RunnerAssumption

-----------------------------------------------------------------------------
(* The fields of requests and monitors *)

LEMMA FreshOnes == NoRequest \in Request /\ NoMonitor \in Monitor
  BY DEF NoRequest, NoMonitor, Request, Monitor, RequestPC, MonitorPC, Terminal

(* Request r has become q. *)
LEMMA RequestGoes ==
  ASSUME NEW r \in Request, NEW pc \in RequestPC, NEW q, q = [r EXCEPT !.pc = pc]
  PROVE  q \in Request /\ q.pc = pc /\ q.run = r.run /\ q.retry = r.retry
  BY DEF Request

LEMMA RequestSet ==
  ASSUME request \in [Clients -> Request], NEW c \in Clients, NEW q \in Request,
         request' = [request EXCEPT ![c] = q]
  PROVE  request' \in [Clients -> Request] /\ request'[c] = q
  OBVIOUS

(* The request is at pc, its other fields are what they were. *)
At(c, pc) ==
  /\ request' \in [Clients -> Request] /\ request'[c].pc = pc
  /\ request'[c].run = request[c].run /\ request'[c].retry = request[c].retry

LEMMA GoesAt ==
  ASSUME request \in [Clients -> Request], NEW c \in Clients, NEW pc \in RequestPC, Goes(c, pc)
  PROVE  At(c, pc)
<1>1. PICK r \in Request : r = request[c]
  OBVIOUS
<1>2. PICK q : q = [r EXCEPT !.pc = pc]
  OBVIOUS
<1>3. request' = [request EXCEPT ![c] = q]
  BY <1>1, <1>2 DEF Goes
<1>4. q \in Request /\ q.pc = pc /\ q.run = r.run /\ q.retry = r.retry
  BY <1>2, RequestGoes
<1>5. request' \in [Clients -> Request] /\ request'[c] = q
  BY <1>3, <1>4, RequestSet
<1>6. QED
  BY <1>1, <1>4, <1>5 DEF At

(* The request is in one of some places. *)
In(c, pcs) == request' \in [Clients -> Request] /\ request'[c].pc \in pcs

LEMMA RepliesIn ==
  ASSUME request \in [Clients -> Request], NEW c \in Clients, Replies(c)
  PROVE  In(c, {"idle"})
<1>1. NoRequest.pc = "idle"
  BY DEF NoRequest
<1>2. request' \in [Clients -> Request] /\ request'[c] = NoRequest
  BY FreshOnes DEF Replies
<1>3. QED
  BY <1>1, <1>2 DEF In

LEMMA StopReturnsIn ==
  ASSUME request \in [Clients -> Request], NEW c \in Clients, StopReturns(c)
  PROVE  In(c, {"idle", "clean", "release"})
<1>1. "clean" \in RequestPC /\ "release" \in RequestPC
  BY DEF RequestPC
<1>2. Goes(c, "clean") \/ Goes(c, "release") \/ Replies(c)
  BY DEF StopReturns
<1>3. QED
  BY <1>1, <1>2, GoesAt, RepliesIn DEF In, At

LEMMA StopRaisesIn ==
  ASSUME request \in [Clients -> Request], NEW c \in Clients, NEW error \in BOOLEAN,
         StopRaises(c, error)
  PROVE  In(c, {"idle", "exit"})
<1>1. "exit" \in RequestPC
  BY DEF RequestPC
<1>2. Goes(c, "exit") \/ Replies(c)
  BY DEF StopRaises
<1>3. QED
  BY <1>1, <1>2, GoesAt, RepliesIn DEF In, At

LEMMA ReadyAfterStop ==
  ASSUME ready \in BOOLEAN, NEW c \in Clients, NEW error \in BOOLEAN,
         StopReturns(c) \/ StopRaises(c, error)
  PROVE  ready' \in BOOLEAN
<1>1. ready' \in {ready /\ request[c].op # "stop", ready /\ ~(error /\ request[c].op = "stop")}
  BY DEF StopReturns, StopRaises
<1>2. QED
  BY <1>1

(* The monitor of g has become m, the others are what they were. *)
LEMMA MonitorSet ==
  ASSUME monitor \in [Gens -> Monitor], NEW g \in Gens, NEW m \in Monitor,
         monitor' = [monitor EXCEPT ![g] = m]
  PROVE  /\ monitor' \in [Gens -> Monitor] /\ monitor'[g] = m
         /\ \A h \in Gens \ {g} : monitor'[h] = monitor[h]
  OBVIOUS

(* The monitor of g is at pc; of its fields only those of its reading may  *)
(* have changed.                                                           *)
Watches(g, pc) ==
  /\ monitor' \in [Gens -> Monitor] /\ monitor'[g].pc = pc
  /\ \A h \in Gens \ {g} : monitor'[h] = monitor[h]
Keeps(g) ==
  /\ monitor'[g].child = monitor[g].child /\ monitor'[g].sink = monitor[g].sink
  /\ monitor'[g].pos = monitor[g].pos /\ monitor'[g].at = monitor[g].at
  /\ monitor'[g].failed = monitor[g].failed

LEMMA MovesDoes ==
  ASSUME monitor \in [Gens -> Monitor], NEW g \in Gens, NEW pc \in MonitorPC, Moves(g, pc)
  PROVE  Watches(g, pc) /\ Keeps(g)
<1>1. PICK m \in Monitor : m = monitor[g]
  OBVIOUS
<1>2. PICK n : n = [m EXCEPT !.pc = pc]
  OBVIOUS
<1>3. /\ n \in Monitor /\ n.pc = pc /\ n.child = m.child /\ n.sink = m.sink /\ n.pos = m.pos
      /\ n.at = m.at /\ n.failed = m.failed
  BY <1>2 DEF Monitor
<1>4. monitor' = [monitor EXCEPT ![g] = n]
  BY <1>1, <1>2 DEF Moves
<1>5. /\ monitor' \in [Gens -> Monitor] /\ monitor'[g] = n
      /\ \A h \in Gens \ {g} : monitor'[h] = monitor[h]
  BY <1>3, <1>4, MonitorSet
<1>6. QED
  BY <1>1, <1>3, <1>5 DEF Watches, Keeps

LEMMA LeavesDoes ==
  ASSUME monitor \in [Gens -> Monitor], NEW g \in Gens, Leaves(g)
  PROVE  Watches(g, "clean") /\ monitor'[g].failed = monitor[g].failed
<1>1. PICK m \in Monitor : m = monitor[g]
  OBVIOUS
<1>2. PICK n : n = [NoMonitor EXCEPT !.pc = "clean", !.failed = m.failed]
  OBVIOUS
<1>3. n \in Monitor /\ n.pc = "clean" /\ n.failed = m.failed
  BY <1>2, FreshOnes DEF Monitor, MonitorPC
<1>4. monitor' = [monitor EXCEPT ![g] = n]
  BY <1>1, <1>2 DEF Leaves
<1>5. /\ monitor' \in [Gens -> Monitor] /\ monitor'[g] = n
      /\ \A h \in Gens \ {g} : monitor'[h] = monitor[h]
  BY <1>3, <1>4, MonitorSet
<1>6. QED
  BY <1>1, <1>3, <1>5 DEF Watches

-----------------------------------------------------------------------------
(* What each step of a request does to the request *)

LEMMA Places ==
  /\ {"idle", "stop", "terminate", "join", "wait", "finish", "close", "drain", "clean",
      "claim", "create", "flag", "spawn", "publish", "abort", "fail", "shutdown",
      "release", "exit"} \subseteq RequestPC
  /\ {"none", "begin", "poll", "read", "final", "lock", "close", "drain", "clean",
      "done"} \subseteq MonitorPC
  BY DEF RequestPC, MonitorPC

(* A request of its kind comes from an idle client. *)
LEMMA StartRequestedDoes ==
  ASSUME RunnerTypeOK, NEW c \in Clients, NEW force \in BOOLEAN, NEW mem \in BOOLEAN,
         StartRequested(c, force, mem)
  PROVE  /\ request[c].pc = "idle" /\ In(c, {"claim", "stop", "clean"})
         /\ request'[c].pc = "clean" => ~NeedsFinalization
         /\ ready' \in BOOLEAN
<1>1. PICK pc \in {"claim", "stop", "clean"}, op \in {"start", "restart"} :
        /\ pc = IF ready \/ ~force THEN "claim" ELSE IF NeedsFinalization THEN "stop" ELSE "clean"
        /\ op = IF force THEN "restart" ELSE "start"
  BY Zenon
<1>2. PICK q : q = [NoRequest EXCEPT !.pc = pc, !.op = op, !.memory = mem]
  OBVIOUS
<1>3. q \in Request /\ q.pc = pc
  BY <1>2, FreshOnes, Places DEF Request
<1>4. request' = [request EXCEPT ![c] = q]
  BY <1>1, <1>2 DEF StartRequested
<1>5. request' \in [Clients -> Request] /\ request'[c] = q
  BY <1>3, <1>4, RequestSet DEF RunnerTypeOK
<1>6. request[c].pc = "idle" /\ ready' \in BOOLEAN
  BY DEF StartRequested, RunnerTypeOK
<1>7. QED
  BY <1>1, <1>3, <1>5, <1>6 DEF In

LEMMA ShutdownRequestedDoes ==
  ASSUME RunnerTypeOK, NEW c \in Clients, ShutdownRequested(c)
  PROVE  request[c].pc = "idle" /\ In(c, {"shutdown"})
<1>1. PICK r \in Request : r = request[c]
  BY DEF RunnerTypeOK
<1>2. PICK q : q = [r EXCEPT !.pc = "shutdown", !.op = "shutdown"]
  OBVIOUS
<1>3. q \in Request /\ q.pc = "shutdown"
  BY <1>2, Places DEF Request
<1>4. request' = [request EXCEPT ![c] = q]
  BY <1>1, <1>2 DEF ShutdownRequested
<1>5. request' \in [Clients -> Request] /\ request'[c] = q
  BY <1>3, <1>4, RequestSet DEF RunnerTypeOK
<1>6. QED
  BY <1>3, <1>5 DEF In, ShutdownRequested

(* The claim is refused, or is the next run. *)
LEMMA StartClaimsDoes ==
  ASSUME RunnerTypeOK, NEW c \in Clients, StartClaims(c)
  PROVE  /\ request[c].pc = "claim" /\ Free
         /\ \/ /\ In(c, {"idle"}) /\ UNCHANGED <<status, runs, memory, accepted>>
            \/ /\ request' \in [Clients -> Request]
               /\ request'[c].pc = "create" /\ request'[c].run = runs + 1
               /\ status \notin Active /\ updater = 0 /\ runs + 1 \in Gens
               /\ status' = "starting" /\ runs' = runs + 1
               /\ memory' \in [Gens -> BOOLEAN]
               /\ accepted' = [g \in Gens |-> {}]
<1>1. PICK r \in Request, n \in Nat : r = request[c] /\ n = runs + 1 /\ runs = n - 1
  BY DEF RunnerTypeOK
<1>2. CASE status \in Active \/ updater # 0 \/ runs = MaxStarts
  BY <1>2, RepliesIn DEF StartClaims, RunnerTypeOK
<1>3. CASE ~(status \in Active \/ updater # 0 \/ runs = MaxStarts)
  <2>1. n \in Gens
    BY <1>1, <1>3 DEF RunnerTypeOK, Gens
  <2>2. PICK q : q = [r EXCEPT !.pc = "create", !.run = n]
    OBVIOUS
  <2>a. n \in 0..MaxStarts
    BY <2>1 DEF Gens
  <2>3. q \in Request /\ q.pc = "create" /\ q.run = n
    BY <2>2, <2>a, Places DEF Request
  <2>4. request' = [request EXCEPT ![c] = q]
    BY <1>1, <1>3, <2>2 DEF StartClaims
  <2>5. request' \in [Clients -> Request] /\ request'[c] = q
    BY <2>3, <2>4, RequestSet DEF RunnerTypeOK
  <2>6. r.memory \in BOOLEAN
    BY DEF Request
  <2>7. memory' \in [Gens -> BOOLEAN]
    BY <1>1, <1>3, <2>6 DEF StartClaims, RunnerTypeOK
  <2>8. QED
    BY <1>1, <1>3, <2>1, <2>3, <2>5, <2>7 DEF StartClaims
<1>4. QED
  BY <1>2, <1>3

(* Stop returns, raises, or sets the barrier and takes the lock. *)
LEMMA StopLocksDoes ==
  ASSUME RunnerTypeOK, NEW c \in Clients, StopLocks(c)
  PROVE  /\ request[c].pc = "stop" /\ Free /\ ready' \in BOOLEAN
         /\ \/ /\ In(c, {"idle", "clean", "release"}) /\ status = "stopped"
               /\ UNCHANGED <<status, manual, lock>>
            \/ /\ In(c, {"idle", "exit"}) /\ UNCHANGED <<status, manual, lock>>
            \/ /\ request' \in [Clients -> Request]
               /\ request'[c].pc = "terminate"
               /\ request'[c].retry <=> updater # 0 /\ status \in {"stopping", "failed"}
               /\ status' = "stopping" /\ manual' = TRUE /\ lock' = c
<1> DEFINE again == updater # 0 /\ status \in {"stopping", "failed"}
<1>1. PICK retry \in BOOLEAN : retry = again
  OBVIOUS
<1>2. request[c].pc = "stop" /\ Free
  BY DEF StopLocks
<1>3. CASE status = "stopped"
  <2>1. StopReturns(c) /\ UNCHANGED <<status, manual, lock>>
    BY <1>3 DEF StopLocks
  <2>2. QED
    BY <1>2, <1>3, <2>1, StopReturnsIn, ReadyAfterStop DEF RunnerTypeOK
<1>4. CASE status # "stopped" /\ status \notin Active /\ ~retry
  <2>1. StopRaises(c, FALSE) /\ UNCHANGED <<status, manual, lock>>
    BY <1>1, <1>4 DEF StopLocks
  <2>2. QED
    BY <1>2, <2>1, StopRaisesIn, ReadyAfterStop DEF RunnerTypeOK
<1>5. CASE status # "stopped" /\ (status \in Active \/ retry)
  <2>1. PICK r \in Request : r = request[c]
    BY DEF RunnerTypeOK
  <2>2. PICK q : q = [r EXCEPT !.pc = "terminate", !.retry = retry]
    OBVIOUS
  <2>3. q \in Request /\ q.pc = "terminate" /\ q.retry = retry
    BY <2>2, Places DEF Request
  <2>4. /\ request' = [request EXCEPT ![c] = q] /\ ready' = ready
        /\ status' = "stopping" /\ manual' = TRUE /\ lock' = c
    BY <1>1, <1>5, <2>1, <2>2 DEF StopLocks
  <2>5. request' \in [Clients -> Request] /\ request'[c] = q
    BY <2>3, <2>4, RequestSet DEF RunnerTypeOK
  <2>6. ready' \in BOOLEAN
    BY <2>4 DEF RunnerTypeOK
  <2>7. QED
    BY <1>1, <1>2, <2>3, <2>4, <2>5, <2>6
<1>6. QED
  BY <1>3, <1>4, <1>5

(* Stop waits for a monitor that is at work, or finishes itself. *)
LEMMA StopChoosesOwnerDoes ==
  ASSUME RunnerTypeOK, NEW c \in Clients, StopChoosesOwner(c)
  PROVE  /\ request[c].pc = "join" /\ request' \in [Clients -> Request]
         /\ \/ /\ request'[c].pc = "wait" /\ request'[c].run = watcher
               /\ ~request[c].retry /\ ~request'[c].retry /\ watcher # 0
            \/ /\ request'[c].pc = "finish"
               /\ request[c].retry \/ watcher = 0 \/ monitor[watcher].pc = "done"
<1>1. PICK r \in Request : r = request[c]
  BY DEF RunnerTypeOK
<1>2. CASE ~request[c].retry /\ watcher # 0 /\ monitor[watcher].pc # "done"
  <2>1. PICK q : q = [r EXCEPT !.pc = "wait", !.run = watcher]
    OBVIOUS
  <2>2. q \in Request /\ q.pc = "wait" /\ q.run = watcher /\ q.retry = r.retry
    BY <2>1, Places DEF Request, RunnerTypeOK
  <2>3. request' = [request EXCEPT ![c] = q]
    BY <1>1, <1>2, <2>1 DEF StopChoosesOwner
  <2>4. request' \in [Clients -> Request] /\ request'[c] = q
    BY <2>2, <2>3, RequestSet DEF RunnerTypeOK
  <2>5. QED
    BY <1>1, <1>2, <2>2, <2>4 DEF StopChoosesOwner
<1>3. CASE ~(~request[c].retry /\ watcher # 0 /\ monitor[watcher].pc # "done")
  <2>1. PICK q : q = [r EXCEPT !.pc = "finish", !.retry = FALSE]
    OBVIOUS
  <2>2. q \in Request /\ q.pc = "finish"
    BY <2>1, Places DEF Request
  <2>3. request' = [request EXCEPT ![c] = q]
    BY <1>1, <1>3, <2>1 DEF StopChoosesOwner
  <2>4. request' \in [Clients -> Request] /\ request'[c] = q
    BY <2>2, <2>3, RequestSet DEF RunnerTypeOK
  <2>5. QED
    BY <1>3, <2>2, <2>4 DEF StopChoosesOwner
<1>4. QED
  BY <1>2, <1>3

-----------------------------------------------------------------------------
(* What each step of a monitor does to the monitors *)

LEMMA MonitorBeginsDoes ==
  ASSUME RunnerTypeOK, NEW g \in Gens, MonitorBegins(g)
  PROVE  /\ monitor[g].pc = "begin" /\ Free
         /\ monitor'[g].failed = monitor[g].failed
         /\ \/ Watches(g, "done") /\ process = 0
            \/ /\ Watches(g, "poll") /\ process # 0 /\ monitor'[g].child = process
               /\ monitor'[g].pos = monitor[g].pos
<1>1. PICK m \in Monitor : m = monitor[g]
  BY DEF RunnerTypeOK
<1>2. CASE process = 0
  <2>1. Watches(g, "done") /\ Keeps(g)
    BY <1>2, MovesDoes, Places DEF MonitorBegins, RunnerTypeOK
  <2>2. QED
    BY <1>2, <2>1 DEF Keeps, MonitorBegins
<1>3. CASE process # 0
  <2>1. PICK n : n = [m EXCEPT !.pc = "poll", !.child = process]
    OBVIOUS
  <2>2. process \in 0..MaxStarts
    BY DEF RunnerTypeOK
  <2>3. n \in Monitor /\ n.pc = "poll" /\ n.child = process /\ n.pos = m.pos /\ n.failed = m.failed
    BY <2>1, <2>2, Places DEF Monitor
  <2>4. monitor' = [monitor EXCEPT ![g] = n]
    BY <1>1, <1>3, <2>1 DEF MonitorBegins
  <2>5. /\ monitor' \in [Gens -> Monitor] /\ monitor'[g] = n
        /\ \A h \in Gens \ {g} : monitor'[h] = monitor[h]
    BY <2>3, <2>4, MonitorSet DEF RunnerTypeOK
  <2>6. QED
    BY <1>1, <1>3, <2>3, <2>5 DEF Watches, MonitorBegins
<1>4. QED
  BY <1>2, <1>3

LEMMA MonitorReadsDoes ==
  ASSUME RunnerTypeOK, NEW g \in Gens, MonitorReads(g)
  PROVE  /\ monitor[g].pc = "poll"
         /\ Watches(g, IF Alive(monitor[g].child) THEN "read" ELSE "final")
         /\ monitor'[g].failed = monitor[g].failed /\ monitor'[g].child = monitor[g].child
         /\ monitor'[g].pos = monitor[g].pos /\ monitor'[g].at = monitor[g].pos
         /\ monitor'[g].sink = IF flag THEN updater ELSE 0
<1>1. PICK m \in Monitor : m = monitor[g]
  BY DEF RunnerTypeOK
<1>2. PICK pc \in {"read", "final"} : pc = IF Alive(m.child) THEN "read" ELSE "final"
  BY Zenon
<1>3. PICK sink \in 0..MaxStarts : sink = IF flag THEN updater ELSE 0
  BY DEF RunnerTypeOK
<1>4. PICK n : n = [m EXCEPT !.pc = pc, !.at = m.pos, !.sink = sink]
  OBVIOUS
<1>5. /\ n \in Monitor /\ n.pc = pc /\ n.child = m.child /\ n.pos = m.pos /\ n.at = m.pos
      /\ n.sink = sink /\ n.failed = m.failed
  BY <1>4, Places DEF Monitor
<1>6. monitor' = [monitor EXCEPT ![g] = n] /\ monitor[g].pc = "poll"
  BY <1>1, <1>2, <1>3, <1>4 DEF MonitorReads
<1>7. /\ monitor' \in [Gens -> Monitor] /\ monitor'[g] = n
      /\ \A h \in Gens \ {g} : monitor'[h] = monitor[h]
  BY <1>5, <1>6, MonitorSet DEF RunnerTypeOK
<1>8. QED
  BY <1>1, <1>2, <1>3, <1>5, <1>6, <1>7 DEF Watches

(* A line is handed over, or ends the reading of a closed updater. *)
LEMMA MonitorReadsLineDoes ==
  ASSUME RunnerTypeOK, NEW g \in Gens, MonitorReadsLine(g)
  PROVE  /\ monitor[g].pc \in {"read", "final"} /\ monitor[g].at < Len(log)
         /\ monitor'[g].failed = monitor[g].failed /\ monitor'[g].child = monitor[g].child
         /\ monitor'[g].pos = monitor[g].pos
         /\ accepted' \in [Gens -> SUBSET (1..MaxLines)]
         /\ \/ /\ Watches(g, AfterReading(g)) /\ accepted' = accepted
               /\ monitor[g].sink # 0 /\ door[monitor[g].sink] = "closed"
            \/ /\ Watches(g, monitor[g].pc)
               /\ monitor'[g].at = monitor[g].at + 1 /\ monitor'[g].sink = monitor[g].sink
               /\ accepted' = IF monitor[g].sink = 0 THEN accepted
                              ELSE [accepted EXCEPT ![monitor[g].sink] = @ \cup {monitor[g].at + 1}]
<1>1. PICK m \in Monitor : m = monitor[g]
  BY DEF RunnerTypeOK
<1>2. m.pc \in {"read", "final"} /\ m.at < Len(log)
  BY <1>1 DEF MonitorReadsLine
<1>3. m.at \in 0..MaxLines /\ m.pos \in 0..MaxLines /\ m.sink \in 0..MaxStarts
  BY DEF Monitor
<1>4. Len(log) \in Nat /\ Len(log) <= MaxLines
  BY DEF RunnerTypeOK
<1>5. CASE m.sink # 0 /\ door[m.sink] = "closed"
  <2>1. PICK pc \in {"lock", "poll"} : pc = AfterReading(g)
    BY Zenon DEF AfterReading
  <2>2. PICK n : n = [m EXCEPT !.pc = pc, !.at = m.pos]
    OBVIOUS
  <2>3. n \in Monitor /\ n.pc = pc /\ n.child = m.child /\ n.pos = m.pos /\ n.failed = m.failed
    BY <2>2, Places DEF Monitor
  <2>4. monitor' = [monitor EXCEPT ![g] = n] /\ accepted' = accepted
    BY <1>1, <1>5, <2>1, <2>2 DEF MonitorReadsLine
  <2>5. /\ monitor' \in [Gens -> Monitor] /\ monitor'[g] = n
        /\ \A h \in Gens \ {g} : monitor'[h] = monitor[h]
    BY <2>3, <2>4, MonitorSet DEF RunnerTypeOK
  <2>6. accepted \in [Gens -> SUBSET (1..MaxLines)]
    BY DEF RunnerTypeOK
  <2>7. QED
    BY <1>1, <1>2, <1>5, <2>1, <2>3, <2>4, <2>5, <2>6 DEF Watches
<1>6. CASE ~(m.sink # 0 /\ door[m.sink] = "closed")
  <2>1. PICK i \in 1..MaxLines : i = m.at + 1
    BY <1>2, <1>3, <1>4
  <2>2. PICK n : n = [m EXCEPT !.at = i]
    OBVIOUS
  <2>a. i \in 0..MaxLines
    OBVIOUS
  <2>3. /\ n \in Monitor /\ n.pc = m.pc /\ n.child = m.child /\ n.pos = m.pos /\ n.at = i
        /\ n.sink = m.sink /\ n.failed = m.failed
    BY <2>2, <2>a DEF Monitor
  <2>4. /\ monitor' = [monitor EXCEPT ![g] = n]
        /\ accepted' = IF m.sink = 0 THEN accepted
                       ELSE [accepted EXCEPT ![m.sink] = @ \cup {i}]
    BY <1>1, <1>6, <2>1, <2>2 DEF MonitorReadsLine
  <2>5. /\ monitor' \in [Gens -> Monitor] /\ monitor'[g] = n
        /\ \A h \in Gens \ {g} : monitor'[h] = monitor[h]
    BY <2>3, <2>4, MonitorSet DEF RunnerTypeOK
  <2>6. accepted \in [Gens -> SUBSET (1..MaxLines)]
    BY DEF RunnerTypeOK
  <2>7. accepted' \in [Gens -> SUBSET (1..MaxLines)]
    BY <2>4, <2>6
  <2>8. QED
    BY <1>1, <1>2, <2>1, <2>3, <2>4, <2>5, <2>7 DEF Watches
<1>7. QED
  BY <1>5, <1>6

LEMMA MonitorReadsEndDoes ==
  ASSUME RunnerTypeOK, NEW g \in Gens, MonitorReadsEnd(g)
  PROVE  /\ monitor[g].pc \in {"read", "final"} /\ monitor[g].at >= Len(log)
         /\ Watches(g, AfterReading(g))
         /\ monitor'[g].failed = monitor[g].failed /\ monitor'[g].child = monitor[g].child
         /\ monitor'[g].pos = monitor[g].at
<1>1. PICK m \in Monitor : m = monitor[g]
  BY DEF RunnerTypeOK
<1>2. PICK pc \in {"lock", "poll"} : pc = AfterReading(g)
  BY Zenon DEF AfterReading
<1>3. PICK n : n = [m EXCEPT !.pc = pc, !.pos = m.at]
  OBVIOUS
<1>4. n \in Monitor /\ n.pc = pc /\ n.child = m.child /\ n.pos = m.at /\ n.failed = m.failed
  BY <1>3, Places DEF Monitor
<1>5. /\ monitor' = [monitor EXCEPT ![g] = n]
      /\ monitor[g].pc \in {"read", "final"} /\ monitor[g].at >= Len(log)
  BY <1>1, <1>2, <1>3 DEF MonitorReadsEnd
<1>6. /\ monitor' \in [Gens -> Monitor] /\ monitor'[g] = n
      /\ \A h \in Gens \ {g} : monitor'[h] = monitor[h]
  BY <1>4, <1>5, MonitorSet DEF RunnerTypeOK
<1>7. QED
  BY <1>1, <1>2, <1>4, <1>5, <1>6 DEF Watches

LEMMA MonitorFailsDoes ==
  ASSUME RunnerTypeOK, NEW g \in Gens, MonitorFails(g)
  PROVE  /\ monitor[g].pc = "poll" /\ Watches(g, "lock")
         /\ monitor'[g].failed /\ monitor'[g].child = monitor[g].child
<1>1. PICK m \in Monitor : m = monitor[g]
  BY DEF RunnerTypeOK
<1>2. PICK n : n = [m EXCEPT !.pc = "lock", !.failed = TRUE]
  OBVIOUS
<1>3. n \in Monitor /\ n.pc = "lock" /\ n.child = m.child /\ n.failed
  BY <1>2, Places DEF Monitor
<1>4. monitor' = [monitor EXCEPT ![g] = n] /\ monitor[g].pc = "poll"
  BY <1>1, <1>2 DEF MonitorFails
<1>5. /\ monitor' \in [Gens -> Monitor] /\ monitor'[g] = n
      /\ \A h \in Gens \ {g} : monitor'[h] = monitor[h]
  BY <1>3, <1>4, MonitorSet DEF RunnerTypeOK
<1>6. QED
  BY <1>1, <1>3, <1>4, <1>5 DEF Watches

LEMMA VerdictIsTerminal ==
  ASSUME NEW g
  PROVE  Verdict(g) \in Terminal
  BY Zenon DEF Verdict, Terminal

(* The monitor leaves a run that is over, sets the barrier, or publishes. *)
LEMMA MonitorLocksDoes ==
  ASSUME RunnerTypeOK, NEW g \in Gens, MonitorLocks(g)
  PROVE  /\ monitor[g].pc = "lock" /\ Free
         /\ monitor'[g].failed = monitor[g].failed
         /\ \/ /\ Watches(g, "clean") /\ status \in {"stopped", "failed"}
               /\ manual' = FALSE /\ UNCHANGED <<status, lock>>
            \/ /\ Watches(g, "close") /\ status' = "stopping" /\ lock' = 0 /\ manual' = manual
               /\ status \notin {"stopped", "failed"} /\ flag
               /\ monitor'[g].child = monitor[g].child /\ monitor'[g].goal \in Terminal
            \/ /\ Watches(g, "clean") /\ ~flag
               /\ status' \in Terminal /\ manual' = FALSE /\ UNCHANGED lock
<1>1. PICK m \in Monitor : m = monitor[g]
  BY DEF RunnerTypeOK
<1>2. CASE status \in {"stopped", "failed"}
  <2>1. Leaves(g) /\ manual' = FALSE /\ UNCHANGED <<status, lock>>
    BY <1>2 DEF MonitorLocks
  <2>2. QED
    BY <1>2, <2>1, LeavesDoes DEF MonitorLocks, RunnerTypeOK
<1>3. CASE status \notin {"stopped", "failed"} /\ flag
  <2>1. PICK goal \in Terminal : goal = Verdict(g)
    BY VerdictIsTerminal
  <2>2. PICK n : n = [m EXCEPT !.pc = "close", !.goal = goal]
    OBVIOUS
  <2>3. n \in Monitor /\ n.pc = "close" /\ n.child = m.child /\ n.failed = m.failed /\ n.goal = goal
    BY <2>2, Places DEF Monitor
  <2>4. /\ monitor' = [monitor EXCEPT ![g] = n] /\ monitor[g].pc = "lock" /\ Free
        /\ status' = "stopping" /\ lock' = 0 /\ manual' = manual
    BY <1>1, <1>3, <2>1, <2>2 DEF MonitorLocks
  <2>5. /\ monitor' \in [Gens -> Monitor] /\ monitor'[g] = n
        /\ \A h \in Gens \ {g} : monitor'[h] = monitor[h]
    BY <2>3, <2>4, MonitorSet DEF RunnerTypeOK
  <2>6. QED
    BY <1>1, <1>3, <2>3, <2>4, <2>5 DEF Watches
<1>4. CASE status \notin {"stopped", "failed"} /\ ~flag
  <2>1. Leaves(g) /\ manual' = FALSE /\ UNCHANGED lock /\ status' = Verdict(g)
    BY <1>4 DEF MonitorLocks
  <2>2. QED
    BY <1>4, <2>1, LeavesDoes, VerdictIsTerminal DEF MonitorLocks, RunnerTypeOK
<1>5. QED
  BY <1>2, <1>3, <1>4

(* After the end of a server no request is left, and no monitor that runs. *)
LEMMA ServerGoneDoes ==
  ASSUME RunnerTypeOK, ServerGone
  PROVE  /\ request' \in [Clients -> Request] /\ \A c \in Clients : request'[c].pc = "idle"
         /\ monitor' \in [Gens -> Monitor]
         /\ \A g \in Gens :
              /\ monitor'[g].pc \in {"none", "done"}
              /\ monitor'[g].failed = monitor[g].failed
              /\ monitor[g] = NoMonitor => monitor'[g] = NoMonitor
         /\ door' \in [Gens -> {"none", "open", "closed"}]
         /\ lost' \subseteq Gens /\ \A g \in Gens : g \in lost' <=> g <= runs
<1>1. NoRequest.pc = "idle" /\ NoMonitor.pc = "none"
  BY DEF NoRequest, NoMonitor
<1>2. request' \in [Clients -> Request] /\ \A c \in Clients : request'[c].pc = "idle"
  BY <1>1, FreshOnes DEF ServerGone
<1>3. ASSUME NEW m \in Monitor, NEW n, n = [NoMonitor EXCEPT !.pc = "done", !.failed = m.failed]
      PROVE  n \in Monitor /\ n.pc = "done" /\ n.failed = m.failed
  BY <1>3, FreshOnes, Places DEF Monitor
<1>4. ASSUME NEW g \in Gens
      PROVE  /\ monitor'[g] \in Monitor /\ monitor'[g].pc \in {"none", "done"}
             /\ monitor'[g].failed = monitor[g].failed
             /\ monitor[g] = NoMonitor => monitor'[g] = NoMonitor
  <2>1. monitor[g] \in Monitor
    BY DEF RunnerTypeOK
  <2>2. CASE monitor[g].pc = "none"
    BY <2>1, <2>2 DEF ServerGone
  <2>3. CASE monitor[g].pc # "none"
    <3>1. monitor'[g] = [NoMonitor EXCEPT !.pc = "done", !.failed = monitor[g].failed]
      BY <2>3 DEF ServerGone
    <3>2. QED
      BY <1>1, <1>3, <2>1, <2>3, <3>1
  <2>4. QED
    BY <2>2, <2>3
<1>5. monitor' \in [Gens -> Monitor]
  <2>1. monitor' = [g \in Gens |-> monitor'[g]]
    BY DEF ServerGone
  <2>2. QED
    BY <1>4, <2>1
<1>6. door' \in [Gens -> {"none", "open", "closed"}]
  BY DEF ServerGone, RunnerTypeOK
<1>7. lost' \subseteq Gens /\ \A g \in Gens : g \in lost' <=> g <= runs
  BY DEF ServerGone
<1>8. QED
  BY <1>2, <1>4, <1>5, <1>6, <1>7

-----------------------------------------------------------------------------
(* The other steps of a request *)

LEMMA StopJoinedDoes ==
  ASSUME RunnerTypeOK, NEW c \in Clients, StopJoined(c)
  PROVE  /\ request[c].pc = "wait" /\ monitor[request[c].run].pc = "done" /\ ready' \in BOOLEAN
         /\ \/ status = "stopped" /\ In(c, {"idle", "clean", "release"})
            \/ In(c, {"idle", "exit"})
<1>1. (StopReturns(c) /\ status = "stopped") \/ StopRaises(c, TRUE)
  BY DEF StopJoined
<1>2. QED
  BY <1>1, StopReturnsIn, StopRaisesIn, ReadyAfterStop DEF RunnerTypeOK, StopJoined

LEMMA StopFinishesDoes ==
  ASSUME RunnerTypeOK, NEW c \in Clients, StopFinishes(c)
  PROVE  /\ request[c].pc = "finish" /\ Free /\ ready' \in BOOLEAN
         /\ \/ /\ In(c, {"close"}) /\ flag /\ lock' = c /\ UNCHANGED <<status, manual>>
            \/ /\ In(c, {"idle", "clean", "release"}) /\ ~flag
               /\ status' = "stopped" /\ manual' = FALSE /\ UNCHANGED lock
<1>1. CASE flag
  BY <1>1, GoesAt, Places DEF In, At, StopFinishes, RunnerTypeOK
<1>2. CASE ~flag
  <2>1. StopReturns(c)
    BY <1>2 DEF StopFinishes
  <2>2. QED
    BY <1>2, <2>1, StopReturnsIn, ReadyAfterStop DEF StopFinishes, RunnerTypeOK
<1>3. QED
  BY <1>1, <1>2

LEMMA StopDrainsDoes ==
  ASSUME RunnerTypeOK, NEW c \in Clients, StopDrains(c)
  PROVE  /\ request[c].pc = "drain" /\ ready' \in BOOLEAN /\ lock' = NoLock
         /\ \/ /\ In(c, {"idle", "clean", "release"}) /\ DrainSucceeds
               /\ status' = "stopped" /\ manual' = FALSE
            \/ /\ In(c, {"idle", "exit"}) /\ DrainRaises
               /\ status' = "failed" /\ UNCHANGED manual
<1>1. \/ DrainSucceeds /\ status' = "stopped" /\ manual' = FALSE /\ StopReturns(c)
      \/ DrainRaises /\ status' = "failed" /\ UNCHANGED manual /\ StopRaises(c, TRUE)
  BY DEF StopDrains
<1>2. request[c].pc = "drain" /\ lock' = NoLock
  BY DEF StopDrains
<1>3. QED
  BY <1>1, <1>2, StopReturnsIn, StopRaisesIn, ReadyAfterStop DEF RunnerTypeOK

LEMMA StartCreatesUpdaterDoes ==
  ASSUME RunnerTypeOK, NEW c \in Clients, StartCreatesUpdater(c)
  PROVE  LET g == request[c].run IN
         /\ request[c].pc = "create"
         /\ \/ At(c, "spawn") /\ ~memory[g] /\ flag' = FALSE /\ UNCHANGED <<updater, door>>
            \/ /\ At(c, "flag") /\ updater' = g /\ door' = [door EXCEPT ![g] = "open"]
               /\ UNCHANGED flag
            \/ At(c, "fail") /\ flag' = FALSE /\ UNCHANGED <<updater, door>>
  BY GoesAt, Places DEF StartCreatesUpdater, RunnerTypeOK

LEMMA StartPublishesDoes ==
  ASSUME RunnerTypeOK, NEW c \in Clients, StartPublishes(c), request[c].run \in Gens
  PROVE  LET g == request[c].run IN
         /\ request[c].pc = "publish" /\ Free /\ In(c, {"idle"})
         /\ PromptCleanup => \A h \in Gens : monitor[h].pc # "clean"
         /\ Watches(g, "begin") /\ Keeps(g)
         /\ status' = "running" /\ process' = g /\ watcher' = g
<1>1. Moves(request[c].run, "begin")
  BY DEF StartPublishes, Moves
<1>2. Watches(request[c].run, "begin") /\ Keeps(request[c].run)
  BY <1>1, MovesDoes, Places DEF RunnerTypeOK
<1>3. QED
  BY <1>2, RepliesIn DEF StartPublishes, RunnerTypeOK

-----------------------------------------------------------------------------
(* Types *)

LEMMA DrainTypes ==
  ASSUME RunnerTypeOK, DrainSucceeds \/ DrainRaises
  PROVE  updater' \in 0..MaxStarts /\ flag' \in BOOLEAN
<1>1. updater \in 0..MaxStarts /\ flag \in BOOLEAN /\ 0 \in 0..MaxStarts
  BY DEF RunnerTypeOK
<1>2. (updater' = 0 /\ flag' = FALSE) \/ (updater' = updater /\ flag' = flag)
  BY DEF DrainSucceeds, DrainRaises
<1>3. QED
  BY <1>1, <1>2

LEMMA DoorTypes ==
  ASSUME RunnerTypeOK, ClosesDoor
  PROVE  door' \in [Gens -> {"none", "open", "closed"}]
  BY DEF RunnerTypeOK, ClosesDoor

LEMMA ServerGoneTypes ==
  ASSUME RunnerTypeOK, ServerGone, crashes' \in 0..MaxCrashes
  PROVE  RunnerTypeOK'
<1>1. /\ request' \in [Clients -> Request] /\ monitor' \in [Gens -> Monitor]
      /\ door' \in [Gens -> {"none", "open", "closed"}] /\ lost' \subseteq Gens
  BY ServerGoneDoes
<1>2. /\ flag' = FALSE /\ manual' = FALSE
      /\ process' = 0 /\ watcher' = 0 /\ updater' = 0 /\ lock' = NoLock
      /\ ready' = ready /\ status' = status /\ runs' = runs /\ memory' = memory
      /\ child' = child /\ log' = log /\ accepted' = accepted
  BY DEF ServerGone
<1>3. 0 \in 0..MaxStarts
  OBVIOUS
<1>4. /\ process' \in 0..MaxStarts /\ watcher' \in 0..MaxStarts /\ updater' \in 0..MaxStarts
      /\ flag' \in BOOLEAN /\ manual' \in BOOLEAN /\ lock' \in {NoLock, 0} \cup Clients
  BY <1>2, <1>3
<1>5. QED
  BY <1>1, <1>2, <1>4 DEF RunnerTypeOK

LEMMA InitTypes == RunnerInit => RunnerTypeOK
<1>1. <<>> \in Seq(Gens) /\ Len(<<>>) <= MaxLines
  OBVIOUS
<1> SUFFICES ASSUME RunnerInit PROVE RunnerTypeOK
  OBVIOUS
<1>3. /\ memory \in [Gens -> BOOLEAN] /\ child \in [Gens -> {"none", "alive", "exited", "failed"}]
      /\ door \in [Gens -> {"none", "open", "closed"}] /\ accepted \in [Gens -> SUBSET (1..MaxLines)]
  BY DEF RunnerInit
<1>4. monitor \in [Gens -> Monitor] /\ request \in [Clients -> Request]
  BY FreshOnes DEF RunnerInit
<1>5. status \in Status /\ flag \in BOOLEAN /\ manual \in BOOLEAN /\ ready \in BOOLEAN
  BY DEF RunnerInit, Status
<1>6. QED
  BY <1>1, <1>3, <1>4, <1>5 DEF RunnerInit, RunnerTypeOK

(* What only the API of a request changes. *)
LEMMA RequestTypes ==
  ASSUME RunnerTypeOK, request' \in [Clients -> Request], ready' \in BOOLEAN,
         status' \in Status, flag' \in BOOLEAN, manual' \in BOOLEAN,
         lock' \in {NoLock, 0} \cup Clients,
         UNCHANGED <<process, watcher, updater, runVars, monitor, door, accepted>>
  PROVE  RunnerTypeOK'
  BY DEF RunnerTypeOK, runVars

LEMMA RequestStepTypes ==
  ASSUME RunnerTypeOK, NEW c \in Clients, RequestStep(c)
  PROVE  RunnerTypeOK'
<1> USE DEF Status
<1>t. request \in [Clients -> Request] /\ request[c] \in Request
  BY DEF RunnerTypeOK
<1>r. request[c].run \in 0..MaxStarts
  BY <1>t DEF Request
<1>1. CASE LogsCleaned(c)
  <2>1. At(c, "claim")
    BY <1>1, <1>t, GoesAt, Places DEF LogsCleaned
  <2>2. <<>> \in Seq(Gens) /\ Len(<<>>) <= MaxLines
    OBVIOUS
  <2>3. QED
    BY <1>1, <2>1, <2>2 DEF At, LogsCleaned, RunnerTypeOK, serverVars
<1>2. CASE StartClaims(c)
  <2>1. /\ request' \in [Clients -> Request] /\ status' \in Status /\ runs' \in 0..MaxStarts
        /\ memory' \in [Gens -> BOOLEAN] /\ accepted' \in [Gens -> SUBSET (1..MaxLines)]
    BY <1>2, StartClaimsDoes DEF In, RunnerTypeOK, Gens
  <2>2. QED
    BY <1>2, <2>1 DEF StartClaims, RunnerTypeOK, serverVars
<1>3. CASE StartCreatesUpdater(c)
  <2>1. request' \in [Clients -> Request]
    BY <1>3, StartCreatesUpdaterDoes DEF At
  <2>2. /\ flag' \in BOOLEAN /\ updater' \in 0..MaxStarts
        /\ door' \in [Gens -> {"none", "open", "closed"}]
    BY <1>3, <1>r, StartCreatesUpdaterDoes DEF RunnerTypeOK
  <2>3. QED
    BY <1>3, <2>1, <2>2 DEF StartCreatesUpdater, RunnerTypeOK, runVars
<1>4. CASE StartSetsFlag(c)
  <2>1. At(c, "spawn")
    BY <1>4, <1>t, GoesAt, Places DEF StartSetsFlag
  <2>2. QED
    BY <1>4, <2>1 DEF At, StartSetsFlag, RunnerTypeOK, runVars
<1>5. CASE StartSpawns(c)
  <2>1. At(c, "publish") \/ At(c, "abort")
    BY <1>5, <1>t, GoesAt, Places DEF StartSpawns
  <2>2. child' \in [Gens -> {"none", "alive", "exited", "failed"}]
    BY <1>5 DEF StartSpawns, RunnerTypeOK
  <2>3. QED
    BY <1>5, <2>1, <2>2 DEF At, StartSpawns, RunnerTypeOK, serverVars
<1>6. CASE StartPublishes(c)
  <2>1. In(c, {"idle"})
    BY <1>6, <1>t, RepliesIn DEF StartPublishes
  <2>2. monitor' \in [Gens -> Monitor]
    <3>1. CASE request[c].run \in Gens
      BY <1>6, <3>1, StartPublishesDoes DEF Watches
    <3>2. CASE request[c].run \notin Gens
      <4>1. monitor' = monitor
        BY <1>6, <3>2 DEF StartPublishes, RunnerTypeOK
      <4>2. QED
        BY <4>1 DEF RunnerTypeOK
    <3>3. QED
      BY <3>1, <3>2
  <2>3. QED
    BY <1>6, <1>r, <2>1, <2>2 DEF In, StartPublishes, RunnerTypeOK, runVars
<1>7. CASE StartPublishFails(c)
  <2>1. At(c, "abort")
    BY <1>7, <1>t, GoesAt, Places DEF StartPublishFails
  <2>2. child' \in [Gens -> {"none", "alive", "exited", "failed"}]
    BY <1>7 DEF StartPublishFails, RunnerTypeOK
  <2>3. QED
    BY <1>7, <2>1, <2>2 DEF At, StartPublishFails, RunnerTypeOK
<1>8. CASE StartAborts(c)
  <2>1. At(c, "fail")
    BY <1>8, <1>t, GoesAt, Places DEF StartAborts
  <2>2. /\ flag' \in BOOLEAN /\ updater' \in 0..MaxStarts
        /\ door' \in [Gens -> {"none", "open", "closed"}]
    <3>1. CASE flag
      BY <1>8, <3>1, DrainTypes, DoorTypes DEF StartAborts
    <3>2. CASE ~flag
      BY <1>8, <3>2 DEF StartAborts, RunnerTypeOK
    <3>3. QED
      BY <3>1, <3>2
  <2>3. QED
    BY <1>8, <2>1, <2>2 DEF At, StartAborts, RunnerTypeOK, runVars
<1>9. CASE StartFails(c)
  <2>1. In(c, {"idle"})
    BY <1>9, <1>t, RepliesIn DEF StartFails
  <2>2. QED
    BY <1>9, <2>1, RequestTypes DEF In, StartFails, RunnerTypeOK, serverVars
<1>10. CASE StopLocks(c)
  <2>1. /\ request' \in [Clients -> Request] /\ ready' \in BOOLEAN /\ status' \in Status
        /\ manual' \in BOOLEAN /\ lock' \in {NoLock, 0} \cup Clients
    BY <1>10, StopLocksDoes DEF In, RunnerTypeOK
  <2>2. QED
    BY <1>10, <2>1, RequestTypes DEF StopLocks, RunnerTypeOK
<1>11. CASE StopTerminates(c)
  <2>1. At(c, "join")
    BY <1>11, <1>t, GoesAt, Places DEF StopTerminates
  <2>2. child' \in [Gens -> {"none", "alive", "exited", "failed"}]
    BY <1>11 DEF StopTerminates, RunnerTypeOK
  <2>3. QED
    BY <1>11, <2>1, <2>2 DEF At, StopTerminates, RunnerTypeOK
<1>12. CASE StopChoosesOwner(c)
  <2>1. request' \in [Clients -> Request]
    BY <1>12, StopChoosesOwnerDoes
  <2>2. QED
    BY <1>12, <2>1, RequestTypes DEF StopChoosesOwner, RunnerTypeOK, serverVars
<1>13. CASE StopJoined(c)
  BY <1>13, StopJoinedDoes, RequestTypes DEF In, StopJoined, RunnerTypeOK, serverVars
<1>14. CASE StopPending(c)
  <2>1. In(c, {"idle", "exit"}) /\ ready' \in BOOLEAN
    BY <1>14, <1>t, StopRaisesIn, ReadyAfterStop DEF StopPending, RunnerTypeOK
  <2>2. QED
    BY <1>14, <2>1, RequestTypes DEF In, StopPending, RunnerTypeOK, serverVars
<1>15. CASE StopFinishes(c)
  <2>1. /\ request' \in [Clients -> Request] /\ ready' \in BOOLEAN /\ status' \in Status
        /\ manual' \in BOOLEAN /\ lock' \in {NoLock, 0} \cup Clients
    BY <1>15, StopFinishesDoes DEF In, RunnerTypeOK
  <2>2. QED
    BY <1>15, <2>1, RequestTypes DEF StopFinishes, RunnerTypeOK
<1>16. CASE StopClosesDoor(c)
  <2>1. At(c, "drain")
    BY <1>16, <1>t, GoesAt, Places DEF StopClosesDoor
  <2>2. door' \in [Gens -> {"none", "open", "closed"}]
    BY <1>16 DEF StopClosesDoor, ClosesDoor, RunnerTypeOK
  <2>3. QED
    BY <1>16, <2>1, <2>2 DEF At, StopClosesDoor, RunnerTypeOK, serverVars, runVars
<1>17. CASE StopDrains(c)
  <2>1. /\ request' \in [Clients -> Request] /\ ready' \in BOOLEAN /\ status' \in Status
        /\ manual' \in BOOLEAN /\ lock' = NoLock /\ updater' \in 0..MaxStarts /\ flag' \in BOOLEAN
    BY <1>17, StopDrainsDoes, DrainTypes DEF In, RunnerTypeOK
  <2>2. QED
    BY <1>17, <2>1 DEF StopDrains, RunnerTypeOK, runVars
<1>18. CASE ShutdownPrepares(c)
  <2>1. request' \in [Clients -> Request]
    <3>1. At(c, "exit") \/ At(c, "stop") \/ At(c, "release")
      BY <1>18, <1>t, GoesAt, Places DEF ShutdownPrepares
    <3>2. QED
      BY <3>1 DEF At
  <2>2. child' \in [Gens -> {"none", "alive", "exited", "failed"}]
    BY <1>18 DEF ShutdownPrepares, RunnerTypeOK
  <2>3. flag' \in BOOLEAN /\ status' \in Status
    BY <1>18 DEF ShutdownPrepares, RunnerTypeOK
  <2>4. QED
    BY <1>18, <2>1, <2>2, <2>3 DEF ShutdownPrepares, RunnerTypeOK
<1>19. CASE ShutdownReleases(c)
  <2>1. At(c, "exit")
    BY <1>19, <1>t, GoesAt, Places DEF ShutdownReleases
  <2>2. QED
    BY <1>19, <2>1 DEF At, ShutdownReleases, RunnerTypeOK, runVars
<1>20. CASE ServerExits(c)
  BY <1>20, ServerGoneTypes DEF ServerExits, RunnerTypeOK
<1>21. QED
  BY <1>1, <1>2, <1>3, <1>4, <1>5, <1>6, <1>7, <1>8, <1>9, <1>10, <1>11, <1>12, <1>13,
     <1>14, <1>15, <1>16, <1>17, <1>18, <1>19, <1>20 DEF RequestStep

LEMMA MonitorStepTypes ==
  ASSUME RunnerTypeOK, NEW g \in Gens, MonitorStep(g)
  PROVE  RunnerTypeOK'
<1> USE DEF Status
<1>t. monitor \in [Gens -> Monitor] /\ monitor[g] \in Monitor
  BY DEF RunnerTypeOK
<1>1. CASE MonitorBegins(g)
  <2>1. monitor' \in [Gens -> Monitor]
    BY <1>1, MonitorBeginsDoes DEF Watches
  <2>2. QED
    BY <1>1, <2>1 DEF MonitorBegins, RunnerTypeOK, serverVars, runVars
<1>2. CASE MonitorReads(g)
  <2>1. monitor' \in [Gens -> Monitor]
    BY <1>2, MonitorReadsDoes DEF Watches
  <2>2. QED
    BY <1>2, <2>1 DEF MonitorReads, RunnerTypeOK, serverVars, runVars
<1>3. CASE MonitorReadsLine(g)
  <2>1. monitor' \in [Gens -> Monitor] /\ accepted' \in [Gens -> SUBSET (1..MaxLines)]
    BY <1>3, MonitorReadsLineDoes DEF Watches
  <2>2. QED
    BY <1>3, <2>1 DEF MonitorReadsLine, RunnerTypeOK, serverVars, runVars
<1>4. CASE MonitorReadsEnd(g)
  <2>1. monitor' \in [Gens -> Monitor]
    BY <1>4, MonitorReadsEndDoes DEF Watches
  <2>2. QED
    BY <1>4, <2>1 DEF MonitorReadsEnd, RunnerTypeOK, serverVars, runVars
<1>5. CASE MonitorLocks(g)
  <2>1. /\ monitor' \in [Gens -> Monitor] /\ status' \in Status /\ manual' \in BOOLEAN
        /\ lock' \in {NoLock, 0} \cup Clients
    BY <1>5, MonitorLocksDoes DEF Watches, RunnerTypeOK, Terminal
  <2>2. QED
    BY <1>5, <2>1 DEF MonitorLocks, RunnerTypeOK, runVars
<1>6. CASE MonitorClosesDoor(g)
  <2>1. monitor' \in [Gens -> Monitor]
    BY <1>6, <1>t, MovesDoes, Places DEF MonitorClosesDoor, Watches
  <2>2. door' \in [Gens -> {"none", "open", "closed"}]
    BY <1>6 DEF MonitorClosesDoor, ClosesDoor, RunnerTypeOK
  <2>3. QED
    BY <1>6, <2>1, <2>2 DEF MonitorClosesDoor, RunnerTypeOK, serverVars, runVars
<1>7. CASE MonitorDrains(g)
  <2>1. monitor' \in [Gens -> Monitor]
    BY <1>7, <1>t, LeavesDoes DEF MonitorDrains, Watches
  <2>2. monitor[g].goal \in Status
    BY <1>t DEF Monitor, Terminal
  <2>3. status' \in Status /\ updater' \in 0..MaxStarts /\ flag' \in BOOLEAN
    BY <1>7, <2>2, DrainTypes DEF MonitorDrains
  <2>4. QED
    BY <1>7, <2>1, <2>3 DEF MonitorDrains, RunnerTypeOK, runVars
<1>8. CASE MonitorCleans(g)
  <2>1. monitor' \in [Gens -> Monitor]
    BY <1>8, <1>t, MovesDoes, Places DEF MonitorCleans, Watches
  <2>2. QED
    BY <1>8, <2>1 DEF MonitorCleans, RunnerTypeOK, runVars
<1>9. QED
  BY <1>1, <1>2, <1>3, <1>4, <1>5, <1>6, <1>7, <1>8 DEF MonitorStep

LEMMA ClientTypes ==
  ASSUME RunnerTypeOK, NEW c \in Clients,
         \/ \E force, mem \in BOOLEAN : StartRequested(c, force, mem)
         \/ StopRequested(c) \/ EnvClosed(c) \/ ShutdownRequested(c)
  PROVE  RunnerTypeOK'
<1>t. request \in [Clients -> Request]
  BY DEF RunnerTypeOK
<1>1. CASE \E force, mem \in BOOLEAN : StartRequested(c, force, mem)
  <2>1. PICK force \in BOOLEAN, mem \in BOOLEAN : StartRequested(c, force, mem)
    BY <1>1
  <2>2. request' \in [Clients -> Request] /\ ready' \in BOOLEAN
    BY <2>1, StartRequestedDoes DEF In
  <2>3. QED
    BY <2>1, <2>2, RequestTypes DEF StartRequested, RunnerTypeOK, serverVars
<1>2. CASE StopRequested(c)
  <2>1. At(c, "stop")
    BY <1>2, <1>t, GoesAt, Places DEF StopRequested
  <2>2. QED
    BY <1>2, <2>1, RequestTypes DEF At, StopRequested, RunnerTypeOK, serverVars
<1>3. CASE EnvClosed(c)
  BY <1>3, RequestTypes DEF EnvClosed, RunnerTypeOK, serverVars
<1>4. CASE ShutdownRequested(c)
  <2>1. In(c, {"shutdown"})
    BY <1>4, ShutdownRequestedDoes
  <2>2. QED
    BY <1>4, <2>1, RequestTypes DEF In, ShutdownRequested, RunnerTypeOK, serverVars
<1>5. QED
  BY <1>1, <1>2, <1>3, <1>4

LEMMA NextTypes == RunnerTypeOK /\ [RunnerNext]_runnerVars => RunnerTypeOK'
<1> SUFFICES ASSUME RunnerTypeOK, [RunnerNext]_runnerVars PROVE RunnerTypeOK'
  OBVIOUS
<1>1. ASSUME NEW c \in Clients,
             \/ \E force, mem \in BOOLEAN : StartRequested(c, force, mem)
             \/ StopRequested(c) \/ EnvClosed(c) \/ ShutdownRequested(c) \/ RequestStep(c)
      PROVE  RunnerTypeOK'
  BY <1>1, ClientTypes, RequestStepTypes
<1>2. ASSUME NEW g \in Gens, MonitorFails(g)
      PROVE  RunnerTypeOK'
  <2>1. monitor' \in [Gens -> Monitor]
    BY <1>2, MonitorFailsDoes DEF Watches
  <2>2. QED
    BY <1>2, <2>1 DEF MonitorFails, RunnerTypeOK, serverVars, runVars
<1>3. ASSUME NEW g \in Gens, ChildWrites(g)
      PROVE  RunnerTypeOK'
  <2>1. log' \in Seq(Gens) /\ Len(log') <= MaxLines
    BY <1>3 DEF ChildWrites, RunnerTypeOK
  <2>2. QED
    BY <1>3, <2>1 DEF ChildWrites, RunnerTypeOK, serverVars
<1>4. ASSUME NEW g \in Gens, ChildExits(g)
      PROVE  RunnerTypeOK'
  <2>1. child' \in [Gens -> {"none", "alive", "exited", "failed"}]
    BY <1>4 DEF ChildExits, RunnerTypeOK
  <2>2. QED
    BY <1>4, <2>1 DEF ChildExits, RunnerTypeOK, serverVars
<1>5. CASE UpdaterDiscarded
  BY <1>5 DEF UpdaterDiscarded, RunnerTypeOK, runVars
<1>6. CASE Crash
  BY <1>6, ServerGoneTypes DEF Crash, RunnerTypeOK
<1>7. CASE UNCHANGED runnerVars
  BY <1>7 DEF RunnerTypeOK, runnerVars, serverVars, runVars
<1>8. QED
  BY <1>1, <1>2, <1>3, <1>4, <1>5, <1>6, <1>7, MonitorStepTypes DEF RunnerNext

(* Every variable keeps its type, whatever requests, monitors, children    *)
(* and crashes do.                                                         *)
THEOREM RunnerTypesHold == RunnerSpec => []RunnerTypeOK
<1>1. QED
  BY InitTypes, NextTypes, PTL DEF RunnerSpec

-----------------------------------------------------------------------------
(* Who is at work: the invariant the others rest on *)

(* One request at a time; a monitor's last statements are over before the  *)
(* next publication.                                                       *)
Calm == PromptCleanup /\ \A c, d \in Clients : c = d

Busy == {"begin", "poll", "read", "final", "lock", "close", "drain"}
Starting == {"create", "flag", "spawn", "publish", "abort", "fail"}
Quiet == {"clean", "finish", "close", "drain", "release"} \cup Starting
Stopping == {"terminate", "join", "wait"}

(* A monitor at work is that of the last run, which is registered, and     *)
(* whose status it may publish; at the barrier a stop attends to it.       *)
MonitorIsOfTheRun(g) ==
  /\ monitor[g].pc \in Busy =>
       /\ g = runs /\ g \notin lost /\ process = g /\ watcher = g
       /\ status \in {"running", "stopping"}
       /\ \A h \in Gens : monitor[h].pc # "clean"
  /\ monitor[g].pc \in Busy \ {"begin"} => monitor[g].child = g
  /\ monitor[g].pc \in {"close", "drain"} => lock = 0
  /\ monitor[g].pc \in Busy \ {"close", "drain"} /\ status = "stopping" =>
       \E c \in Clients : request[c].pc \in Stopping
  /\ g > runs => monitor[g] = NoMonitor /\ g \notin lost

(* A request that starts, cleans or finishes has no monitor beside it; one *)
(* that stops a run waits for its monitor.                                 *)
RequestIsAlone(c) ==
  /\ request[c].pc \in {"terminate", "close", "drain"} => lock = c
  /\ request[c].pc \in Quiet => \A g \in Gens : monitor[g].pc \notin Busy
  /\ request[c].pc \in Starting =>
       /\ status = "starting" /\ request[c].run = runs /\ runs \in Gens \ lost
       /\ monitor[runs] = NoMonitor
  /\ \A g \in Gens : request[c].pc \in Stopping /\ monitor[g].pc \in Busy =>
       ~request[c].retry /\ (request[c].pc = "wait" => request[c].run = g)

UpdaterIsOfTheRun ==
  /\ status \in {"completed", "stopped"} => updater = 0
  /\ updater # 0 /\ ~flag => \E c \in Clients : request[c].pc = "flag"
  /\ \A c \in Clients : request[c].pc = "create" => updater = 0

FlowInv ==
  /\ \A g \in Gens : MonitorIsOfTheRun(g)
  /\ \A c \in Clients : RequestIsAlone(c)
  /\ UpdaterIsOfTheRun

LEMMA InitFlow == RunnerInit => FlowInv
<1> SUFFICES ASSUME RunnerInit PROVE FlowInv
  OBVIOUS
<1>1. NoRequest.pc = "idle" /\ NoMonitor.pc = "none"
  BY DEF NoRequest, NoMonitor
<1>2. /\ \A c \in Clients : request[c].pc = "idle"
      /\ \A g \in Gens : monitor[g] = NoMonitor /\ monitor[g].pc = "none"
      /\ status = "none" /\ updater = 0 /\ lost = {}
  BY <1>1 DEF RunnerInit
<1>3. QED
  BY <1>2 DEF FlowInv, MonitorIsOfTheRun, RequestIsAlone, UpdaterIsOfTheRun, Busy, Starting,
              Quiet, Stopping

LEMMA ServerGoneFlow ==
  ASSUME RunnerTypeOK, FlowInv, ServerGone
  PROVE  FlowInv'
<1> USE DEF Busy, Starting, Quiet, Stopping
<1>1. /\ \A c \in Clients : request'[c].pc = "idle"
      /\ \A g \in Gens : /\ monitor'[g].pc \in {"none", "done"}
                         /\ monitor[g] = NoMonitor => monitor'[g] = NoMonitor
                         /\ g \in lost' => g <= runs
      /\ updater' = 0 /\ runs' = runs
  BY ServerGoneDoes DEF ServerGone
<1>2. \A g \in Gens : g > runs => monitor[g] = NoMonitor
  BY DEF FlowInv, MonitorIsOfTheRun
<1>3. runs \in Nat
  BY DEF RunnerTypeOK
<1>4. ASSUME NEW g \in Gens PROVE MonitorIsOfTheRun(g)'
  BY <1>1, <1>2, <1>3 DEF MonitorIsOfTheRun, Gens
<1>5. QED
  BY <1>1, <1>4 DEF FlowInv, RequestIsAlone, UpdaterIsOfTheRun

(* The steps of a request. *)
LEMMA RequestFlow ==
  ASSUME RunnerTypeOK, FlowInv, Calm, NEW c \in Clients, RequestStep(c)
  PROVE  FlowInv'
<1> DEFINE p == request[c].pc
           q == request'[c].pc
<1> USE DEF Busy, Starting, Quiet, Stopping
<1>a. \A d \in Clients : d = c
  BY DEF Calm
<1>m. \A g \in Gens : MonitorIsOfTheRun(g)
  BY DEF FlowInv
<1>r. RequestIsAlone(c)
  BY DEF FlowInv
<1>u. UpdaterIsOfTheRun
  BY DEF FlowInv
<1>t. request \in [Clients -> Request]
  BY DEF RunnerTypeOK
<1>g. ASSUME \A g \in Gens : MonitorIsOfTheRun(g)', RequestIsAlone(c)', UpdaterIsOfTheRun'
      PROVE  FlowInv'
  BY <1>a, <1>g DEF FlowInv
<1>1. CASE LogsCleaned(c)
  <2>1. p = "clean" /\ q = "claim" /\ status' = "none"
    BY <1>1, <1>t, GoesAt, Places DEF At, LogsCleaned
  <2>2. UNCHANGED <<process, watcher, updater, flag, lock, monitor, runs, lost>>
    BY <1>1 DEF LogsCleaned, serverVars
  <2>3. ASSUME NEW g \in Gens PROVE MonitorIsOfTheRun(g)'
    BY <1>m, <1>r, <2>1, <2>2 DEF MonitorIsOfTheRun, RequestIsAlone
  <2>4. RequestIsAlone(c)'
    BY <2>1 DEF RequestIsAlone
  <2>5. UpdaterIsOfTheRun'
    BY <1>a, <1>u, <2>1, <2>2 DEF UpdaterIsOfTheRun
  <2>6. QED
    BY <1>g, <2>3, <2>4, <2>5
<1>2. CASE StartClaims(c)
  <2>1. p = "claim" /\ UNCHANGED <<process, watcher, updater, flag, lock, monitor, lost>>
    BY <1>2 DEF StartClaims, serverVars
  <2>2. CASE In(c, {"idle"}) /\ UNCHANGED <<status, runs>>
    <3>1. ASSUME NEW g \in Gens PROVE MonitorIsOfTheRun(g)'
      BY <1>a, <1>m, <2>1, <2>2 DEF MonitorIsOfTheRun, In
    <3>2. RequestIsAlone(c)'
      BY <2>2 DEF RequestIsAlone, In
    <3>3. UpdaterIsOfTheRun'
      BY <1>a, <1>u, <2>1, <2>2 DEF UpdaterIsOfTheRun, In
    <3>4. QED
      BY <1>g, <3>1, <3>2, <3>3
  <2>3. CASE /\ q = "create" /\ request'[c].run = runs + 1
             /\ status \notin Active /\ updater = 0 /\ runs + 1 \in Gens
             /\ status' = "starting" /\ runs' = runs + 1
    <3>1. runs \in Nat
      BY DEF RunnerTypeOK
    <3>2. \A g \in Gens : monitor[g].pc \notin Busy
      BY <1>m, <2>3 DEF MonitorIsOfTheRun, Active
    <3>3. ASSUME NEW g \in Gens PROVE MonitorIsOfTheRun(g)'
      BY <1>m, <2>1, <2>3, <3>1, <3>2 DEF MonitorIsOfTheRun, Gens
    <3>4. monitor[runs + 1] = NoMonitor /\ runs + 1 \notin lost
      BY <1>m, <2>3, <3>1 DEF MonitorIsOfTheRun
    <3>5. RequestIsAlone(c)'
      BY <2>1, <2>3, <3>2, <3>4 DEF RequestIsAlone
    <3>6. UpdaterIsOfTheRun'
      BY <1>a, <2>1, <2>3 DEF UpdaterIsOfTheRun
    <3>7. QED
      BY <1>g, <3>3, <3>5, <3>6
  <2>4. QED
    BY <1>2, <2>2, <2>3, StartClaimsDoes
<1>3. CASE StartCreatesUpdater(c)
  <2>1. p = "create" /\ UNCHANGED <<status, process, watcher, lock, monitor, runs, lost>>
    BY <1>3 DEF StartCreatesUpdater, runVars
  <2>2. /\ q \in {"spawn", "flag", "fail"} /\ request'[c].run = request[c].run
        /\ q # "flag" => updater' = updater
    BY <1>3, StartCreatesUpdaterDoes DEF At
  <2>3. ASSUME NEW g \in Gens PROVE MonitorIsOfTheRun(g)'
    BY <1>a, <1>m, <2>1, <2>2 DEF MonitorIsOfTheRun
  <2>4. RequestIsAlone(c)'
    BY <1>r, <2>1, <2>2 DEF RequestIsAlone
  <2>5. UpdaterIsOfTheRun'
    <3>1. status' = "starting"
      BY <1>r, <2>1 DEF RequestIsAlone
    <3>2. q # "flag" => updater' = 0
      BY <1>u, <2>1, <2>2 DEF UpdaterIsOfTheRun
    <3>3. QED
      BY <1>a, <2>2, <3>1, <3>2 DEF UpdaterIsOfTheRun
  <2>6. QED
    BY <1>g, <2>3, <2>4, <2>5
<1>4. CASE StartSetsFlag(c)
  <2>1. /\ p = "flag" /\ q = "spawn" /\ request'[c].run = request[c].run /\ flag' = TRUE
        /\ UNCHANGED <<status, process, watcher, updater, lock, monitor, runs, lost>>
    BY <1>4, <1>t, GoesAt, Places DEF At, StartSetsFlag, runVars
  <2>2. ASSUME NEW g \in Gens PROVE MonitorIsOfTheRun(g)'
    BY <1>a, <1>m, <2>1 DEF MonitorIsOfTheRun
  <2>3. RequestIsAlone(c)'
    BY <1>r, <2>1 DEF RequestIsAlone
  <2>4. UpdaterIsOfTheRun'
    BY <1>a, <1>u, <2>1 DEF UpdaterIsOfTheRun
  <2>5. QED
    BY <1>g, <2>2, <2>3, <2>4
<1>5. CASE StartSpawns(c)
  <2>1. At(c, "publish") \/ At(c, "abort")
    BY <1>5, <1>t, GoesAt, Places DEF StartSpawns
  <2>2. /\ p = "spawn" /\ q \in {"publish", "abort"} /\ request'[c].run = request[c].run
        /\ UNCHANGED <<status, process, watcher, updater, flag, lock, monitor, runs, lost>>
    BY <1>5, <2>1 DEF At, StartSpawns, serverVars
  <2>3. ASSUME NEW g \in Gens PROVE MonitorIsOfTheRun(g)'
    BY <1>a, <1>m, <2>2 DEF MonitorIsOfTheRun
  <2>4. RequestIsAlone(c)'
    BY <1>r, <2>2 DEF RequestIsAlone
  <2>5. UpdaterIsOfTheRun'
    BY <1>a, <1>u, <2>2 DEF UpdaterIsOfTheRun
  <2>6. QED
    BY <1>g, <2>3, <2>4, <2>5
<1>6. CASE StartPublishes(c)
  <2> DEFINE n == request[c].run
  <2>1. p = "publish" /\ UNCHANGED <<updater, flag, lock, runs, lost>>
    BY <1>6 DEF StartPublishes, runVars
  <2>2. n = runs /\ runs \in Gens \ lost /\ \A g \in Gens : monitor[g].pc \notin Busy
    BY <1>r, <2>1 DEF RequestIsAlone
  <2>3. /\ q = "idle" /\ status' = "running" /\ process' = n /\ watcher' = n
        /\ monitor'[n].pc = "begin" /\ \A h \in Gens \ {n} : monitor'[h] = monitor[h]
        /\ \A h \in Gens : monitor[h].pc # "clean"
    BY <1>6, <2>2, StartPublishesDoes DEF In, Watches, Calm
  <2>4. ASSUME NEW g \in Gens PROVE MonitorIsOfTheRun(g)'
    <3>1. CASE g = n
      BY <2>1, <2>2, <2>3, <3>1 DEF MonitorIsOfTheRun, RunnerTypeOK
    <3>2. CASE g # n
      BY <1>m, <2>1, <2>2, <2>3, <3>2 DEF MonitorIsOfTheRun
    <3>3. QED
      BY <3>1, <3>2
  <2>5. RequestIsAlone(c)'
    BY <2>3 DEF RequestIsAlone
  <2>6. UpdaterIsOfTheRun'
    BY <1>a, <1>u, <2>1, <2>3 DEF UpdaterIsOfTheRun
  <2>7. QED
    BY <1>g, <2>4, <2>5, <2>6
<1>7. CASE StartPublishFails(c)
  <2>1. /\ p = "publish" /\ q = "abort" /\ request'[c].run = request[c].run
        /\ UNCHANGED <<status, updater, flag, lock, monitor, runs, lost>>
    BY <1>7, <1>t, GoesAt, Places DEF At, StartPublishFails
  <2>2. ASSUME NEW g \in Gens PROVE MonitorIsOfTheRun(g)'
    BY <1>m, <1>r, <2>1 DEF MonitorIsOfTheRun, RequestIsAlone
  <2>3. RequestIsAlone(c)'
    BY <1>r, <2>1 DEF RequestIsAlone
  <2>4. UpdaterIsOfTheRun'
    BY <1>a, <1>u, <2>1 DEF UpdaterIsOfTheRun
  <2>5. QED
    BY <1>g, <2>2, <2>3, <2>4
<1>8. CASE StartAborts(c)
  <2>1. /\ p = "abort" /\ q = "fail" /\ request'[c].run = request[c].run
        /\ UNCHANGED <<status, process, watcher, lock, monitor, runs, lost>>
    BY <1>8, <1>t, GoesAt, Places DEF At, StartAborts, runVars
  <2>2. updater' = 0 \/ UNCHANGED <<updater, flag>>
    BY <1>8 DEF StartAborts, DrainSucceeds, DrainRaises
  <2>3. ASSUME NEW g \in Gens PROVE MonitorIsOfTheRun(g)'
    BY <1>a, <1>m, <2>1 DEF MonitorIsOfTheRun
  <2>4. RequestIsAlone(c)'
    BY <1>r, <2>1 DEF RequestIsAlone
  <2>5. UpdaterIsOfTheRun'
    BY <1>a, <1>u, <2>1, <2>2 DEF UpdaterIsOfTheRun
  <2>6. QED
    BY <1>g, <2>3, <2>4, <2>5
<1>9. CASE StartFails(c)
  <2>1. /\ p = "fail" /\ q = "idle" /\ status' = "failed"
        /\ UNCHANGED <<process, watcher, updater, flag, lock, monitor, runs, lost>>
    BY <1>9, <1>t, RepliesIn DEF In, StartFails, serverVars, runVars
  <2>2. ASSUME NEW g \in Gens PROVE MonitorIsOfTheRun(g)'
    BY <1>m, <1>r, <2>1 DEF MonitorIsOfTheRun, RequestIsAlone
  <2>3. RequestIsAlone(c)'
    BY <2>1 DEF RequestIsAlone
  <2>4. UpdaterIsOfTheRun'
    BY <1>a, <1>u, <2>1 DEF UpdaterIsOfTheRun
  <2>5. QED
    BY <1>g, <2>2, <2>3, <2>4
<1>10. CASE StopLocks(c)
  <2>1. /\ p = "stop" /\ Free
        /\ UNCHANGED <<flag, process, watcher, updater, monitor, runs, lost>>
    BY <1>10 DEF StopLocks, runVars
  <2>2. \A g \in Gens : monitor[g].pc \notin {"close", "drain"}
    BY <1>m, <2>1 DEF MonitorIsOfTheRun, Free
  <2>3. CASE /\ In(c, {"idle", "clean", "release"}) /\ status = "stopped"
             /\ UNCHANGED <<status, lock>>
    <3>1. \A g \in Gens : monitor[g].pc \notin Busy
      BY <1>m, <2>3 DEF MonitorIsOfTheRun
    <3>2. ASSUME NEW g \in Gens PROVE MonitorIsOfTheRun(g)'
      BY <1>m, <2>1, <2>3, <3>1 DEF MonitorIsOfTheRun
    <3>3. RequestIsAlone(c)'
      BY <2>1, <2>3, <3>1 DEF RequestIsAlone, In
    <3>4. UpdaterIsOfTheRun'
      BY <1>a, <1>u, <2>1, <2>3 DEF UpdaterIsOfTheRun, In
    <3>5. QED
      BY <1>g, <3>2, <3>3, <3>4
  <2>4. CASE In(c, {"idle", "exit"}) /\ UNCHANGED <<status, lock>>
    <3>1. ASSUME NEW g \in Gens PROVE MonitorIsOfTheRun(g)'
      BY <1>a, <1>m, <2>1, <2>4 DEF MonitorIsOfTheRun, In
    <3>2. RequestIsAlone(c)'
      BY <2>4 DEF RequestIsAlone, In
    <3>3. UpdaterIsOfTheRun'
      BY <1>a, <1>u, <2>1, <2>4 DEF UpdaterIsOfTheRun, In
    <3>4. QED
      BY <1>g, <3>1, <3>2, <3>3
  <2>5. CASE /\ q = "terminate" /\ status' = "stopping" /\ lock' = c
             /\ request'[c].retry <=> updater # 0 /\ status \in {"stopping", "failed"}
    <3>1. ASSUME NEW g \in Gens PROVE MonitorIsOfTheRun(g)'
      BY <1>m, <2>1, <2>2, <2>5 DEF MonitorIsOfTheRun
    <3>2. \A g \in Gens : monitor[g].pc \in Busy => status = "running"
      BY <1>a, <1>m, <2>1, <2>2 DEF MonitorIsOfTheRun
    <3>3. RequestIsAlone(c)'
      BY <2>1, <2>5, <3>2 DEF RequestIsAlone
    <3>4. UpdaterIsOfTheRun'
      BY <1>a, <1>u, <2>1, <2>5 DEF UpdaterIsOfTheRun
    <3>5. QED
      BY <1>g, <3>1, <3>3, <3>4
  <2>6. QED
    BY <1>10, <2>3, <2>4, <2>5, StopLocksDoes
<1>11. CASE StopTerminates(c)
  <2>1. /\ p = "terminate" /\ q = "join" /\ request'[c].retry = request[c].retry
        /\ lock' = NoLock
        /\ UNCHANGED <<status, process, watcher, updater, flag, monitor, runs, lost>>
    BY <1>11, <1>t, GoesAt, Places DEF At, StopTerminates
  <2>2. \A g \in Gens : monitor[g].pc \notin {"close", "drain"}
    BY <1>m, <1>r, <2>1 DEF MonitorIsOfTheRun, RequestIsAlone
  <2>3. ASSUME NEW g \in Gens PROVE MonitorIsOfTheRun(g)'
    BY <1>m, <2>1, <2>2 DEF MonitorIsOfTheRun
  <2>4. RequestIsAlone(c)'
    BY <1>r, <2>1 DEF RequestIsAlone
  <2>5. UpdaterIsOfTheRun'
    BY <1>a, <1>u, <2>1 DEF UpdaterIsOfTheRun
  <2>6. QED
    BY <1>g, <2>3, <2>4, <2>5
<1>12. CASE StopChoosesOwner(c)
  <2>1. /\ p = "join"
        /\ UNCHANGED <<status, process, watcher, updater, flag, lock, monitor, runs, lost>>
    BY <1>12 DEF StopChoosesOwner, serverVars, runVars
  <2>2. CASE q = "wait" /\ request'[c].run = watcher /\ ~request'[c].retry
    <3>1. ASSUME NEW g \in Gens PROVE MonitorIsOfTheRun(g)'
      BY <1>m, <2>1, <2>2 DEF MonitorIsOfTheRun
    <3>2. \A g \in Gens : monitor[g].pc \in Busy => watcher = g
      BY <1>m DEF MonitorIsOfTheRun
    <3>3. RequestIsAlone(c)'
      BY <2>1, <2>2, <3>2 DEF RequestIsAlone
    <3>4. UpdaterIsOfTheRun'
      BY <1>a, <1>u, <2>1, <2>2 DEF UpdaterIsOfTheRun
    <3>5. QED
      BY <1>g, <3>1, <3>3, <3>4
  <2>3. CASE q = "finish" /\ (request[c].retry \/ watcher = 0 \/ monitor[watcher].pc = "done")
    <3>1. \A g \in Gens : monitor[g].pc \notin Busy
      BY <1>m, <1>r, <2>1, <2>3 DEF MonitorIsOfTheRun, RequestIsAlone, Gens
    <3>2. ASSUME NEW g \in Gens PROVE MonitorIsOfTheRun(g)'
      BY <1>m, <2>1, <3>1 DEF MonitorIsOfTheRun
    <3>3. RequestIsAlone(c)'
      BY <2>1, <2>3, <3>1 DEF RequestIsAlone
    <3>4. UpdaterIsOfTheRun'
      BY <1>a, <1>u, <2>1, <2>3 DEF UpdaterIsOfTheRun
    <3>5. QED
      BY <1>g, <3>2, <3>3, <3>4
  <2>4. QED
    BY <1>12, <2>2, <2>3, StopChoosesOwnerDoes
<1>13. CASE StopJoined(c)
  <2>1. /\ p = "wait" /\ monitor[request[c].run].pc = "done"
        /\ q \in {"idle", "clean", "release", "exit"}
        /\ UNCHANGED <<status, process, watcher, updater, flag, lock, monitor, runs, lost>>
    BY <1>13, StopJoinedDoes DEF In, StopJoined, serverVars, runVars
  <2>2. \A g \in Gens : monitor[g].pc \notin Busy
    BY <1>r, <2>1 DEF RequestIsAlone
  <2>3. ASSUME NEW g \in Gens PROVE MonitorIsOfTheRun(g)'
    BY <1>m, <2>1, <2>2 DEF MonitorIsOfTheRun
  <2>4. RequestIsAlone(c)'
    BY <2>1, <2>2 DEF RequestIsAlone
  <2>5. UpdaterIsOfTheRun'
    BY <1>a, <1>u, <2>1 DEF UpdaterIsOfTheRun
  <2>6. QED
    BY <1>g, <2>3, <2>4, <2>5
<1>14. CASE StopPending(c)
  <2>1. /\ p = "wait" /\ monitor[request[c].run].pc = "drain" /\ q \in {"idle", "exit"}
        /\ UNCHANGED <<status, process, watcher, updater, flag, lock, monitor, runs, lost>>
    BY <1>14, <1>t, StopRaisesIn DEF In, StopPending, serverVars, runVars
  <2>2. \A g \in Gens : monitor[g].pc \notin Busy \ {"close", "drain"}
    BY <1>r, <2>1 DEF RequestIsAlone
  <2>3. ASSUME NEW g \in Gens PROVE MonitorIsOfTheRun(g)'
    BY <1>m, <2>1, <2>2 DEF MonitorIsOfTheRun
  <2>4. RequestIsAlone(c)'
    BY <2>1 DEF RequestIsAlone
  <2>5. UpdaterIsOfTheRun'
    BY <1>a, <1>u, <2>1 DEF UpdaterIsOfTheRun
  <2>6. QED
    BY <1>g, <2>3, <2>4, <2>5
<1>15. CASE StopFinishes(c)
  <2>1. /\ p = "finish" /\ Free
        /\ UNCHANGED <<process, watcher, updater, flag, monitor, runs, lost>>
    BY <1>15 DEF StopFinishes, runVars
  <2>2. \A g \in Gens : monitor[g].pc \notin Busy
    BY <1>r, <2>1 DEF RequestIsAlone
  <2>3. ASSUME NEW g \in Gens PROVE MonitorIsOfTheRun(g)'
    BY <1>m, <2>1, <2>2 DEF MonitorIsOfTheRun
  <2>4. \/ q = "close" /\ lock' = c /\ status' = status
        \/ q \in {"idle", "clean", "release"} /\ ~flag
    BY <1>15, StopFinishesDoes DEF In
  <2>5. RequestIsAlone(c)'
    BY <2>1, <2>2, <2>4 DEF RequestIsAlone
  <2>6. UpdaterIsOfTheRun'
    BY <1>a, <1>u, <2>1, <2>4 DEF UpdaterIsOfTheRun
  <2>7. QED
    BY <1>g, <2>3, <2>5, <2>6
<1>16. CASE StopClosesDoor(c)
  <2>1. /\ p = "close" /\ q = "drain"
        /\ UNCHANGED <<status, process, watcher, updater, flag, lock, monitor, runs, lost>>
    BY <1>16, <1>t, GoesAt, Places DEF At, StopClosesDoor, serverVars, runVars
  <2>2. ASSUME NEW g \in Gens PROVE MonitorIsOfTheRun(g)'
    BY <1>m, <1>r, <2>1 DEF MonitorIsOfTheRun, RequestIsAlone
  <2>3. RequestIsAlone(c)'
    BY <1>r, <2>1 DEF RequestIsAlone
  <2>4. UpdaterIsOfTheRun'
    BY <1>a, <1>u, <2>1 DEF UpdaterIsOfTheRun
  <2>5. QED
    BY <1>g, <2>2, <2>3, <2>4
<1>17. CASE StopDrains(c)
  <2>1. p = "drain" /\ UNCHANGED <<process, watcher, monitor, runs, lost>>
    BY <1>17 DEF StopDrains, runVars
  <2>2. \/ q \in {"idle", "clean", "release"} /\ updater' = 0
        \/ /\ q \in {"idle", "exit"} /\ status' = "failed" /\ UNCHANGED <<updater, flag>>
    BY <1>17, StopDrainsDoes DEF In, DrainSucceeds, DrainRaises
  <2>3. \A g \in Gens : monitor[g].pc \notin Busy
    BY <1>r, <2>1 DEF RequestIsAlone
  <2>4. ASSUME NEW g \in Gens PROVE MonitorIsOfTheRun(g)'
    BY <1>m, <2>1, <2>3 DEF MonitorIsOfTheRun
  <2>5. RequestIsAlone(c)'
    BY <2>1, <2>2, <2>3 DEF RequestIsAlone
  <2>6. UpdaterIsOfTheRun'
    BY <1>a, <1>u, <2>1, <2>2 DEF UpdaterIsOfTheRun
  <2>7. QED
    BY <1>g, <2>4, <2>5, <2>6
<1>18. CASE ShutdownPrepares(c)
  <2>1. p = "shutdown" /\ UNCHANGED <<process, watcher, updater, lock, monitor, runs, lost>>
    BY <1>18 DEF ShutdownPrepares
  <2>2. status' = status /\ (flag => flag')
    BY <1>18, <1>u DEF ShutdownPrepares, UpdaterIsOfTheRun
  <2>3. q \in {"exit", "stop", "release"} /\ (q = "release" => status' \notin Active)
    <3>1. \/ At(c, "exit") \/ At(c, "stop")
          \/ At(c, "release") /\ status' \notin Active
      BY <1>18, <1>t, GoesAt, Places DEF ShutdownPrepares
    <3>2. QED
      BY <3>1 DEF At
  <2>4. ASSUME NEW g \in Gens PROVE MonitorIsOfTheRun(g)'
    BY <1>a, <1>m, <2>1, <2>2 DEF MonitorIsOfTheRun
  <2>5. RequestIsAlone(c)'
    <3>1. q = "release" => \A g \in Gens : monitor[g].pc \notin Busy
      BY <1>m, <2>2, <2>3 DEF MonitorIsOfTheRun, Active
    <3>2. QED
      BY <2>1, <2>3, <3>1 DEF RequestIsAlone
  <2>6. UpdaterIsOfTheRun'
    BY <1>a, <1>u, <2>1, <2>2, <2>3 DEF UpdaterIsOfTheRun
  <2>7. QED
    BY <1>g, <2>4, <2>5, <2>6
<1>19. CASE ShutdownReleases(c)
  <2>1. /\ p = "release" /\ q = "exit"
        /\ UNCHANGED <<status, updater, flag, lock, monitor, runs, lost>>
    BY <1>19, <1>t, GoesAt, Places DEF At, ShutdownReleases, runVars
  <2>2. ASSUME NEW g \in Gens PROVE MonitorIsOfTheRun(g)'
    BY <1>m, <1>r, <2>1 DEF MonitorIsOfTheRun, RequestIsAlone
  <2>3. RequestIsAlone(c)'
    BY <2>1 DEF RequestIsAlone
  <2>4. UpdaterIsOfTheRun'
    BY <1>a, <1>u, <2>1 DEF UpdaterIsOfTheRun
  <2>5. QED
    BY <1>g, <2>2, <2>3, <2>4
<1>20. CASE ServerExits(c)
  BY <1>20, ServerGoneFlow DEF ServerExits
<1>21. QED
  BY <1>1, <1>2, <1>3, <1>4, <1>5, <1>6, <1>7, <1>8, <1>9, <1>10, <1>11, <1>12, <1>13,
     <1>14, <1>15, <1>16, <1>17, <1>18, <1>19, <1>20 DEF RequestStep

(* The steps of a monitor. *)
LEMMA MonitorFlow ==
  ASSUME RunnerTypeOK, FlowInv, Calm, NEW g \in Gens, MonitorStep(g) \/ MonitorFails(g)
  PROVE  FlowInv'
<1> DEFINE p == monitor[g].pc
           q == monitor'[g].pc
<1> USE DEF Busy, Starting, Quiet, Stopping
<1>m. \A h \in Gens : MonitorIsOfTheRun(h)
  BY DEF FlowInv
<1>r. \A c \in Clients : RequestIsAlone(c)
  BY DEF FlowInv
<1>u. UpdaterIsOfTheRun
  BY DEF FlowInv
<1>t. monitor \in [Gens -> Monitor]
  BY DEF RunnerTypeOK
<1>b. ASSUME p \in Busy
      PROVE  /\ g = runs /\ \A h \in Gens \ {g} : monitor[h].pc \notin Busy /\ monitor[h].pc # "clean"
             /\ \A c \in Clients : request[c].pc \notin Quiet
             /\ ~flag => updater = 0
  <2>1. g = runs /\ \A h \in Gens \ {g} : monitor[h].pc \notin Busy /\ monitor[h].pc # "clean"
    BY <1>b, <1>m DEF MonitorIsOfTheRun
  <2>2. \A c \in Clients : request[c].pc \notin Quiet
    BY <1>b, <1>r DEF RequestIsAlone
  <2>3. ~flag => updater = 0
    BY <1>u, <2>2 DEF UpdaterIsOfTheRun
  <2>4. QED
    BY <2>1, <2>2, <2>3
<1>k. ASSUME p \in Busy \ {"close", "drain"}, q \in Busy \ {"begin", "close", "drain"},
             monitor'[g].child = g, \A h \in Gens \ {g} : monitor'[h] = monitor[h],
             UNCHANGED <<status, process, watcher, updater, flag, lock, runs, lost, request>>
      PROVE  FlowInv'
  <2>1. ASSUME NEW h \in Gens PROVE MonitorIsOfTheRun(h)'
    <3>1. CASE h = g
      BY <1>m, <1>b, <1>k, <3>1 DEF MonitorIsOfTheRun, RunnerTypeOK
    <3>2. CASE h # g
      BY <1>m, <1>b, <1>k, <3>2 DEF MonitorIsOfTheRun
    <3>3. QED
      BY <3>1, <3>2
  <2>2. ASSUME NEW c \in Clients PROVE RequestIsAlone(c)'
    BY <1>r, <1>b, <1>k DEF RequestIsAlone
  <2>3. UpdaterIsOfTheRun'
    BY <1>u, <1>k DEF UpdaterIsOfTheRun
  <2>4. QED
    BY <2>1, <2>2, <2>3 DEF FlowInv
<1>l. ASSUME p \in Busy, q = "clean", \A h \in Gens \ {g} : monitor'[h] = monitor[h],
             \A c \in Clients : lock = c => lock' = c,
             status' \in {"completed", "stopped"} => updater' = 0,
             updater' = updater \/ updater' = 0, updater' # 0 => flag' = flag,
             UNCHANGED <<process, watcher, runs, lost, request>>
      PROVE  FlowInv'
  <2>1. ASSUME NEW h \in Gens PROVE MonitorIsOfTheRun(h)'
    BY <1>m, <1>b, <1>l DEF MonitorIsOfTheRun, RunnerTypeOK
  <2>2. ASSUME NEW c \in Clients PROVE RequestIsAlone(c)'
    BY <1>r, <1>b, <1>l DEF RequestIsAlone
  <2>3. UpdaterIsOfTheRun'
    BY <1>u, <1>b, <1>l DEF UpdaterIsOfTheRun
  <2>4. QED
    BY <2>1, <2>2, <2>3 DEF FlowInv
<1>1. CASE MonitorBegins(g)
  <2>1. p = "begin" /\ process = g
    BY <1>1, <1>m DEF MonitorBegins, MonitorIsOfTheRun
  <2>2. q = "poll" /\ monitor'[g].child = g /\ \A h \in Gens \ {g} : monitor'[h] = monitor[h]
    BY <1>1, <2>1, MonitorBeginsDoes DEF Watches, Gens
  <2>3. QED
    BY <1>1, <1>k, <2>1, <2>2 DEF MonitorBegins, serverVars, runVars
<1>2. CASE MonitorReads(g)
  <2>1. /\ p = "poll" /\ q \in {"read", "final"} /\ monitor'[g].child = g
        /\ \A h \in Gens \ {g} : monitor'[h] = monitor[h]
    BY <1>2, <1>m, MonitorReadsDoes DEF Watches, MonitorIsOfTheRun
  <2>2. QED
    BY <1>2, <1>k, <2>1 DEF MonitorReads, serverVars, runVars
<1>3. CASE MonitorReadsLine(g)
  <2>1. p \in {"read", "final"} /\ monitor'[g].child = g
    BY <1>3, <1>m, MonitorReadsLineDoes DEF MonitorIsOfTheRun
  <2>2. q \in {"read", "final", "lock", "poll"} /\ \A h \in Gens \ {g} : monitor'[h] = monitor[h]
    BY <1>3, <2>1, MonitorReadsLineDoes DEF Watches, AfterReading
  <2>3. QED
    BY <1>3, <1>k, <2>1, <2>2 DEF MonitorReadsLine, serverVars, runVars
<1>4. CASE MonitorReadsEnd(g)
  <2>1. p \in {"read", "final"} /\ monitor'[g].child = g
    BY <1>4, <1>m, MonitorReadsEndDoes DEF MonitorIsOfTheRun
  <2>2. q \in {"lock", "poll"} /\ \A h \in Gens \ {g} : monitor'[h] = monitor[h]
    BY <1>4, MonitorReadsEndDoes DEF Watches, AfterReading
  <2>3. QED
    BY <1>4, <1>k, <2>1, <2>2 DEF MonitorReadsEnd, serverVars, runVars
<1>5. CASE MonitorFails(g)
  <2>1. /\ p = "poll" /\ q = "lock" /\ monitor'[g].child = g
        /\ \A h \in Gens \ {g} : monitor'[h] = monitor[h]
    BY <1>5, <1>m, MonitorFailsDoes DEF Watches, MonitorIsOfTheRun
  <2>2. QED
    BY <1>5, <1>k, <2>1 DEF MonitorFails, serverVars, runVars
<1>6. CASE MonitorLocks(g)
  <2>1. p = "lock" /\ Free /\ \A h \in Gens \ {g} : monitor'[h] = monitor[h]
    BY <1>6, MonitorLocksDoes DEF Watches
  <2>2. UNCHANGED <<flag, process, watcher, updater, runs, lost, request>>
    BY <1>6 DEF MonitorLocks, runVars
  <2>3. CASE q = "clean" /\ UNCHANGED <<status, lock>>
    BY <1>l, <1>u, <2>1, <2>2, <2>3 DEF UpdaterIsOfTheRun
  <2>4. CASE q = "clean" /\ ~flag /\ UNCHANGED lock
    BY <1>l, <1>b, <2>1, <2>2, <2>4
  <2>5. CASE /\ q = "close" /\ status' = "stopping" /\ lock' = 0
             /\ monitor'[g].child = monitor[g].child
    <3>1. ASSUME NEW h \in Gens PROVE MonitorIsOfTheRun(h)'
      BY <1>m, <1>b, <2>1, <2>2, <2>5 DEF MonitorIsOfTheRun, RunnerTypeOK
    <3>2. ASSUME NEW c \in Clients PROVE RequestIsAlone(c)'
      BY <1>r, <1>b, <2>1, <2>2, <2>5 DEF RequestIsAlone, Free
    <3>3. UpdaterIsOfTheRun'
      BY <1>u, <2>2, <2>5 DEF UpdaterIsOfTheRun
    <3>4. QED
      BY <3>1, <3>2, <3>3 DEF FlowInv
  <2>6. QED
    BY <1>6, <2>3, <2>4, <2>5, MonitorLocksDoes DEF Watches
<1>7. CASE MonitorClosesDoor(g)
  <2>1. /\ p = "close" /\ q = "drain" /\ monitor'[g].child = g /\ lock = 0
        /\ \A h \in Gens \ {g} : monitor'[h] = monitor[h]
    BY <1>7, <1>m, <1>t, MovesDoes, Places
    DEF MonitorClosesDoor, Watches, Keeps, MonitorIsOfTheRun
  <2>2. UNCHANGED <<status, flag, process, watcher, updater, lock, runs, lost, request>>
    BY <1>7 DEF MonitorClosesDoor, serverVars, runVars
  <2>3. ASSUME NEW h \in Gens PROVE MonitorIsOfTheRun(h)'
    BY <1>m, <1>b, <2>1, <2>2 DEF MonitorIsOfTheRun, RunnerTypeOK
  <2>4. ASSUME NEW c \in Clients PROVE RequestIsAlone(c)'
    BY <1>r, <1>b, <2>1, <2>2 DEF RequestIsAlone
  <2>5. UpdaterIsOfTheRun'
    BY <1>u, <2>2 DEF UpdaterIsOfTheRun
  <2>6. QED
    BY <2>3, <2>4, <2>5 DEF FlowInv
<1>8. CASE MonitorDrains(g)
  <2>1. /\ p = "drain" /\ q = "clean" /\ lock = 0 /\ lock' = NoLock
        /\ \A h \in Gens \ {g} : monitor'[h] = monitor[h]
    BY <1>8, <1>m, <1>t, LeavesDoes DEF MonitorDrains, Watches, MonitorIsOfTheRun
  <2>2. /\ UNCHANGED <<process, watcher, runs, lost, request>>
        /\ \/ updater' = 0
           \/ UNCHANGED <<updater, flag>> /\ status' = "failed"
    BY <1>8 DEF MonitorDrains, runVars, DrainSucceeds, DrainRaises
  <2>3. \A c \in Clients : lock # c
    BY <2>1
  <2>4. QED
    BY <1>l, <2>1, <2>2, <2>3
<1>9. CASE MonitorCleans(g)
  <2>1. /\ p = "clean" /\ q = "done" /\ \A h \in Gens \ {g} : monitor'[h] = monitor[h]
    BY <1>9, <1>t, MovesDoes, Places DEF MonitorCleans, Watches
  <2>2. UNCHANGED <<status, flag, updater, lock, runs, lost, request>>
    BY <1>9 DEF MonitorCleans, runVars
  <2>3. \A h \in Gens : monitor[h].pc \notin Busy /\ monitor'[h].pc \notin Busy
    BY <1>m, <2>1 DEF MonitorIsOfTheRun
  <2>4. monitor[g] # NoMonitor
    BY <2>1 DEF NoMonitor
  <2>5. ASSUME NEW h \in Gens PROVE MonitorIsOfTheRun(h)'
    BY <1>m, <2>1, <2>2, <2>3, <2>4 DEF MonitorIsOfTheRun
  <2>6. ASSUME NEW c \in Clients PROVE RequestIsAlone(c)'
    <3>1. RequestIsAlone(c)
      BY <1>r
    <3>2. QED
      BY <2>1, <2>2, <2>3, <2>4, <3>1 DEF RequestIsAlone
  <2>7. UpdaterIsOfTheRun'
    BY <1>u, <2>2 DEF UpdaterIsOfTheRun
  <2>8. QED
    BY <2>5, <2>6, <2>7 DEF FlowInv
<1>10. QED
  BY <1>1, <1>2, <1>3, <1>4, <1>5, <1>6, <1>7, <1>8, <1>9 DEF MonitorStep

(* A request comes in. *)
LEMMA ClientFlow ==
  ASSUME RunnerTypeOK, FlowInv, Calm, NEW c \in Clients,
         \/ \E force, mem \in BOOLEAN : StartRequested(c, force, mem)
         \/ StopRequested(c) \/ EnvClosed(c) \/ ShutdownRequested(c)
  PROVE  FlowInv'
<1> USE DEF Busy, Starting, Quiet, Stopping
<1>a. \A d \in Clients : d = c
  BY DEF Calm
<1>u. UNCHANGED <<status, process, watcher, updater, flag, lock, monitor, runs, lost>>
  BY DEF StartRequested, StopRequested, EnvClosed, ShutdownRequested, serverVars, runVars
<1>p. \/ UNCHANGED request
      \/ /\ request[c].pc = "idle" /\ request'[c].pc \in {"claim", "stop", "clean", "shutdown"}
         /\ request'[c].pc = "clean" => ~NeedsFinalization
  <2>1. CASE \E force, mem \in BOOLEAN : StartRequested(c, force, mem)
    BY <2>1, StartRequestedDoes DEF In
  <2>2. CASE StopRequested(c)
    BY <2>2, GoesAt, Places DEF StopRequested, At, RunnerTypeOK
  <2>3. CASE EnvClosed(c)
    BY <2>3 DEF EnvClosed
  <2>4. CASE ShutdownRequested(c)
    BY <2>4, ShutdownRequestedDoes DEF In
  <2>5. QED
    BY <2>1, <2>2, <2>3, <2>4
<1>1. CASE UNCHANGED request
  BY <1>1, <1>u DEF FlowInv, MonitorIsOfTheRun, RequestIsAlone, UpdaterIsOfTheRun
<1>2. CASE /\ request[c].pc = "idle" /\ request'[c].pc \in {"claim", "stop", "clean", "shutdown"}
           /\ request'[c].pc = "clean" => ~NeedsFinalization
  <2>1. ASSUME NEW g \in Gens PROVE MonitorIsOfTheRun(g)'
    BY <1>a, <1>u, <1>2 DEF FlowInv, MonitorIsOfTheRun
  <2>2. RequestIsAlone(c)'
    <3>1. request'[c].pc = "clean" => \A g \in Gens : monitor[g].pc \notin Busy
      BY <1>2 DEF FlowInv, MonitorIsOfTheRun, NeedsFinalization
    <3>2. QED
      BY <1>u, <1>2, <3>1 DEF RequestIsAlone
  <2>3. UpdaterIsOfTheRun'
    BY <1>a, <1>u, <1>2 DEF FlowInv, UpdaterIsOfTheRun
  <2>4. QED
    BY <1>a, <2>1, <2>2, <2>3 DEF FlowInv
<1>3. QED
  BY <1>p, <1>1, <1>2

LEMMA NextFlow ==
  ASSUME Calm
  PROVE  RunnerTypeOK /\ FlowInv /\ [RunnerNext]_runnerVars => FlowInv'
<1> SUFFICES ASSUME RunnerTypeOK, FlowInv, [RunnerNext]_runnerVars PROVE FlowInv'
  OBVIOUS
<1>1. ASSUME NEW c \in Clients,
             \/ \E force, mem \in BOOLEAN : StartRequested(c, force, mem)
             \/ StopRequested(c) \/ EnvClosed(c) \/ ShutdownRequested(c) \/ RequestStep(c)
      PROVE  FlowInv'
  BY <1>1, ClientFlow, RequestFlow
<1>2. ASSUME NEW g \in Gens, MonitorStep(g) \/ MonitorFails(g)
      PROVE  FlowInv'
  BY <1>2, MonitorFlow
<1>3. ASSUME UNCHANGED <<status, process, watcher, flag, lock, monitor, runs, lost, request>>,
             updater' \in {updater, 0}
      PROVE  FlowInv'
  BY <1>3 DEF FlowInv, MonitorIsOfTheRun, RequestIsAlone, UpdaterIsOfTheRun
<1>4. ASSUME NEW g \in Gens, ChildWrites(g) \/ ChildExits(g)
      PROVE  FlowInv'
  BY <1>3, <1>4 DEF ChildWrites, ChildExits, serverVars
<1>5. CASE UpdaterDiscarded
  BY <1>3, <1>5 DEF UpdaterDiscarded, runVars
<1>6. CASE Crash
  BY <1>6, ServerGoneFlow DEF Crash
<1>7. CASE UNCHANGED runnerVars
  BY <1>3, <1>7 DEF runnerVars, serverVars, runVars
<1>8. QED
  BY <1>1, <1>2, <1>4, <1>5, <1>6, <1>7 DEF RunnerNext

(* Who is at work, for one request at a time beside prompt monitors.       *)
THEOREM FlowInvHolds ==
  ASSUME Calm
  PROVE  RunnerSpec => [](RunnerTypeOK /\ FlowInv)
<1>1. QED
  BY InitTypes, NextTypes, InitFlow, NextFlow, PTL DEF RunnerSpec

(* While an updater holds accepted activities the run is not shown as      *)
(* completed or stopped: _monitor_simulation and stop_simulation publish   *)
(* after the drain.                                                        *)
THEOREM TerminalMeansDrainedHolds ==
  ASSUME Calm
  PROVE  RunnerSpec => []TerminalMeansDrained
<1>1. FlowInv => TerminalMeansDrained
  BY DEF FlowInv, UpdaterIsOfTheRun, TerminalMeansDrained
<1>2. QED
  BY <1>1, FlowInvHolds, PTL

-----------------------------------------------------------------------------
(* One child *)

(* A child of this server that is alive is that of the last run; it is     *)
(* about to be published, or its monitor has not seen it exit.             *)
ChildInv ==
  \A g \in Mine : child[g] = "alive" =>
    /\ g = runs
    /\ \/ \E c \in Clients : request[c].pc = "publish"
       \/ monitor[g].pc \in {"begin", "poll", "read"}

LEMMA InitChild == RunnerInit => ChildInv
  BY DEF RunnerInit, ChildInv, Mine

(* No child begins, no monitor moves, and what is to be published stays so. *)
LEMMA ChildKept ==
  ASSUME ChildInv, UNCHANGED <<runs, lost, monitor>>,
         \A g \in Gens : child'[g] = "alive" => child[g] = "alive",
         \A c \in Clients : request[c].pc = "publish" => request'[c].pc = "publish"
  PROVE  ChildInv'
  BY DEF ChildInv, Mine

(* All are lost. *)
LEMMA ServerGoneChild ==
  ASSUME RunnerTypeOK, FlowInv, ChildInv, ServerGone
  PROVE  ChildInv'
<1>1. ASSUME NEW g \in Mine', child'[g] = "alive" PROVE FALSE
  <2>1. /\ g \in Gens /\ g \notin lost' /\ ~monitor'[g].failed
        /\ child[g] = "alive" /\ ~(g <= runs) /\ ~monitor[g].failed
    <3>1. g \in Gens /\ g \notin lost' /\ ~monitor'[g].failed
      BY <1>1 DEF Mine
    <3>2. child' = child
      BY DEF ServerGone
    <3>3. monitor'[g].failed = monitor[g].failed /\ (g \in lost' <=> g <= runs)
      BY <3>1, ServerGoneDoes
    <3>4. QED
      BY <1>1, <3>1, <3>2, <3>3
  <2>2. runs \in Nat /\ g \in Nat
    BY <2>1 DEF RunnerTypeOK, Gens
  <2>3. g \notin lost
    BY <2>1, <2>2 DEF FlowInv, MonitorIsOfTheRun
  <2>4. QED
    BY <2>1, <2>2, <2>3 DEF ChildInv, Mine
<1>2. QED
  BY <1>1 DEF ChildInv

LEMMA RequestChild ==
  ASSUME RunnerTypeOK, FlowInv, ChildInv, Calm, NEW c \in Clients, RequestStep(c)
  PROVE  ChildInv'
<1> DEFINE p == request[c].pc
           q == request'[c].pc
<1>a. \A d \in Clients : d = c
  BY DEF Calm
<1>t. request \in [Clients -> Request]
  BY DEF RunnerTypeOK
<1>k. ASSUME p # "publish", UNCHANGED <<runs, lost, monitor>>,
             \A g \in Gens : child'[g] = "alive" => child[g] = "alive"
      PROVE  ChildInv'
  BY <1>a, <1>k, ChildKept
<1>m. ASSUME p # "publish", \A g \in Gens : monitor[g].pc \notin Busy
      PROVE  \A g \in Mine : child[g] # "alive"
  BY <1>a, <1>m DEF ChildInv, Mine, Busy
<1>1. CASE LogsCleaned(c)
  BY <1>1, <1>k DEF LogsCleaned
<1>2. CASE StartClaims(c)
  <2>1. p = "claim" /\ UNCHANGED <<lost, monitor, child>>
    BY <1>2 DEF StartClaims
  <2>2. CASE runs' = runs
    BY <1>k, <2>1, <2>2
  <2>3. CASE status \notin Active
    <3>1. \A g \in Gens : monitor[g].pc \notin Busy
      BY <2>3 DEF FlowInv, MonitorIsOfTheRun, Active
    <3>2. QED
      BY <1>m, <2>1, <3>1 DEF ChildInv, Mine
  <2>4. QED
    BY <1>2, <2>2, <2>3, StartClaimsDoes
<1>3. CASE StartCreatesUpdater(c)
  BY <1>3, <1>k DEF StartCreatesUpdater, runVars
<1>4. CASE StartSetsFlag(c)
  BY <1>4, <1>k DEF StartSetsFlag, runVars
<1>5. CASE StartSpawns(c)
  <2>1. At(c, "publish") \/ At(c, "abort")
    BY <1>5, <1>t, GoesAt, Places DEF StartSpawns
  <2>2. p = "spawn" /\ UNCHANGED <<runs, lost, monitor>>
    BY <1>5 DEF StartSpawns
  <2>3. CASE UNCHANGED child
    BY <1>k, <2>2, <2>3
  <2>4. CASE Goes(c, "publish") /\ child' = [child EXCEPT ![request[c].run] = "alive"]
    <3>1. q = "publish"
      BY <1>t, <2>4, GoesAt, Places DEF At
    <3>2. request[c].run = runs /\ \A g \in Gens : monitor[g].pc \notin Busy
      BY <2>2 DEF FlowInv, RequestIsAlone, Starting, Quiet
    <3>3. \A g \in Gens : child'[g] = "alive" => child[g] = "alive" \/ g = runs
      BY <2>4, <3>2 DEF RunnerTypeOK
    <3>4. QED
      BY <1>m, <2>2, <3>1, <3>2, <3>3 DEF ChildInv, Mine
  <2>5. QED
    BY <1>5, <2>3, <2>4 DEF StartSpawns
<1>6. CASE StartPublishes(c)
  <2>1. p = "publish" /\ UNCHANGED <<runs, lost, child>>
    BY <1>6 DEF StartPublishes, runVars
  <2>2. request[c].run = runs /\ runs \in Gens
    BY <2>1 DEF FlowInv, RequestIsAlone, Starting
  <2>3. /\ monitor'[runs].pc = "begin" /\ monitor'[runs].failed = monitor[runs].failed
        /\ \A h \in Gens \ {runs} : monitor'[h] = monitor[h]
    BY <1>6, <2>2, StartPublishesDoes DEF Watches, Keeps
  <2>4. QED
    BY <2>1, <2>2, <2>3 DEF ChildInv, Mine
<1>7. CASE StartPublishFails(c)
  <2>1. p = "publish" /\ UNCHANGED <<runs, lost, monitor>>
    BY <1>7 DEF StartPublishFails
  <2>2. request[c].run = runs /\ runs \in Gens
    BY <2>1 DEF FlowInv, RequestIsAlone, Starting
  <2>3. child'[runs] # "alive" /\ \A g \in Gens \ {runs} : child'[g] = child[g]
    BY <1>7, <2>2 DEF StartPublishFails, Alive, RunnerTypeOK, Gens
  <2>4. QED
    BY <2>1, <2>2, <2>3 DEF ChildInv, Mine
<1>8. CASE StartAborts(c)
  BY <1>8, <1>k DEF StartAborts, runVars
<1>9. CASE StartFails(c)
  BY <1>9, <1>k DEF StartFails, runVars
<1>10. CASE StopLocks(c)
  BY <1>10, <1>k DEF StopLocks, runVars
<1>11. CASE StopTerminates(c)
  <2>1. \A g \in Gens : child'[g] = "alive" => child[g] = "alive"
    BY <1>11 DEF StopTerminates, RunnerTypeOK
  <2>2. QED
    BY <1>11, <1>k, <2>1 DEF StopTerminates
<1>12. CASE StopChoosesOwner(c)
  BY <1>12, <1>k DEF StopChoosesOwner, runVars
<1>13. CASE StopJoined(c)
  BY <1>13, <1>k DEF StopJoined, runVars
<1>14. CASE StopPending(c)
  BY <1>14, <1>k DEF StopPending, runVars
<1>15. CASE StopFinishes(c)
  BY <1>15, <1>k DEF StopFinishes, runVars
<1>16. CASE StopClosesDoor(c)
  BY <1>16, <1>k DEF StopClosesDoor, runVars
<1>17. CASE StopDrains(c)
  BY <1>17, <1>k DEF StopDrains, runVars
<1>18. CASE ShutdownPrepares(c)
  <2>1. \A g \in Gens : child'[g] = "alive" => child[g] = "alive"
    BY <1>18 DEF ShutdownPrepares, RunnerTypeOK
  <2>2. QED
    BY <1>18, <1>k, <2>1 DEF ShutdownPrepares
<1>19. CASE ShutdownReleases(c)
  BY <1>19, <1>k DEF ShutdownReleases, runVars
<1>20. CASE ServerExits(c)
  BY <1>20, ServerGoneChild DEF ServerExits
<1>21. QED
  BY <1>1, <1>2, <1>3, <1>4, <1>5, <1>6, <1>7, <1>8, <1>9, <1>10, <1>11, <1>12, <1>13,
     <1>14, <1>15, <1>16, <1>17, <1>18, <1>19, <1>20 DEF RequestStep

LEMMA MonitorChild ==
  ASSUME RunnerTypeOK, FlowInv, ChildInv, NEW g \in Gens, MonitorStep(g) \/ MonitorFails(g)
  PROVE  ChildInv'
<1> DEFINE p == monitor[g].pc
           q == monitor'[g].pc
<1>t. monitor \in [Gens -> Monitor]
  BY DEF RunnerTypeOK
<1>u. UNCHANGED <<child, runs, lost, request>>
  BY DEF MonitorStep, MonitorFails, MonitorBegins, MonitorReads, MonitorReadsLine, MonitorReadsEnd,
         MonitorLocks, MonitorClosesDoor, MonitorDrains, MonitorCleans, runVars
<1>b. p \in Busy => /\ monitor[g].pc # "begin" => monitor[g].child = g
                    /\ process = g
                    /\ \A c \in Clients : request[c].pc # "publish"
  BY DEF FlowInv, MonitorIsOfTheRun, RequestIsAlone, Busy, Quiet, Starting
<1>k. ASSUME \A h \in Gens \ {g} : monitor'[h] = monitor[h],
             monitor[g].failed => monitor'[g].failed,
             g \in Mine /\ ~monitor'[g].failed /\ child[g] = "alive"
               /\ p \in {"begin", "poll", "read"} => q \in {"begin", "poll", "read"}
      PROVE  ChildInv'
  BY <1>u, <1>k DEF ChildInv, Mine
<1>1. CASE MonitorBegins(g)
  BY <1>1, <1>k, <1>b, MonitorBeginsDoes DEF Watches, Busy, Gens
<1>2. CASE MonitorReads(g)
  <2>1. p = "poll" /\ monitor[g].child = g
    BY <1>2, <1>b DEF MonitorReads, Busy
  <2>2. child[g] = "alive" => Alive(monitor[g].child)
    BY <2>1 DEF Alive, Gens
  <2>3. QED
    BY <1>2, <1>k, <2>2, MonitorReadsDoes DEF Watches
<1>3. CASE MonitorReadsLine(g)
  BY <1>3, <1>k, MonitorReadsLineDoes DEF Watches, AfterReading
<1>4. CASE MonitorReadsEnd(g)
  BY <1>4, <1>k, MonitorReadsEndDoes DEF Watches, AfterReading
<1>5. CASE MonitorFails(g)
  BY <1>5, <1>k, MonitorFailsDoes DEF Watches
<1>6. CASE MonitorLocks(g)
  BY <1>6, <1>k, MonitorLocksDoes DEF Watches
<1>7. CASE MonitorClosesDoor(g)
  BY <1>7, <1>k, <1>t, MovesDoes, Places DEF MonitorClosesDoor, Watches, Keeps
<1>8. CASE MonitorDrains(g)
  BY <1>8, <1>k, <1>t, LeavesDoes DEF MonitorDrains, Watches
<1>9. CASE MonitorCleans(g)
  BY <1>9, <1>k, <1>t, MovesDoes, Places DEF MonitorCleans, Watches, Keeps
<1>10. QED
  BY <1>1, <1>2, <1>3, <1>4, <1>5, <1>6, <1>7, <1>8, <1>9 DEF MonitorStep

LEMMA NextChild ==
  ASSUME Calm
  PROVE  RunnerTypeOK /\ FlowInv /\ ChildInv /\ [RunnerNext]_runnerVars => ChildInv'
<1> SUFFICES ASSUME RunnerTypeOK, FlowInv, ChildInv, [RunnerNext]_runnerVars PROVE ChildInv'
  OBVIOUS
<1>1. ASSUME NEW c \in Clients,
             \/ \E force, mem \in BOOLEAN : StartRequested(c, force, mem)
             \/ StopRequested(c) \/ EnvClosed(c) \/ ShutdownRequested(c)
      PROVE  ChildInv'
  <2>1. UNCHANGED <<runs, lost, monitor, child>>
    BY <1>1 DEF StartRequested, StopRequested, EnvClosed, ShutdownRequested, runVars
  <2>2. request' = request \/ request[c].pc = "idle"
    BY <1>1 DEF StartRequested, StopRequested, EnvClosed, ShutdownRequested
  <2>3. \A d \in Clients : d = c
    BY DEF Calm
  <2>4. QED
    BY <2>1, <2>2, <2>3, ChildKept
<1>2. ASSUME NEW c \in Clients, RequestStep(c)
      PROVE  ChildInv'
  BY <1>2, RequestChild
<1>3. ASSUME NEW g \in Gens, MonitorStep(g) \/ MonitorFails(g)
      PROVE  ChildInv'
  BY <1>3, MonitorChild
<1>4. ASSUME NEW g \in Gens, ChildWrites(g)
      PROVE  ChildInv'
  BY <1>4, ChildKept DEF ChildWrites
<1>5. ASSUME NEW g \in Gens, ChildExits(g)
      PROVE  ChildInv'
  <2>1. \A h \in Gens : child'[h] = "alive" => child[h] = "alive"
    BY <1>5 DEF ChildExits, RunnerTypeOK
  <2>2. QED
    BY <1>5, <2>1, ChildKept DEF ChildExits
<1>6. CASE UpdaterDiscarded
  BY <1>6, ChildKept DEF UpdaterDiscarded, runVars
<1>7. CASE Crash
  BY <1>7, ServerGoneChild DEF Crash
<1>8. CASE UNCHANGED runnerVars
  BY <1>8, ChildKept DEF runnerVars, runVars
<1>9. QED
  BY <1>1, <1>2, <1>3, <1>4, <1>5, <1>6, <1>7, <1>8 DEF RunnerNext

(* Where the child that is alive stands, under the same two assumptions.   *)
THEOREM ChildInvHolds ==
  ASSUME Calm
  PROVE  RunnerSpec => [](RunnerTypeOK /\ FlowInv /\ ChildInv)
<1>1. QED
  BY FlowInvHolds, InitChild, NextChild, PTL DEF RunnerSpec

(* At most one child of this server is alive, and none when the status is  *)
(* terminal or cleanup_all_simulations lets go of a run.                   *)
THEOREM OneChildHolds ==
  ASSUME Calm
  PROVE  RunnerSpec => []OneChild
<1>1. ASSUME FlowInv, ChildInv PROVE OneChild
  <2> DEFINE children == {g \in Mine : child[g] = "alive"}
  <2>1. children = {} \/ children = {runs}
    BY <1>1 DEF ChildInv
  <2>2. Cardinality(children) <= 1
    <3>1. Cardinality({}) = 0 /\ Cardinality({runs}) = 1
      BY FS_EmptySet, FS_Singleton
    <3>2. QED
      BY <2>1, <3>1
  <2>3. status \in Terminal => children = {}
    <3>1. status \in Terminal =>
            /\ \A c \in Clients : request[c].pc # "publish"
            /\ \A g \in Gens : monitor[g].pc \notin Busy
      BY <1>1 DEF FlowInv, MonitorIsOfTheRun, RequestIsAlone, Starting, Terminal
    <3>2. QED
      BY <1>1, <3>1 DEF ChildInv, Busy, Mine
  <2>4. ASSUME NEW c \in Clients, request[c].pc = "release" PROVE children = {}
    <3>1. \A g \in Gens : monitor[g].pc \notin Busy
      BY <1>1, <2>4 DEF FlowInv, RequestIsAlone, Quiet
    <3>2. \A d \in Clients : request[d].pc # "publish"
      BY <2>4 DEF Calm
    <3>3. QED
      BY <1>1, <3>1, <3>2 DEF ChildInv, Busy, Mine
  <2>5. QED
    BY <2>2, <2>3, <2>4 DEF OneChild
<1>2. QED
  BY <1>1, ChildInvHolds, PTL

-----------------------------------------------------------------------------
(* The tail of the log *)

Over == {"lock", "close", "drain", "clean", "done"}

(* The updater of g is the manager's, and takes what it is handed. *)
Fed(g) == updater = g /\ door[g] = "open"
(* Its run's lines among the first n have been handed over. *)
Heard(g, n) == \A i \in 1..n : log[i] = g => i \in accepted[g]

(* A start that goes on to publish has its updater open, then registered. *)
RequestFeeds(c) ==
  LET g == request[c].run IN
  g \in Gens /\ memory[g] =>
    /\ request[c].pc \in {"flag", "spawn", "publish"} => Fed(g)
    /\ request[c].pc \in {"spawn", "publish"} => flag

(* A monitor that reads has it so up to the barrier. *)
MonitorFeeds(g) ==
  memory[g] /\ monitor[g].pc \in Busy \ {"close", "drain"} => Fed(g) /\ flag

(* What the monitor of the last run has read was heard; after its final    *)
(* reading, all of the log.                                                *)
MonitorHears(g) ==
  g \in Mine /\ g = runs /\ memory[g] =>
    /\ monitor[g].pc \in {"begin", "poll", "read", "final"} =>
         monitor[g].pos <= Len(log) /\ Heard(g, monitor[g].pos)
    /\ monitor[g].pc \in {"read", "final"} =>
         monitor[g].sink = g /\ monitor[g].at <= Len(log) /\ Heard(g, monitor[g].at)
    /\ monitor[g].pc \in Over => Heard(g, Len(log))

TailInv ==
  /\ \A c \in Clients : RequestFeeds(c)
  /\ \A g \in Gens : MonitorFeeds(g) /\ MonitorHears(g)

LEMMA InitTail == RunnerInit => TailInv
<1> SUFFICES ASSUME RunnerInit PROVE TailInv
  OBVIOUS
<1>1. \A g \in Gens : memory[g] = FALSE
  BY DEF RunnerInit
<1>2. QED
  BY <1>1 DEF TailInv, RequestFeeds, MonitorFeeds, MonitorHears

(* No request begins to feed a run, nothing is read. *)
LEMMA TailKept ==
  ASSUME TailInv, UNCHANGED <<runs, lost, memory, log, accepted, monitor, updater, door>>,
         flag => flag',
         \A c \in Clients : request'[c].pc \in {"flag", "spawn", "publish"} =>
           request'[c].pc = request[c].pc /\ request'[c].run = request[c].run
  PROVE  TailInv'
<1>1. \A c \in Clients : RequestFeeds(c)'
  BY DEF TailInv, RequestFeeds, Fed
<1>2. \A g \in Gens : MonitorFeeds(g)'
  BY DEF TailInv, MonitorFeeds, Fed
<1>3. \A g \in Gens : MonitorHears(g)'
  BY DEF TailInv, MonitorHears, Heard, Mine
<1>4. QED
  BY <1>1, <1>2, <1>3 DEF TailInv

(* No monitor is at work: what becomes of the updater does not matter. *)
LEMMA TailAlone ==
  ASSUME TailInv, UNCHANGED <<runs, lost, memory, log, accepted, monitor>>,
         \A g \in Gens : monitor[g].pc \notin Busy,
         \A c \in Clients : RequestFeeds(c)'
  PROVE  TailInv'
<1>1. \A g \in Gens : MonitorFeeds(g)'
  BY DEF MonitorFeeds
<1>2. \A g \in Gens : MonitorHears(g)'
  BY DEF TailInv, MonitorHears, Heard, Mine
<1>3. QED
  BY <1>1, <1>2 DEF TailInv

LEMMA ServerGoneTail ==
  ASSUME RunnerTypeOK, TailInv, ServerGone
  PROVE  TailInv'
<1>1. /\ \A c \in Clients : request'[c].pc = "idle"
      /\ \A g \in Gens : monitor'[g].pc \in {"none", "done"} /\ (g <= runs => g \in lost')
      /\ runs' = runs
  BY ServerGoneDoes DEF ServerGone
<1>2. \A c \in Clients : RequestFeeds(c)'
  BY <1>1 DEF RequestFeeds
<1>3. \A g \in Gens : MonitorFeeds(g)'
  BY <1>1 DEF MonitorFeeds, Busy
<1>4. \A g \in Gens : g \in Mine' => g # runs'
  BY <1>1 DEF Mine, Gens
<1>5. \A g \in Gens : MonitorHears(g)'
  BY <1>4 DEF MonitorHears
<1>6. QED
  BY <1>2, <1>3, <1>5 DEF TailInv

LEMMA RequestTail ==
  ASSUME RunnerTypeOK, FlowInv, TailInv, Calm, NEW c \in Clients, RequestStep(c)
  PROVE  TailInv'
<1> DEFINE p == request[c].pc
           q == request'[c].pc
           feeding == {"flag", "spawn", "publish"}
<1>a. \A d \in Clients : d = c
  BY DEF Calm
<1>t. request \in [Clients -> Request]
  BY DEF RunnerTypeOK
<1>r. RequestIsAlone(c)
  BY DEF FlowInv
<1>k. ASSUME q \notin feeding,
             UNCHANGED <<runs, lost, memory, log, accepted, monitor, updater, door>>,
             flag => flag'
      PROVE  TailInv'
  BY <1>a, <1>k, TailKept
<1>q. ASSUME UNCHANGED <<runs, lost, memory, log, accepted, monitor>>, p \in Quiet,
             RequestFeeds(c)'
      PROVE  TailInv'
  <2>1. \A g \in Gens : monitor[g].pc \notin Busy
    BY <1>r, <1>q DEF RequestIsAlone
  <2>2. QED
    BY <1>a, <1>q, <2>1, TailAlone
<1>f. ASSUME q \notin feeding PROVE RequestFeeds(c)'
  BY <1>f DEF RequestFeeds
<1>1. CASE LogsCleaned(c)
  <2>1. p = "clean" /\ q = "claim"
    BY <1>1, <1>t, GoesAt, Places DEF At, LogsCleaned
  <2>2. \A g \in Gens : monitor[g].pc \notin Busy
    BY <1>r, <2>1 DEF RequestIsAlone, Quiet
  <2>3. UNCHANGED monitor /\ Len(log') = 0
    BY <1>1 DEF LogsCleaned
  <2>4. ASSUME NEW g \in Gens PROVE MonitorFeeds(g)' /\ MonitorHears(g)'
    BY <2>2, <2>3 DEF MonitorFeeds, MonitorHears, Heard, Busy
  <2>5. QED
    BY <1>a, <1>f, <2>1, <2>4 DEF TailInv
<1>2. CASE StartClaims(c)
  <2>1. UNCHANGED <<updater, door, flag, lost, log, monitor>>
    BY <1>2 DEF StartClaims, serverVars
  <2>2. q \notin feeding
    BY <1>2, StartClaimsDoes DEF In
  <2>3. CASE UNCHANGED <<status, runs, memory, accepted>>
    BY <1>k, <2>1, <2>2, <2>3
  <2>4. CASE status \notin Active /\ runs' = runs + 1
    <3>1. \A g \in Gens : monitor[g].pc \notin Busy
      BY <2>4 DEF FlowInv, MonitorIsOfTheRun, Active
    <3>2. ASSUME NEW g \in Gens, g = runs' PROVE monitor'[g] = NoMonitor
      <4>1. runs \in Nat
        BY DEF RunnerTypeOK
      <4>2. QED
        BY <2>1, <2>4, <3>2, <4>1 DEF FlowInv, MonitorIsOfTheRun
    <3>3. NoMonitor.pc = "none"
      BY DEF NoMonitor
    <3>4. ASSUME NEW g \in Gens PROVE MonitorFeeds(g)' /\ MonitorHears(g)'
      BY <2>1, <3>1, <3>2, <3>3 DEF MonitorFeeds, MonitorHears, Over
    <3>5. QED
      BY <1>a, <1>f, <2>2, <3>4 DEF TailInv
  <2>5. QED
    BY <1>2, <2>3, <2>4, StartClaimsDoes
<1>3. CASE StartCreatesUpdater(c)
  <2> DEFINE g == request[c].run
  <2>1. p = "create" /\ UNCHANGED <<runs, lost, memory, log, accepted, monitor>>
    BY <1>3 DEF StartCreatesUpdater, runVars
  <2>2. RequestFeeds(c)'
    <3>1. CASE At(c, "spawn") /\ ~memory[g]
      BY <2>1, <3>1 DEF At, RequestFeeds
    <3>2. CASE At(c, "flag") /\ updater' = g /\ door' = [door EXCEPT ![g] = "open"]
      BY <3>2 DEF At, RequestFeeds, Fed, RunnerTypeOK
    <3>3. CASE At(c, "fail")
      BY <1>f, <3>3 DEF At
    <3>4. QED
      BY <1>3, <3>1, <3>2, <3>3, StartCreatesUpdaterDoes
  <2>3. QED
    BY <1>q, <2>1, <2>2 DEF Quiet, Starting
<1>4. CASE StartSetsFlag(c)
  <2>1. /\ p = "flag" /\ request'[c].run = request[c].run /\ flag' = TRUE
        /\ UNCHANGED <<runs, lost, memory, log, accepted, monitor, updater, door>>
    BY <1>4, <1>t, GoesAt, Places DEF At, StartSetsFlag, runVars
  <2>2. RequestFeeds(c)'
    BY <2>1 DEF TailInv, RequestFeeds, Fed
  <2>3. QED
    BY <1>q, <2>1, <2>2 DEF Quiet, Starting
<1>5. CASE StartSpawns(c)
  <2>1. At(c, "publish") \/ At(c, "abort")
    BY <1>5, <1>t, GoesAt, Places DEF StartSpawns
  <2>2. /\ p = "spawn"
        /\ UNCHANGED <<runs, lost, memory, log, accepted, monitor, updater, door, flag>>
    BY <1>5 DEF StartSpawns, serverVars
  <2>3. RequestFeeds(c)'
    BY <2>1, <2>2 DEF TailInv, RequestFeeds, Fed, At
  <2>4. QED
    BY <1>q, <2>2, <2>3 DEF Quiet, Starting
<1>6. CASE StartPublishes(c)
  <2> DEFINE n == request[c].run
  <2>1. p = "publish" /\ UNCHANGED <<runs, lost, memory, log, accepted, updater, door, flag>>
    BY <1>6 DEF StartPublishes, runVars
  <2>2. /\ n = runs /\ runs \in Gens /\ monitor[runs] = NoMonitor
        /\ \A g \in Gens : monitor[g].pc \notin Busy
    BY <1>r, <2>1 DEF RequestIsAlone, Starting, Quiet
  <2>3. /\ q = "idle" /\ monitor'[n].pc = "begin" /\ monitor'[n].pos = 0
        /\ \A h \in Gens \ {n} : monitor'[h] = monitor[h]
    BY <1>6, <2>2, StartPublishesDoes DEF In, Watches, Keeps, NoMonitor
  <2>4. ASSUME NEW g \in Gens PROVE MonitorFeeds(g)'
    <3>1. memory[n] => Fed(n) /\ flag
      BY <2>1, <2>2 DEF TailInv, RequestFeeds
    <3>2. CASE g = n
      BY <2>1, <3>1, <3>2 DEF MonitorFeeds, Fed
    <3>3. CASE g # n
      BY <2>2, <2>3, <3>3 DEF MonitorFeeds
    <3>4. QED
      BY <3>2, <3>3
  <2>5. ASSUME NEW g \in Gens PROVE MonitorHears(g)'
    <3>1. CASE g = n
      <4>1. Len(log') \in Nat
        BY <2>1 DEF RunnerTypeOK
      <4>2. QED
        BY <2>3, <3>1, <4>1 DEF MonitorHears, Heard, Over
    <3>2. CASE g # n
      BY <2>1, <2>2, <3>2 DEF MonitorHears
    <3>3. QED
      BY <3>1, <3>2
  <2>6. QED
    BY <1>a, <1>f, <2>3, <2>4, <2>5 DEF TailInv
<1>7. CASE StartPublishFails(c)
  <2>1. q = "abort"
    BY <1>7, <1>t, GoesAt, Places DEF At, StartPublishFails
  <2>2. QED
    BY <1>7, <1>k, <2>1 DEF StartPublishFails
<1>8. CASE StartAborts(c)
  <2>1. p = "abort" /\ q = "fail"
    BY <1>8, <1>t, GoesAt, Places DEF At, StartAborts
  <2>2. QED
    BY <1>8, <1>q, <1>f, <2>1 DEF StartAborts, Quiet, Starting, runVars
<1>9. CASE StartFails(c)
  <2>1. q = "idle"
    BY <1>9, <1>t, RepliesIn DEF In, StartFails
  <2>2. QED
    BY <1>9, <1>k, <2>1 DEF StartFails, serverVars, runVars
<1>10. CASE StopLocks(c)
  BY <1>10, <1>k, StopLocksDoes DEF In, StopLocks, runVars
<1>11. CASE StopTerminates(c)
  <2>1. q = "join"
    BY <1>11, <1>t, GoesAt, Places DEF At, StopTerminates
  <2>2. QED
    BY <1>11, <1>k, <2>1 DEF StopTerminates
<1>12. CASE StopChoosesOwner(c)
  BY <1>12, <1>k, StopChoosesOwnerDoes DEF StopChoosesOwner, serverVars, runVars
<1>13. CASE StopJoined(c)
  BY <1>13, <1>k, StopJoinedDoes DEF In, StopJoined, serverVars, runVars
<1>14. CASE StopPending(c)
  BY <1>14, <1>k, <1>t, StopRaisesIn DEF In, StopPending, serverVars, runVars
<1>15. CASE StopFinishes(c)
  BY <1>15, <1>k, StopFinishesDoes DEF In, StopFinishes, runVars
<1>16. CASE StopClosesDoor(c)
  <2>1. p = "close" /\ q = "drain"
    BY <1>16, <1>t, GoesAt, Places DEF At, StopClosesDoor
  <2>2. QED
    BY <1>16, <1>q, <1>f, <2>1 DEF StopClosesDoor, Quiet, runVars
<1>17. CASE StopDrains(c)
  <2>1. p = "drain" /\ q \notin feeding
    BY <1>17, StopDrainsDoes DEF In
  <2>2. QED
    BY <1>17, <1>q, <1>f, <2>1 DEF StopDrains, Quiet, runVars
<1>18. CASE ShutdownPrepares(c)
  <2>1. At(c, "exit") \/ At(c, "stop") \/ At(c, "release")
    BY <1>18, <1>t, GoesAt, Places DEF ShutdownPrepares
  <2>2. QED
    BY <1>18, <1>k, <2>1 DEF At, ShutdownPrepares
<1>19. CASE ShutdownReleases(c)
  <2>1. q = "exit"
    BY <1>19, <1>t, GoesAt, Places DEF At, ShutdownReleases
  <2>2. QED
    BY <1>19, <1>k, <2>1 DEF ShutdownReleases, runVars
<1>20. CASE ServerExits(c)
  BY <1>20, ServerGoneTail DEF ServerExits
<1>21. QED
  BY <1>1, <1>2, <1>3, <1>4, <1>5, <1>6, <1>7, <1>8, <1>9, <1>10, <1>11, <1>12, <1>13,
     <1>14, <1>15, <1>16, <1>17, <1>18, <1>19, <1>20 DEF RequestStep

LEMMA MonitorTail ==
  ASSUME RunnerTypeOK, FlowInv, TailInv, NEW g \in Gens, MonitorStep(g) \/ MonitorFails(g)
  PROVE  TailInv'
<1> DEFINE p == monitor[g].pc
           q == monitor'[g].pc
           mine == g \in Mine /\ g = runs /\ memory[g]
<1> USE DEF Busy, Over
<1>t. monitor \in [Gens -> Monitor]
  BY DEF RunnerTypeOK
<1>u. UNCHANGED <<memory, log, lost, runs, request>>
  BY DEF MonitorStep, MonitorFails, MonitorBegins, MonitorReads, MonitorReadsLine, MonitorReadsEnd,
         MonitorLocks, MonitorClosesDoor, MonitorDrains, MonitorCleans, runVars
<1>f. MonitorFeeds(g) /\ MonitorHears(g)
  BY DEF TailInv
<1>n. Len(log) \in Nat /\ monitor[g].at \in Nat /\ monitor[g].pos \in Nat
  BY <1>t DEF RunnerTypeOK, Monitor
<1>b. ASSUME p \in Busy
      PROVE  /\ g = runs /\ \A h \in Gens \ {g} : monitor[h].pc \notin Busy
             /\ \A c \in Clients : request[c].pc \notin Starting
  BY <1>b DEF FlowInv, MonitorIsOfTheRun, RequestIsAlone, Quiet
<1>c. ASSUME UNCHANGED <<updater, door, flag>> \/ p \in Busy
      PROVE  \A c \in Clients : RequestFeeds(c)'
  <2>1. CASE UNCHANGED <<updater, door, flag>>
    BY <1>u, <2>1 DEF TailInv, RequestFeeds, Fed
  <2>2. CASE p \in Busy
    BY <1>b, <1>u, <2>2 DEF RequestFeeds, Starting
  <2>3. QED
    BY <1>c, <2>1, <2>2
<1>k. ASSUME UNCHANGED <<updater, door, flag>> \/ p \in Busy,
             \A h \in Gens \ {g} : monitor'[h] = monitor[h],
             \A h \in Gens \ {g} : p \in Busy \/ accepted'[h] = accepted[h],
             MonitorFeeds(g)', MonitorHears(g)'
      PROVE  TailInv'
  <2>1. ASSUME NEW h \in Gens \ {g} PROVE MonitorFeeds(h)'
    <3>1. CASE p \in Busy
      BY <1>b, <1>k, <3>1 DEF MonitorFeeds
    <3>2. CASE UNCHANGED <<updater, door, flag>>
      BY <1>u, <1>k, <3>2 DEF TailInv, MonitorFeeds, Fed
    <3>3. QED
      BY <1>k, <3>1, <3>2
  <2>2. ASSUME NEW h \in Gens \ {g} PROVE MonitorHears(h)'
    <3>1. CASE p \in Busy
      BY <1>b, <1>u, <3>1 DEF MonitorHears
    <3>2. CASE accepted'[h] = accepted[h]
      BY <1>u, <1>k, <3>2 DEF TailInv, MonitorHears, Heard, Mine
    <3>3. QED
      BY <1>k, <3>1, <3>2
  <2>3. QED
    BY <1>c, <1>k, <2>1, <2>2 DEF TailInv
<1>1. CASE MonitorBegins(g)
  <2>1. UNCHANGED <<updater, door, flag, accepted>>
    BY <1>1 DEF MonitorBegins, serverVars
  <2>2. process = g /\ p = "begin"
    BY <1>1 DEF FlowInv, MonitorIsOfTheRun, MonitorBegins
  <2>3. /\ q = "poll" /\ monitor'[g].pos = monitor[g].pos /\ monitor'[g].failed = monitor[g].failed
        /\ \A h \in Gens \ {g} : monitor'[h] = monitor[h]
    BY <1>1, <2>2, MonitorBeginsDoes DEF Watches, Gens
  <2>4. MonitorFeeds(g)'
    BY <1>f, <1>u, <2>1, <2>2, <2>3 DEF MonitorFeeds, Fed
  <2>5. MonitorHears(g)'
    BY <1>f, <1>u, <2>1, <2>2, <2>3 DEF MonitorHears, Heard, Mine
  <2>6. QED
    BY <1>k, <2>1, <2>3, <2>4, <2>5
<1>2. CASE MonitorReads(g)
  <2>1. UNCHANGED <<updater, door, flag, accepted>>
    BY <1>2 DEF MonitorReads, serverVars
  <2>2. /\ p = "poll" /\ q \in {"read", "final"} /\ monitor'[g].pos = monitor[g].pos
        /\ monitor'[g].at = monitor[g].pos /\ monitor'[g].failed = monitor[g].failed
        /\ monitor'[g].sink = IF flag THEN updater ELSE 0
        /\ \A h \in Gens \ {g} : monitor'[h] = monitor[h]
    BY <1>2, MonitorReadsDoes DEF Watches
  <2>3. MonitorFeeds(g)'
    BY <1>f, <1>u, <2>1, <2>2 DEF MonitorFeeds, Fed
  <2>4. MonitorHears(g)'
    <3>1. memory[g] => monitor'[g].sink = g
      BY <1>f, <2>2 DEF MonitorFeeds, Fed
    <3>2. QED
      BY <1>f, <1>u, <2>1, <2>2, <3>1 DEF MonitorHears, Heard, Mine
  <2>5. QED
    BY <1>k, <2>1, <2>2, <2>3, <2>4
<1>3. CASE MonitorReadsLine(g)
  <2>1. UNCHANGED <<updater, door, flag>>
    BY <1>3 DEF MonitorReadsLine, serverVars
  <2>2. /\ p \in {"read", "final"} /\ monitor[g].at < Len(log)
        /\ monitor'[g].pos = monitor[g].pos /\ monitor'[g].failed = monitor[g].failed
    BY <1>3, MonitorReadsLineDoes
  <2>3. q \in {"read", "final", "lock", "poll"} /\ \A h \in Gens \ {g} : monitor'[h] = monitor[h]
    BY <1>3, <2>2, MonitorReadsLineDoes DEF Watches, AfterReading
  <2>4. MonitorFeeds(g)'
    BY <1>f, <1>u, <2>1, <2>2, <2>3 DEF MonitorFeeds, Fed
  <2>5. MonitorHears(g)'
    <3> SUFFICES ASSUME mine PROVE MonitorHears(g)'
      BY <1>u, <2>2 DEF MonitorHears, Mine
    <3>1. monitor[g].sink = g /\ door[g] = "open" /\ g # 0
      BY <1>f, <2>2 DEF MonitorHears, MonitorFeeds, Fed, Gens
    <3>2. /\ q = p /\ monitor'[g].at = monitor[g].at + 1 /\ monitor'[g].sink = g
          /\ accepted' = [accepted EXCEPT ![g] = @ \cup {monitor[g].at + 1}]
      BY <1>3, <3>1, MonitorReadsLineDoes DEF Watches
    <3>3. accepted'[g] = accepted[g] \cup {monitor[g].at + 1}
      BY <3>2 DEF RunnerTypeOK
    <3>4. Heard(g, monitor[g].pos) /\ Heard(g, monitor[g].at) /\ monitor[g].pos <= Len(log)
      BY <1>f, <2>2 DEF MonitorHears
    <3>5. \A i \in 1..monitor[g].pos : log[i] = g => i \in accepted'[g]
      BY <3>3, <3>4 DEF Heard
    <3>6. \A i \in 1..(monitor[g].at + 1) : log[i] = g => i \in accepted'[g]
      BY <1>n, <3>3, <3>4 DEF Heard
    <3>7. QED
      BY <1>n, <1>u, <2>2, <3>2, <3>4, <3>5, <3>6 DEF MonitorHears, Heard
  <2>6. QED
    BY <1>k, <2>1, <2>2, <2>3, <2>4, <2>5
<1>4. CASE MonitorReadsEnd(g)
  <2>1. UNCHANGED <<updater, door, flag, accepted>>
    BY <1>4 DEF MonitorReadsEnd, serverVars
  <2>2. /\ p \in {"read", "final"} /\ monitor[g].at >= Len(log)
        /\ monitor'[g].pos = monitor[g].at /\ monitor'[g].failed = monitor[g].failed
        /\ q \in {"lock", "poll"} /\ \A h \in Gens \ {g} : monitor'[h] = monitor[h]
    BY <1>4, MonitorReadsEndDoes DEF Watches, AfterReading
  <2>3. MonitorFeeds(g)'
    BY <1>f, <1>u, <2>1, <2>2 DEF MonitorFeeds, Fed
  <2>4. MonitorHears(g)'
    <3> SUFFICES ASSUME mine PROVE MonitorHears(g)'
      BY <1>u, <2>2 DEF MonitorHears, Mine
    <3>1. monitor[g].at <= Len(log) /\ Heard(g, monitor[g].at)
      BY <1>f, <2>2 DEF MonitorHears
    <3>2. monitor[g].at = Len(log)
      BY <1>n, <2>2, <3>1
    <3>3. QED
      BY <1>n, <1>u, <2>1, <2>2, <3>1, <3>2 DEF MonitorHears, Heard
  <2>5. QED
    BY <1>k, <2>1, <2>2, <2>3, <2>4
<1>5. CASE MonitorFails(g)
  <2>1. UNCHANGED <<updater, door, flag, accepted>>
    BY <1>5 DEF MonitorFails, serverVars
  <2>2. /\ p = "poll" /\ q = "lock" /\ monitor'[g].failed
        /\ \A h \in Gens \ {g} : monitor'[h] = monitor[h]
    BY <1>5, MonitorFailsDoes DEF Watches
  <2>3. MonitorFeeds(g)'
    BY <1>f, <1>u, <2>1, <2>2 DEF MonitorFeeds, Fed
  <2>4. MonitorHears(g)'
    BY <2>2 DEF MonitorHears, Mine
  <2>5. QED
    BY <1>k, <2>1, <2>2, <2>3, <2>4
<1>o. ASSUME p \in Over, q \in {"close", "drain", "clean", "done"},
             monitor'[g].failed = monitor[g].failed,
             \A h \in Gens \ {g} : monitor'[h] = monitor[h], UNCHANGED accepted,
             UNCHANGED <<updater, door, flag>> \/ p \in Busy
      PROVE  TailInv'
  <2>1. MonitorFeeds(g)'
    BY <1>o DEF MonitorFeeds
  <2>2. MonitorHears(g)'
    BY <1>f, <1>u, <1>o DEF MonitorHears, Heard, Mine
  <2>3. QED
    BY <1>k, <1>o, <2>1, <2>2
<1>6. CASE MonitorLocks(g)
  <2>1. UNCHANGED <<updater, door, flag, accepted>>
    BY <1>6 DEF MonitorLocks
  <2>2. QED
    BY <1>6, <1>o, <2>1, MonitorLocksDoes DEF Watches
<1>7. CASE MonitorClosesDoor(g)
  <2>1. p = "close" /\ UNCHANGED accepted
    BY <1>7 DEF MonitorClosesDoor
  <2>2. QED
    BY <1>7, <1>o, <1>t, <2>1, MovesDoes, Places DEF MonitorClosesDoor, Watches, Keeps
<1>8. CASE MonitorDrains(g)
  <2>1. p = "drain" /\ UNCHANGED accepted
    BY <1>8 DEF MonitorDrains
  <2>2. QED
    BY <1>8, <1>o, <1>t, <2>1, LeavesDoes DEF MonitorDrains, Watches
<1>9. CASE MonitorCleans(g)
  <2>1. p = "clean" /\ UNCHANGED <<updater, door, flag, accepted>>
    BY <1>9 DEF MonitorCleans
  <2>2. QED
    BY <1>9, <1>o, <1>t, <2>1, MovesDoes, Places DEF MonitorCleans, Watches, Keeps
<1>10. QED
  BY <1>1, <1>2, <1>3, <1>4, <1>5, <1>6, <1>7, <1>8, <1>9 DEF MonitorStep

(* A line of a child whose exit its monitor has not seen. *)
LEMMA ChildTail ==
  ASSUME RunnerTypeOK, FlowInv, ChildInv, TailInv, NEW w \in Gens, ChildWrites(w)
  PROVE  TailInv'
<1>1. /\ child[w] = "alive" /\ log' = Append(log, w)
      /\ UNCHANGED <<runs, lost, memory, accepted, monitor, updater, door, flag, request>>
  BY DEF ChildWrites, serverVars
<1>2. \A c \in Clients : RequestFeeds(c)'
  BY <1>1 DEF TailInv, RequestFeeds, Fed
<1>3. \A g \in Gens : MonitorFeeds(g)'
  BY <1>1 DEF TailInv, MonitorFeeds, Fed
<1>4. ASSUME NEW g \in Gens PROVE MonitorHears(g)'
  <2> SUFFICES ASSUME g \in Mine, g = runs, memory[g] PROVE MonitorHears(g)'
    BY <1>1 DEF MonitorHears, Mine
  <2>1. log \in Seq(Gens) /\ Len(log) \in Nat
    BY DEF RunnerTypeOK
  <2>2. /\ Len(log') = Len(log) + 1 /\ log'[Len(log) + 1] = w
        /\ \A i \in 1..Len(log) : log'[i] = log[i]
    BY <1>1, <2>1
  <2>3. monitor[g].pos \in Nat /\ monitor[g].at \in Nat
    BY DEF RunnerTypeOK, Monitor
  <2>4. ASSUME NEW n \in Nat, n <= Len(log), Heard(g, n)
        PROVE  n <= Len(log') /\ Heard(g, n)'
    BY <1>1, <2>1, <2>2, <2>4 DEF Heard
  <2>5. ASSUME monitor[g].pc \in Over, Heard(g, Len(log)) PROVE Heard(g, Len(log))'
    <3>1. NoMonitor.pc = "none"
      BY DEF NoMonitor
    <3>2. w # g
      BY <1>1, <2>5, <3>1 DEF ChildInv, Over, FlowInv, RequestIsAlone, Starting
    <3>3. QED
      BY <1>1, <2>1, <2>2, <2>5, <3>2 DEF Heard
  <2>6. MonitorHears(g)
    BY DEF TailInv
  <2>7. QED
    BY <1>1, <2>3, <2>4, <2>5, <2>6 DEF MonitorHears
<1>5. QED
  BY <1>2, <1>3, <1>4 DEF TailInv

LEMMA NextTail ==
  ASSUME Calm
  PROVE  RunnerTypeOK /\ FlowInv /\ ChildInv /\ TailInv /\ [RunnerNext]_runnerVars => TailInv'
<1> SUFFICES ASSUME RunnerTypeOK, FlowInv, ChildInv, TailInv, [RunnerNext]_runnerVars PROVE TailInv'
  OBVIOUS
<1>1. ASSUME NEW c \in Clients,
             \/ \E force, mem \in BOOLEAN : StartRequested(c, force, mem)
             \/ StopRequested(c) \/ EnvClosed(c) \/ ShutdownRequested(c)
      PROVE  TailInv'
  <2>1. UNCHANGED <<runs, lost, memory, log, accepted, monitor, updater, door, flag>>
    BY <1>1 DEF StartRequested, StopRequested, EnvClosed, ShutdownRequested, runVars, serverVars
  <2>2. request' = request \/ request'[c].pc \in {"claim", "stop", "clean", "shutdown"}
    <3>1. CASE \E force, mem \in BOOLEAN : StartRequested(c, force, mem)
      BY <3>1, StartRequestedDoes DEF In
    <3>2. CASE StopRequested(c)
      BY <3>2, GoesAt, Places DEF StopRequested, At, RunnerTypeOK
    <3>3. CASE EnvClosed(c)
      BY <3>3 DEF EnvClosed
    <3>4. CASE ShutdownRequested(c)
      BY <3>4, ShutdownRequestedDoes DEF In
    <3>5. QED
      BY <1>1, <3>1, <3>2, <3>3, <3>4
  <2>3. \A d \in Clients : d = c
    BY DEF Calm
  <2>4. QED
    BY <2>1, <2>2, <2>3, TailKept
<1>2. ASSUME NEW c \in Clients, RequestStep(c)
      PROVE  TailInv'
  BY <1>2, RequestTail
<1>3. ASSUME NEW g \in Gens, MonitorStep(g) \/ MonitorFails(g)
      PROVE  TailInv'
  BY <1>3, MonitorTail
<1>4. ASSUME NEW g \in Gens, ChildWrites(g)
      PROVE  TailInv'
  BY <1>4, ChildTail
<1>5. ASSUME NEW g \in Gens, ChildExits(g)
      PROVE  TailInv'
  BY <1>5, TailKept DEF ChildExits, serverVars
<1>6. CASE UpdaterDiscarded
  <2>1. /\ status = "failed"
        /\ UNCHANGED <<runs, lost, memory, log, accepted, monitor, request>>
    BY <1>6 DEF UpdaterDiscarded, runVars
  <2>2. /\ \A g \in Gens : monitor[g].pc \notin Busy
        /\ \A c \in Clients : request[c].pc \notin Starting
    BY <2>1 DEF FlowInv, MonitorIsOfTheRun, RequestIsAlone
  <2>3. \A c \in Clients : RequestFeeds(c)'
    BY <2>1, <2>2 DEF RequestFeeds, Starting
  <2>4. QED
    BY <2>1, <2>2, <2>3, TailAlone
<1>7. CASE Crash
  BY <1>7, ServerGoneTail DEF Crash
<1>8. CASE UNCHANGED runnerVars
  BY <1>8, TailKept DEF runnerVars, runVars, serverVars
<1>9. QED
  BY <1>1, <1>2, <1>3, <1>4, <1>5, <1>6, <1>7, <1>8 DEF RunnerNext

(* What the monitors have handed over, under the same two assumptions.     *)
THEOREM TailInvHolds ==
  ASSUME Calm
  PROVE  RunnerSpec => [](RunnerTypeOK /\ FlowInv /\ ChildInv /\ TailInv)
<1>1. QED
  BY ChildInvHolds, InitTail, NextTail, PTL DEF RunnerSpec

(* What the child of a published run wrote up to its end reached the       *)
(* updater before it was drained: _monitor_simulation reads once more      *)
(* after the exit, and stop_simulation waits for it.                       *)
THEOREM TailIngestedHolds ==
  ASSUME Calm
  PROVE  RunnerSpec => []TailIngested
<1>1. ASSUME RunnerTypeOK, FlowInv, TailInv PROVE TailIngested
  <2>1. ASSUME NEW g \in Mine, g = runs, memory[g], status \in {"completed", "stopped"},
               monitor[g].pc # "none"
        PROVE  \A i \in DOMAIN log : log[i] = g => i \in accepted[g]
    <3>1. g \in Gens /\ monitor[g].pc \in MonitorPC
      BY <1>1 DEF Mine, RunnerTypeOK, Monitor
    <3>2. monitor[g].pc \in Over
      BY <1>1, <2>1, <3>1 DEF FlowInv, MonitorIsOfTheRun, MonitorPC, Busy, Over
    <3>3. Heard(g, Len(log))
      BY <1>1, <2>1, <3>1, <3>2 DEF TailInv, MonitorHears
    <3>4. DOMAIN log = 1..Len(log)
      BY <1>1 DEF RunnerTypeOK
    <3>5. QED
      BY <3>3, <3>4 DEF Heard
  <2>2. QED
    BY <2>1 DEF TailIngested
<1>2. QED
  BY <1>1, TailInvHolds, PTL
=============================================================================
