--------------------------- MODULE OasisRunProofs ---------------------------
(***************************************************************************)
(* Proofs about OasisRun for any executions, runs, platforms and lines:    *)
(* type correctness; no child is started beside a live one; and, when      *)
(* executions do not overlap, what the rows of a run hold and, when a file *)
(* is read at once, what a published run and the graph hold.               *)
(***************************************************************************)
EXTENDS OasisRun, FiniteSetTheorems, TLAPS

USE RunAssumption

-----------------------------------------------------------------------------
(* The inductive invariants *)

(* The executions that poll a child, or are past the last poll. *)
Playing == {"poll", "read", "end", "judge", "append", "decide", "ingest", "finish"}

(* The child of direct_runtime.json is the only live one; an execution has *)
(* a child of its own only once it has started one; and a process that     *)
(* plays has a log to end.                                                 *)
ChildrenInv ==
  /\ \A e \in Execs : exec[e].pc \in Playing => runtime.child # 0
  /\ \A c \in Execs : child[c] \in {"running", "waiting"} => runtime.child = c
  /\ \A e \in Execs : exec[e].pc \in {"idle", "clear", "start"} => child[e] = "none"
  /\ \A c \in Execs : child[c] = "running" => \E p \in Platforms : ~log[c][p].ended
  /\ \A c \in Execs : child[c] = "none" => \A p \in Platforms : ~log[c][p].ended

(* The actions of child c up to a cursor. *)
UpTo(c, cursor) == {a \in Action : a.of = c /\ a.nth <= cursor[a.platform]}

Turns ==
  \A d, e \in Execs : d < e /\ exec[e].pc # "idle" => exec[d].pc \in Ended

(* What an execution holds is what it has read of the child, and the rows  *)
(* of its run are what it has appended.                                    *)
Holds(e) ==
  /\ exec[e].pc = "start" => rows[exec[e].run] = {}
  /\ exec[e].pc \in {"clear", "start"} =>
       /\ exec[e].kept = {} /\ exec[e].got = {} /\ exec[e].ended = {}
       /\ \A p \in Platforms : exec[e].cursor[p] = 0
  /\ exec[e].pc \in Playing =>
       /\ exec[e].kept \cup exec[e].got = UpTo(runtime.child, exec[e].cursor)
       /\ rows[exec[e].run] = exec[e].kept
  /\ exec[e].pc \in {"poll", "decide", "ingest", "finish"} => exec[e].got = {}

RowsInv == Turns /\ RowsArePrefix /\ \A e \in Execs : Holds(e)

(* Child c came to its own end, and this is all that it did. *)
CameToItsEnd(c) == child[c] # "cut" /\ \A p \in Platforms : log[c][p].ended

(* What an execution has seen of the ends of the logs is true, and it has  *)
(* read the log up to there.                                               *)
Sees(e) ==
  LET c == runtime.child IN
  /\ \A p \in Platforms : exec[e].cursor[p] <= log[c][p].n
  /\ exec[e].pc = "end" =>
       exec[e].cursor[Order[exec[e].at]] = log[c][Order[exec[e].at]].n
  /\ \A p \in exec[e].ended : log[c][p].ended /\ exec[e].cursor[p] = log[c][p].n
  /\ exec[e].pc \in {"append", "decide"} => exec[e].verdict = "failed" \/ child[c] # "cut"
  /\ exec[e].pc \notin {"append", "decide"} => child[c] # "cut"
  /\ exec[e].pc = "append" /\ exec[e].verdict = "completed" => exec[e].ended = Platforms
  /\ exec[e].pc = "decide" /\ exec[e].verdict = "completed" =>
       \A p \in Platforms : log[c][p].ended /\ exec[e].cursor[p] = log[c][p].n
  /\ exec[e].pc \in {"ingest", "finish"} =>
       /\ \A p \in Platforms : log[c][p].ended /\ exec[e].cursor[p] = log[c][p].n
       /\ exec[e].kept # {}
  /\ exec[e].pc = "finish" => checkpoint[exec[e].run] = "completed"

Ingested(c) == CameToItsEnd(c) /\ Whole(c) # {} /\ Whole(c) \subseteq memory

WholeInv ==
  /\ \A e \in Execs : exec[e].pc \in Playing => Sees(e)
  /\ \A r \in Runs : checkpoint[r] = "completed" => \E c \in Execs : Ingested(c)
  /\ \A r \in Runs : result[r] # {} =>
       /\ checkpoint[r] = "completed"
       /\ \E c \in Execs : result[r] = Whole(c) /\ CameToItsEnd(c)

-----------------------------------------------------------------------------
(* What the steps do to an execution *)

Only(e) ==
  /\ exec' \in [Execs -> Exec]
  /\ \A d \in Execs \ {e} : exec'[d] = exec[d]

LEMMA PlatformsAreOrdered ==
  /\ Platforms # {}
  /\ \A i \in 1..Len(Order) : Order[i] \in Platforms
  /\ Len(Order) \in Nat \ {0}
<1>1. Len(Order) \in Nat /\ Len(Order) # 0
  OBVIOUS
<1>2. Order[1] \in Platforms
  BY <1>1 DEF Platforms
<1>3. QED
  BY <1>1, <1>2 DEF Platforms

LEMMA FreshIsTyped ==
  ASSUME NEW r \in Runs
  PROVE  /\ Fresh(r) \in Exec
         /\ Fresh(r).run = r /\ Fresh(r).got = {} /\ Fresh(r).kept = {}
         /\ Fresh(r).ended = {} /\ Fresh(r).verdict = "running" /\ Fresh(r).at = 1
         /\ \A p \in Platforms : Fresh(r).cursor[p] = 0
<1>1. [p \in Platforms |-> 0] \in [Platforms -> 0..Lines]
  OBVIOUS
<1>2. 1 \in 1..Len(Order)
  BY PlatformsAreOrdered
<1>3. QED
  BY <1>1, <1>2 DEF Fresh, Exec

LEMMA ExecIsTyped ==
  ASSUME NEW x \in Exec
  PROVE  /\ x.run \in Runs /\ x.at \in 1..Len(Order) /\ x.cursor \in [Platforms -> 0..Lines]
         /\ x.got \subseteq Action /\ x.kept \subseteq Action /\ x.ended \subseteq Platforms
         /\ x.verdict \in {"running", "completed", "failed"}
         /\ x.pc \in {"idle", "clear", "start", "poll", "read", "end", "judge", "append",
                      "decide", "ingest", "finish", "done", "failed", "dead"}
  BY DEF Exec

LEMMA GoesOn ==
  ASSUME RunTypeOK, NEW e \in Execs,
         NEW pc \in {"start", "poll", "ingest", "finish"}, Goes(e, pc)
  PROVE  /\ Only(e) /\ exec'[e].pc = pc /\ exec'[e].run = exec[e].run
         /\ exec'[e].cursor = exec[e].cursor /\ exec'[e].got = exec[e].got
         /\ exec'[e].kept = exec[e].kept /\ exec'[e].ended = exec[e].ended
         /\ exec'[e].verdict = exec[e].verdict /\ exec'[e].at = exec[e].at
<1>1. exec' = [exec EXCEPT ![e].pc = pc]
  BY DEF Goes, Ended
<1>2. exec \in [Execs -> Exec]
  BY DEF RunTypeOK
<1>3. QED
  BY <1>1, <1>2 DEF Only, Exec

LEMMA GoesOut ==
  ASSUME RunTypeOK, NEW e \in Execs, NEW pc \in Ended, Goes(e, pc)
  PROVE  Only(e) /\ exec'[e].pc = pc
<1>1. exec \in [Execs -> Exec]
  BY DEF RunTypeOK
<1>2. exec' = [exec EXCEPT ![e] = [Fresh(exec[e].run) EXCEPT !.pc = pc]]
  BY DEF Goes
<1>3. Fresh(exec[e].run) \in Exec
  BY <1>1, FreshIsTyped, ExecIsTyped
<1>4. [Fresh(exec[e].run) EXCEPT !.pc = pc] \in Exec
  BY <1>3 DEF Exec, Ended
<1>5. [Fresh(exec[e].run) EXCEPT !.pc = pc].pc = pc
  BY <1>3 DEF Exec
<1>6. QED
  BY <1>1, <1>2, <1>4, <1>5 DEF Only

LEMMA BeginsEffect ==
  ASSUME RunTypeOK, NEW e \in Execs, NEW r \in Runs, ExecBegins(e, r)
  PROVE  /\ Only(e) /\ exec'[e].pc = "clear" /\ exec'[e].run = r
         /\ exec'[e].kept = {} /\ exec'[e].got = {} /\ exec'[e].ended = {}
         /\ \A p \in Platforms : exec'[e].cursor[p] = 0
<1>1. exec \in [Execs -> Exec]
  BY DEF RunTypeOK
<1>2. exec' = [exec EXCEPT ![e] = [Fresh(r) EXCEPT !.pc = "clear"]]
  BY DEF ExecBegins
<1>3. PICK x : x = [Fresh(r) EXCEPT !.pc = "clear"]
  OBVIOUS
<1>4. /\ x.pc = "clear" /\ x.run = r /\ x.kept = {} /\ x.got = {} /\ x.ended = {}
      /\ (\A p \in Platforms : x.cursor[p] = 0) /\ x \in Exec
  BY <1>3, FreshIsTyped DEF Exec
<1>5. exec' = [exec EXCEPT ![e] = x]
  BY <1>2, <1>3
<1>6. exec'[e] = x /\ Only(e)
  BY <1>1, <1>4, <1>5 DEF Only
<1>7. QED
  BY <1>4, <1>6

LEMMA ChecksEffect ==
  ASSUME RunTypeOK, NEW e \in Execs, ChecksControl(e), control[e] = "running"
  PROVE  /\ Only(e) /\ exec'[e].pc = "read" /\ exec'[e].run = exec[e].run
         /\ exec'[e].cursor = exec[e].cursor /\ exec'[e].kept = exec[e].kept
         /\ exec'[e].got = {} /\ exec'[e].ended = {}
<1>1. exec \in [Execs -> Exec]
  BY DEF RunTypeOK
<1>2. PICK x : x = [exec[e] EXCEPT !.pc = "read", !.at = 1, !.got = {}, !.ended = {}]
  OBVIOUS
<1>3. /\ x.pc = "read" /\ x.run = exec[e].run /\ x.cursor = exec[e].cursor
      /\ x.kept = exec[e].kept /\ x.got = {} /\ x.ended = {}
  BY <1>1, <1>2 DEF Exec
<1>6. x \in Exec
  <2>1. 1 \in 1..Len(Order)
    BY PlatformsAreOrdered
  <2>2. QED
    BY <1>1, <1>2, <2>1 DEF Exec
<1>4. exec' = [exec EXCEPT ![e] = x]
  BY <1>1, <1>2 DEF ChecksControl
<1>5. exec'[e] = x /\ Only(e)
  BY <1>1, <1>6, <1>4 DEF Only
<1>7. QED
  BY <1>3, <1>5

LEMMA ReadsEffect ==
  ASSUME RunTypeOK, NEW e \in Execs, ReadsLog(e), NEW c \in Execs, runtime.child = c,
         NEW p \in Platforms, Order[exec[e].at] = p, NEW n \in Nat, log[c][p].n = n
  PROVE  /\ Only(e) /\ exec'[e].pc = "end" /\ exec'[e].run = exec[e].run
         /\ exec'[e].at = exec[e].at /\ exec'[e].kept = exec[e].kept
         /\ exec'[e].ended = exec[e].ended
         /\ exec'[e].got = exec[e].got \cup
              {a \in Action : a.of = c /\ a.platform = p /\ exec[e].cursor[p] < a.nth /\ a.nth <= n}
         /\ \A q \in Platforms \ {p} : exec'[e].cursor[q] = exec[e].cursor[q]
         /\ exec'[e].cursor[p] = IF n > exec[e].cursor[p] THEN n ELSE exec[e].cursor[p]
<1> DEFINE from == exec[e].cursor[p]
           new == {[of |-> c, platform |-> p, nth |-> i] : i \in (from + 1)..n}
<1>1. exec \in [Execs -> Exec]
  BY DEF RunTypeOK
<1>2. from \in 0..Lines /\ n \in 0..Lines /\ Lines \in Nat
  BY <1>1, ExecIsTyped DEF RunTypeOK
<1>3. new = {a \in Action : a.of = c /\ a.platform = p /\ from < a.nth /\ a.nth <= n}
  BY <1>2 DEF Action
<1>4. PICK x : x = [exec[e] EXCEPT !.pc = "end",
                      !.cursor[p] = IF n > from THEN n ELSE from, !.got = @ \cup new]
  OBVIOUS
<1>5. new \subseteq Action
  BY <1>3
<1> HIDE DEF new, from
<1>6. PICK cur \in [Platforms -> 0..Lines] :
         cur = [exec[e].cursor EXCEPT ![p] = IF n > from THEN n ELSE from]
  BY <1>1, <1>2, ExecIsTyped
<1>7. x = [exec[e] EXCEPT !.pc = "end", !.cursor = cur, !.got = exec[e].got \cup new]
  BY <1>1, <1>4, <1>6 DEF Exec
<1>8. exec[e].got \cup new \subseteq Action
  BY <1>1, <1>5, ExecIsTyped
<1>9. x \in Exec
  BY <1>1, <1>7, <1>8 DEF Exec
<1>10. /\ x.pc = "end" /\ x.run = exec[e].run /\ x.at = exec[e].at /\ x.kept = exec[e].kept
       /\ x.ended = exec[e].ended /\ x.got = exec[e].got \cup new /\ x.cursor = cur
  BY <1>1, <1>7 DEF Exec
<1>11. /\ \A q \in Platforms \ {p} : cur[q] = exec[e].cursor[q]
       /\ cur[p] = IF n > from THEN n ELSE from
  BY <1>1, <1>6, ExecIsTyped
<1>12. exec' = [exec EXCEPT ![e] = x]
  BY <1>1, <1>4 DEF ReadsLog, new, from
<1>13. exec'[e] = x /\ Only(e)
  BY <1>1, <1>9, <1>12 DEF Only
<1>14. QED
  BY <1>3, <1>10, <1>11, <1>13 DEF from

LEMMA LooksEffect ==
  ASSUME RunTypeOK, NEW e \in Execs, LooksForEnd(e), NEW c \in Execs, runtime.child = c,
         NEW p \in Platforms, Order[exec[e].at] = p
  PROVE  /\ Only(e) /\ exec'[e].pc \in {"read", "judge"} /\ exec'[e].run = exec[e].run
         /\ exec'[e].kept = exec[e].kept /\ exec'[e].got = exec[e].got
         /\ exec'[e].cursor = exec[e].cursor
         /\ exec'[e].ended = IF log[c][p].ended THEN exec[e].ended \cup {p} ELSE exec[e].ended
<1>1. exec \in [Execs -> Exec]
  BY DEF RunTypeOK
<1>2. PICK last \in BOOLEAN : last <=> exec[e].at = Len(Order)
  OBVIOUS
<1>3. PICK at \in 1..Len(Order) : at = IF last THEN 1 ELSE exec[e].at + 1
  BY <1>1, <1>2, ExecIsTyped, PlatformsAreOrdered
<1>4. PICK en \in SUBSET Platforms :
         en = IF log[c][p].ended THEN exec[e].ended \cup {p} ELSE exec[e].ended
  BY <1>1, ExecIsTyped
<1>5. PICK pc \in {"read", "judge"} : pc = IF last THEN "judge" ELSE "read"
  OBVIOUS
<1>6. PICK x : x = [exec[e] EXCEPT !.ended = en, !.pc = pc, !.at = at]
  OBVIOUS
<1>7. /\ x.pc = pc /\ x.run = exec[e].run /\ x.kept = exec[e].kept /\ x.got = exec[e].got
      /\ x.cursor = exec[e].cursor /\ x.ended = en /\ x \in Exec
  BY <1>1, <1>6 DEF Exec
<1>8. exec' = [exec EXCEPT ![e] = x]
  BY <1>1, <1>2, <1>3, <1>4, <1>5, <1>6 DEF LooksForEnd
<1>9. exec'[e] = x /\ Only(e)
  BY <1>1, <1>7, <1>8 DEF Only
<1>10. QED
  BY <1>4, <1>7, <1>9

LEMMA VerdictEffect ==
  ASSUME RunTypeOK, NEW e \in Execs, NEW v \in {"running", "completed", "failed"}, Verdict(e, v)
  PROVE  /\ Only(e) /\ exec'[e].pc = "append" /\ exec'[e].run = exec[e].run
         /\ exec'[e].kept = exec[e].kept /\ exec'[e].got = exec[e].got
         /\ exec'[e].cursor = exec[e].cursor /\ exec'[e].ended = exec[e].ended
         /\ exec'[e].verdict = v
         /\ runtime' \in Runtime /\ runtime'.child = runtime.child
<1>1. exec \in [Execs -> Exec] /\ runtime \in Runtime
  BY DEF RunTypeOK
<1>2. runtime' \in Runtime /\ runtime'.child = runtime.child
  BY <1>1 DEF Verdict, Runtime
<1>3. QED
  BY <1>1, <1>2 DEF Verdict, Only, Exec

LEMMA AppendsEffect ==
  ASSUME RunTypeOK, NEW e \in Execs, AppendsRows(e)
  PROVE  /\ Only(e) /\ exec'[e].pc = "decide" /\ exec'[e].run = exec[e].run
         /\ exec'[e].kept = exec[e].kept \cup exec[e].got /\ exec'[e].got = {}
         /\ exec'[e].cursor = exec[e].cursor /\ exec'[e].ended = {}
         /\ exec'[e].verdict = exec[e].verdict
         /\ rows'[exec[e].run] = rows[exec[e].run] \cup exec[e].got
         /\ \A r \in Runs : r # exec[e].run => rows'[r] = rows[r]
         /\ rows' \in [Runs -> SUBSET Action]
<1>1. exec \in [Execs -> Exec] /\ rows \in [Runs -> SUBSET Action]
  BY DEF RunTypeOK
<1>2. exec[e].run \in Runs /\ exec[e].got \subseteq Action /\ exec[e].kept \subseteq Action
  BY <1>1, ExecIsTyped
<1>3. PICK x : x = [exec[e] EXCEPT !.pc = "decide", !.kept = exec[e].kept \cup exec[e].got,
                                   !.got = {}, !.ended = {}]
  OBVIOUS
<1>4. /\ x.pc = "decide" /\ x.run = exec[e].run /\ x.kept = exec[e].kept \cup exec[e].got
      /\ x.got = {} /\ x.cursor = exec[e].cursor /\ x.ended = {}
      /\ x.verdict = exec[e].verdict
  BY <1>1, <1>3 DEF Exec
<1>5. x \in Exec
  BY <1>1, <1>2, <1>3 DEF Exec
<1>6. exec' = [exec EXCEPT ![e] = x]
  BY <1>1, <1>3 DEF AppendsRows, Exec
<1>7. exec'[e] = x /\ Only(e)
  BY <1>1, <1>5, <1>6 DEF Only
<1>8. rows' = [rows EXCEPT ![exec[e].run] = @ \cup exec[e].got]
  BY DEF AppendsRows
<1>9. /\ rows'[exec[e].run] = rows[exec[e].run] \cup exec[e].got
      /\ \A r \in Runs : r # exec[e].run => rows'[r] = rows[r]
      /\ rows' \in [Runs -> SUBSET Action]
  BY <1>1, <1>2, <1>8
<1>10. QED
  BY <1>4, <1>7, <1>9

-----------------------------------------------------------------------------
(* What the steps do to the children and their logs *)

Logs == [Execs -> [Platforms -> [n: 0..Lines, ended: BOOLEAN]]]
Processes == [Execs -> {"none", "running", "waiting", "dead", "cut"}]

LEMMA StopsEffect ==
  ASSUME RunTypeOK, NEW c \in 0..MaxExecs, Stops(c)
  PROVE  /\ child' \in Processes /\ log' \in Logs
         /\ \A d \in Execs : \/ child'[d] = child[d] /\ log'[d] = log[d]
                             \/ d = c /\ child[d] \in {"running", "waiting"} /\ child'[d] = "dead"
                                      /\ log'[d] = log[d]
                             \/ d = c /\ child[d] = "running" /\ child'[d] = "cut"
         /\ \A d \in Execs, p \in Platforms :
              log'[d][p].n = log[d][p].n /\ (log[d][p].ended => log'[d][p].ended)
<1>1. child \in Processes /\ log \in Logs
  BY DEF RunTypeOK, Processes, Logs
<1>2. CASE UNCHANGED <<child, log>>
  BY <1>1, <1>2
<1>3. CASE Alive(c) /\ child' = [child EXCEPT ![c] = "dead"] /\ UNCHANGED log
  BY <1>1, <1>3 DEF Alive, Processes, Execs
<1>4. ASSUME Alive(c), child[c] = "running", child' = [child EXCEPT ![c] = "cut"],
             log' = [log EXCEPT ![c] = [p \in Platforms |-> [@[p] EXCEPT !.ended = TRUE]]]
      PROVE  /\ child' \in Processes /\ log' \in Logs
             /\ \A d \in Execs : \/ child'[d] = child[d] /\ log'[d] = log[d]
                                 \/ d = c /\ child[d] = "running" /\ child'[d] = "cut"
             /\ \A d \in Execs, p \in Platforms :
                  log'[d][p].n = log[d][p].n /\ (log[d][p].ended => log'[d][p].ended)
  <2>1. c \in Execs
    BY <1>4 DEF Alive, Execs
  <2>2. PICK l \in [Platforms -> [n: 0..Lines, ended: BOOLEAN]] :
           l = [p \in Platforms |-> [log[c][p] EXCEPT !.ended = TRUE]]
    BY <1>1, <2>1 DEF Logs
  <2>3. \A p \in Platforms : l[p].n = log[c][p].n /\ l[p].ended
    BY <1>1, <2>1, <2>2 DEF Logs
  <2>4. log' = [log EXCEPT ![c] = l]
    BY <1>4, <2>2
  <2>5. log' \in Logs /\ log'[c] = l /\ \A d \in Execs \ {c} : log'[d] = log[d]
    BY <1>1, <2>1, <2>4 DEF Logs
  <2>6. child' \in Processes /\ child'[c] = "cut" /\ \A d \in Execs \ {c} : child'[d] = child[d]
    BY <1>1, <1>4, <2>1 DEF Processes
  <2>7. QED
    BY <1>4, <2>3, <2>5, <2>6
<1>5. QED
  BY <1>2, <1>3, <1>4 DEF Stops

LEMMA RoundEffect ==
  ASSUME RunTypeOK, NEW c \in Execs, NEW p \in Platforms, LogsRound(c, p)
  PROVE  /\ log' \in Logs /\ child[c] = "running" /\ ~log[c][p].ended
         /\ log'[c][p].n = log[c][p].n + 1
         /\ \A d \in Execs, q \in Platforms :
              /\ log'[d][q].ended = log[d][q].ended
              /\ (d # c \/ q # p) => log'[d][q].n = log[d][q].n
<1>1. log \in Logs
  BY DEF RunTypeOK, Logs
<1>2. log[c][p] \in [n: 0..Lines, ended: BOOLEAN] /\ log[c][p].n < Lines
  BY <1>1 DEF Logs, LogsRound
<1>3. PICK m \in 0..Lines : m = log[c][p].n + 1
  BY <1>2
<1>4. PICK l \in [n: 0..Lines, ended: BOOLEAN] : l = [log[c][p] EXCEPT !.n = m]
  BY <1>2
<1>5. l.n = m /\ l.ended = log[c][p].ended
  BY <1>2, <1>4
<1>6. log' = [log EXCEPT ![c] = [log[c] EXCEPT ![p] = l]]
  BY <1>1, <1>3, <1>4 DEF LogsRound, Logs
<1>7. /\ log' \in Logs /\ log'[c][p] = l
      /\ \A d \in Execs, q \in Platforms : (d # c \/ q # p) => log'[d][q] = log[d][q]
  BY <1>1, <1>6 DEF Logs
<1>8. QED
  BY <1>3, <1>5, <1>7 DEF LogsRound

LEMMA EndEffect ==
  ASSUME RunTypeOK, NEW c \in Execs, NEW p \in Platforms, LogsEnd(c, p)
  PROVE  /\ log' \in Logs /\ child' \in Processes /\ child[c] = "running" /\ ~log[c][p].ended
         /\ log'[c][p].ended
         /\ \A d \in Execs, q \in Platforms :
              /\ log'[d][q].n = log[d][q].n
              /\ (d # c \/ q # p) => log'[d][q].ended = log[d][q].ended
         /\ \A d \in Execs : d # c => child'[d] = child[d]
         /\ \/ child'[c] = "waiting"
            \/ child'[c] = "running" /\ \E q \in Platforms \ {p} : ~log[c][q].ended
<1>1. log \in Logs /\ child \in Processes
  BY DEF RunTypeOK, Logs, Processes
<1>2. log[c][p] \in [n: 0..Lines, ended: BOOLEAN]
  BY <1>1 DEF Logs
<1>3. PICK l \in [n: 0..Lines, ended: BOOLEAN] : l = [log[c][p] EXCEPT !.ended = TRUE]
  BY <1>2
<1>4. l.n = log[c][p].n /\ l.ended
  BY <1>2, <1>3
<1>5. log' = [log EXCEPT ![c] = [log[c] EXCEPT ![p] = l]]
  BY <1>1, <1>3 DEF LogsEnd, Logs
<1>6. /\ log' \in Logs /\ log'[c][p] = l
      /\ \A d \in Execs, q \in Platforms : (d # c \/ q # p) => log'[d][q] = log[d][q]
  BY <1>1, <1>5 DEF Logs
<1>7. /\ child' \in Processes /\ \A d \in Execs : d # c => child'[d] = child[d]
      /\ \/ child'[c] = "waiting"
         \/ child'[c] = "running" /\ \E q \in Platforms \ {p} : ~log[c][q].ended
  <2>1. CASE \A q \in Platforms \ {p} : log[c][q].ended
    <3>1. child' = [child EXCEPT ![c] = "waiting"]
      BY <1>1, <2>1 DEF LogsEnd, Processes
    <3>2. QED
      BY <1>1, <3>1 DEF Processes
  <2>2. CASE ~\A q \in Platforms \ {p} : log[c][q].ended
    <3>1. child' = child /\ child[c] = "running"
      BY <1>1, <2>2 DEF LogsEnd, Processes
    <3>2. QED
      BY <1>1, <2>2, <3>1
  <2>3. QED
    BY <2>1, <2>2
<1>8. QED
  BY <1>4, <1>6, <1>7 DEF LogsEnd

LEMMA StartsEffect ==
  ASSUME RunTypeOK, NEW e \in Execs, StartsChild(e)
  PROVE  /\ child' \in Processes /\ runtime' \in Runtime
         /\ exec[e].pc = "start" /\ UNCHANGED <<log, rows>>
         /\ \/ /\ child' = child /\ runtime' = runtime /\ runtime.child \in Execs
               /\ child[runtime.child] \in {"running", "waiting"}
            \/ /\ runtime'.child = e /\ child'[e] = "running"
               /\ \A c \in Execs \ {e} :
                    IF c = runtime.child /\ child[c] \in {"running", "waiting"}
                      THEN child'[c] = "dead" ELSE child'[c] = child[c]
<1>1. child \in Processes /\ runtime \in Runtime
  BY DEF RunTypeOK, Processes
<1>2. CASE runtime.status = "running" /\ Alive(runtime.child)
  <2>1. child' = child /\ runtime' = runtime
    BY <1>2 DEF StartsChild
  <2>2. runtime.child \in Execs /\ child[runtime.child] \in {"running", "waiting"}
    BY <1>1, <1>2 DEF Alive, Runtime, Execs
  <2>3. QED
    BY <1>1, <2>1, <2>2 DEF StartsChild
<1>3. CASE ~(runtime.status = "running" /\ Alive(runtime.child))
  <2>1. /\ runtime' = [status |-> "running", child |-> e]
        /\ child' = [c \in Execs |-> IF c = e THEN "running"
                       ELSE IF c = runtime.child /\ Alive(c) THEN "dead" ELSE child[c]]
    BY <1>3 DEF StartsChild
  <2>2. \A c \in Execs : Alive(c) <=> child[c] \in {"running", "waiting"}
    BY DEF Alive, Execs
  <2>3. runtime' \in Runtime /\ runtime'.child = e
    BY <2>1 DEF Runtime, Execs
  <2>4. child' \in Processes
    BY <1>1, <2>1 DEF Processes
  <2>5. QED
    BY <2>1, <2>2, <2>3, <2>4 DEF StartsChild
<1>4. QED
  BY <1>2, <1>3

LEMMA DiesEffect ==
  ASSUME RunTypeOK, NEW c \in Execs, ChildDies(c)
  PROVE  /\ child' \in Processes /\ child'[c] = "dead"
         /\ \A d \in Execs \ {c} : child'[d] = child[d]
  BY DEF RunTypeOK, Processes, ChildDies

-----------------------------------------------------------------------------
(* Types and children *)

(* Steps that leave the children alone.  No execution takes up a child it  *)
(* did not poll, and none returns to where it had none.                    *)
LEMMA ChildrenFrame ==
  ASSUME ChildrenInv, NEW e \in Execs, Only(e), UNCHANGED <<child, log>>,
         runtime'.child = runtime.child,
         exec'[e].pc \in Playing => exec[e].pc \in Playing,
         exec'[e].pc \in {"idle", "clear", "start"} => exec[e].pc \in {"idle", "clear", "start"}
  PROVE  ChildrenInv'
<1>1. \A d \in Execs : exec'[d].pc \in Playing => exec[d].pc \in Playing
  BY DEF Only
<1>2. \A d \in Execs : exec'[d].pc \in {"idle", "clear", "start"}
                         => exec[d].pc \in {"idle", "clear", "start"}
  BY DEF Only
<1>3. QED
  BY <1>1, <1>2 DEF ChildrenInv

LEMMA StopsKeepsChildren ==
  ASSUME RunTypeOK, ChildrenInv, NEW e \in Execs, Only(e),
         NEW c \in 0..MaxExecs, Stops(c),
         runtime'.child = runtime.child,
         exec'[e].pc \in Playing => exec[e].pc \in Playing,
         exec'[e].pc \notin {"idle", "clear", "start"}
  PROVE  ChildrenInv'
<1>1. \A d \in Execs : exec'[d].pc \in Playing => exec[d].pc \in Playing
  BY DEF Only
<1>2. \A d \in Execs : exec'[d].pc \in {"idle", "clear", "start"}
                         => exec[d].pc \in {"idle", "clear", "start"}
  BY DEF Only
<1>3. \A d \in Execs : \/ child'[d] = child[d] /\ log'[d] = log[d]
                       \/ child[d] \in {"running", "waiting"} /\ child'[d] \in {"dead", "cut"}
  BY StopsEffect
<1>4. QED
  BY <1>1, <1>2, <1>3 DEF ChildrenInv

LEMMA StepTypes ==
  ASSUME RunTypeOK, exec' \in [Execs -> Exec], UNCHANGED <<rows, memory, checkpoint, result>>,
         child' \in Processes, log' \in Logs, runtime' \in Runtime,
         mapping' \in {"ready", "running", "completed", "failed"},
         control' \in [Execs -> {"running", "other"}]
  PROVE  RunTypeOK'
  BY DEF RunTypeOK, Processes, Logs

LEMMA WorldTypes ==
  ASSUME RunTypeOK
  PROVE  /\ exec \in [Execs -> Exec] /\ child \in Processes /\ log \in Logs
         /\ runtime \in Runtime /\ runtime.child \in 0..MaxExecs
         /\ mapping \in {"ready", "running", "completed", "failed"}
         /\ control \in [Execs -> {"running", "other"}]
  BY DEF RunTypeOK, Processes, Logs, Runtime

LEMMA BeginsKeeps ==
  ASSUME RunTypeOK, ChildrenInv, NEW e \in Execs, NEW r \in Runs, ExecBegins(e, r)
  PROVE  RunTypeOK' /\ ChildrenInv'
<1>1. Only(e) /\ exec'[e].pc = "clear"
  BY BeginsEffect
<1>2. /\ exec[e].pc = "idle"
      /\ UNCHANGED <<child, log, runtime, rows, memory, checkpoint, mapping, result>>
  BY DEF ExecBegins
<1>3. control' \in [Execs -> {"running", "other"}]
  BY DEF RunTypeOK, ExecBegins
<1>4. RunTypeOK'
  BY <1>1, <1>2, <1>3, WorldTypes, StepTypes DEF Only
<1>5. QED
  BY <1>1, <1>2, <1>4, ChildrenFrame DEF Playing

LEMMA ClearsKeeps ==
  ASSUME RunTypeOK, ChildrenInv, NEW e \in Execs, ClearsRows(e)
  PROVE  RunTypeOK' /\ ChildrenInv'
<1>1. /\ exec[e].pc = "clear" /\ Goes(e, "start") /\ rows' = [rows EXCEPT ![exec[e].run] = {}]
      /\ UNCHANGED <<control, child, log, runtime, memory, checkpoint, mapping, result>>
  BY DEF ClearsRows
<1>2. Only(e) /\ exec'[e].pc = "start"
  BY <1>1, GoesOn
<1>3. rows' \in [Runs -> SUBSET Action]
  BY <1>1 DEF RunTypeOK
<1>4. RunTypeOK'
  BY <1>1, <1>2, <1>3 DEF RunTypeOK, Only
<1>5. QED
  BY <1>1, <1>2, <1>4, ChildrenFrame DEF Playing

LEMMA StartsKeeps ==
  ASSUME RunTypeOK, ChildrenInv, NEW e \in Execs, StartsChild(e)
  PROVE  RunTypeOK' /\ ChildrenInv'
<1>1. /\ exec[e].pc = "start" /\ Goes(e, "poll") /\ mapping' = "running"
      /\ UNCHANGED <<control, log, rows, memory, checkpoint, result>>
  BY DEF StartsChild
<1>2. Only(e) /\ exec'[e].pc = "poll"
  BY <1>1, GoesOn
<1>3. child' \in Processes /\ runtime' \in Runtime
  BY StartsEffect
<1>4. RunTypeOK'
  BY <1>1, <1>2, <1>3, WorldTypes, StepTypes DEF Only
<1>5. \A d \in Execs \ {e} : exec'[d] = exec[d]
  BY <1>2 DEF Only
<1>6. CASE /\ child' = child /\ runtime' = runtime /\ runtime.child \in Execs
           /\ child[runtime.child] \in {"running", "waiting"}
  <2>1. runtime.child # 0
    BY <1>6 DEF Execs
  <2>2. QED
    BY <1>1, <1>2, <1>4, <1>5, <1>6, <2>1 DEF ChildrenInv, Playing
<1>7. CASE /\ runtime'.child = e /\ child'[e] = "running"
           /\ \A c \in Execs \ {e} :
                IF c = runtime.child /\ child[c] \in {"running", "waiting"}
                  THEN child'[c] = "dead" ELSE child'[c] = child[c]
  <2>1. e # 0
    BY DEF Execs
  <2>2. \A d \in Execs \ {e} : child'[d] \notin {"running", "waiting"}
    BY <1>7 DEF ChildrenInv
  <2>3. \A d \in Execs \ {e} : child[d] = "none" <=> child'[d] = "none"
    BY <1>7
  <2>4. \A p \in Platforms : ~log[e][p].ended
    BY <1>1 DEF ChildrenInv
  <2>5. \A c \in Execs : child'[c] = "running" => \E p \in Platforms : ~log[c][p].ended
    BY <2>2, <2>4, PlatformsAreOrdered
  <2>6. \A c \in Execs : child'[c] = "none" => \A p \in Platforms : ~log[c][p].ended
    BY <2>3, <2>4 DEF ChildrenInv
  <2>7. \A d \in Execs : exec'[d].pc \in {"idle", "clear", "start"} => child'[d] = "none"
    BY <1>2, <1>5, <2>3 DEF ChildrenInv
  <2>8. \A c \in Execs : child'[c] \in {"running", "waiting"} => runtime'.child = c
    BY <1>7, <2>2
  <2>9. QED
    BY <1>1, <1>4, <1>7, <2>1, <2>5, <2>6, <2>7, <2>8 DEF ChildrenInv
<1>8. QED
  BY <1>6, <1>7, StartsEffect

LEMMA ChecksKeeps ==
  ASSUME RunTypeOK, ChildrenInv, NEW e \in Execs, ChecksControl(e)
  PROVE  RunTypeOK' /\ ChildrenInv'
<1>1. exec[e].pc = "poll" /\ UNCHANGED <<control, runtime, rows, memory, checkpoint, result>>
  BY DEF ChecksControl
<1>2. CASE control[e] = "running"
  <2>1. Only(e) /\ exec'[e].pc = "read"
    BY <1>2, ChecksEffect
  <2>2. UNCHANGED <<child, log, mapping>>
    BY <1>2 DEF ChecksControl
  <2>3. RunTypeOK'
    BY <1>1, <2>1, <2>2, WorldTypes, StepTypes DEF Only
  <2>4. QED
    BY <1>1, <2>1, <2>2, <2>3, ChildrenFrame DEF Playing
<1>3. CASE control[e] # "running"
  <2>1. PICK c \in 0..MaxExecs : c = runtime.child
    BY WorldTypes
  <2>2. Stops(c) /\ Goes(e, "failed") /\ mapping' = "failed"
    BY <1>3, <2>1 DEF ChecksControl
  <2>3. Only(e) /\ exec'[e].pc = "failed"
    BY <2>2, GoesOut DEF Ended
  <2>4. child' \in Processes /\ log' \in Logs
    BY <2>2, StopsEffect
  <2>5. RunTypeOK'
    BY <1>1, <2>2, <2>3, <2>4, WorldTypes, StepTypes DEF Only
  <2>6. QED
    BY <1>1, <2>2, <2>3, <2>5, StopsKeepsChildren DEF Playing
<1>4. QED
  BY <1>2, <1>3

(* An execution that polls has a child, and looks at one platform. *)
LEMMA Looking ==
  ASSUME RunTypeOK, ChildrenInv, NEW e \in Execs, exec[e].pc \in Playing
  PROVE  /\ runtime.child \in Execs /\ Order[exec[e].at] \in Platforms
         /\ log[runtime.child][Order[exec[e].at]].n \in 0..Lines
         /\ \A p \in Platforms : exec[e].cursor[p] \in 0..Lines
<1>1. exec[e] \in Exec
  BY WorldTypes
<1>2. Order[exec[e].at] \in Platforms
  BY <1>1, ExecIsTyped, PlatformsAreOrdered
<1>3. runtime.child \in Execs
  BY WorldTypes DEF ChildrenInv, Execs
<1>4. log[runtime.child][Order[exec[e].at]].n \in 0..Lines
  BY <1>2, <1>3, WorldTypes DEF Logs
<1>5. QED
  BY <1>1, <1>2, <1>3, <1>4, ExecIsTyped

LEMMA ReadsKeeps ==
  ASSUME RunTypeOK, ChildrenInv, NEW e \in Execs, ReadsLog(e)
  PROVE  RunTypeOK' /\ ChildrenInv'
<1>1. /\ exec[e].pc = "read"
      /\ UNCHANGED <<control, child, log, runtime, rows, memory, checkpoint, mapping, result>>
  BY DEF ReadsLog
<1>2. PICK c \in Execs, p \in Platforms : c = runtime.child /\ p = Order[exec[e].at]
  BY <1>1, Looking DEF Playing
<1>3. PICK n \in Nat : n = log[c][p].n
  BY <1>1, <1>2, Looking DEF Playing
<1>4. Only(e) /\ exec'[e].pc = "end"
  BY <1>2, <1>3, ReadsEffect
<1>5. RunTypeOK'
  BY <1>1, <1>4, WorldTypes, StepTypes DEF Only
<1>6. QED
  BY <1>1, <1>4, <1>5, ChildrenFrame DEF Playing

LEMMA LooksKeeps ==
  ASSUME RunTypeOK, ChildrenInv, NEW e \in Execs, LooksForEnd(e)
  PROVE  RunTypeOK' /\ ChildrenInv'
<1>1. /\ exec[e].pc = "end"
      /\ UNCHANGED <<control, child, log, runtime, rows, memory, checkpoint, mapping, result>>
  BY DEF LooksForEnd
<1>2. PICK c \in Execs, p \in Platforms : c = runtime.child /\ p = Order[exec[e].at]
  BY <1>1, Looking DEF Playing
<1>3. Only(e) /\ exec'[e].pc \in {"read", "judge"}
  BY <1>2, LooksEffect
<1>4. RunTypeOK'
  BY <1>1, <1>3, WorldTypes, StepTypes DEF Only
<1>5. QED
  BY <1>1, <1>3, <1>4, ChildrenFrame DEF Playing

(* The three ways in which Judges passes. *)
LEMMA JudgesEffect ==
  ASSUME RunTypeOK, NEW e \in Execs, Judges(e), NEW c \in 0..MaxExecs, runtime.child = c
  PROVE  /\ exec[e].pc = "judge"
         /\ UNCHANGED <<control, rows, memory, checkpoint, mapping, result>>
         /\ \/ Stops(c) /\ Verdict(e, "failed")
            \/ exec[e].ended = Platforms /\ Verdict(e, "completed") /\ UNCHANGED <<child, log>>
            \/ Verdict(e, "running") /\ UNCHANGED <<child, log>>
            \/ Verdict(e, "failed") /\ UNCHANGED <<child, log>>
<1>1. /\ exec[e].pc = "judge"
      /\ UNCHANGED <<control, rows, memory, checkpoint, mapping, result>>
  BY DEF Judges
<1>2. PICK b \in BOOLEAN : b <=> exec[e].ended = Platforms
  OBVIOUS
<1>3. PICK v \in {"running", "failed"} : v = IF Alive(c) THEN "running" ELSE "failed"
  OBVIOUS
<1>4. \/ Stops(c) /\ Verdict(e, "failed")
      \/ exec[e].ended = Platforms /\ Verdict(e, "completed") /\ UNCHANGED <<child, log>>
      \/ Verdict(e, v) /\ UNCHANGED <<child, log>>
  BY <1>2, <1>3 DEF Judges, Verdict, Alive
<1>5. QED
  BY <1>1, <1>3, <1>4

LEMMA JudgesKeeps ==
  ASSUME RunTypeOK, ChildrenInv, NEW e \in Execs, Judges(e)
  PROVE  RunTypeOK' /\ ChildrenInv'
<1>1. PICK c \in 0..MaxExecs : c = runtime.child
  BY WorldTypes
<1>2. exec[e].pc = "judge" /\ UNCHANGED <<control, rows, memory, checkpoint, mapping, result>>
  BY <1>1, JudgesEffect
<1>3. ASSUME NEW v \in {"running", "completed", "failed"}, Verdict(e, v),
             Stops(c) \/ UNCHANGED <<child, log>>
      PROVE  RunTypeOK' /\ ChildrenInv'
  <2>1. Only(e) /\ exec'[e].pc = "append" /\ runtime' \in Runtime /\ runtime'.child = runtime.child
    BY <1>3, VerdictEffect
  <2>2. child' \in Processes /\ log' \in Logs
    BY <1>3, StopsEffect, WorldTypes
  <2>3. RunTypeOK'
    BY <1>2, <2>1, <2>2, WorldTypes, StepTypes DEF Only
  <2>4. QED
    BY <1>2, <1>3, <2>1, <2>3, ChildrenFrame, StopsKeepsChildren DEF Playing
<1>4. QED
  BY <1>1, <1>3, JudgesEffect

LEMMA AppendsKeeps ==
  ASSUME RunTypeOK, ChildrenInv, NEW e \in Execs, AppendsRows(e)
  PROVE  RunTypeOK' /\ ChildrenInv'
<1>1. /\ exec[e].pc = "append"
      /\ UNCHANGED <<control, child, log, runtime, memory, checkpoint, mapping, result>>
  BY DEF AppendsRows
<1>2. Only(e) /\ exec'[e].pc = "decide" /\ rows' \in [Runs -> SUBSET Action]
  BY AppendsEffect
<1>3. RunTypeOK'
  BY <1>1, <1>2 DEF RunTypeOK, Only
<1>4. QED
  BY <1>1, <1>2, <1>3, ChildrenFrame DEF Playing

LEMMA DecidesEffect ==
  ASSUME RunTypeOK, NEW e \in Execs, Decides(e)
  PROVE  /\ exec[e].pc = "decide"
         /\ UNCHANGED <<control, child, log, runtime, rows, memory, checkpoint, result>>
         /\ mapping' \in {"running", "failed", "completed"}
         /\ \/ exec[e].verdict = "running" /\ Goes(e, "poll")
            \/ Goes(e, "failed")
            \/ /\ exec[e].verdict = "completed" /\ rows[exec[e].run] # {}
               /\ Goes(e, "finish") /\ exec[e].kept = {}
            \/ /\ exec[e].verdict = "completed" /\ rows[exec[e].run] # {}
               /\ Goes(e, "ingest") /\ exec[e].kept # {}
<1>1. exec[e].verdict \in {"running", "completed", "failed"}
  BY WorldTypes, ExecIsTyped
<1>2. CASE exec[e].kept = {}
  BY <1>1, <1>2 DEF Decides
<1>3. CASE exec[e].kept # {}
  BY <1>1, <1>3 DEF Decides
<1>4. QED
  BY <1>2, <1>3

LEMMA DecidesKeeps ==
  ASSUME RunTypeOK, ChildrenInv, NEW e \in Execs, Decides(e)
  PROVE  RunTypeOK' /\ ChildrenInv'
<1>1. /\ exec[e].pc = "decide" /\ mapping' \in {"running", "failed", "completed"}
      /\ UNCHANGED <<control, child, log, runtime, rows, memory, checkpoint, result>>
  BY DecidesEffect
<1>2. Only(e) /\ exec'[e].pc \in {"poll", "failed", "finish", "ingest"}
  BY DecidesEffect, GoesOn, GoesOut DEF Ended
<1>3. RunTypeOK'
  BY <1>1, <1>2, WorldTypes, StepTypes DEF Only
<1>4. QED
  BY <1>1, <1>2, <1>3, ChildrenFrame DEF Playing

(* What may be in the graph and in the checkpoint after a call of the      *)
(* bridge.                                                                 *)
LEMMA IngestsEffect ==
  ASSUME RunTypeOK, NEW e \in Execs, Ingests(e)
  PROVE  /\ exec[e].pc = "ingest" /\ UNCHANGED <<control, child, log, runtime, rows, result>>
         /\ mapping' \in {mapping, "failed"}
         /\ memory \subseteq memory' /\ memory' \subseteq Action
         /\ checkpoint' \in [Runs -> {"none", "running", "completed"}]
         /\ \A r \in Runs \ {exec[e].run} : checkpoint'[r] = checkpoint[r]
         /\ checkpoint[exec[e].run] = "completed" => checkpoint'[exec[e].run] = "completed"
         /\ \/ checkpoint'[exec[e].run] = "completed"
               /\ (checkpoint[exec[e].run] = "completed" \/ exec[e].kept \subseteq memory')
               /\ (Goes(e, "finish") \/ Goes(e, "failed"))
            \/ checkpoint'[exec[e].run] = "running" /\ Goes(e, "failed")
<1>1. /\ exec[e].run \in Runs /\ exec[e].kept \subseteq Action /\ memory \subseteq Action
      /\ checkpoint \in [Runs -> {"none", "running", "completed"}]
  BY WorldTypes, ExecIsTyped DEF RunTypeOK
<1>2. /\ exec[e].pc = "ingest" /\ UNCHANGED <<control, child, log, runtime, rows, result>>
      /\ mapping' \in {mapping, "failed"}
  BY DEF Ingests
<1>3. CASE checkpoint[exec[e].run] = "completed" /\ Goes(e, "finish")
             /\ UNCHANGED <<memory, checkpoint, mapping>>
  BY <1>1, <1>2, <1>3
<1>4. CASE /\ memory' = memory \cup exec[e].kept
           /\ checkpoint' = [checkpoint EXCEPT ![exec[e].run] = "completed"]
           /\ (Goes(e, "finish") \/ Goes(e, "failed"))
  <2>1. /\ memory \subseteq memory' /\ memory' \subseteq Action
        /\ exec[e].kept \subseteq memory'
    BY <1>1, <1>4
  <2>2. /\ checkpoint'[exec[e].run] = "completed"
        /\ \A r \in Runs \ {exec[e].run} : checkpoint'[r] = checkpoint[r]
        /\ checkpoint' \in [Runs -> {"none", "running", "completed"}]
    BY <1>1, <1>4
  <2>3. QED
    BY <1>2, <1>4, <2>1, <2>2
<1>5. CASE /\ \E p \in Platforms :
                memory' \in {memory, memory \cup {a \in exec[e].kept : a.platform = p}}
           /\ checkpoint[exec[e].run] # "completed"
           /\ checkpoint' = [checkpoint EXCEPT ![exec[e].run] = "running"]
           /\ Goes(e, "failed")
  <2>1. memory \subseteq memory' /\ memory' \subseteq Action
    BY <1>1, <1>5
  <2>2. /\ checkpoint'[exec[e].run] = "running"
        /\ \A r \in Runs \ {exec[e].run} : checkpoint'[r] = checkpoint[r]
        /\ checkpoint' \in [Runs -> {"none", "running", "completed"}]
    BY <1>1, <1>5
  <2>3. QED
    BY <1>2, <1>5, <2>1, <2>2
<1>6. QED
  BY <1>3, <1>4, <1>5 DEF Ingests

LEMMA IngestsKeeps ==
  ASSUME RunTypeOK, ChildrenInv, NEW e \in Execs, Ingests(e)
  PROVE  RunTypeOK' /\ ChildrenInv'
<1>1. /\ exec[e].pc = "ingest" /\ UNCHANGED <<control, child, log, runtime, rows, result>>
      /\ mapping' \in {mapping, "failed"} /\ memory' \subseteq Action
      /\ checkpoint' \in [Runs -> {"none", "running", "completed"}]
  BY IngestsEffect
<1>2. Only(e) /\ exec'[e].pc \in {"failed", "finish"}
  BY IngestsEffect, GoesOn, GoesOut DEF Ended
<1>3. RunTypeOK'
  BY <1>1, <1>2 DEF RunTypeOK, Only
<1>4. QED
  BY <1>1, <1>2, <1>3, ChildrenFrame DEF Playing

LEMMA FinishesEffect ==
  ASSUME RunTypeOK, NEW e \in Execs, Finishes(e)
  PROVE  /\ exec[e].pc = "finish" /\ Goes(e, "done") /\ mapping' = "completed"
         /\ UNCHANGED <<control, child, log, runtime, rows, memory, checkpoint>>
         /\ result' \in [Runs -> SUBSET Action]
         /\ result'[exec[e].run] = rows[exec[e].run]
         /\ \A r \in Runs \ {exec[e].run} : result'[r] = result[r]
<1>1. /\ exec[e].run \in Runs /\ rows \in [Runs -> SUBSET Action]
      /\ result \in [Runs -> SUBSET Action]
  BY WorldTypes, ExecIsTyped DEF RunTypeOK
<1>2. PICK s \in SUBSET Action : s = rows[exec[e].run]
  BY <1>1
<1>3. result' = [result EXCEPT ![exec[e].run] = s]
  BY <1>2 DEF Finishes
<1>4. QED
  BY <1>1, <1>2, <1>3 DEF Finishes

LEMMA FinishesKeeps ==
  ASSUME RunTypeOK, ChildrenInv, NEW e \in Execs, Finishes(e)
  PROVE  RunTypeOK' /\ ChildrenInv'
<1>1. /\ exec[e].pc = "finish" /\ Goes(e, "done") /\ mapping' = "completed"
      /\ UNCHANGED <<control, child, log, runtime, rows, memory, checkpoint>>
      /\ result' \in [Runs -> SUBSET Action]
  BY FinishesEffect
<1>2. Only(e) /\ exec'[e].pc = "done"
  BY <1>1, GoesOut DEF Ended
<1>3. RunTypeOK'
  BY <1>1, <1>2 DEF RunTypeOK, Only
<1>4. QED
  BY <1>1, <1>2, <1>3, ChildrenFrame DEF Playing

LEMMA ExecFailsKeeps ==
  ASSUME RunTypeOK, ChildrenInv, NEW e \in Execs, ExecFails(e)
  PROVE  RunTypeOK' /\ ChildrenInv'
<1>1. /\ Goes(e, "failed") /\ mapping' \in {mapping, "failed"}
      /\ UNCHANGED <<control, child, log, runtime, rows, memory, checkpoint, result>>
  BY DEF ExecFails
<1>2. Only(e) /\ exec'[e].pc = "failed"
  BY <1>1, GoesOut DEF Ended
<1>3. RunTypeOK'
  BY <1>1, <1>2, WorldTypes, StepTypes DEF Only
<1>4. QED
  BY <1>1, <1>2, <1>3, ChildrenFrame DEF Playing

LEMMA WorkerDiesKeeps ==
  ASSUME RunTypeOK, ChildrenInv, NEW e \in Execs, WorkerDies(e)
  PROVE  RunTypeOK' /\ ChildrenInv'
<1>1. /\ Goes(e, "dead")
      /\ UNCHANGED <<control, child, log, runtime, rows, memory, checkpoint, mapping, result>>
  BY DEF WorkerDies
<1>2. Only(e) /\ exec'[e].pc = "dead"
  BY <1>1, GoesOut DEF Ended
<1>3. RunTypeOK'
  BY <1>1, <1>2, WorldTypes, StepTypes DEF Only
<1>4. QED
  BY <1>1, <1>2, <1>3, ChildrenFrame DEF Playing

LEMMA ControlKeeps ==
  ASSUME RunTypeOK, ChildrenInv, NEW e \in Execs, ControlChanges(e)
  PROVE  RunTypeOK' /\ ChildrenInv'
  BY DEF ControlChanges, RunTypeOK, ChildrenInv

LEMMA RoundKeeps ==
  ASSUME RunTypeOK, ChildrenInv, NEW c \in Execs, NEW p \in Platforms, LogsRound(c, p)
  PROVE  RunTypeOK' /\ ChildrenInv'
<1>1. UNCHANGED <<exec, control, child, runtime, rows, memory, checkpoint, mapping, result>>
  BY DEF LogsRound
<1>2. log' \in Logs /\ \A d \in Execs, q \in Platforms : log'[d][q].ended = log[d][q].ended
  BY RoundEffect
<1>3. RunTypeOK'
  BY <1>1, <1>2, WorldTypes, StepTypes
<1>4. QED
  BY <1>1, <1>2, <1>3 DEF ChildrenInv

LEMMA EndKeeps ==
  ASSUME RunTypeOK, ChildrenInv, NEW c \in Execs, NEW p \in Platforms, LogsEnd(c, p)
  PROVE  RunTypeOK' /\ ChildrenInv'
<1>1. UNCHANGED <<exec, control, runtime, rows, memory, checkpoint, mapping, result>>
  BY DEF LogsEnd
<1>2. /\ log' \in Logs /\ child' \in Processes /\ child[c] = "running"
      /\ \A d \in Execs, q \in Platforms :
           (d # c \/ q # p) => log'[d][q].ended = log[d][q].ended
      /\ \A d \in Execs : d # c => child'[d] = child[d]
      /\ \/ child'[c] = "waiting"
         \/ child'[c] = "running" /\ \E q \in Platforms \ {p} : ~log[c][q].ended
  BY EndEffect
<1>3. RunTypeOK'
  BY <1>1, <1>2, WorldTypes, StepTypes
<1>4. \A d \in Execs : child'[d] = "running" => \E q \in Platforms : ~log'[d][q].ended
  BY <1>2 DEF ChildrenInv
<1>5. \A d \in Execs : child'[d] = "none" => \A q \in Platforms : ~log'[d][q].ended
  BY <1>2 DEF ChildrenInv
<1>6. \A d \in Execs : child'[d] \in {"running", "waiting"} => runtime.child = d
  BY <1>2 DEF ChildrenInv
<1>7. \A d \in Execs : exec[d].pc \in {"idle", "clear", "start"} => child'[d] = "none"
  BY <1>2 DEF ChildrenInv
<1>8. QED
  BY <1>1, <1>3, <1>4, <1>5, <1>6, <1>7 DEF ChildrenInv

LEMMA DiesKeeps ==
  ASSUME RunTypeOK, ChildrenInv, NEW c \in Execs, ChildDies(c)
  PROVE  RunTypeOK' /\ ChildrenInv'
<1>1. /\ UNCHANGED <<exec, control, log, runtime, rows, memory, checkpoint, mapping, result>>
      /\ child[c] \in {"running", "waiting"}
  BY DEF ChildDies, Alive
<1>2. /\ child' \in Processes /\ child'[c] = "dead"
      /\ \A d \in Execs \ {c} : child'[d] = child[d]
  BY DiesEffect
<1>3. RunTypeOK'
  BY <1>1, <1>2, WorldTypes, StepTypes
<1>4. QED
  BY <1>1, <1>2, <1>3 DEF ChildrenInv

LEMMA ChildrenStep ==
  ASSUME RunTypeOK, ChildrenInv, [RunNext]_runVars
  PROVE  RunTypeOK' /\ ChildrenInv'
<1>1. CASE UNCHANGED runVars
  BY <1>1 DEF runVars, RunTypeOK, ChildrenInv
<1>2. CASE \E e \in Execs :
             \/ (\E r \in Runs : ExecBegins(e, r)) \/ RunExec(e)
             \/ ControlChanges(e) \/ ExecFails(e) \/ WorkerDies(e)
  BY <1>2, BeginsKeeps, ClearsKeeps, StartsKeeps, ChecksKeeps, ReadsKeeps, LooksKeeps,
     JudgesKeeps, AppendsKeeps, DecidesKeeps, IngestsKeeps, FinishesKeeps, ControlKeeps,
     ExecFailsKeeps, WorkerDiesKeeps DEF RunExec
<1>3. CASE \E c \in Execs :
             (\E p \in Platforms : LogsRound(c, p) \/ LogsEnd(c, p)) \/ ChildDies(c)
  BY <1>3, RoundKeeps, EndKeeps, DiesKeeps
<1>4. QED
  BY <1>1, <1>2, <1>3 DEF RunNext

LEMMA ChildrenInit ==
  ASSUME RunInit
  PROVE  RunTypeOK /\ ChildrenInv
<1>1. NoRun \in Runs
  BY DEF NoRun
<1>2. PICK x : x = Fresh(NoRun)
  OBVIOUS
<1>3. x \in Exec /\ x.pc = "idle"
  BY <1>1, <1>2, FreshIsTyped DEF Fresh
<1>4. exec = [e \in Execs |-> x]
  BY <1>2 DEF RunInit
<1>5. \A e \in Execs : exec[e].pc = "idle"
  BY <1>3, <1>4
<1>6. RunTypeOK
  BY <1>3, <1>4 DEF RunInit, RunTypeOK, Runtime
<1>7. QED
  BY <1>5, <1>6 DEF RunInit, ChildrenInv, Playing

-----------------------------------------------------------------------------
(* Executions that do not overlap *)

LEMMA OneAtATime ==
  ASSUME Turns, NEW d \in Execs, NEW e \in Execs,
         exec[d].pc \notin Ended \cup {"idle"}, exec[e].pc \notin Ended \cup {"idle"}
  PROVE  d = e
<1>1. d \in Nat /\ e \in Nat
  BY DEF Execs
<1>2. ~(d < e) /\ ~(e < d)
  BY DEF Turns
<1>3. QED
  BY <1>1, <1>2

LEMMA TurnsFrame ==
  ASSUME Turns, NEW e \in Execs, Only(e), exec[e].pc \notin Ended \cup {"idle"}
  PROVE  Turns'
<1> SUFFICES ASSUME NEW d \in Execs, NEW f \in Execs, d < f, exec'[f].pc # "idle"
             PROVE  exec'[d].pc \in Ended
  BY DEF Turns
<1>1. d # f
  BY DEF Execs
<1>2. exec[f].pc # "idle"
  BY DEF Only
<1>3. exec[d].pc \in Ended
  BY <1>2 DEF Turns
<1>4. d # e
  BY <1>3
<1>5. QED
  BY <1>3, <1>4 DEF Only

LEMMA TurnsBegin ==
  ASSUME Overlap = FALSE, RunTypeOK, Turns, NEW e \in Execs, NEW r \in Runs, ExecBegins(e, r)
  PROVE  Turns'
<1>1. Only(e)
  BY BeginsEffect
<1>2. exec[e].pc = "idle" /\ \A d \in 1..(e - 1) : exec[d].pc \in Ended
  BY DEF ExecBegins
<1> SUFFICES ASSUME NEW d \in Execs, NEW f \in Execs, d < f, exec'[f].pc # "idle"
             PROVE  exec'[d].pc \in Ended
  BY DEF Turns
<1>3. CASE f = e
  <2>1. d \in 1..(e - 1) /\ d # e
    BY <1>3 DEF Execs
  <2>2. QED
    BY <1>1, <1>2, <2>1 DEF Only
<1>4. CASE f # e
  <2>1. exec[d].pc \in Ended
    BY <1>1, <1>4 DEF Turns, Only
  <2>2. d # e
    BY <1>2, <2>1 DEF Ended
  <2>3. QED
    BY <1>1, <2>1, <2>2 DEF Only
<1>5. QED
  BY <1>3, <1>4

(* A step of the execution whose turn it is. *)
LEMMA RowsFrame ==
  ASSUME RowsInv, NEW e \in Execs, Only(e), exec[e].pc \notin Ended \cup {"idle"},
         Holds(e)', RowsArePrefix'
  PROVE  RowsInv'
<1>1. Turns'
  BY TurnsFrame DEF RowsInv
<1>2. ASSUME NEW d \in Execs \ {e} PROVE Holds(d)'
  <2>1. exec[d].pc \in Ended \cup {"idle"}
    BY OneAtATime DEF RowsInv
  <2>2. exec'[d].pc \in Ended \cup {"idle"}
    BY <2>1 DEF Only
  <2>3. QED
    BY <2>2 DEF Holds, Ended, Playing
<1>3. QED
  BY <1>1, <1>2 DEF RowsInv

LEMMA UpToNothing ==
  ASSUME NEW c, NEW n, \A p \in Platforms : n[p] = 0
  PROVE  UpTo(c, n) = {}
<1>1. \A a \in Action : ~(a.nth <= n[a.platform])
  BY DEF Action
<1>2. QED
  BY <1>1 DEF UpTo

LEMMA UpToGrows ==
  ASSUME NEW c \in Execs, NEW p \in Platforms, NEW k \in [Platforms -> 0..Lines],
         NEW m, NEW n \in Nat,
         \A q \in Platforms \ {p} : m[q] = k[q], m[p] = IF n > k[p] THEN n ELSE k[p]
  PROVE  UpTo(c, m) = UpTo(c, k)
           \cup {a \in Action : a.of = c /\ a.platform = p /\ k[p] < a.nth /\ a.nth <= n}
<1>1. ASSUME NEW a \in Action, a.of = c
      PROVE  a.nth <= m[a.platform] <=>
               (a.nth <= k[a.platform] \/ (a.platform = p /\ k[p] < a.nth /\ a.nth <= n))
  <2>1. a.platform \in Platforms /\ a.nth \in Nat
    BY DEF Action
  <2>2. k[a.platform] \in Nat /\ k[p] \in Nat
    BY <2>1
  <2>3. CASE a.platform # p
    BY <2>1, <2>3
  <2>4. CASE a.platform = p
    BY <2>1, <2>2, <2>4
  <2>5. QED
    BY <2>3, <2>4
<1>2. QED
  BY <1>1 DEF UpTo

(* Rows that stay, and rows of one run that are all up to a cursor. *)
LEMMA PrefixOf ==
  ASSUME RowsArePrefix, NEW r \in Runs, NEW x, x = rows[r]
  PROVE  \E c \in Execs : \E n \in [Platforms -> 0..Lines] : x = UpTo(c, n)
  BY DEF RowsArePrefix, UpTo

LEMMA PrefixStays ==
  ASSUME RowsArePrefix, rows' = rows
  PROVE  RowsArePrefix'
<1> SUFFICES ASSUME NEW s \in Runs
             PROVE  \E d \in Execs : \E m \in [Platforms -> 0..Lines] :
                      rows'[s] = UpTo(d, m)
  BY DEF RowsArePrefix, UpTo
<1>1. PICK x : x = rows[s]
  OBVIOUS
<1>2. rows'[s] = x
  BY <1>1
<1>3. QED
  BY <1>1, <1>2, PrefixOf

LEMMA PrefixWritten ==
  ASSUME RowsArePrefix, NEW r \in Runs, NEW c \in Execs, NEW n \in [Platforms -> 0..Lines],
         rows'[r] = UpTo(c, n), \A s \in Runs : s # r => rows'[s] = rows[s]
  PROVE  RowsArePrefix'
<1> SUFFICES ASSUME NEW s \in Runs
             PROVE  \E d \in Execs : \E m \in [Platforms -> 0..Lines] :
                      rows'[s] = UpTo(d, m)
  BY DEF RowsArePrefix, UpTo
<1>1. CASE s = r
  BY <1>1
<1>2. CASE s # r
  <2>1. PICK x : x = rows[s]
    OBVIOUS
  <2>2. rows'[s] = x
    BY <1>2, <2>1
  <2>3. QED
    BY <2>1, <2>2, PrefixOf
<1>3. QED
  BY <1>1, <1>2

LEMMA RowsTyped ==
  ASSUME RunTypeOK, NEW e \in Execs
  PROVE  /\ exec[e].run \in Runs /\ exec[e].cursor \in [Platforms -> 0..Lines]
         /\ rows \in [Runs -> SUBSET Action]
  BY WorldTypes, ExecIsTyped DEF RunTypeOK

LEMMA RowsInit ==
  ASSUME RunInit
  PROVE  RowsInv
<1>1. \A e \in Execs : exec[e].pc = "idle"
  BY DEF RunInit, Fresh
<1>2. Turns
  BY <1>1 DEF Turns
<1>3. \A e \in Execs : Holds(e)
  BY <1>1 DEF Holds, Playing
<1>4. RowsArePrefix
  <2>1. PICK n \in [Platforms -> 0..Lines] : \A p \in Platforms : n[p] = 0
    <3>1. [p \in Platforms |-> 0] \in [Platforms -> 0..Lines]
      OBVIOUS
    <3>2. QED
      BY <3>1
  <2>2. 1 \in Execs
    BY DEF Execs
  <2>3. \A r \in Runs : rows[r] = UpTo(1, n)
    BY <2>1, UpToNothing DEF RunInit
  <2>4. QED
    BY <2>2, <2>3 DEF RowsArePrefix, UpTo
<1>5. QED
  BY <1>2, <1>3, <1>4 DEF RowsInv

LEMMA RowsBegin ==
  ASSUME Overlap = FALSE, RunTypeOK, RowsInv, NEW e \in Execs, NEW r \in Runs, ExecBegins(e, r)
  PROVE  RowsInv'
<1>1. /\ Only(e) /\ exec'[e].pc = "clear" /\ exec'[e].kept = {} /\ exec'[e].got = {}
      /\ exec'[e].ended = {} /\ \A p \in Platforms : exec'[e].cursor[p] = 0
  BY BeginsEffect
<1>2. rows' = rows /\ runtime' = runtime
  BY DEF ExecBegins
<1>3. Turns'
  BY TurnsBegin DEF RowsInv
<1>4. Holds(e)'
  BY <1>1 DEF Holds, Playing
<1>5. \A d \in Execs \ {e} : Holds(d)'
  BY <1>1, <1>2 DEF RowsInv, Holds, Only
<1>6. RowsArePrefix'
  BY <1>2, PrefixStays DEF RowsInv
<1>7. QED
  BY <1>3, <1>4, <1>5, <1>6 DEF RowsInv

LEMMA RowsClear ==
  ASSUME RunTypeOK, RowsInv, NEW e \in Execs, ClearsRows(e)
  PROVE  RowsInv'
<1>1. /\ exec[e].pc = "clear" /\ Goes(e, "start") /\ rows' = [rows EXCEPT ![exec[e].run] = {}]
      /\ runtime' = runtime
  BY DEF ClearsRows
<1>2. /\ Only(e) /\ exec'[e].pc = "start" /\ exec'[e].run = exec[e].run
      /\ exec'[e].kept = exec[e].kept /\ exec'[e].got = exec[e].got
      /\ exec'[e].cursor = exec[e].cursor /\ exec'[e].ended = exec[e].ended
  BY <1>1, GoesOn
<1>3. rows'[exec[e].run] = {} /\ \A r \in Runs : r # exec[e].run => rows'[r] = rows[r]
  BY <1>1, RowsTyped
<1>4. Holds(e)'
  BY <1>1, <1>2, <1>3 DEF RowsInv, Holds, Playing
<1>5. RowsArePrefix'
  <2>1. \A p \in Platforms : exec[e].cursor[p] = 0
    BY <1>1 DEF RowsInv, Holds
  <2>2. PICK n \in [Platforms -> 0..Lines] : n = exec[e].cursor
    BY RowsTyped
  <2>3. rows'[exec[e].run] = UpTo(e, n)
    BY <1>3, <2>1, <2>2, UpToNothing
  <2>4. exec[e].run \in Runs
    BY RowsTyped
  <2>5. QED
    BY <1>3, <2>3, <2>4, PrefixWritten DEF RowsInv
<1>6. QED
  BY <1>1, <1>2, <1>4, <1>5, RowsFrame DEF Ended

LEMMA RowsStart ==
  ASSUME RunTypeOK, RowsInv, NEW e \in Execs, StartsChild(e)
  PROVE  RowsInv'
<1>1. exec[e].pc = "start" /\ Goes(e, "poll") /\ rows' = rows
  BY DEF StartsChild
<1>2. /\ Only(e) /\ exec'[e].pc = "poll" /\ exec'[e].run = exec[e].run
      /\ exec'[e].kept = exec[e].kept /\ exec'[e].got = exec[e].got
      /\ exec'[e].cursor = exec[e].cursor
  BY <1>1, GoesOn
<1>3. /\ exec[e].kept = {} /\ exec[e].got = {} /\ rows[exec[e].run] = {}
      /\ \A p \in Platforms : exec[e].cursor[p] = 0
  BY <1>1 DEF RowsInv, Holds
<1>4. PICK c, k : c = runtime'.child /\ k = exec[e].cursor
  OBVIOUS
<1>5. UpTo(c, k) = {}
  BY <1>3, <1>4, UpToNothing
<1>6. Holds(e)'
  BY <1>1, <1>2, <1>3, <1>4, <1>5 DEF Holds, Playing, UpTo
<1>7. RowsArePrefix'
  BY <1>1, PrefixStays DEF RowsInv
<1>8. QED
  BY <1>1, <1>2, <1>6, <1>7, RowsFrame DEF Ended

(* A step of an execution that plays, and that leaves alone the rows, the  *)
(* child and what it holds.                                                *)
LEMMA RowsStay ==
  ASSUME RowsInv, NEW e \in Execs, exec[e].pc \in Playing, Only(e),
         exec'[e].pc \in Playing => exec'[e].run = exec[e].run /\ exec'[e].got = exec[e].got
           /\ exec'[e].kept = exec[e].kept /\ exec'[e].cursor = exec[e].cursor,
         exec'[e].pc \in {"poll", "decide", "ingest", "finish"} => exec[e].got = {},
         exec'[e].pc \notin {"idle", "clear", "start"},
         rows' = rows, runtime'.child = runtime.child
  PROVE  RowsInv'
<1>1. Holds(e)'
  BY DEF RowsInv, Holds, UpTo, Playing
<1>2. RowsArePrefix'
  BY PrefixStays DEF RowsInv
<1>3. exec[e].pc \notin Ended \cup {"idle"}
  BY DEF Playing, Ended
<1>4. QED
  BY <1>1, <1>2, <1>3, RowsFrame

(* What an execution holds when it polls, and after it has appended. *)
LEMMA NothingGot ==
  ASSUME RowsInv, NEW e \in Execs, exec[e].pc \in {"poll", "decide", "ingest", "finish"}
  PROVE  exec[e].got = {}
  BY DEF RowsInv, Holds

LEMMA RowsChecks ==
  ASSUME RunTypeOK, RowsInv, NEW e \in Execs, ChecksControl(e)
  PROVE  RowsInv'
<1>1. exec[e].pc = "poll" /\ rows' = rows /\ runtime' = runtime
  BY DEF ChecksControl
<1>2. exec[e].got = {}
  BY <1>1, NothingGot
<1>3. CASE control[e] = "running"
  <2>1. /\ Only(e) /\ exec'[e].pc = "read" /\ exec'[e].run = exec[e].run
        /\ exec'[e].cursor = exec[e].cursor /\ exec'[e].kept = exec[e].kept
        /\ exec'[e].got = {}
    BY <1>3, ChecksEffect
  <2>2. QED
    BY <1>1, <1>2, <2>1, RowsStay DEF Playing
<1>4. CASE control[e] # "running"
  <2>1. Only(e) /\ exec'[e].pc = "failed"
    BY <1>4, GoesOut DEF ChecksControl, Ended
  <2>2. QED
    BY <1>1, <2>1, RowsStay DEF Playing
<1>5. QED
  BY <1>3, <1>4

LEMMA RowsReads ==
  ASSUME RunTypeOK, ChildrenInv, RowsInv, NEW e \in Execs, ReadsLog(e)
  PROVE  RowsInv'
<1>1. exec[e].pc = "read" /\ rows' = rows /\ runtime' = runtime
  BY DEF ReadsLog
<1>2. PICK c \in Execs, p \in Platforms : c = runtime.child /\ p = Order[exec[e].at]
  BY <1>1, Looking DEF Playing
<1>3. PICK n \in Nat : n = log[c][p].n
  BY <1>1, <1>2, Looking DEF Playing
<1>4. PICK k \in [Platforms -> 0..Lines] : k = exec[e].cursor
  BY RowsTyped
<1>5. PICK m : m = exec'[e].cursor
  OBVIOUS
<1>6. /\ Only(e) /\ exec'[e].pc = "end" /\ exec'[e].run = exec[e].run
      /\ exec'[e].kept = exec[e].kept
      /\ exec'[e].got = exec[e].got \cup
           {a \in Action : a.of = c /\ a.platform = p /\ k[p] < a.nth /\ a.nth <= n}
      /\ \A q \in Platforms \ {p} : m[q] = k[q]
      /\ m[p] = IF n > k[p] THEN n ELSE k[p]
  BY <1>2, <1>3, <1>4, <1>5, ReadsEffect
<1>7. UpTo(c, m) = UpTo(c, k)
        \cup {a \in Action : a.of = c /\ a.platform = p /\ k[p] < a.nth /\ a.nth <= n}
  BY <1>6, UpToGrows
<1>8. exec[e].kept \cup exec[e].got = UpTo(c, k) /\ rows[exec[e].run] = exec[e].kept
  BY <1>1, <1>2, <1>4 DEF RowsInv, Holds, Playing, UpTo
<1>9. exec'[e].kept \cup exec'[e].got = UpTo(c, m)
  BY <1>6, <1>7, <1>8
<1>10. Holds(e)'
  BY <1>1, <1>2, <1>5, <1>6, <1>8, <1>9 DEF Holds, Playing, UpTo
<1>11. RowsArePrefix'
  BY <1>1, PrefixStays DEF RowsInv
<1>12. QED
  BY <1>1, <1>6, <1>10, <1>11, RowsFrame DEF Ended

LEMMA RowsLooks ==
  ASSUME RunTypeOK, ChildrenInv, RowsInv, NEW e \in Execs, LooksForEnd(e)
  PROVE  RowsInv'
<1>1. exec[e].pc = "end" /\ rows' = rows /\ runtime' = runtime
  BY DEF LooksForEnd
<1>2. PICK c \in Execs, p \in Platforms : c = runtime.child /\ p = Order[exec[e].at]
  BY <1>1, Looking DEF Playing
<1>3. /\ Only(e) /\ exec'[e].pc \in {"read", "judge"} /\ exec'[e].run = exec[e].run
      /\ exec'[e].kept = exec[e].kept /\ exec'[e].got = exec[e].got
      /\ exec'[e].cursor = exec[e].cursor
  BY <1>2, LooksEffect
<1>4. QED
  BY <1>1, <1>3, RowsStay DEF Playing

LEMMA RowsJudges ==
  ASSUME RunTypeOK, RowsInv, NEW e \in Execs, Judges(e)
  PROVE  RowsInv'
<1>1. PICK c \in 0..MaxExecs : c = runtime.child
  BY WorldTypes
<1>2. exec[e].pc = "judge" /\ rows' = rows
  BY <1>1, JudgesEffect
<1>3. ASSUME NEW v \in {"running", "completed", "failed"}, Verdict(e, v)
      PROVE  RowsInv'
  <2>1. /\ Only(e) /\ exec'[e].pc = "append" /\ exec'[e].run = exec[e].run
        /\ exec'[e].kept = exec[e].kept /\ exec'[e].got = exec[e].got
        /\ exec'[e].cursor = exec[e].cursor /\ runtime'.child = runtime.child
    BY <1>3, VerdictEffect
  <2>2. QED
    BY <1>2, <2>1, RowsStay DEF Playing
<1>4. QED
  BY <1>1, <1>3, JudgesEffect

LEMMA RowsAppends ==
  ASSUME RunTypeOK, ChildrenInv, RowsInv, NEW e \in Execs, AppendsRows(e)
  PROVE  RowsInv'
<1>1. exec[e].pc = "append" /\ runtime' = runtime
  BY DEF AppendsRows
<1>2. /\ Only(e) /\ exec'[e].pc = "decide" /\ exec'[e].run = exec[e].run
      /\ exec'[e].kept = exec[e].kept \cup exec[e].got /\ exec'[e].got = {}
      /\ exec'[e].cursor = exec[e].cursor
      /\ rows'[exec[e].run] = rows[exec[e].run] \cup exec[e].got
      /\ \A r \in Runs : r # exec[e].run => rows'[r] = rows[r]
  BY AppendsEffect
<1>3. PICK c \in Execs, k \in [Platforms -> 0..Lines] : c = runtime.child /\ k = exec[e].cursor
  BY <1>1, Looking, RowsTyped DEF Playing
<1>4. exec[e].kept \cup exec[e].got = UpTo(c, k) /\ rows[exec[e].run] = exec[e].kept
  BY <1>1, <1>3 DEF RowsInv, Holds, Playing, UpTo
<1>5. Holds(e)'
  BY <1>1, <1>2, <1>3, <1>4 DEF Holds, Playing, UpTo
<1>6. RowsArePrefix'
  <2>1. exec[e].run \in Runs
    BY RowsTyped
  <2>2. rows'[exec[e].run] = UpTo(c, k)
    BY <1>2, <1>4
  <2>3. QED
    BY <1>2, <2>1, <2>2, PrefixWritten DEF RowsInv
<1>7. QED
  BY <1>1, <1>2, <1>5, <1>6, RowsFrame DEF Ended

LEMMA RowsGoOn ==
  ASSUME RunTypeOK, RowsInv, NEW e \in Execs, exec[e].pc \in {"decide", "ingest"},
         NEW pc \in {"poll", "ingest", "finish"}, Goes(e, pc), rows' = rows, runtime' = runtime
  PROVE  RowsInv'
<1>1. /\ Only(e) /\ exec'[e].pc = pc /\ exec'[e].run = exec[e].run
      /\ exec'[e].kept = exec[e].kept /\ exec'[e].got = exec[e].got
      /\ exec'[e].cursor = exec[e].cursor
  BY GoesOn
<1>2. exec[e].got = {}
  BY NothingGot
<1>3. QED
  BY <1>1, <1>2, RowsStay DEF Playing

LEMMA RowsGoOut ==
  ASSUME RunTypeOK, RowsInv, NEW e \in Execs, exec[e].pc \notin Ended \cup {"idle"},
         NEW pc \in Ended, Goes(e, pc), rows' = rows
  PROVE  RowsInv'
<1>1. Only(e) /\ exec'[e].pc = pc
  BY GoesOut
<1>2. Holds(e)'
  BY <1>1 DEF Holds, Ended, Playing
<1>3. RowsArePrefix'
  BY PrefixStays DEF RowsInv
<1>4. QED
  BY <1>1, <1>2, <1>3, RowsFrame

LEMMA RowsEnding ==
  ASSUME RunTypeOK, RowsInv, NEW e \in Execs,
         Decides(e) \/ Ingests(e) \/ Finishes(e) \/ ExecFails(e) \/ WorkerDies(e)
  PROVE  RowsInv'
<1>1. CASE Decides(e)
  BY <1>1, DecidesEffect, RowsGoOn, RowsGoOut DEF Ended
<1>2. CASE Ingests(e)
  BY <1>2, IngestsEffect, RowsGoOn, RowsGoOut DEF Ended
<1>3. CASE Finishes(e)
  BY <1>3, FinishesEffect, RowsGoOut DEF Ended
<1>4. CASE ExecFails(e)
  BY <1>4, RowsGoOut DEF ExecFails, Ended
<1>5. CASE WorkerDies(e)
  BY <1>5, RowsGoOut DEF WorkerDies, Ended
<1>6. QED
  BY <1>1, <1>2, <1>3, <1>4, <1>5

LEMMA RowsStep ==
  ASSUME Overlap = FALSE, RunTypeOK, ChildrenInv, RowsInv, [RunNext]_runVars
  PROVE  RowsInv'
<1>1. CASE exec' = exec /\ rows' = rows /\ runtime' = runtime
  <2>1. Turns'
    BY <1>1 DEF RowsInv, Turns
  <2>2. ASSUME NEW e \in Execs PROVE Holds(e)'
    BY <1>1 DEF RowsInv, Holds, UpTo
  <2>3. QED
    BY <1>1, <2>1, <2>2, PrefixStays DEF RowsInv
<1>2. CASE \E e \in Execs :
             \/ (\E r \in Runs : ExecBegins(e, r)) \/ RunExec(e)
             \/ ExecFails(e) \/ WorkerDies(e)
  BY <1>2, RowsBegin, RowsClear, RowsStart, RowsChecks, RowsReads, RowsLooks, RowsJudges,
     RowsAppends, RowsEnding DEF RunExec
<1>3. ASSUME \/ \E e \in Execs : ControlChanges(e)
             \/ \E c \in Execs : (\E p \in Platforms : LogsRound(c, p) \/ LogsEnd(c, p)) \/ ChildDies(c)
             \/ UNCHANGED runVars
      PROVE  exec' = exec /\ rows' = rows /\ runtime' = runtime
  BY <1>3 DEF ControlChanges, LogsRound, LogsEnd, ChildDies, runVars
<1>4. QED
  BY <1>1, <1>2, <1>3 DEF RunNext

-----------------------------------------------------------------------------
(* Files that are read at once *)

(* A log only grows, not beyond its end, and a child that has come to its  *)
(* end is not cut any more.                                                *)
WorldStep ==
  \A c \in Execs :
    /\ child'[c] = "cut" => child[c] \in {"cut", "running"}
    /\ \A p \in Platforms :
         /\ log[c][p].n <= log'[c][p].n
         /\ log[c][p].ended => log'[c][p].ended /\ log'[c][p].n = log[c][p].n

LEMMA LogsTyped ==
  ASSUME RunTypeOK, NEW c \in Execs, NEW p \in Platforms
  PROVE  log[c][p].n \in 0..Lines /\ log[c][p].ended \in BOOLEAN
  BY WorldTypes DEF Logs

LEMMA WorldStands ==
  ASSUME RunTypeOK, UNCHANGED <<child, log>>
  PROVE  WorldStep
<1>1. \A c \in Execs, p \in Platforms : log[c][p].n \in Nat
  BY LogsTyped
<1>2. \A c \in Execs, p \in Platforms : log[c][p].n <= log[c][p].n
  BY <1>1
<1>3. QED
  BY <1>2 DEF WorldStep

LEMMA StopsIsWorldStep ==
  ASSUME RunTypeOK, NEW c \in 0..MaxExecs, Stops(c)
  PROVE  WorldStep
<1>1. \A d \in Execs, p \in Platforms : log[d][p].n \in Nat
  BY LogsTyped
<1>2. \A d \in Execs, p \in Platforms :
        log'[d][p].n = log[d][p].n /\ (log[d][p].ended => log'[d][p].ended)
  BY StopsEffect
<1>3. \A d \in Execs : child'[d] = "cut" => child[d] \in {"cut", "running"}
  BY StopsEffect
<1>4. \A d \in Execs, p \in Platforms : log[d][p].n <= log'[d][p].n
  BY <1>1, <1>2
<1>5. QED
  BY <1>2, <1>3, <1>4 DEF WorldStep

LEMMA StartsIsWorldStep ==
  ASSUME RunTypeOK, NEW e \in Execs, StartsChild(e)
  PROVE  WorldStep
<1>1. \A c \in Execs, p \in Platforms : log[c][p].n \in Nat
  BY LogsTyped
<1>2. \A c \in Execs, p \in Platforms : log[c][p].n <= log[c][p].n
  BY <1>1
<1>3. log' = log /\ \A c \in Execs : child'[c] = "cut" => child[c] = "cut"
  BY StartsEffect
<1>4. QED
  BY <1>2, <1>3 DEF WorldStep

LEMMA RoundIsWorldStep ==
  ASSUME RunTypeOK, NEW c \in Execs, NEW p \in Platforms, LogsRound(c, p)
  PROVE  WorldStep
<1>1. /\ child' = child /\ ~log[c][p].ended /\ log'[c][p].n = log[c][p].n + 1
      /\ \A d \in Execs, q \in Platforms :
           /\ log'[d][q].ended = log[d][q].ended
           /\ (d # c \/ q # p) => log'[d][q].n = log[d][q].n
  BY RoundEffect DEF LogsRound
<1>2. \A d \in Execs, q \in Platforms : log[d][q].n \in Nat
  BY LogsTyped
<1>3. \A d \in Execs, q \in Platforms : log[d][q].n <= log'[d][q].n
  BY <1>1, <1>2
<1>4. \A d \in Execs, q \in Platforms :
         log[d][q].ended => log'[d][q].ended /\ log'[d][q].n = log[d][q].n
  BY <1>1
<1>5. QED
  BY <1>1, <1>3, <1>4 DEF WorldStep

LEMMA EndIsWorldStep ==
  ASSUME RunTypeOK, NEW c \in Execs, NEW p \in Platforms, LogsEnd(c, p)
  PROVE  WorldStep
<1>1. /\ ~log[c][p].ended /\ log'[c][p].ended
      /\ \A d \in Execs, q \in Platforms :
           /\ log'[d][q].n = log[d][q].n
           /\ (d # c \/ q # p) => log'[d][q].ended = log[d][q].ended
      /\ \A d \in Execs : child'[d] = "cut" => child[d] = "cut"
  BY EndEffect
<1>2. \A d \in Execs, q \in Platforms : log[d][q].n \in Nat
  BY LogsTyped
<1>3. \A d \in Execs, q \in Platforms : log[d][q].n <= log'[d][q].n
  BY <1>1, <1>2
<1>4. \A d \in Execs, q \in Platforms :
         log[d][q].ended => log'[d][q].ended /\ log'[d][q].n = log[d][q].n
  BY <1>1
<1>5. QED
  BY <1>1, <1>3, <1>4 DEF WorldStep

LEMMA DiesIsWorldStep ==
  ASSUME RunTypeOK, NEW c \in Execs, ChildDies(c)
  PROVE  WorldStep
<1>1. log' = log /\ \A d \in Execs : child'[d] = "cut" => child[d] = "cut"
  BY DiesEffect DEF ChildDies
<1>2. \A d \in Execs, p \in Platforms : log[d][p].n \in Nat
  BY LogsTyped
<1>3. \A d \in Execs, p \in Platforms : log[d][p].n <= log[d][p].n
  BY <1>2
<1>4. QED
  BY <1>1, <1>3 DEF WorldStep

(* A child that came to its end stays as it is. *)
LEMMA EndStays ==
  ASSUME ChildrenInv, WorldStep, NEW c \in Execs, CameToItsEnd(c)
  PROVE  CameToItsEnd(c)' /\ Whole(c)' = Whole(c)
<1>1. \A p \in Platforms : log'[c][p].ended /\ log'[c][p].n = log[c][p].n
  BY DEF WorldStep, CameToItsEnd
<1>2. child'[c] # "cut"
  BY DEF WorldStep, CameToItsEnd, ChildrenInv
<1>3. \A a \in Action : log'[c][a.platform].n = log[c][a.platform].n
  BY <1>1 DEF Action
<1>4. Whole(c)' = Whole(c)
  BY <1>3 DEF Whole
<1>5. QED
  BY <1>1, <1>2, <1>4 DEF CameToItsEnd

IngestedInv ==
  \A r \in Runs : checkpoint[r] = "completed" => \E c \in Execs : Ingested(c)

PublishedInv ==
  \A r \in Runs : result[r] # {} =>
    /\ checkpoint[r] = "completed"
    /\ \E c \in Execs : result[r] = Whole(c) /\ CameToItsEnd(c)

LEMMA IngestedStays ==
  ASSUME ChildrenInv, WorldStep, memory \subseteq memory', NEW c \in Execs, Ingested(c)
  PROVE  Ingested(c)'
<1>1. CameToItsEnd(c)' /\ Whole(c)' = Whole(c)
  BY EndStays DEF Ingested
<1>2. QED
  BY <1>1 DEF Ingested

LEMMA SamePublished ==
  ASSUME ChildrenInv, WorldStep, PublishedInv, NEW r \in Runs, result'[r] = result[r],
         checkpoint[r] = "completed" => checkpoint'[r] = "completed",
         result'[r] # {}
  PROVE  checkpoint'[r] = "completed"
         /\ \E c \in Execs : result'[r] = Whole(c)' /\ CameToItsEnd(c)'
<1>1. PICK s : s = result[r]
  OBVIOUS
<1>2. checkpoint[r] = "completed" /\ \E c \in Execs : s = Whole(c) /\ CameToItsEnd(c)
  BY <1>1 DEF PublishedInv
<1>3. PICK c \in Execs : s = Whole(c) /\ CameToItsEnd(c)
  BY <1>2
<1>4. CameToItsEnd(c)' /\ Whole(c)' = Whole(c)
  BY <1>3, EndStays
<1>5. result'[r] = Whole(c)'
  BY <1>1, <1>3, <1>4
<1>6. QED
  BY <1>2, <1>4, <1>5

LEMMA GraphStays ==
  ASSUME ChildrenInv, WorldStep, IngestedInv, PublishedInv,
         memory' = memory, checkpoint' = checkpoint, result' = result
  PROVE  IngestedInv' /\ PublishedInv'
<1>1. ASSUME NEW r \in Runs, checkpoint'[r] = "completed"
      PROVE  \E c \in Execs : Ingested(c)'
  BY <1>1, IngestedStays DEF IngestedInv
<1>2. ASSUME NEW r \in Runs, result'[r] # {}
      PROVE  /\ checkpoint'[r] = "completed"
             /\ \E c \in Execs : result'[r] = Whole(c)' /\ CameToItsEnd(c)'
  BY <1>2, SamePublished
<1>3. QED
  BY <1>1, <1>2 DEF IngestedInv, PublishedInv

LEMMA WholeParts ==
  WholeInv <=> /\ \A e \in Execs : exec[e].pc \in Playing => Sees(e)
               /\ IngestedInv /\ PublishedInv
  BY DEF WholeInv, IngestedInv, PublishedInv

(* A step of the execution whose turn it is. *)
LEMMA WholeFrame ==
  ASSUME RowsInv, WholeInv, NEW e \in Execs, Only(e), exec[e].pc \notin Ended \cup {"idle"},
         exec'[e].pc \in Playing => Sees(e)', IngestedInv', PublishedInv'
  PROVE  WholeInv'
<1>1. ASSUME NEW d \in Execs \ {e} PROVE exec'[d].pc \notin Playing
  <2>1. exec[d].pc \in Ended \cup {"idle"}
    BY OneAtATime DEF RowsInv
  <2>2. QED
    BY <2>1 DEF Only, Ended, Playing
<1>2. QED
  BY <1>1 DEF WholeInv, IngestedInv, PublishedInv

LEMMA WholeGoOut ==
  ASSUME RunTypeOK, ChildrenInv, RowsInv, WholeInv, WorldStep,
         NEW e \in Execs, exec[e].pc \notin Ended \cup {"idle"},
         NEW pc \in Ended \cup {"start", "clear"}, Only(e), exec'[e].pc = pc,
         UNCHANGED <<memory, checkpoint, result>>
  PROVE  WholeInv'
<1>1. IngestedInv' /\ PublishedInv'
  BY WholeParts, GraphStays
<1>2. exec'[e].pc \notin Playing
  BY DEF Ended, Playing
<1>3. QED
  BY <1>1, <1>2, WholeFrame

LEMMA WholeBegin ==
  ASSUME RunTypeOK, ChildrenInv, WholeInv, NEW e \in Execs, NEW r \in Runs, ExecBegins(e, r)
  PROVE  WholeInv'
<1>1. Only(e) /\ exec'[e].pc = "clear"
  BY BeginsEffect
<1>2. UNCHANGED <<child, log, runtime, memory, checkpoint, result>>
  BY DEF ExecBegins
<1>3. IngestedInv' /\ PublishedInv'
  BY <1>2, WholeParts, WorldStands, GraphStays
<1>4. ASSUME NEW d \in Execs, exec'[d].pc \in Playing PROVE Sees(d)'
  <2>1. exec'[d] = exec[d]
    BY <1>1, <1>4 DEF Only, Playing
  <2>2. Sees(d)
    BY <1>4, <2>1 DEF WholeInv
  <2>3. QED
    BY <1>2, <2>1, <2>2 DEF Sees
<1>5. QED
  BY <1>3, <1>4 DEF WholeInv, IngestedInv, PublishedInv

LEMMA WholeClear ==
  ASSUME RunTypeOK, ChildrenInv, RowsInv, WholeInv, NEW e \in Execs, ClearsRows(e)
  PROVE  WholeInv'
<1>1. /\ exec[e].pc = "clear" /\ Goes(e, "start")
      /\ UNCHANGED <<child, log, memory, checkpoint, result>>
  BY DEF ClearsRows
<1>2. Only(e) /\ exec'[e].pc = "start"
  BY <1>1, GoesOn
<1>3. QED
  BY <1>1, <1>2, WorldStands, WholeGoOut DEF Ended

LEMMA WholeStart ==
  ASSUME RunTypeOK, ChildrenInv, RowsInv, WholeInv, NEW e \in Execs, StartsChild(e)
  PROVE  WholeInv'
<1>1. /\ exec[e].pc = "start" /\ Goes(e, "poll")
      /\ UNCHANGED <<log, memory, checkpoint, result>>
  BY DEF StartsChild
<1>2. /\ Only(e) /\ exec'[e].pc = "poll" /\ exec'[e].cursor = exec[e].cursor
      /\ exec'[e].ended = exec[e].ended
  BY <1>1, GoesOn
<1>3. exec[e].ended = {} /\ \A p \in Platforms : exec[e].cursor[p] = 0
  BY <1>1 DEF RowsInv, Holds
<1>4. PICK c \in Execs : c = runtime'.child /\ child'[c] # "cut"
  BY StartsEffect
<1>5. \A p \in Platforms : 0 <= log[c][p].n
  BY LogsTyped
<1>6. Sees(e)'
  BY <1>1, <1>2, <1>3, <1>4, <1>5 DEF Sees
<1>7. IngestedInv' /\ PublishedInv'
  BY <1>1, StartsIsWorldStep, WholeParts, GraphStays
<1>8. QED
  BY <1>1, <1>2, <1>6, <1>7, WholeFrame DEF Ended

LEMMA WholeChecks ==
  ASSUME RunTypeOK, ChildrenInv, RowsInv, WholeInv, NEW e \in Execs, ChecksControl(e)
  PROVE  WholeInv'
<1>1. exec[e].pc = "poll" /\ UNCHANGED <<runtime, memory, checkpoint, result>>
  BY DEF ChecksControl
<1>2. CASE control[e] = "running"
  <2>1. /\ Only(e) /\ exec'[e].pc = "read" /\ exec'[e].cursor = exec[e].cursor
        /\ exec'[e].ended = {}
    BY <1>2, ChecksEffect
  <2>2. UNCHANGED <<child, log>>
    BY <1>2 DEF ChecksControl
  <2>3. /\ \A p \in Platforms : exec[e].cursor[p] <= log[runtime.child][p].n
        /\ child[runtime.child] # "cut"
    BY <1>1 DEF WholeInv, Sees, Playing
  <2>4. Sees(e)'
    BY <1>1, <2>1, <2>2, <2>3 DEF Sees
  <2>5. IngestedInv' /\ PublishedInv'
    BY <1>1, <2>2, WorldStands, WholeParts, GraphStays
  <2>6. QED
    BY <1>1, <2>1, <2>4, <2>5, WholeFrame DEF Ended
<1>3. CASE control[e] # "running"
  <2>1. PICK c \in 0..MaxExecs : c = runtime.child
    BY WorldTypes
  <2>2. Stops(c) /\ Goes(e, "failed")
    BY <1>3, <2>1 DEF ChecksControl
  <2>3. Only(e) /\ exec'[e].pc = "failed"
    BY <2>2, GoesOut DEF Ended
  <2>4. WorldStep
    BY <2>2, StopsIsWorldStep
  <2>5. QED
    BY <1>1, <2>3, <2>4, WholeGoOut DEF Ended
<1>4. QED
  BY <1>2, <1>3

LEMMA WholeReads ==
  ASSUME RunTypeOK, ChildrenInv, RowsInv, WholeInv, NEW e \in Execs, ReadsLog(e)
  PROVE  WholeInv'
<1>1. exec[e].pc = "read" /\ UNCHANGED <<child, log, runtime, memory, checkpoint, result>>
  BY DEF ReadsLog
<1>2. PICK c \in Execs, p \in Platforms : c = runtime.child /\ p = Order[exec[e].at]
  BY <1>1, Looking DEF Playing
<1>3. PICK n \in Nat : n = log[c][p].n
  BY <1>1, <1>2, Looking DEF Playing
<1>4. PICK k \in [Platforms -> 0..Lines] : k = exec[e].cursor
  BY RowsTyped
<1>5. PICK m : m = exec'[e].cursor
  OBVIOUS
<1>6. /\ Only(e) /\ exec'[e].pc = "end" /\ exec'[e].at = exec[e].at
      /\ exec'[e].ended = exec[e].ended
      /\ \A q \in Platforms \ {p} : m[q] = k[q]
      /\ m[p] = IF n > k[p] THEN n ELSE k[p]
  BY <1>2, <1>3, <1>4, <1>5, ReadsEffect
<1>7. /\ \A q \in Platforms : k[q] <= log[c][q].n
      /\ \A q \in exec[e].ended : log[c][q].ended /\ k[q] = log[c][q].n
      /\ child[c] # "cut"
  BY <1>1, <1>2, <1>4 DEF WholeInv, Sees, Playing
<1>8. m[p] = n
  <2>1. k[p] <= n /\ k[p] \in Nat
    BY <1>3, <1>7
  <2>2. QED
    BY <1>6, <2>1
<1>9. \A q \in Platforms : m[q] <= log[c][q].n
  BY <1>3, <1>6, <1>7, <1>8
<1>10. \A q \in exec[e].ended : log[c][q].ended /\ m[q] = log[c][q].n
  <2>1. exec[e].ended \subseteq Platforms
    BY WorldTypes, ExecIsTyped
  <2>2. QED
    BY <1>3, <1>6, <1>7, <1>8, <2>1
<1>11. Sees(e)'
  BY <1>1, <1>2, <1>3, <1>5, <1>6, <1>7, <1>8, <1>9, <1>10 DEF Sees
<1>12. IngestedInv' /\ PublishedInv'
  BY <1>1, WorldStands, WholeParts, GraphStays
<1>13. QED
  BY <1>1, <1>6, <1>11, <1>12, WholeFrame DEF Ended

LEMMA WholeLooks ==
  ASSUME RunTypeOK, ChildrenInv, RowsInv, WholeInv, NEW e \in Execs, LooksForEnd(e)
  PROVE  WholeInv'
<1>1. exec[e].pc = "end" /\ UNCHANGED <<child, log, runtime, memory, checkpoint, result>>
  BY DEF LooksForEnd
<1>2. PICK c \in Execs, p \in Platforms : c = runtime.child /\ p = Order[exec[e].at]
  BY <1>1, Looking DEF Playing
<1>3. /\ Only(e) /\ exec'[e].pc \in {"read", "judge"} /\ exec'[e].cursor = exec[e].cursor
      /\ exec'[e].ended = IF log[c][p].ended THEN exec[e].ended \cup {p} ELSE exec[e].ended
  BY <1>2, LooksEffect
<1>4. /\ \A q \in Platforms : exec[e].cursor[q] <= log[c][q].n
      /\ \A q \in exec[e].ended : log[c][q].ended /\ exec[e].cursor[q] = log[c][q].n
      /\ exec[e].cursor[p] = log[c][p].n
      /\ child[c] # "cut"
  BY <1>1, <1>2 DEF WholeInv, Sees, Playing
<1>5. \A q \in exec'[e].ended : log[c][q].ended /\ exec[e].cursor[q] = log[c][q].n
  BY <1>3, <1>4
<1>6. Sees(e)'
  BY <1>1, <1>2, <1>3, <1>4, <1>5 DEF Sees
<1>7. IngestedInv' /\ PublishedInv'
  BY <1>1, WorldStands, WholeParts, GraphStays
<1>8. QED
  BY <1>1, <1>3, <1>6, <1>7, WholeFrame DEF Ended

LEMMA WholeJudges ==
  ASSUME RunTypeOK, ChildrenInv, RowsInv, WholeInv, NEW e \in Execs, Judges(e)
  PROVE  WholeInv'
<1>1. exec[e].pc = "judge" /\ UNCHANGED <<memory, checkpoint, result>>
  BY DEF Judges
<1>2. PICK c \in Execs : c = runtime.child
  BY <1>1, Looking DEF Playing
<1>3. c \in 0..MaxExecs
  BY DEF Execs
<1>4. exec[e].ended \subseteq Platforms /\ \A p \in Platforms : exec[e].cursor[p] \in Nat
  BY <1>1, Looking, WorldTypes, ExecIsTyped DEF Playing
<1>5. /\ \A p \in Platforms : exec[e].cursor[p] <= log[c][p].n
      /\ \A p \in exec[e].ended : log[c][p].ended /\ exec[e].cursor[p] = log[c][p].n
      /\ child[c] # "cut"
  BY <1>1, <1>2 DEF WholeInv, Sees, Playing
<1>6. ASSUME NEW v \in {"running", "completed", "failed"}, Verdict(e, v), WorldStep,
             v = "completed" => exec[e].ended = Platforms,
             v = "failed" \/ UNCHANGED <<child, log>>
      PROVE  WholeInv'
  <2>1. /\ Only(e) /\ exec'[e].pc = "append" /\ exec'[e].cursor = exec[e].cursor
        /\ exec'[e].ended = exec[e].ended /\ exec'[e].verdict = v
        /\ runtime'.child = c
    BY <1>2, <1>6, VerdictEffect
  <2>2. \A p \in Platforms : exec[e].cursor[p] <= log'[c][p].n
    <3>1. \A p \in Platforms : log[c][p].n \in Nat /\ log[c][p].n <= log'[c][p].n
      BY <1>6, LogsTyped DEF WorldStep
    <3>2. \A p \in Platforms : log'[c][p].n \in Nat
      <4>1. log' \in Logs
        BY <1>1, JudgesKeeps, WorldTypes DEF RunTypeOK, Logs
      <4>2. QED
        BY <4>1 DEF Logs
    <3>3. QED
      BY <1>4, <1>5, <3>1, <3>2
  <2>3. \A p \in exec[e].ended : log'[c][p].ended /\ exec[e].cursor[p] = log'[c][p].n
    BY <1>4, <1>5, <1>6 DEF WorldStep
  <2>4. v = "failed" \/ child'[c] # "cut"
    BY <1>5, <1>6
  <2>5. Sees(e)'
    BY <1>6, <2>1, <2>2, <2>3, <2>4 DEF Sees
  <2>6. IngestedInv' /\ PublishedInv'
    BY <1>1, <1>6, WholeParts, GraphStays
  <2>7. QED
    BY <1>1, <2>1, <2>5, <2>6, WholeFrame DEF Ended
<1>7. CASE Stops(c) /\ Verdict(e, "failed")
  BY <1>3, <1>6, <1>7, StopsIsWorldStep
<1>8. CASE exec[e].ended = Platforms /\ Verdict(e, "completed") /\ UNCHANGED <<child, log>>
  BY <1>6, <1>8, WorldStands
<1>9. CASE Verdict(e, "running") /\ UNCHANGED <<child, log>>
  BY <1>6, <1>9, WorldStands
<1>10. CASE Verdict(e, "failed") /\ UNCHANGED <<child, log>>
  BY <1>6, <1>10, WorldStands
<1>11. QED
  BY <1>2, <1>3, <1>7, <1>8, <1>9, <1>10, JudgesEffect

LEMMA WholeAppends ==
  ASSUME RunTypeOK, ChildrenInv, RowsInv, WholeInv, NEW e \in Execs, AppendsRows(e)
  PROVE  WholeInv'
<1>1. exec[e].pc = "append" /\ UNCHANGED <<child, log, runtime, memory, checkpoint, result>>
  BY DEF AppendsRows
<1>2. /\ Only(e) /\ exec'[e].pc = "decide" /\ exec'[e].cursor = exec[e].cursor
      /\ exec'[e].ended = {} /\ exec'[e].verdict = exec[e].verdict
  BY AppendsEffect
<1>3. PICK c \in Execs : c = runtime.child
  BY <1>1, Looking DEF Playing
<1>4. /\ \A p \in Platforms : exec[e].cursor[p] <= log[c][p].n
      /\ exec[e].verdict = "failed" \/ child[c] # "cut"
      /\ exec[e].verdict = "completed" => exec[e].ended = Platforms
      /\ \A p \in exec[e].ended : log[c][p].ended /\ exec[e].cursor[p] = log[c][p].n
  BY <1>1, <1>3 DEF WholeInv, Sees, Playing
<1>5. Sees(e)'
  BY <1>1, <1>2, <1>3, <1>4 DEF Sees
<1>6. IngestedInv' /\ PublishedInv'
  BY <1>1, WorldStands, WholeParts, GraphStays
<1>7. QED
  BY <1>1, <1>2, <1>5, <1>6, WholeFrame DEF Ended

LEMMA WholeDecides ==
  ASSUME RunTypeOK, ChildrenInv, RowsInv, WholeInv, NEW e \in Execs, Decides(e)
  PROVE  WholeInv'
<1>1. exec[e].pc = "decide" /\ UNCHANGED <<child, log, runtime, memory, checkpoint, result>>
  BY DecidesEffect
<1>2. IngestedInv' /\ PublishedInv'
  BY <1>1, WorldStands, WholeParts, GraphStays
<1>3. PICK c \in Execs : c = runtime.child
  BY <1>1, Looking DEF Playing
<1>4. /\ \A p \in Platforms : exec[e].cursor[p] <= log[c][p].n
      /\ \A p \in exec[e].ended : log[c][p].ended /\ exec[e].cursor[p] = log[c][p].n
      /\ exec[e].verdict = "failed" \/ child[c] # "cut"
      /\ exec[e].verdict = "completed" =>
           \A p \in Platforms : log[c][p].ended /\ exec[e].cursor[p] = log[c][p].n
  BY <1>1, <1>3 DEF WholeInv, Sees, Playing
<1>5. CASE exec[e].verdict = "running" /\ Goes(e, "poll")
  <2>1. /\ Only(e) /\ exec'[e].pc = "poll" /\ exec'[e].cursor = exec[e].cursor
        /\ exec'[e].ended = exec[e].ended
    BY <1>5, GoesOn
  <2>2. Sees(e)'
    BY <1>1, <1>3, <1>4, <1>5, <2>1 DEF Sees
  <2>3. QED
    BY <1>1, <1>2, <2>1, <2>2, WholeFrame DEF Ended
<1>6. CASE Goes(e, "failed")
  <2>1. Only(e) /\ exec'[e].pc = "failed"
    BY <1>6, GoesOut DEF Ended
  <2>2. QED
    BY <1>1, <2>1, WorldStands, WholeGoOut DEF Ended
<1>7. CASE rows[exec[e].run] # {} /\ exec[e].kept = {}
  <2>1. rows[exec[e].run] = exec[e].kept
    BY <1>1 DEF RowsInv, Holds, Playing
  <2>2. QED
    BY <1>7, <2>1
<1>8. CASE exec[e].verdict = "completed" /\ Goes(e, "ingest") /\ exec[e].kept # {}
  <2>1. /\ Only(e) /\ exec'[e].pc = "ingest" /\ exec'[e].cursor = exec[e].cursor
        /\ exec'[e].ended = exec[e].ended /\ exec'[e].kept = exec[e].kept
    BY <1>8, GoesOn
  <2>2. Sees(e)'
    BY <1>1, <1>3, <1>4, <1>8, <2>1 DEF Sees
  <2>3. QED
    BY <1>1, <1>2, <2>1, <2>2, WholeFrame DEF Ended
<1>9. QED
  BY <1>5, <1>6, <1>7, <1>8, DecidesEffect

(* What an execution ingests and publishes is all that its child did. *)
LEMMA HoldsAll ==
  ASSUME RunTypeOK, ChildrenInv, RowsInv, WholeInv, NEW e \in Execs,
         exec[e].pc \in {"ingest", "finish"}
  PROVE  \E c \in Execs : /\ c = runtime.child /\ CameToItsEnd(c) /\ exec[e].kept = Whole(c)
                          /\ Whole(c) # {} /\ rows[exec[e].run] = Whole(c)
                          /\ \A p \in Platforms : log[c][p].ended /\ exec[e].cursor[p] = log[c][p].n
<1>1. PICK c \in Execs : c = runtime.child
  BY Looking DEF Playing
<1>2. PICK k : k = exec[e].cursor
  OBVIOUS
<1>3. /\ \A p \in Platforms : log[c][p].ended /\ k[p] = log[c][p].n
      /\ child[c] # "cut" /\ exec[e].kept # {}
  BY <1>1, <1>2 DEF WholeInv, Sees, Playing
<1>4. /\ exec[e].kept \cup exec[e].got = UpTo(c, k) /\ exec[e].got = {}
      /\ rows[exec[e].run] = exec[e].kept
  BY <1>1, <1>2 DEF RowsInv, Holds, Playing, UpTo
<1>5. UpTo(c, k) = Whole(c)
  <2>1. \A a \in Action : k[a.platform] = log[c][a.platform].n
    BY <1>3 DEF Action
  <2>2. QED
    BY <2>1 DEF UpTo, Whole
<1>6. exec[e].kept = Whole(c)
  BY <1>4, <1>5
<1>7. CameToItsEnd(c)
  BY <1>3 DEF CameToItsEnd
<1>8. QED
  BY <1>1, <1>2, <1>3, <1>4, <1>6, <1>7

LEMMA WholeIngests ==
  ASSUME RunTypeOK, ChildrenInv, RowsInv, WholeInv, NEW e \in Execs, Ingests(e)
  PROVE  WholeInv'
<1>1. /\ exec[e].pc = "ingest" /\ UNCHANGED <<child, log, runtime, rows, result>>
      /\ memory \subseteq memory'
      /\ \A r \in Runs \ {exec[e].run} : checkpoint'[r] = checkpoint[r]
      /\ checkpoint[exec[e].run] = "completed" => checkpoint'[exec[e].run] = "completed"
      /\ checkpoint'[exec[e].run] = "completed" =>
           checkpoint[exec[e].run] = "completed" \/ exec[e].kept \subseteq memory'
  BY IngestsEffect
<1>2. PICK c \in Execs :
         /\ c = runtime.child /\ CameToItsEnd(c) /\ exec[e].kept = Whole(c) /\ Whole(c) # {}
         /\ \A p \in Platforms : log[c][p].ended /\ exec[e].cursor[p] = log[c][p].n
  BY <1>1, HoldsAll
<1>3. WorldStep
  BY <1>1, WorldStands
<1>4. CameToItsEnd(c)' /\ Whole(c)' = Whole(c)
  BY <1>2, <1>3, EndStays
<1>5. exec[e].run \in Runs
  BY RowsTyped
<1>6. ASSUME NEW r \in Runs, checkpoint'[r] = "completed"
      PROVE  \E d \in Execs : Ingested(d)'
  <2>1. CASE checkpoint[r] = "completed"
    BY <1>1, <1>3, <2>1, IngestedStays, WholeParts DEF IngestedInv
  <2>2. CASE checkpoint[r] # "completed"
    <3>1. r = exec[e].run
      BY <1>1, <1>6, <2>2
    <3>2. Whole(c)' \subseteq memory'
      BY <1>1, <1>2, <1>4, <1>6, <2>2, <3>1
    <3>3. Ingested(c)'
      BY <1>2, <1>4, <3>2 DEF Ingested
    <3>4. QED
      BY <3>3
  <2>3. QED
    BY <2>1, <2>2
<1>7. IngestedInv'
  BY <1>6 DEF IngestedInv
<1>8. ASSUME NEW r \in Runs, result'[r] # {}
      PROVE  /\ checkpoint'[r] = "completed"
             /\ \E d \in Execs : result'[r] = Whole(d)' /\ CameToItsEnd(d)'
  <2>1. checkpoint[r] = "completed" => checkpoint'[r] = "completed"
    BY <1>1
  <2>2. result'[r] = result[r]
    BY <1>1
  <2>3. QED
    BY <1>3, <1>8, <2>1, <2>2, SamePublished, WholeParts
<1>9. PublishedInv'
  BY <1>8 DEF PublishedInv
<1>10. CASE Goes(e, "failed")
  <2>1. Only(e) /\ exec'[e].pc = "failed"
    BY <1>10, GoesOut DEF Ended
  <2>2. QED
    BY <1>1, <1>7, <1>9, <2>1, WholeFrame DEF Ended, Playing
<1>11. CASE checkpoint'[exec[e].run] = "completed" /\ Goes(e, "finish")
  <2>1. /\ Only(e) /\ exec'[e].pc = "finish" /\ exec'[e].cursor = exec[e].cursor
        /\ exec'[e].ended = exec[e].ended /\ exec'[e].kept = exec[e].kept
        /\ exec'[e].run = exec[e].run
    BY <1>11, GoesOn
  <2>2. /\ \A p \in Platforms : exec[e].cursor[p] <= log[c][p].n
        /\ \A p \in exec[e].ended : log[c][p].ended /\ exec[e].cursor[p] = log[c][p].n
    BY <1>1, <1>2 DEF WholeInv, Sees, Playing
  <2>3. child[c] # "cut"
    BY <1>2 DEF CameToItsEnd
  <2>4. Sees(e)'
    BY <1>1, <1>2, <1>11, <2>1, <2>2, <2>3 DEF Sees
  <2>5. QED
    BY <1>1, <1>7, <1>9, <2>1, <2>4, WholeFrame DEF Ended
<1>12. QED
  BY <1>10, <1>11, IngestsEffect

LEMMA WholeFinishes ==
  ASSUME RunTypeOK, ChildrenInv, RowsInv, WholeInv, NEW e \in Execs, Finishes(e)
  PROVE  WholeInv'
<1>1. /\ exec[e].pc = "finish" /\ Goes(e, "done")
      /\ UNCHANGED <<child, log, runtime, rows, memory, checkpoint>>
      /\ result'[exec[e].run] = rows[exec[e].run]
      /\ \A r \in Runs \ {exec[e].run} : result'[r] = result[r]
  BY FinishesEffect
<1>2. Only(e) /\ exec'[e].pc = "done"
  BY <1>1, GoesOut DEF Ended
<1>3. PICK c \in Execs : CameToItsEnd(c) /\ rows[exec[e].run] = Whole(c)
  BY <1>1, HoldsAll
<1>4. checkpoint[exec[e].run] = "completed"
  BY <1>1 DEF WholeInv, Sees, Playing
<1>5. WorldStep
  BY <1>1, WorldStands
<1>6. CameToItsEnd(c)' /\ Whole(c)' = Whole(c)
  BY <1>3, <1>5, EndStays
<1>7. IngestedInv'
  <2>1. ASSUME NEW r \in Runs, checkpoint'[r] = "completed"
        PROVE  \E d \in Execs : Ingested(d)'
    BY <1>1, <1>5, <2>1, IngestedStays, WholeParts DEF IngestedInv
  <2>2. QED
    BY <2>1 DEF IngestedInv
<1>8. ASSUME NEW r \in Runs, result'[r] # {}
      PROVE  /\ checkpoint'[r] = "completed"
             /\ \E d \in Execs : result'[r] = Whole(d)' /\ CameToItsEnd(d)'
  <2>1. CASE r = exec[e].run
    BY <1>1, <1>3, <1>4, <1>6, <2>1
  <2>2. CASE r # exec[e].run
    <3>1. result'[r] = result[r] /\ checkpoint' = checkpoint
      BY <1>1, <2>2
    <3>2. QED
      BY <1>5, <1>8, <3>1, SamePublished, WholeParts
  <2>3. QED
    BY <2>1, <2>2
<1>9. PublishedInv'
  BY <1>8 DEF PublishedInv
<1>10. QED
  BY <1>1, <1>2, <1>7, <1>9, WholeFrame DEF Ended, Playing

LEMMA WholeBreaks ==
  ASSUME RunTypeOK, ChildrenInv, RowsInv, WholeInv, NEW e \in Execs,
         ExecFails(e) \/ WorkerDies(e)
  PROVE  WholeInv'
<1>1. /\ exec[e].pc \notin Ended \cup {"idle"}
      /\ UNCHANGED <<child, log, memory, checkpoint, result>>
  BY DEF ExecFails, WorkerDies, Ended
<1>2. Goes(e, "failed") \/ Goes(e, "dead")
  BY DEF ExecFails, WorkerDies
<1>3. Only(e) /\ exec'[e].pc \in Ended
  BY <1>2, GoesOut DEF Ended
<1>4. QED
  BY <1>1, <1>3, WorldStands, WholeGoOut

(* A step of a child, while no execution is between its two reads of a file. *)
LEMMA WholeWorld ==
  ASSUME RunTypeOK, RunTypeOK', ChildrenInv, WholeInv, WorldStep,
         UNCHANGED <<exec, runtime, memory, checkpoint, result>>,
         \A c \in Execs : child'[c] = "cut" => child[c] = "cut",
         log' = log \/ \A e \in Execs : exec[e].pc # "end"
  PROVE  WholeInv'
<1>1. IngestedInv' /\ PublishedInv'
  BY WholeParts, GraphStays
<1>2. ASSUME NEW e \in Execs, exec'[e].pc \in Playing PROVE Sees(e)'
  <2>1. exec' = exec /\ runtime' = runtime /\ exec[e].pc \in Playing /\ checkpoint' = checkpoint
    BY <1>2
  <2>2. PICK c \in Execs : c = runtime.child
    BY <2>1, Looking
  <2>3. Sees(e)
    BY <2>1 DEF WholeInv
  <2>4. exec[e].ended \subseteq Platforms /\ \A p \in Platforms : exec[e].cursor[p] \in Nat
    BY <2>1, Looking, WorldTypes, ExecIsTyped
  <2>5. \A p \in Platforms : log[c][p].n \in Nat /\ log'[c][p].n \in Nat
    BY LogsTyped DEF RunTypeOK
  <2>6. \A p \in Platforms : /\ log[c][p].n <= log'[c][p].n
                             /\ log[c][p].ended => log'[c][p].ended /\ log'[c][p].n = log[c][p].n
    BY DEF WorldStep
  <2>7. child'[c] = "cut" => child[c] = "cut"
    OBVIOUS
  <2>8. \A p \in Platforms : exec[e].cursor[p] <= log'[c][p].n
    <3>1. \A p \in Platforms : exec[e].cursor[p] <= log[c][p].n
      BY <2>2, <2>3 DEF Sees
    <3>2. QED
      BY <2>4, <2>5, <2>6, <3>1
  <2>9. exec[e].pc = "end" => log' = log
    OBVIOUS
  <2>10. QED
    BY <2>1, <2>2, <2>3, <2>4, <2>6, <2>7, <2>8, <2>9 DEF Sees
<1>3. QED
  BY <1>1, <1>2 DEF WholeInv, IngestedInv, PublishedInv

LEMMA WholeChild ==
  ASSUME AtomicRead = TRUE, RunTypeOK, RunTypeOK', ChildrenInv, WholeInv, NEW c \in Execs,
         (\E p \in Platforms : LogsRound(c, p) \/ LogsEnd(c, p)) \/ ChildDies(c)
  PROVE  WholeInv'
<1>1. UNCHANGED <<exec, runtime, memory, checkpoint, result>>
  BY DEF LogsRound, LogsEnd, ChildDies
<1>2. ASSUME NEW p \in Platforms, LogsRound(c, p)
      PROVE  WholeInv'
  <2>1. child' = child /\ \A e \in Execs : exec[e].pc # "end"
    BY <1>2 DEF LogsRound, MayLog
  <2>2. QED
    BY <1>1, <1>2, <2>1, RoundIsWorldStep, WholeWorld
<1>3. ASSUME NEW p \in Platforms, LogsEnd(c, p)
      PROVE  WholeInv'
  <2>1. \A e \in Execs : exec[e].pc # "end"
    BY <1>3 DEF LogsEnd, MayLog
  <2>2. \A d \in Execs : child'[d] = "cut" => child[d] = "cut"
    BY <1>3, EndEffect
  <2>3. QED
    BY <1>1, <1>3, <2>1, <2>2, EndIsWorldStep, WholeWorld
<1>4. CASE ChildDies(c)
  <2>1. log' = log /\ \A d \in Execs : child'[d] = "cut" => child[d] = "cut"
    BY <1>4, DiesEffect DEF ChildDies
  <2>2. QED
    BY <1>1, <1>4, <2>1, DiesIsWorldStep, WholeWorld
<1>5. QED
  BY <1>2, <1>3, <1>4

LEMMA WholeStep ==
  ASSUME AtomicRead = TRUE, RunTypeOK, RunTypeOK', ChildrenInv, RowsInv, WholeInv,
         [RunNext]_runVars
  PROVE  WholeInv'
<1>1. CASE UNCHANGED runVars
  BY <1>1 DEF runVars, WholeInv, Sees, Ingested, CameToItsEnd, Whole
<1>2. CASE \E e \in Execs :
             \/ (\E r \in Runs : ExecBegins(e, r)) \/ RunExec(e)
             \/ ExecFails(e) \/ WorkerDies(e)
  BY <1>2, WholeBegin, WholeClear, WholeStart, WholeChecks, WholeReads, WholeLooks, WholeJudges,
     WholeAppends, WholeDecides, WholeIngests, WholeFinishes, WholeBreaks DEF RunExec
<1>3. ASSUME NEW e \in Execs, ControlChanges(e)
      PROVE  WholeInv'
  BY <1>3, WorldStands, WholeWorld DEF ControlChanges
<1>4. CASE \E c \in Execs :
             (\E p \in Platforms : LogsRound(c, p) \/ LogsEnd(c, p)) \/ ChildDies(c)
  BY <1>4, WholeChild
<1>5. QED
  BY <1>1, <1>2, <1>3, <1>4 DEF RunNext

LEMMA WholeInit ==
  ASSUME RunInit
  PROVE  WholeInv
<1>1. \A e \in Execs : exec[e].pc = "idle"
  BY DEF RunInit, Fresh
<1>2. QED
  BY <1>1 DEF RunInit, WholeInv, Playing

-----------------------------------------------------------------------------
(* The theorems *)

(* The variables keep their types, and the child of direct_runtime.json is *)
(* the only live one, over any executions that overlap or not, and however *)
(* the reads of the logs fall.                                             *)
THEOREM ChildrenInvHolds == RunSpec => [](RunTypeOK /\ ChildrenInv)
<1>1. RunTypeOK /\ ChildrenInv /\ [RunNext]_runVars => (RunTypeOK /\ ChildrenInv)'
  BY ChildrenStep
<1>2. RunInit => RunTypeOK /\ ChildrenInv
  BY ChildrenInit
<1>3. QED
  BY <1>1, <1>2, PTL DEF RunSpec

(* start_simulation starts no child beside a live one: an attempt adopts   *)
(* the child that is called running, or stops the one there is.            *)
THEOREM OneWriterHolds == RunSpec => []OneWriter
<1>1. ChildrenInv => OneWriter
  <2> SUFFICES ASSUME ChildrenInv PROVE OneWriter
    OBVIOUS
  <2> DEFINE live == {c \in Execs : Alive(c)}
  <2>1. PICK only : only = runtime.child
    OBVIOUS
  <2>2. live \subseteq {only}
    BY <2>1 DEF ChildrenInv, Alive
  <2>3. IsFiniteSet({only}) /\ Cardinality({only}) = 1
    BY FS_Singleton
  <2>4. Cardinality(live) <= 1
    BY <2>2, <2>3, FS_Subset
  <2>5. QED
    BY <2>4 DEF OneWriter
<1>2. QED
  BY <1>1, ChildrenInvHolds, PTL

(* When no execution begins while another goes on without its lease, what  *)
(* an execution holds is a prefix of what its child did, and the rows of   *)
(* its run are what it has appended.                                       *)
THEOREM RowsInvHolds == ASSUME Overlap = FALSE PROVE RunSpec => []RowsInv
<1>1. RunTypeOK /\ ChildrenInv /\ RowsInv /\ [RunNext]_runVars => RowsInv'
  BY RowsStep
<1>2. RunInit => RowsInv
  BY RowsInit
<1>3. QED
  BY <1>1, <1>2, ChildrenInvHolds, PTL DEF RunSpec

(* Attempts that adopt a child, or replace one, neither mix two children   *)
(* in the rows of a run nor leave a gap, even when a file grows between    *)
(* its two reads.                                                          *)
THEOREM RowsArePrefixHolds == ASSUME Overlap = FALSE PROVE RunSpec => []RowsArePrefix
<1>1. RowsInv => RowsArePrefix
  BY DEF RowsInv
<1>2. QED
  BY <1>1, RowsInvHolds, PTL

(* When moreover each file is read at once, what an execution publishes is *)
(* all that its child did.                                                 *)
THEOREM WholeInvHolds ==
  ASSUME Overlap = FALSE, AtomicRead = TRUE PROVE RunSpec => []WholeInv
<1>1. /\ RunTypeOK /\ ChildrenInv /\ RunTypeOK' /\ RowsInv /\ WholeInv /\ [RunNext]_runVars
      => WholeInv'
  BY WholeStep
<1>2. RunInit => WholeInv
  BY WholeInit
<1>3. QED
  BY <1>1, <1>2, ChildrenInvHolds, RowsInvHolds, PTL DEF RunSpec

(* A published run has every action of one child that came to its own end. *)
THEOREM ResultIsWholeHolds ==
  ASSUME Overlap = FALSE, AtomicRead = TRUE PROVE RunSpec => []ResultIsWhole
<1>1. WholeInv => ResultIsWhole
  BY DEF WholeInv, ResultIsWhole, CameToItsEnd
<1>2. QED
  BY <1>1, WholeInvHolds, PTL

(* The graph has heard of a published run: of all that one of its attempts *)
(* observed, whatever calls of the bridge failed and were retried.         *)
THEOREM IngestedBeforeResultHolds ==
  ASSUME Overlap = FALSE, AtomicRead = TRUE PROVE RunSpec => []IngestedBeforeResult
<1>1. WholeInv => IngestedBeforeResult
  BY DEF WholeInv, IngestedBeforeResult, Ingested
<1>2. QED
  BY <1>1, WholeInvHolds, PTL

=============================================================================
