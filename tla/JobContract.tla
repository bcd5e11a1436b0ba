---------------------------- MODULE JobContract ----------------------------
(***************************************************************************)
(* What the job queue of backend/app/repository.py promises its workers    *)
(* and users, with no lease, token, ledger or clock: a job is executed at  *)
(* most MaxAttempts times, at any moment at most one execution is entitled *)
(* to decide its outcome, and only that execution can complete it.         *)
(* JobQueue implements this specification.                                 *)
(***************************************************************************)
EXTENDS Naturals

CONSTANTS Jobs, Executors, MaxAttempts, Controls

VARIABLES
  phase,     \* the status of each job
  entitled,  \* the executions that may decide the job's outcome
  tries      \* how often the job was handed out

contractVars == <<phase, entitled, tries>>

Init ==
  /\ phase = [j \in Jobs |-> "absent"]
  /\ entitled = [j \in Jobs |-> {}]
  /\ tries = [j \in Jobs |-> 0]

Submit(j) ==
  /\ phase[j] = "absent"
  /\ phase' = [phase EXCEPT ![j] = "queued"]
  /\ UNCHANGED <<entitled, tries>>

(* Handing a job out revokes every earlier entitlement to it. *)
Begin(j, e) ==
  /\ phase[j] = "queued"
  /\ tries[j] < MaxAttempts
  /\ phase' = [phase EXCEPT ![j] = "running"]
  /\ entitled' = [entitled EXCEPT ![j] = {e}]
  /\ tries' = [tries EXCEPT ![j] = @ + 1]

Complete(j, e) ==
  /\ phase[j] = "running"
  /\ e \in entitled[j]
  /\ phase' = [phase EXCEPT ![j] = "completed"]
  /\ entitled' = [entitled EXCEPT ![j] = {}]
  /\ UNCHANGED tries

(* The entitled execution reports an error: another try, or the end.  The  *)
(* phase is not asked, so a paused or cancelled job comes back as well.    *)
GiveUp(j, e) ==
  /\ e \in entitled[j]
  /\ \E next \in {"queued", "failed"} :
       /\ next = "queued" => tries[j] < MaxAttempts
       /\ phase' = [phase EXCEPT ![j] = next]
  /\ entitled' = [entitled EXCEPT ![j] = {}]
  /\ UNCHANGED tries

(* An execution vanishes. *)
Vanish(j, e) ==
  /\ entitled' = [entitled EXCEPT ![j] = @ \ {e}]
  /\ UNCHANGED <<phase, tries>>

(* The queue takes running jobs back from executions it has not heard of.  *)
TakeBack(late) ==
  /\ \A j \in late : phase[j] = "running"
  /\ phase' = [j \in Jobs |->
       IF j \notin late THEN phase[j]
       ELSE IF tries[j] >= MaxAttempts THEN "failed" ELSE "queued"]
  /\ entitled' = [j \in Jobs |-> IF j \in late THEN {} ELSE entitled[j]]
  /\ UNCHANGED tries

(* The user's controls; the outcome of the execution under way is open. *)
Control(j, status) ==
  /\ \/ status = "paused" /\ phase[j] \in {"queued", "running"}
     \/ status = "queued" /\ phase[j] = "paused"
     \/ status = "cancelled" /\ phase[j] \in {"queued", "running", "paused"}
  /\ phase' = [phase EXCEPT ![j] = status]
  /\ UNCHANGED <<entitled, tries>>

Next ==
  \/ \E j \in Jobs : Submit(j)
  \/ \E j \in Jobs, e \in Executors :
       Begin(j, e) \/ Complete(j, e) \/ GiveUp(j, e) \/ Vanish(j, e)
  \/ \E late \in SUBSET Jobs : TakeBack(late)
  \/ \E j \in Jobs, status \in Controls : Control(j, status)

Spec == Init /\ [][Next]_contractVars
=============================================================================
