----------------------------- MODULE JobQueue -----------------------------
(***************************************************************************)
(* The tables jobs and job_attempts of backend/app/database.py and the     *)
(* operations of backend/app/repository.py on them.  Every operation is    *)
(* one database transaction, hence one action.                             *)
(*                                                                         *)
(* An executor is a thread that runs WorkflowService.run_once.  Threads of *)
(* one process share a worker_id, so what tells two executions of a job    *)
(* apart is the execution token, never the lease owner alone.              *)
(*                                                                         *)
(* Time: a timestamp compared with utc_now() is the truth value of that    *)
(* comparison: a lease is "expired" when lease_expires_at < now, a backoff *)
(* is "over" when available_at <= now; LeaseExpires and BackoffElapses let *)
(* time pass.                                                              *)
(* A job id is minted for one simulation, so SimOf is a constant.  The     *)
(* fresh uuid of a claim is the lease_generation stored with it: tokens    *)
(* are only ever compared for one and the same job.                        *)
(***************************************************************************)
EXTENDS Naturals, FiniteSets

CONSTANTS
  Jobs,         \* job ids
  Simulations,  \* simulation ids
  SimOf,        \* the simulation a job belongs to
  Executors,    \* threads running run_once, over all processes
  Workers,      \* worker ids, one per process
  WorkerOf,     \* the worker id a thread runs under
  MaxAttempts,  \* jobs.max_attempts
  Controls,     \* the statuses users ask for through control()
  NoJob, NoWorker

ASSUME QueueAssumption ==
  /\ SimOf \in [Jobs -> Simulations]
  /\ WorkerOf \in [Executors -> Workers]
  /\ MaxAttempts \in Nat \ {0}
  /\ Controls \subseteq {"paused", "queued", "cancelled"}
  /\ NoJob \notin Jobs
  /\ NoWorker \notin Workers

VARIABLES
  jobs,      \* jobs[j]: the row of j, status "absent" before its insert
  attempts,  \* attempts[j][n]: the n-th row of j in job_attempts
  claim      \* claim[e]: the row run_once of e got from claim_next_job

queueVars == <<jobs, attempts, claim>>

-----------------------------------------------------------------------------
(* Types *)

JobStatus == {"queued", "running", "paused", "completed", "failed", "cancelled"}
ActiveStatus == {"queued", "running", "paused"}
Outcome == {"none", "open", "retry", "completed", "failed"}
AttemptNumbers == 1..MaxAttempts

Row == [status: JobStatus \cup {"absent"}, owner: Workers \cup {NoWorker},
        token: Nat, attempts: 0..MaxAttempts,
        lease: {"live", "expired"}, backoff: {"over", "waiting"}]
AttemptRow == [worker: Workers \cup {NoWorker}, token: Nat, outcome: Outcome]
Claim == [job: Jobs \cup {NoJob}, token: Nat]

AbsentRow == [status |-> "absent", owner |-> NoWorker, token |-> 0,
              attempts |-> 0, lease |-> "live", backoff |-> "over"]
NewRow == [AbsentRow EXCEPT !.status = "queued"]
WithStatus(r, status) == [r EXCEPT !.status = status]
WithLease(r, lease) == [r EXCEPT !.lease = lease]
WithBackoff(r, backoff) == [r EXCEPT !.backoff = backoff]

NoAttempt == [worker |-> NoWorker, token |-> 0, outcome |-> "none"]
NoClaim == [job |-> NoJob, token |-> 0]

QueueTypeOK ==
  /\ jobs \in [Jobs -> Row]
  /\ attempts \in [Jobs -> [AttemptNumbers -> AttemptRow]]
  /\ claim \in [Executors -> Claim]

QueueInit ==
  /\ jobs = [j \in Jobs |-> AbsentRow]
  /\ attempts = [j \in Jobs |-> [n \in AttemptNumbers |-> NoAttempt]]
  /\ claim = [e \in Executors |-> NoClaim]

-----------------------------------------------------------------------------
(* The unique index one_active_job_per_simulation *)

Active(j) == jobs[j].status \in ActiveStatus

(* Mutant: the index forgets paused jobs. *)
SlotFreeUnlessPaused(j) ==
  \A k \in Jobs \ {j} :
    SimOf[k] = SimOf[j] => jobs[k].status \notin {"queued", "running"}

ActiveSlotFree(j) ==
  \A k \in Jobs \ {j} : SimOf[k] = SimOf[j] => ~Active(k)

(* The WHERE clauses of the fenced updates *)

(* Mutant: the lease owner alone tells executions apart. *)
FencedByOwner(e, j) == jobs[j].owner = WorkerOf[e]

Fenced(e, j) ==
  /\ jobs[j].owner = WorkerOf[e]
  /\ jobs[j].token = claim[e].token

(* Mutant: the paused and cancelled rows are published as well. *)
HoldsLeaseInAnyStatus(e, j) == Fenced(e, j)

HoldsLease(e, j) == jobs[j].status = "running" /\ Fenced(e, j)

Claimable(j) ==
  /\ jobs[j].status = "queued"
  /\ jobs[j].backoff = "over"
  /\ jobs[j].attempts < MaxAttempts

Expired(j) == jobs[j].status = "running" /\ jobs[j].lease = "expired"

-----------------------------------------------------------------------------
(* put_job: a conflict on the unique index makes it return False. *)
PutJob(j) ==
  /\ jobs[j].status = "absent"
  /\ ActiveSlotFree(j)
  /\ jobs' = [jobs EXCEPT ![j] = NewRow]
  /\ UNCHANGED <<attempts, claim>>

(* claim_next_job: SKIP LOCKED may pass over older rows that another       *)
(* transaction holds, and an embedded thread asks for one job id, so any   *)
(* claimable row may be the one returned.                                  *)
ClaimedRow(r, w) ==
  [r EXCEPT !.status = "running", !.owner = w, !.lease = "live",
            !.token = @ + 1, !.attempts = @ + 1]

ClaimNextJob(e, j) ==
  /\ claim[e] = NoClaim
  /\ Claimable(j)
  /\ jobs' = [jobs EXCEPT ![j] = ClaimedRow(@, WorkerOf[e])]
  /\ attempts' = [attempts EXCEPT ![j][jobs'[j].attempts] =
       [worker |-> WorkerOf[e], token |-> jobs'[j].token, outcome |-> "open"]]
  /\ claim' = [claim EXCEPT ![e] = [job |-> j, token |-> jobs'[j].token]]

(* The lease columns as finish_job, fail_job and the expiry scan leave them: *)
(* the owner is cleared, the token and the attempt count stay.               *)
Released(r, status, backoff) ==
  [r EXCEPT !.status = status, !.owner = NoWorker, !.lease = "live",
            !.backoff = backoff]

(* renew_job_lease, when it matches a row; the heartbeat thread and the    *)
(* check before publishing both call it.                                   *)
RenewJobLease(e) ==
  LET j == claim[e].job IN
  /\ j # NoJob
  /\ HoldsLease(e, j)
  /\ jobs' = [jobs EXCEPT ![j] = WithLease(@, "live")]
  /\ UNCHANGED <<attempts, claim>>

(* The attempt rows finish_job closes: still open, of this worker and      *)
(* token.  Those fail_job closes: of this token, open or not.              *)
CloseOpen(rows, w, t, outcome) ==
  [n \in AttemptNumbers |->
     IF rows[n].outcome = "open" /\ rows[n].worker = w /\ rows[n].token = t
       THEN [rows[n] EXCEPT !.outcome = outcome] ELSE rows[n]]

CloseByToken(rows, t, outcome) ==
  [n \in AttemptNumbers |->
     IF rows[n].outcome # "none" /\ rows[n].token = t
       THEN [rows[n] EXCEPT !.outcome = outcome] ELSE rows[n]]

(* finish_job, when it matches a row; the execution then ends. *)
FinishJob(e) ==
  LET j == claim[e].job IN
  /\ j # NoJob
  /\ HoldsLease(e, j)
  /\ jobs' = [jobs EXCEPT ![j] = Released(@, "completed", @.backoff)]
  /\ attempts' = [attempts EXCEPT ![j] =
       CloseOpen(@, WorkerOf[e], claim[e].token, "completed")]
  /\ claim' = [claim EXCEPT ![e] = NoClaim]

(* fail_job, when the row lock finds this worker and this token.  The      *)
(* status of the row is not looked at.  A retry is refused by the unique   *)
(* index when another job of the simulation became active meanwhile; the   *)
(* IntegrityError leaves run_once (see DropClaim).                         *)
WillRetry(j, retryable) == retryable /\ jobs[j].attempts < MaxAttempts

FailJob(e, retryable) ==
  LET j == claim[e].job
      retry == WillRetry(j, retryable) IN
  /\ j # NoJob
  /\ Fenced(e, j)
  /\ retry => ActiveSlotFree(j)
  /\ jobs' = [jobs EXCEPT ![j] = IF retry THEN Released(@, "queued", "waiting")
                                          ELSE Released(@, "failed", "over")]
  /\ attempts' = [attempts EXCEPT ![j] =
       CloseByToken(@, claim[e].token, IF retry THEN "retry" ELSE "failed")]
  /\ claim' = [claim EXCEPT ![e] = NoClaim]

(* An execution that ends without touching its row: the process dies,      *)
(* _execute returned False, or fail_job matched nothing or raised.         *)
DropClaim(e) ==
  /\ claim[e] # NoClaim
  /\ claim' = [claim EXCEPT ![e] = NoClaim]
  /\ UNCHANGED <<jobs, attempts>>

(* Mutant: expiry never dead-letters. *)
RequeuedAlways(r) == Released(r, "queued", "over")

(* requeue_expired_jobs; recoverable_jobs makes the same two updates.  All *)
(* expired rows go in one transaction; their attempt rows stay open.       *)
RequeuedRow(r) ==
  Released(r, IF r.attempts >= MaxAttempts THEN "failed" ELSE "queued", "over")

RequeueExpiredJobs ==
  /\ \E j \in Jobs : Expired(j)
  /\ jobs' = [j \in Jobs |-> IF Expired(j) THEN RequeuedRow(jobs[j]) ELSE jobs[j]]
  /\ UNCHANGED <<attempts, claim>>

(* set_job_status, as control() calls it.  Only the status changes: owner, *)
(* token and lease of a paused or cancelled row stay what they were.       *)
AllowedFrom(status) ==
  CASE status = "paused"    -> {"queued", "running"}
    [] status = "queued"    -> {"paused"}
    [] status = "cancelled" -> {"queued", "running", "paused"}

SetJobStatus(j, status) ==
  /\ jobs[j].status \in AllowedFrom(status)
  /\ jobs' = [jobs EXCEPT ![j] = WithStatus(@, status)]
  /\ UNCHANGED <<attempts, claim>>

(* Time.  Only a running row's expiry is ever read, and a claim resets it. *)
LeaseExpires(j) ==
  /\ jobs[j].status = "running"
  /\ jobs[j].lease = "live"
  /\ jobs' = [jobs EXCEPT ![j] = WithLease(@, "expired")]
  /\ UNCHANGED <<attempts, claim>>

BackoffElapses(j) ==
  /\ jobs[j].status \in ActiveStatus
  /\ jobs[j].backoff = "waiting"
  /\ jobs' = [jobs EXCEPT ![j] = WithBackoff(@, "over")]
  /\ UNCHANGED <<attempts, claim>>

-----------------------------------------------------------------------------
QueueNext ==
  \/ \E j \in Jobs : PutJob(j)
  \/ \E e \in Executors, j \in Jobs : ClaimNextJob(e, j)
  \/ \E e \in Executors : RenewJobLease(e)
  \/ \E e \in Executors : FinishJob(e)
  \/ \E e \in Executors, retryable \in BOOLEAN : FailJob(e, retryable)
  \/ \E e \in Executors : DropClaim(e)
  \/ RequeueExpiredJobs
  \/ \E j \in Jobs, status \in Controls : SetJobStatus(j, status)
  \/ \E j \in Jobs : LeaseExpires(j)
  \/ \E j \in Jobs : BackoffElapses(j)

QueueSpec == QueueInit /\ [][QueueNext]_queueVars

(* Fairness of the polling worker (backend/worker.py): it calls run_once   *)
(* forever, which first requeues and then claims; the work of an execution *)
(* ends, since every provider call has a timeout; time passes.  Users and  *)
(* crashes are not fair.                                                   *)
QueueFairness ==
  /\ WF_queueVars(RequeueExpiredJobs)
  /\ WF_queueVars(\E e \in Executors, j \in Jobs : ClaimNextJob(e, j))
  /\ \A e \in Executors :
       WF_queueVars(FinishJob(e) \/ DropClaim(e)
                     \/ \E retryable \in BOOLEAN : FailJob(e, retryable))
  /\ \A j \in Jobs : WF_queueVars(LeaseExpires(j)) /\ WF_queueVars(BackoffElapses(j))

FairQueueSpec == QueueSpec /\ QueueFairness

-----------------------------------------------------------------------------
(* Safety *)

(* One simulation never has two jobs queued, running or paused.  A retry   *)
(* can revive a cancelled row while its successor is already active.       *)
OneActiveJobPerSimulation ==
  \A j, k \in Jobs : SimOf[j] = SimOf[k] /\ Active(j) /\ Active(k) => j = k

(* The executions that may still publish for j: finish_job, renew_job_lease *)
(* and fail_job would find their row.                                      *)
Entitled(j) == {e \in Executors : claim[e].job = j /\ Fenced(e, j)}

(* Fencing: after any pauses, resumes, expiries and claims by threads that *)
(* share a worker id, at most one execution of a job is entitled to it.    *)
AtMostOneEntitled ==
  \A j \in Jobs : \A e, f \in Entitled(j) : e = f

(* Exactly-once completion: a job is completed iff one of its attempts is, *)
(* that attempt is the last one, and no other attempt completed.           *)
CompletionIsTheLastAttempt ==
  \A j \in Jobs : \A n \in AttemptNumbers :
    attempts[j][n].outcome = "completed"
      <=> jobs[j].status = "completed" /\ n = jobs[j].attempts

(* The attempt ledger agrees with the lease: while a row names an owner,   *)
(* in whatever status, its newest attempt is open and was made by that     *)
(* owner under the row's token; a running row always names an owner.       *)
LeaseHasOpenAttempt ==
  \A j \in Jobs :
    /\ jobs[j].status = "running" => jobs[j].owner # NoWorker
    /\ jobs[j].owner # NoWorker =>
         /\ jobs[j].attempts \in AttemptNumbers
         /\ attempts[j][jobs[j].attempts] =
              [worker |-> jobs[j].owner, token |-> jobs[j].token, outcome |-> "open"]

(* What is settled stays settled: a completed or failed row never changes  *)
(* again, whatever late executions, expiry scans or users do.              *)
SettledForGood ==
  [][\A j \in Jobs : jobs[j].status \in {"completed", "failed"} => jobs'[j] = jobs[j]]_queueVars

(* The outcome written for an attempt is never overwritten, although       *)
(* fail_job's update does not ask for an open row.                         *)
OutcomeWrittenOnce ==
  [][\A j \in Jobs, n \in AttemptNumbers :
       attempts[j][n].outcome \in {"retry", "completed", "failed"}
         => attempts'[j][n] = attempts[j][n]]_queueVars

(* The inductive invariant behind the properties above.  A row that was    *)
(* decided or never claimed has no owner; the ledger has one row per claim *)
(* and that claim's token; what executions hold are different past tokens. *)
LedgerIsComplete ==
  \A j \in Jobs :
    /\ jobs[j].token = jobs[j].attempts
    /\ jobs[j].status \in {"absent", "completed", "failed"} => jobs[j].owner = NoWorker
    /\ jobs[j].status = "absent" => jobs[j].attempts = 0
    /\ \A n \in AttemptNumbers :
         /\ attempts[j][n].outcome = "none" <=> n > jobs[j].attempts
         /\ n <= jobs[j].attempts => attempts[j][n].token = n

ClaimsArePastTokens ==
  \A e \in Executors :
    /\ claim[e].job = NoJob => claim[e] = NoClaim
    /\ claim[e].job \in Jobs => claim[e].token \in 1..jobs[claim[e].job].token

ClaimsDiffer ==
  \A e, f \in Executors :
    claim[e].job \in Jobs /\ claim[e] = claim[f] => e = f

QueueInv ==
  /\ LedgerIsComplete
  /\ LeaseHasOpenAttempt
  /\ CompletionIsTheLastAttempt
  /\ ClaimsArePastTokens
  /\ ClaimsDiffer
  /\ OneActiveJobPerSimulation

-----------------------------------------------------------------------------
(* Liveness: an enqueued job settles, or the user parks it by pausing or   *)
(* cancelling, whatever crashes and expiries happen on the way.            *)
Parked(j) == jobs[j].status \in {"paused", "cancelled", "completed", "failed"}

EveryJobSettles ==
  \A j \in Jobs : jobs[j].status \in {"queued", "running"} ~> Parked(j)

-----------------------------------------------------------------------------
(* The queue implements its contract: an execution is entitled exactly     *)
(* when the fenced updates would find its row.                             *)
Contract == INSTANCE JobContract WITH
  phase <- [j \in Jobs |-> jobs[j].status],
  entitled <- [j \in Jobs |-> Entitled(j)],
  tries <- [j \in Jobs |-> jobs[j].attempts]

ImplementsContract == Contract!Spec
=============================================================================
