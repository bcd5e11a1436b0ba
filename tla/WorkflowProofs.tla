--------------------------- MODULE WorkflowProofs ---------------------------
(***************************************************************************)
(* Proofs about the job queue and the service over it, for any jobs,       *)
(* executors, worker ids and MaxAttempts.                                  *)
(*                                                                         *)
(* First JobQueue alone: type correctness, the inductive invariant         *)
(* QueueInv, the fencing of executions, and that the queue implements      *)
(* JobContract.  Then Workflow, which uses the queue only through its      *)
(* operations: what is proved of the queue holds of the whole service, and *)
(* results are published before their jobs complete, from the revision the *)
(* job was queued for, for the run that asked for them, stage after stage. *)
(***************************************************************************)
EXTENDS Workflow, TLAPS

USE QueueAssumption

LEMMA StatusIsTyped ==
  ASSUME NEW r \in Row
  PROVE  /\ r.status \in JobStatus \cup {"absent"}
         /\ r.owner \in Workers \cup {NoWorker}
         /\ r.token \in Nat
         /\ r.attempts \in 0..MaxAttempts
         /\ r.lease \in {"live", "expired"}
         /\ r.backoff \in {"over", "waiting"}
  BY DEF Row

LEMMA TypeInit == QueueInit => QueueTypeOK
  BY DEF QueueInit, QueueTypeOK, AbsentRow, NoAttempt, NoClaim, Row, AttemptRow,
         Claim, Outcome, JobStatus

LEMMA NewRowFields ==
  NewRow = [status |-> "queued", owner |-> NoWorker, token |-> 0,
            attempts |-> 0, lease |-> "live", backoff |-> "over"]
  BY DEF NewRow, AbsentRow

LEMMA PutJobType ==
  ASSUME QueueTypeOK, NEW j \in Jobs, PutJob(j)
  PROVE  QueueTypeOK'
<1>1. NewRow \in Row
  BY NewRowFields DEF Row, JobStatus
<1>2. QED
  BY <1>1 DEF PutJob, QueueTypeOK

(* What the row operators do to a row. *)
LEMMA WithFields ==
  ASSUME NEW r \in Row
  PROVE  /\ \A s \in JobStatus :
              /\ WithStatus(r, s) \in Row
              /\ WithStatus(r, s).status = s
              /\ WithStatus(r, s).owner = r.owner
              /\ WithStatus(r, s).token = r.token
              /\ WithStatus(r, s).attempts = r.attempts
         /\ \A l \in {"live", "expired"} :
              /\ WithLease(r, l) \in Row
              /\ WithLease(r, l).status = r.status
              /\ WithLease(r, l).owner = r.owner
              /\ WithLease(r, l).token = r.token
              /\ WithLease(r, l).attempts = r.attempts
         /\ \A b \in {"over", "waiting"} :
              /\ WithBackoff(r, b) \in Row
              /\ WithBackoff(r, b).status = r.status
              /\ WithBackoff(r, b).owner = r.owner
              /\ WithBackoff(r, b).token = r.token
              /\ WithBackoff(r, b).attempts = r.attempts
  BY DEF Row, WithStatus, WithLease, WithBackoff

LEMMA ClaimedRowFields ==
  ASSUME NEW r \in Row, NEW w \in Workers, r.attempts < MaxAttempts
  PROVE  /\ ClaimedRow(r, w) \in Row
         /\ ClaimedRow(r, w).status = "running"
         /\ ClaimedRow(r, w).owner = w
         /\ ClaimedRow(r, w).token = r.token + 1
         /\ ClaimedRow(r, w).attempts = r.attempts + 1
<1>1. r.token \in Nat /\ r.token + 1 \in Nat /\ r.attempts + 1 \in 0..MaxAttempts
  BY DEF Row
<1>2. QED
  BY <1>1 DEF Row, JobStatus, ClaimedRow

LEMMA ReleasedFields ==
  ASSUME NEW r \in Row, NEW status \in JobStatus, NEW backoff \in {"over", "waiting"}
  PROVE  /\ Released(r, status, backoff) \in Row
         /\ Released(r, status, backoff).status = status
         /\ Released(r, status, backoff).owner = NoWorker
         /\ Released(r, status, backoff).token = r.token
         /\ Released(r, status, backoff).attempts = r.attempts
  BY DEF Row, Released

LEMMA RequeuedRowFields ==
  ASSUME NEW r \in Row
  PROVE  /\ RequeuedRow(r) \in Row
         /\ RequeuedRow(r).status = IF r.attempts >= MaxAttempts THEN "failed" ELSE "queued"
         /\ RequeuedRow(r).owner = NoWorker
         /\ RequeuedRow(r).token = r.token
         /\ RequeuedRow(r).attempts = r.attempts
<1>1. (IF r.attempts >= MaxAttempts THEN "failed" ELSE "queued") \in JobStatus
  BY DEF JobStatus
<1>2. QED
  BY <1>1, ReleasedFields DEF RequeuedRow

LEMMA ClaimNextJobType ==
  ASSUME QueueTypeOK, NEW e \in Executors, NEW j \in Jobs, ClaimNextJob(e, j)
  PROVE  QueueTypeOK'
<1>1. WorkerOf[e] \in Workers /\ jobs[j] \in Row /\ jobs[j].attempts < MaxAttempts
  BY DEF ClaimNextJob, Claimable, QueueTypeOK
<1>2. jobs'[j] = ClaimedRow(jobs[j], WorkerOf[e])
  BY DEF ClaimNextJob, QueueTypeOK
<1>3. jobs' \in [Jobs -> Row]
  BY <1>1, ClaimedRowFields DEF ClaimNextJob, QueueTypeOK
<1>4. jobs'[j].token \in Nat /\ jobs'[j].attempts \in AttemptNumbers
  BY <1>1, <1>2, ClaimedRowFields DEF AttemptNumbers, Row
<1>5. attempts' \in [Jobs -> [AttemptNumbers -> AttemptRow]]
  BY <1>1, <1>4 DEF ClaimNextJob, QueueTypeOK, AttemptRow, Outcome
<1>6. claim' \in [Executors -> Claim]
  BY <1>4 DEF ClaimNextJob, QueueTypeOK, Claim
<1>7. QED
  BY <1>3, <1>5, <1>6 DEF QueueTypeOK

LEMMA CloseTypes ==
  ASSUME NEW rows \in [AttemptNumbers -> AttemptRow], NEW w, NEW t,
         NEW outcome \in Outcome
  PROVE  /\ CloseOpen(rows, w, t, outcome) \in [AttemptNumbers -> AttemptRow]
         /\ CloseByToken(rows, t, outcome) \in [AttemptNumbers -> AttemptRow]
  BY DEF CloseOpen, CloseByToken, AttemptRow

LEMMA RenewJobLeaseType ==
  ASSUME QueueTypeOK, NEW e \in Executors, RenewJobLease(e)
  PROVE  QueueTypeOK'
<1> DEFINE j == claim[e].job
<1>1. j \in Jobs
  BY DEF RenewJobLease, QueueTypeOK, Claim
<1>2. QED
  BY <1>1, WithFields DEF RenewJobLease, QueueTypeOK

LEMMA FinishJobType ==
  ASSUME QueueTypeOK, NEW e \in Executors, FinishJob(e)
  PROVE  QueueTypeOK'
<1> DEFINE j == claim[e].job
<1>1. j \in Jobs
  BY DEF FinishJob, QueueTypeOK, Claim
<1>2. jobs' \in [Jobs -> Row]
  <2>1. jobs[j].backoff \in {"over", "waiting"}
    BY <1>1 DEF QueueTypeOK, Row
  <2>2. Released(jobs[j], "completed", jobs[j].backoff) \in Row
    BY <1>1, <2>1, ReleasedFields DEF QueueTypeOK, JobStatus
  <2>3. QED
    BY <1>1, <2>2 DEF FinishJob, QueueTypeOK
<1>3. attempts' \in [Jobs -> [AttemptNumbers -> AttemptRow]]
  BY <1>1, CloseTypes DEF FinishJob, QueueTypeOK, Outcome
<1>4. claim' \in [Executors -> Claim]
  BY DEF FinishJob, QueueTypeOK, Claim, NoClaim
<1>5. QED
  BY <1>2, <1>3, <1>4 DEF QueueTypeOK

LEMMA FailJobType ==
  ASSUME QueueTypeOK, NEW e \in Executors, NEW retryable \in BOOLEAN,
         FailJob(e, retryable)
  PROVE  QueueTypeOK'
<1> DEFINE j == claim[e].job
<1>1. j \in Jobs
  BY DEF FailJob, QueueTypeOK, Claim
<1>2. jobs' \in [Jobs -> Row]
  <2>1. /\ Released(jobs[j], "queued", "waiting") \in Row
        /\ Released(jobs[j], "failed", "over") \in Row
    BY <1>1, ReleasedFields DEF QueueTypeOK, JobStatus
  <2>2. QED
    BY <1>1, <2>1 DEF FailJob, QueueTypeOK
<1>3. attempts' \in [Jobs -> [AttemptNumbers -> AttemptRow]]
  BY <1>1, CloseTypes DEF FailJob, QueueTypeOK, Outcome
<1>4. claim' \in [Executors -> Claim]
  BY DEF FailJob, QueueTypeOK, Claim, NoClaim
<1>5. QED
  BY <1>2, <1>3, <1>4 DEF QueueTypeOK

LEMMA DropClaimType ==
  ASSUME QueueTypeOK, NEW e \in Executors, DropClaim(e)
  PROVE  QueueTypeOK'
  BY DEF DropClaim, QueueTypeOK, Claim, NoClaim

LEMMA RequeueExpiredJobsType ==
  ASSUME QueueTypeOK, RequeueExpiredJobs
  PROVE  QueueTypeOK'
  BY RequeuedRowFields DEF RequeueExpiredJobs, QueueTypeOK

LEMMA SetJobStatusType ==
  ASSUME QueueTypeOK, NEW j \in Jobs, NEW status \in Controls, SetJobStatus(j, status)
  PROVE  QueueTypeOK'
<1>1. status \in JobStatus
  BY DEF JobStatus
<1>2. QED
  BY <1>1, WithFields DEF SetJobStatus, QueueTypeOK

LEMMA TimeType ==
  ASSUME QueueTypeOK, NEW j \in Jobs, LeaseExpires(j) \/ BackoffElapses(j)
  PROVE  QueueTypeOK'
<1>1. /\ WithLease(jobs[j], "expired") \in Row
      /\ WithBackoff(jobs[j], "over") \in Row
  BY WithFields DEF QueueTypeOK
<1>2. CASE LeaseExpires(j)
  BY <1>1, <1>2 DEF LeaseExpires, QueueTypeOK
<1>3. CASE BackoffElapses(j)
  BY <1>1, <1>3 DEF BackoffElapses, QueueTypeOK
<1>4. QED
  BY <1>2, <1>3

LEMMA TypeStep == QueueTypeOK /\ [QueueNext]_queueVars => QueueTypeOK'
<1>1. SUFFICES ASSUME QueueTypeOK, [QueueNext]_queueVars PROVE QueueTypeOK'
  OBVIOUS
<1>2. CASE UNCHANGED queueVars
  BY <1>1, <1>2 DEF queueVars, QueueTypeOK
<1>3. CASE QueueNext
  BY <1>1, <1>3, PutJobType, ClaimNextJobType, RenewJobLeaseType, FinishJobType,
     FailJobType, DropClaimType, RequeueExpiredJobsType, SetJobStatusType, TimeType
  DEF QueueNext
<1>4. QED
  BY <1>1, <1>2, <1>3

(* Type correctness of the three tables of the queue. *)
THEOREM QueueTypeCorrect == QueueSpec => []QueueTypeOK
  BY TypeInit, TypeStep, PTL DEF QueueSpec

-----------------------------------------------------------------------------
(* The inductive invariant, one lemma per action. *)

LEMMA InvInit == QueueInit => QueueInv
  BY DEF QueueInit, QueueInv, LedgerIsComplete, LeaseHasOpenAttempt,
         CompletionIsTheLastAttempt, ClaimsArePastTokens, ClaimsDiffer,
         OneActiveJobPerSimulation, Active, ActiveStatus,
         AbsentRow, NoAttempt, NoClaim, AttemptNumbers

LEMMA PutJobInv ==
  ASSUME QueueTypeOK, QueueInv, NEW j \in Jobs, PutJob(j)
  PROVE  QueueInv'
<1> USE DEF QueueInv
<1>1. /\ jobs' \in [Jobs -> Row]
      /\ jobs'[j] = NewRow
      /\ \A k \in Jobs \ {j} : jobs'[k] = jobs[k]
      /\ attempts' = attempts /\ claim' = claim
  BY PutJobType DEF PutJob, QueueTypeOK
<1>2. /\ jobs[j].token = 0 /\ jobs[j].attempts = 0 /\ jobs[j].owner = NoWorker
  BY DEF PutJob, LedgerIsComplete
<1>3. LedgerIsComplete'
  BY <1>1, <1>2, NewRowFields DEF LedgerIsComplete
<1>4. LeaseHasOpenAttempt'
  BY <1>1, <1>2, NewRowFields DEF LeaseHasOpenAttempt
<1>5. CompletionIsTheLastAttempt'
  BY <1>1, <1>2, NewRowFields DEF CompletionIsTheLastAttempt, PutJob
<1>6. ClaimsArePastTokens' /\ ClaimsDiffer'
  BY <1>1, <1>2, NewRowFields DEF ClaimsArePastTokens, ClaimsDiffer
<1>7. OneActiveJobPerSimulation'
  BY <1>1 DEF OneActiveJobPerSimulation, PutJob, ActiveSlotFree, Active
<1>8. QED
  BY <1>3, <1>4, <1>5, <1>6, <1>7

LEMMA ClaimNextJobInv ==
  ASSUME QueueTypeOK, QueueInv, NEW e \in Executors, NEW j \in Jobs, ClaimNextJob(e, j)
  PROVE  QueueInv'
<1> USE DEF QueueInv
<1> DEFINE n == jobs[j].attempts + 1
<1>1. /\ jobs' \in [Jobs -> Row]
      /\ jobs'[j] = ClaimedRow(jobs[j], WorkerOf[e])
      /\ \A k \in Jobs \ {j} : jobs'[k] = jobs[k]
      /\ jobs[j].status = "queued"
      /\ jobs[j] \in Row /\ jobs[j].attempts < MaxAttempts
      /\ jobs[j].token = jobs[j].attempts
  BY ClaimNextJobType DEF ClaimNextJob, Claimable, QueueTypeOK, LedgerIsComplete
<1>2. /\ n \in AttemptNumbers
      /\ jobs'[j].status = "running" /\ jobs'[j].owner = WorkerOf[e]
      /\ jobs'[j].token = n /\ jobs'[j].attempts = n
      /\ jobs[j].token \in Nat /\ n = jobs[j].token + 1
  BY <1>1, ClaimedRowFields DEF AttemptNumbers, Row
<1>3. /\ attempts'[j][n] = [worker |-> WorkerOf[e], token |-> n, outcome |-> "open"]
      /\ \A m \in AttemptNumbers \ {n} : attempts'[j][m] = attempts[j][m]
      /\ \A k \in Jobs \ {j} : attempts'[k] = attempts[k]
  BY <1>2 DEF ClaimNextJob, QueueTypeOK
<1>4. /\ claim[e] = NoClaim
      /\ claim'[e] = [job |-> j, token |-> n]
      /\ \A f \in Executors \ {e} : claim'[f] = claim[f]
  BY <1>2 DEF ClaimNextJob, QueueTypeOK
<1>5. LedgerIsComplete'
  BY <1>1, <1>2, <1>3 DEF LedgerIsComplete, AttemptNumbers
<1>6. LeaseHasOpenAttempt'
  BY <1>1, <1>2, <1>3 DEF LeaseHasOpenAttempt, AttemptNumbers
<1>7. CompletionIsTheLastAttempt'
  BY <1>1, <1>2, <1>3 DEF CompletionIsTheLastAttempt
<1>8. ClaimsArePastTokens'
  BY <1>1, <1>2, <1>4 DEF ClaimsArePastTokens, NoClaim, QueueTypeOK, Claim, Row
<1>9. ClaimsDiffer'
  <2>1. ASSUME NEW f \in Executors, f # e, claim[f].job = j
        PROVE  claim[f].token # n
    BY <1>2, <2>1 DEF ClaimsArePastTokens
  <2>2. QED
    BY <1>4, <2>1 DEF ClaimsDiffer
<1>10. OneActiveJobPerSimulation'
  BY <1>1, <1>2 DEF OneActiveJobPerSimulation, Active, ActiveStatus
<1>11. QED
  BY <1>5, <1>6, <1>7, <1>8, <1>9, <1>10

(* A row whose owner, token and attempts stay, and whose status moves only *)
(* among the unsettled ones: renewals, controls and the passing of time.   *)
LEMMA RowTouchedInv ==
  ASSUME QueueTypeOK, QueueInv, NEW j \in Jobs,
         jobs' \in [Jobs -> Row],
         \A k \in Jobs \ {j} : jobs'[k] = jobs[k],
         jobs'[j].owner = jobs[j].owner, jobs'[j].token = jobs[j].token,
         jobs'[j].attempts = jobs[j].attempts,
         jobs'[j].status \in {"queued", "running", "paused", "cancelled"}
           \/ jobs'[j].status = jobs[j].status,
         jobs'[j].status = "running" => jobs[j].status = "running",
         jobs[j].status \in {"queued", "running", "paused", "cancelled"}
           \/ jobs'[j].status = jobs[j].status,
         Active(j)' => Active(j),
         UNCHANGED <<attempts, claim>>
  PROVE  QueueInv'
<1> USE DEF QueueInv
<1>1. LedgerIsComplete'
  BY DEF LedgerIsComplete
<1>2. LeaseHasOpenAttempt'
  BY DEF LeaseHasOpenAttempt
<1>3. CompletionIsTheLastAttempt'
  BY DEF CompletionIsTheLastAttempt
<1>4. ClaimsArePastTokens' /\ ClaimsDiffer'
  BY DEF ClaimsArePastTokens, ClaimsDiffer
<1>5. OneActiveJobPerSimulation'
  BY DEF OneActiveJobPerSimulation, Active
<1>6. QED
  BY <1>1, <1>2, <1>3, <1>4, <1>5

LEMMA RenewJobLeaseInv ==
  ASSUME QueueTypeOK, QueueInv, NEW e \in Executors, RenewJobLease(e)
  PROVE  QueueInv'
<1> DEFINE j == claim[e].job
<1>1. j \in Jobs
  BY DEF RenewJobLease, QueueTypeOK, Claim
<1>2. /\ jobs'[j] = WithLease(jobs[j], "live")
      /\ \A k \in Jobs \ {j} : jobs'[k] = jobs[k]
      /\ UNCHANGED <<attempts, claim>>
      /\ jobs[j] \in Row
  BY <1>1 DEF RenewJobLease, QueueTypeOK
<1>3. /\ jobs'[j].status = jobs[j].status /\ jobs'[j].owner = jobs[j].owner
      /\ jobs'[j].token = jobs[j].token /\ jobs'[j].attempts = jobs[j].attempts
  BY <1>2, WithFields
<1>4. jobs' \in [Jobs -> Row]
  BY RenewJobLeaseType DEF QueueTypeOK
<1>5. QED
  BY <1>1, <1>2, <1>3, <1>4, RowTouchedInv DEF Active

LEMMA SetJobStatusInv ==
  ASSUME QueueTypeOK, QueueInv, NEW j \in Jobs, NEW status \in Controls,
         SetJobStatus(j, status)
  PROVE  QueueInv'
<1>1. /\ jobs'[j] = WithStatus(jobs[j], status)
      /\ \A k \in Jobs \ {j} : jobs'[k] = jobs[k]
      /\ UNCHANGED <<attempts, claim>>
      /\ jobs[j] \in Row
  BY DEF SetJobStatus, QueueTypeOK
<1>2. status \in {"paused", "queued", "cancelled"} /\ status \in JobStatus
  BY DEF JobStatus
<1>3. /\ jobs'[j].status = status /\ jobs'[j].owner = jobs[j].owner
      /\ jobs'[j].token = jobs[j].token /\ jobs'[j].attempts = jobs[j].attempts
  BY <1>1, <1>2, WithFields
<1>4. jobs[j].status \in {"queued", "running", "paused"}
  BY <1>2 DEF SetJobStatus, AllowedFrom
<1>5. jobs' \in [Jobs -> Row]
  BY SetJobStatusType DEF QueueTypeOK
<1>6. QED
  BY <1>1, <1>2, <1>3, <1>4, <1>5, RowTouchedInv DEF Active, ActiveStatus

LEMMA TimeInv ==
  ASSUME QueueTypeOK, QueueInv, NEW j \in Jobs, LeaseExpires(j) \/ BackoffElapses(j)
  PROVE  QueueInv'
<1>1. /\ jobs'[j] = WithLease(jobs[j], "expired") \/ jobs'[j] = WithBackoff(jobs[j], "over")
      /\ \A k \in Jobs \ {j} : jobs'[k] = jobs[k]
      /\ UNCHANGED <<attempts, claim>>
      /\ jobs[j] \in Row
  BY DEF LeaseExpires, BackoffElapses, QueueTypeOK
<1>2. /\ jobs'[j].status = jobs[j].status /\ jobs'[j].owner = jobs[j].owner
      /\ jobs'[j].token = jobs[j].token /\ jobs'[j].attempts = jobs[j].attempts
  BY <1>1, WithFields
<1>3. jobs' \in [Jobs -> Row]
  BY TimeType DEF QueueTypeOK
<1>4. QED
  BY <1>1, <1>2, <1>3, RowTouchedInv DEF Active

LEMMA DropClaimInv ==
  ASSUME QueueTypeOK, QueueInv, NEW e \in Executors, DropClaim(e)
  PROVE  QueueInv'
<1> USE DEF QueueInv
<1>1. /\ claim'[e] = NoClaim
      /\ \A f \in Executors \ {e} : claim'[f] = claim[f]
      /\ UNCHANGED <<jobs, attempts>>
  BY DEF DropClaim, QueueTypeOK
<1>2. ClaimsArePastTokens' /\ ClaimsDiffer'
  BY <1>1 DEF ClaimsArePastTokens, ClaimsDiffer, NoClaim
<1>3. QED
  BY <1>1, <1>2 DEF LedgerIsComplete, LeaseHasOpenAttempt, CompletionIsTheLastAttempt,
     OneActiveJobPerSimulation, Active

(* A fenced execution is that of the row's newest attempt, still open. *)
LEMMA FencedIsNewest ==
  ASSUME QueueTypeOK, QueueInv, NEW e \in Executors, NEW j \in Jobs,
         claim[e].job = j, Fenced(e, j)
  PROVE  /\ jobs[j].attempts \in AttemptNumbers
         /\ claim[e].token = jobs[j].attempts
         /\ jobs[j].token = jobs[j].attempts
         /\ attempts[j][jobs[j].attempts] =
              [worker |-> WorkerOf[e], token |-> claim[e].token, outcome |-> "open"]
  BY DEF QueueInv, LeaseHasOpenAttempt, LedgerIsComplete, Fenced

(* Closing the newest attempt and releasing the row: what finish_job and   *)
(* fail_job do once they found the row.                                    *)
LEMMA DecideInv ==
  ASSUME QueueTypeOK, QueueInv, NEW e \in Executors, NEW j \in Jobs,
         claim[e].job = j, Fenced(e, j),
         NEW status \in {"queued", "completed", "failed"},
         NEW outcome \in {"retry", "completed", "failed"},
         outcome = "completed" <=> status = "completed",
         status = "queued" => ActiveSlotFree(j),
         jobs' \in [Jobs -> Row],
         jobs'[j].status = status, jobs'[j].owner = NoWorker,
         jobs'[j].token = jobs[j].token, jobs'[j].attempts = jobs[j].attempts,
         \A k \in Jobs \ {j} : jobs'[k] = jobs[k] /\ attempts'[k] = attempts[k],
         attempts'[j][jobs[j].attempts] =
           [worker |-> WorkerOf[e], token |-> claim[e].token, outcome |-> outcome],
         \A m \in AttemptNumbers \ {jobs[j].attempts} : attempts'[j][m] = attempts[j][m],
         claim'[e] = NoClaim,
         \A f \in Executors \ {e} : claim'[f] = claim[f]
  PROVE  QueueInv'
<1>0. /\ jobs[j].attempts \in AttemptNumbers
      /\ claim[e].token = jobs[j].attempts /\ jobs[j].token = jobs[j].attempts
      /\ attempts[j][jobs[j].attempts] =
           [worker |-> WorkerOf[e], token |-> claim[e].token, outcome |-> "open"]
  BY ONLY QueueTypeOK, QueueInv, e \in Executors, j \in Jobs, claim[e].job = j,
          Fenced(e, j), FencedIsNewest
<1>1. /\ jobs[j].attempts \in AttemptNumbers
      /\ claim[e].token = jobs[j].attempts /\ jobs[j].token = jobs[j].attempts
      /\ attempts[j][jobs[j].attempts].outcome = "open"
  BY ONLY <1>0
<1> USE DEF QueueInv
<1>2. jobs[j].status # "completed"
  BY <1>1 DEF CompletionIsTheLastAttempt
<1>3. LedgerIsComplete'
  BY <1>1 DEF LedgerIsComplete
<1>4. LeaseHasOpenAttempt'
  <2>1. jobs'[j].status # "running" /\ jobs'[j].owner = NoWorker
    OBVIOUS
  <2>2. \A k \in Jobs \ {j} : jobs'[k] = jobs[k] /\ attempts'[k] = attempts[k]
    OBVIOUS
  <2>3. LeaseHasOpenAttempt
    OBVIOUS
  <2>4. QED
    BY ONLY <2>1, <2>2, <2>3 DEF LeaseHasOpenAttempt
<1>5. CompletionIsTheLastAttempt'
  BY <1>1, <1>2 DEF CompletionIsTheLastAttempt
<1>6. ClaimsArePastTokens' /\ ClaimsDiffer'
  BY DEF ClaimsArePastTokens, ClaimsDiffer, NoClaim
<1>7. OneActiveJobPerSimulation'
  BY DEF OneActiveJobPerSimulation, Active, ActiveStatus, ActiveSlotFree
<1>8. QED
  BY <1>3, <1>4, <1>5, <1>6, <1>7

LEMMA FinishJobInv ==
  ASSUME QueueTypeOK, QueueInv, NEW e \in Executors, FinishJob(e)
  PROVE  QueueInv'
<1> DEFINE j == claim[e].job
           n == jobs[j].attempts
<1>1. j \in Jobs /\ jobs[j] \in Row /\ jobs[j].backoff \in {"over", "waiting"} /\ Fenced(e, j)
  BY DEF FinishJob, QueueTypeOK, Claim, Row, HoldsLease
<1>2. /\ n \in AttemptNumbers
      /\ claim[e].token = n
      /\ attempts[j][n] = [worker |-> WorkerOf[e], token |-> claim[e].token, outcome |-> "open"]
  BY <1>1, FencedIsNewest
<1>3. /\ jobs' \in [Jobs -> Row]
      /\ jobs'[j] = Released(jobs[j], "completed", jobs[j].backoff)
      /\ \A k \in Jobs \ {j} : jobs'[k] = jobs[k] /\ attempts'[k] = attempts[k]
      /\ attempts'[j] = CloseOpen(attempts[j], WorkerOf[e], claim[e].token, "completed")
      /\ claim'[e] = NoClaim
      /\ \A f \in Executors \ {e} : claim'[f] = claim[f]
  BY <1>1, FinishJobType DEF FinishJob, QueueTypeOK
<1>4. /\ jobs'[j].status = "completed" /\ jobs'[j].owner = NoWorker
      /\ jobs'[j].token = jobs[j].token /\ jobs'[j].attempts = jobs[j].attempts
  BY <1>1, <1>3, ReleasedFields DEF JobStatus
<1>5. \A m \in AttemptNumbers \ {n} : attempts[j][m].token # claim[e].token
                                       \/ attempts[j][m].outcome = "none"
  BY <1>1, <1>2 DEF QueueInv, LedgerIsComplete, AttemptNumbers, Row
<1>6. /\ attempts'[j][n] =
           [worker |-> WorkerOf[e], token |-> claim[e].token, outcome |-> "completed"]
      /\ \A m \in AttemptNumbers \ {n} : attempts'[j][m] = attempts[j][m]
  <2>1. attempts[j] \in [AttemptNumbers -> AttemptRow]
    BY <1>1 DEF QueueTypeOK
  <2>2. \A m \in AttemptNumbers \ {n} : attempts'[j][m] = attempts[j][m]
    BY ONLY <1>3, <1>5 DEF CloseOpen
  <2>3. attempts'[j][n] = IF /\ attempts[j][n].outcome = "open"
                             /\ attempts[j][n].worker = WorkerOf[e]
                             /\ attempts[j][n].token = claim[e].token
                          THEN [attempts[j][n] EXCEPT !.outcome = "completed"]
                          ELSE attempts[j][n]
    <3> HIDE DEF j, n
    <3> QED  BY ONLY <1>2, <1>3 DEF CloseOpen
  <2>4. attempts'[j][n] = [attempts[j][n] EXCEPT !.outcome = "completed"]
    <3> HIDE DEF j, n
    <3> QED  BY ONLY <1>2, <2>3
  <2>5. attempts'[j][n] = [worker |-> WorkerOf[e], token |-> claim[e].token,
                           outcome |-> "completed"]
    <3> HIDE DEF j, n
    <3> QED  BY ONLY <1>2, <2>4
  <2>6. QED
    BY ONLY <2>2, <2>5
<1>7. QED
  BY <1>1, <1>3, <1>4, <1>6, DecideInv

LEMMA FailJobInv ==
  ASSUME QueueTypeOK, QueueInv, NEW e \in Executors, NEW retryable \in BOOLEAN,
         FailJob(e, retryable)
  PROVE  QueueInv'
<1> DEFINE j == claim[e].job
           n == jobs[j].attempts
           status == IF WillRetry(j, retryable) THEN "queued" ELSE "failed"
           outcome == IF WillRetry(j, retryable) THEN "retry" ELSE "failed"
           backoff == IF WillRetry(j, retryable) THEN "waiting" ELSE "over"
<1>1. j \in Jobs /\ jobs[j] \in Row /\ Fenced(e, j)
  BY DEF FailJob, QueueTypeOK, Claim
<1>2. /\ n \in AttemptNumbers
      /\ claim[e].token = n
      /\ attempts[j][n] = [worker |-> WorkerOf[e], token |-> claim[e].token, outcome |-> "open"]
  BY <1>1, FencedIsNewest
<1>3. /\ jobs' \in [Jobs -> Row]
      /\ jobs'[j] = Released(jobs[j], status, backoff)
      /\ \A k \in Jobs \ {j} : jobs'[k] = jobs[k] /\ attempts'[k] = attempts[k]
      /\ attempts'[j] = CloseByToken(attempts[j], claim[e].token, outcome)
      /\ claim'[e] = NoClaim
      /\ \A f \in Executors \ {e} : claim'[f] = claim[f]
  BY <1>1, FailJobType DEF FailJob, QueueTypeOK
<1>4. /\ jobs'[j].status = status /\ jobs'[j].owner = NoWorker
      /\ jobs'[j].token = jobs[j].token /\ jobs'[j].attempts = jobs[j].attempts
  BY <1>1, <1>3, ReleasedFields DEF JobStatus
<1>5. \A m \in AttemptNumbers \ {n} : attempts[j][m].token # claim[e].token
                                       \/ attempts[j][m].outcome = "none"
  BY <1>1, <1>2 DEF QueueInv, LedgerIsComplete, AttemptNumbers, Row
<1>6. /\ attempts'[j][n] =
           [worker |-> WorkerOf[e], token |-> claim[e].token, outcome |-> outcome]
      /\ \A m \in AttemptNumbers \ {n} : attempts'[j][m] = attempts[j][m]
  <2>1. attempts[j] \in [AttemptNumbers -> AttemptRow]
    BY <1>1 DEF QueueTypeOK
  <2>2. \A m \in AttemptNumbers \ {n} : attempts'[j][m] = attempts[j][m]
    BY ONLY <1>3, <1>5 DEF CloseByToken
  <2>3. attempts'[j][n] = IF attempts[j][n].outcome # "none" /\ attempts[j][n].token = claim[e].token
                          THEN [attempts[j][n] EXCEPT !.outcome = outcome] ELSE attempts[j][n]
    <3> HIDE DEF j, n, outcome
    <3> QED  BY ONLY <1>2, <1>3 DEF CloseByToken
  <2>4. attempts'[j][n] = [attempts[j][n] EXCEPT !.outcome = outcome]
    <3> HIDE DEF j, n, outcome
    <3> QED  BY ONLY <1>2, <2>3
  <2>5. attempts'[j][n] = [worker |-> WorkerOf[e], token |-> claim[e].token, outcome |-> outcome]
    <3> HIDE DEF j, n, outcome
    <3> QED  BY ONLY <1>2, <2>4
  <2>6. QED
    BY ONLY <2>2, <2>5
<1>7. CASE WillRetry(j, retryable)
  <2>1. ActiveSlotFree(j)
    BY <1>7 DEF FailJob
  <2>2. QED
    BY <1>1, <1>3, <1>4, <1>6, <1>7, <2>1, DecideInv
<1>8. CASE ~WillRetry(j, retryable)
  BY <1>1, <1>3, <1>4, <1>6, <1>8, DecideInv
<1>9. QED
  BY <1>7, <1>8

LEMMA RequeueExpiredJobsInv ==
  ASSUME QueueTypeOK, QueueInv, RequeueExpiredJobs
  PROVE  QueueInv'
<1> USE DEF QueueInv
<1>1. /\ \A j \in Jobs : jobs[j] \in Row
      /\ UNCHANGED <<attempts, claim>>
  BY DEF QueueTypeOK, RequeueExpiredJobs
<1>2. \A j \in Jobs : ~Expired(j) => jobs'[j] = jobs[j]
  BY DEF RequeueExpiredJobs
<1>3. \A j \in Jobs : Expired(j) => jobs'[j] = RequeuedRow(jobs[j])
  BY DEF RequeueExpiredJobs
<1>4. \A j \in Jobs : Expired(j) =>
        /\ jobs[j].status = "running"
        /\ jobs'[j].status \in {"queued", "failed"}
        /\ jobs'[j].owner = NoWorker
        /\ jobs'[j].token = jobs[j].token
        /\ jobs'[j].attempts = jobs[j].attempts
  BY <1>1, <1>3, RequeuedRowFields DEF Expired
<1>5. \A j \in Jobs : jobs'[j].token = jobs[j].token /\ jobs'[j].attempts = jobs[j].attempts
  BY <1>2, <1>4
<1>6. LedgerIsComplete'
  <2> SUFFICES ASSUME NEW j \in Jobs
               PROVE  /\ jobs'[j].status \in {"absent", "completed", "failed"}
                           => jobs'[j].owner = NoWorker
                      /\ jobs'[j].status = "absent" => jobs'[j].attempts = 0
    BY <1>1, <1>5 DEF LedgerIsComplete
  <2>1. CASE Expired(j)
    BY <1>4, <2>1
  <2>2. CASE ~Expired(j)
    BY <1>2, <2>2 DEF LedgerIsComplete
  <2>3. QED
    BY <2>1, <2>2
<1>7. LeaseHasOpenAttempt'
  <2> SUFFICES ASSUME NEW j \in Jobs
               PROVE  /\ jobs'[j].status = "running" => jobs'[j].owner # NoWorker
                      /\ jobs'[j].owner # NoWorker =>
                           /\ jobs'[j].attempts \in AttemptNumbers
                           /\ attempts'[j][jobs'[j].attempts] =
                                [worker |-> jobs'[j].owner, token |-> jobs'[j].token,
                                 outcome |-> "open"]
    BY DEF LeaseHasOpenAttempt
  <2>1. CASE Expired(j)
    BY <1>4, <2>1
  <2>2. CASE ~Expired(j)
    BY <1>1, <1>2, <2>2 DEF LeaseHasOpenAttempt
  <2>3. QED
    BY <2>1, <2>2
<1>8. CompletionIsTheLastAttempt'
  <2>1. \A j \in Jobs : jobs'[j].status = "completed" <=> jobs[j].status = "completed"
    BY <1>2, <1>4
  <2>2. QED
    BY <1>1, <1>5, <2>1 DEF CompletionIsTheLastAttempt
<1>9. ClaimsArePastTokens' /\ ClaimsDiffer'
  BY <1>1, <1>5 DEF ClaimsArePastTokens, ClaimsDiffer
<1>10. OneActiveJobPerSimulation'
  <2>1. \A j \in Jobs : Active(j)' => Active(j)
    BY <1>2, <1>4 DEF Active, ActiveStatus
  <2>2. QED
    BY <2>1 DEF OneActiveJobPerSimulation
<1>11. QED
  BY <1>6, <1>7, <1>8, <1>9, <1>10

LEMMA InvStep == QueueTypeOK /\ QueueInv /\ [QueueNext]_queueVars => QueueInv'
<1>1. SUFFICES ASSUME QueueTypeOK, QueueInv, [QueueNext]_queueVars PROVE QueueInv'
  OBVIOUS
<1>2. CASE UNCHANGED queueVars
  BY <1>1, <1>2 DEF queueVars, QueueInv, LedgerIsComplete, LeaseHasOpenAttempt,
     CompletionIsTheLastAttempt, ClaimsArePastTokens, ClaimsDiffer,
     OneActiveJobPerSimulation, Active
<1>3. CASE QueueNext
  BY <1>1, <1>3, PutJobInv, ClaimNextJobInv, RenewJobLeaseInv, FinishJobInv,
     FailJobInv, DropClaimInv, RequeueExpiredJobsInv, SetJobStatusInv, TimeInv
  DEF QueueNext
<1>4. QED
  BY <1>1, <1>2, <1>3

(* The inductive invariant holds: the ledger of attempts, the leases, the  *)
(* claims in the workers' memory and the active slots agree in every state. *)
THEOREM QueueInvHolds == QueueSpec => []QueueInv
  BY TypeInit, TypeStep, InvInit, InvStep, PTL DEF QueueSpec

-----------------------------------------------------------------------------
(* Consequences *)

LEMMA InvFences == QueueTypeOK /\ QueueInv => AtMostOneEntitled
<1> SUFFICES ASSUME QueueTypeOK, QueueInv, NEW j \in Jobs,
                    NEW e \in Entitled(j), NEW f \in Entitled(j)
             PROVE  e = f
  BY DEF AtMostOneEntitled
<1>1. /\ e \in Executors /\ f \in Executors
      /\ claim[e].job = j /\ claim[f].job = j
      /\ claim[e].token = claim[f].token
  BY DEF Entitled, Fenced
<1>2. claim[e] = claim[f]
  BY <1>1 DEF QueueTypeOK, Claim
<1>3. QED
  BY <1>1, <1>2 DEF QueueInv, ClaimsDiffer

(* Fencing, for any number of threads per worker id: no two executions of  *)
(* a job are entitled to decide it at once.                                *)
THEOREM ExecutionsAreFenced == QueueSpec => []AtMostOneEntitled
  BY QueueTypeCorrect, QueueInvHolds, InvFences, PTL

(* A simulation never has two active jobs. *)
THEOREM OneActiveJob == QueueSpec => []OneActiveJobPerSimulation
<1>1. QueueInv => OneActiveJobPerSimulation
  BY DEF QueueInv
<1>2. QED
  BY <1>1, QueueInvHolds, PTL

(* A job is completed by exactly one attempt, its last. *)
THEOREM CompletedOnce == QueueSpec => []CompletionIsTheLastAttempt
<1>1. QueueInv => CompletionIsTheLastAttempt
  BY DEF QueueInv
<1>2. QED
  BY <1>1, QueueInvHolds, PTL

-----------------------------------------------------------------------------
(* Action properties *)

LEMMA SettledStep ==
  ASSUME QueueTypeOK, QueueInv, [QueueNext]_queueVars, NEW j \in Jobs,
         jobs[j].status \in {"completed", "failed"}
  PROVE  jobs'[j] = jobs[j]
<1>1. jobs \in [Jobs -> Row] /\ jobs[j].owner = NoWorker
  BY DEF QueueTypeOK, QueueInv, LedgerIsComplete
<1>2. ASSUME NEW k \in Jobs, PutJob(k) PROVE jobs'[j] = jobs[j]
  BY <1>1, <1>2 DEF PutJob
<1>3. ASSUME NEW e \in Executors, NEW k \in Jobs, ClaimNextJob(e, k) PROVE jobs'[j] = jobs[j]
  BY <1>1, <1>3 DEF ClaimNextJob, Claimable
<1>4. ASSUME NEW e \in Executors, RenewJobLease(e) PROVE jobs'[j] = jobs[j]
  BY <1>1, <1>4 DEF RenewJobLease, HoldsLease
<1>5. ASSUME NEW e \in Executors, FinishJob(e) PROVE jobs'[j] = jobs[j]
  BY <1>1, <1>5 DEF FinishJob, HoldsLease
<1>6. ASSUME NEW e \in Executors, NEW retryable \in BOOLEAN, FailJob(e, retryable)
      PROVE  jobs'[j] = jobs[j]
  <2>1. WorkerOf[e] # NoWorker
    OBVIOUS
  <2>2. claim[e].job # j
    BY <1>1, <1>6, <2>1 DEF FailJob, Fenced
  <2>3. QED
    BY <1>1, <1>6, <2>2 DEF FailJob
<1>7. ASSUME NEW e \in Executors, DropClaim(e) PROVE jobs'[j] = jobs[j]
  BY <1>7 DEF DropClaim
<1>8. ASSUME RequeueExpiredJobs PROVE jobs'[j] = jobs[j]
  BY <1>8 DEF RequeueExpiredJobs, Expired
<1>9. ASSUME NEW k \in Jobs, NEW status \in Controls, SetJobStatus(k, status)
      PROVE  jobs'[j] = jobs[j]
  <2>1. status \in {"paused", "queued", "cancelled"}
    OBVIOUS
  <2>2. jobs[k].status \notin {"completed", "failed"}
    BY <1>9, <2>1 DEF SetJobStatus, AllowedFrom
  <2>3. QED
    BY <1>1, <1>9, <2>2 DEF SetJobStatus
<1>10. ASSUME NEW k \in Jobs, LeaseExpires(k) \/ BackoffElapses(k) PROVE jobs'[j] = jobs[j]
  <2>1. CASE LeaseExpires(k)
    BY <1>1, <2>1 DEF LeaseExpires
  <2>2. CASE BackoffElapses(k)
    BY <1>1, <2>2 DEF BackoffElapses, ActiveStatus
  <2>3. QED
    BY <1>10, <2>1, <2>2
<1>11. CASE UNCHANGED queueVars
  BY <1>11 DEF queueVars
<1>12. CASE QueueNext
  BY <1>2, <1>3, <1>4, <1>5, <1>6, <1>7, <1>8, <1>9, <1>10, <1>12 DEF QueueNext
<1>13. QED
  BY <1>11, <1>12

(* No late execution, expiry scan or control changes a settled row. *)
THEOREM SettledRowsStay == QueueSpec => SettledForGood
<1>1. QueueTypeOK /\ QueueInv /\ [QueueNext]_queueVars
       => \A j \in Jobs : jobs[j].status \in {"completed", "failed"} => jobs'[j] = jobs[j]
  BY SettledStep
<1>2. QueueTypeOK /\ QueueInv /\ [QueueNext]_queueVars
       => [\A j \in Jobs : jobs[j].status \in {"completed", "failed"}
                            => jobs'[j] = jobs[j]]_queueVars
  BY <1>1
<1>3. QED
  BY <1>2, QueueTypeCorrect, QueueInvHolds, PTL DEF QueueSpec, SettledForGood

LEMMA OutcomeStep ==
  ASSUME QueueTypeOK, QueueInv, [QueueNext]_queueVars, NEW j \in Jobs,
         NEW n \in AttemptNumbers,
         attempts[j][n].outcome \in {"retry", "completed", "failed"}
  PROVE  attempts'[j][n] = attempts[j][n]
<1>1. /\ attempts \in [Jobs -> [AttemptNumbers -> AttemptRow]]
      /\ jobs[j] \in Row
      /\ n <= jobs[j].attempts
      /\ attempts[j][n].token = n
  <2>1. jobs[j] \in Row /\ attempts \in [Jobs -> [AttemptNumbers -> AttemptRow]]
    BY DEF QueueTypeOK
  <2>2. n <= jobs[j].attempts
    BY <2>1 DEF QueueInv, LedgerIsComplete, AttemptNumbers, Row
  <2>3. QED
    BY <2>1, <2>2 DEF QueueInv, LedgerIsComplete
<1>2. ASSUME NEW e \in Executors, NEW k \in Jobs, ClaimNextJob(e, k)
      PROVE  attempts'[j][n] = attempts[j][n]
  <2>1. CASE k # j
    BY <1>1, <1>2, <2>1 DEF ClaimNextJob
  <2>2. CASE k = j
    <3>1. jobs'[j] = ClaimedRow(jobs[j], WorkerOf[e]) /\ jobs[j].attempts < MaxAttempts
      BY <1>2, <2>2 DEF ClaimNextJob, QueueTypeOK, Claimable
    <3>2. jobs'[j].attempts = jobs[j].attempts + 1
      BY <1>1, <3>1, ClaimedRowFields
    <3>3. jobs'[j].attempts # n
      BY <1>1, <3>2 DEF Row, AttemptNumbers
    <3>4. QED
      BY <1>1, <1>2, <2>2, <3>3 DEF ClaimNextJob
  <2>3. QED
    BY <2>1, <2>2
<1>3. ASSUME NEW e \in Executors, FinishJob(e)
      PROVE  attempts'[j][n] = attempts[j][n]
  <2>1. CASE claim[e].job # j
    BY <1>1, <1>3, <2>1 DEF FinishJob
  <2>2. CASE claim[e].job = j
    <3>1. attempts'[j] = CloseOpen(attempts[j], WorkerOf[e], claim[e].token, "completed")
      BY <1>1, <1>3, <2>2 DEF FinishJob
    <3>2. QED
      BY <3>1 DEF CloseOpen
  <2>3. QED
    BY <2>1, <2>2
<1>4. ASSUME NEW e \in Executors, NEW retryable \in BOOLEAN, FailJob(e, retryable)
      PROVE  attempts'[j][n] = attempts[j][n]
  <2>1. CASE claim[e].job # j
    BY <1>1, <1>4, <2>1 DEF FailJob
  <2>2. CASE claim[e].job = j
    <3>1. PICK outcome \in {"retry", "failed"} :
            attempts'[j] = CloseByToken(attempts[j], claim[e].token, outcome)
      BY <1>1, <1>4, <2>2 DEF FailJob
    <3>2. /\ claim[e].token = jobs[j].attempts
          /\ attempts[j][jobs[j].attempts] =
               [worker |-> WorkerOf[e], token |-> claim[e].token, outcome |-> "open"]
      <4>1. Fenced(e, j)
        BY <1>4, <2>2 DEF FailJob
      <4>2. QED
        BY <4>1, <2>2, FencedIsNewest
    <3>3. attempts[j][jobs[j].attempts].outcome = "open"
      BY ONLY <3>2
    <3>4. attempts[j][n].token # claim[e].token
      BY <1>1, <3>2, <3>3
    <3>5. QED
      BY <3>1, <3>4 DEF CloseByToken
  <2>3. QED
    BY <2>1, <2>2
<1>5. CASE UNCHANGED attempts
  BY <1>5
<1>6. UNCHANGED queueVars => UNCHANGED attempts
  BY DEF queueVars
<1>7. CASE QueueNext
  BY <1>2, <1>3, <1>4, <1>5, <1>7
  DEF QueueNext, PutJob, RenewJobLease, DropClaim, RequeueExpiredJobs, SetJobStatus,
      LeaseExpires, BackoffElapses
<1>8. QED
  BY <1>5, <1>6, <1>7

(* The outcome of an attempt is written once. *)
THEOREM OutcomesStay == QueueSpec => OutcomeWrittenOnce
<1>1. QueueTypeOK /\ QueueInv /\ [QueueNext]_queueVars
       => [\A j \in Jobs, n \in AttemptNumbers :
             attempts[j][n].outcome \in {"retry", "completed", "failed"}
               => attempts'[j][n] = attempts[j][n]]_queueVars
  BY OutcomeStep
<1>2. QED
  BY <1>1, QueueTypeCorrect, QueueInvHolds, PTL DEF QueueSpec, OutcomeWrittenOnce

-----------------------------------------------------------------------------
(* The refinement: the initial states map to initial states, and every     *)
(* transaction on the tables is a step of the contract or leaves it        *)
(* unchanged.                                                              *)

(* The mapped variables. *)
Phase == [j \in Jobs |-> jobs[j].status]
EntitledTo == [j \in Jobs |-> Entitled(j)]
Tries == [j \in Jobs |-> jobs[j].attempts]

LEMMA InitMaps == QueueInit => Contract!Init
<1> SUFFICES ASSUME QueueInit PROVE Contract!Init
  OBVIOUS
<1>1. \A j \in Jobs : jobs[j].status = "absent" /\ jobs[j].attempts = 0
  BY DEF QueueInit, AbsentRow
<1>2. \A j \in Jobs : Entitled(j) = {}
  BY DEF QueueInit, NoClaim, Entitled
<1>3. QED
  BY <1>1, <1>2 DEF Contract!Init

(* Who is entitled changes only with the owner or token of the row and     *)
(* with the claims on it.                                                  *)
LEMMA EntitledFrame ==
  ASSUME NEW j \in Jobs,
         jobs'[j].owner = jobs[j].owner, jobs'[j].token = jobs[j].token,
         \A e \in Executors : claim'[e] = claim[e]
                                \/ (claim[e].job # j /\ claim'[e].job # j)
  PROVE  Entitled(j)' = Entitled(j)
  BY DEF Entitled, Fenced

LEMMA NoOwnerNobodyEntitled ==
  ASSUME NEW j \in Jobs, jobs[j].owner = NoWorker
  PROVE  Entitled(j) = {}
<1>1. \A e \in Executors : WorkerOf[e] # NoWorker
  OBVIOUS
<1>2. QED
  BY <1>1 DEF Entitled, Fenced

LEMMA PutJobMaps ==
  ASSUME QueueTypeOK, QueueInv, NEW j \in Jobs, PutJob(j)
  PROVE  Contract!Submit(j)
<1>1. /\ jobs'[j] = NewRow /\ jobs[j].status = "absent"
      /\ \A k \in Jobs \ {j} : jobs'[k] = jobs[k]
      /\ claim' = claim
  BY DEF PutJob, QueueTypeOK
<1>2. /\ jobs[j].token = 0 /\ jobs[j].attempts = 0 /\ jobs[j].owner = NoWorker
  BY <1>1 DEF QueueInv, LedgerIsComplete
<1>3. /\ jobs'[j].status = "queued" /\ jobs'[j].attempts = 0
      /\ jobs'[j].owner = NoWorker /\ jobs'[j].token = 0
  BY <1>1, NewRowFields
<1>4. \A k \in Jobs : Entitled(k)' = Entitled(k)
  BY <1>1, <1>2, <1>3, EntitledFrame
<1>5. Phase' = [Phase EXCEPT ![j] = "queued"]
  BY <1>1, <1>3 DEF Phase
<1>6. Tries' = Tries
  BY <1>1, <1>2, <1>3 DEF Tries
<1>7. EntitledTo' = EntitledTo
  BY <1>4 DEF EntitledTo
<1>8. QED
  BY <1>1, <1>5, <1>6, <1>7 DEF Contract!Submit, Phase, EntitledTo, Tries

LEMMA ClaimNextJobMaps ==
  ASSUME QueueTypeOK, QueueInv, NEW e \in Executors, NEW j \in Jobs, ClaimNextJob(e, j)
  PROVE  Contract!Begin(j, e)
<1>1. /\ jobs'[j] = ClaimedRow(jobs[j], WorkerOf[e])
      /\ \A k \in Jobs \ {j} : jobs'[k] = jobs[k]
      /\ jobs[j].status = "queued" /\ jobs[j].attempts < MaxAttempts
      /\ jobs[j] \in Row /\ WorkerOf[e] \in Workers
      /\ claim[e] = NoClaim
      /\ claim'[e] = [job |-> j, token |-> jobs'[j].token]
      /\ \A f \in Executors \ {e} : claim'[f] = claim[f]
  BY DEF ClaimNextJob, Claimable, QueueTypeOK
<1>2. /\ jobs'[j].status = "running" /\ jobs'[j].owner = WorkerOf[e]
      /\ jobs'[j].token = jobs[j].token + 1 /\ jobs'[j].attempts = jobs[j].attempts + 1
      /\ jobs[j].token \in Nat
  BY <1>1, ClaimedRowFields DEF Row
<1>3. claim[e].job \notin Jobs /\ claim'[e].job = j /\ claim'[e].token = jobs'[j].token
  BY <1>1 DEF NoClaim
<1>4. \A k \in Jobs \ {j} : Entitled(k)' = Entitled(k)
  BY <1>1, <1>3, EntitledFrame
<1>5. Entitled(j)' = {e}
  <2>1. \A f \in Executors \ {e} : claim[f].job = j => claim[f].token # jobs'[j].token
    BY <1>2 DEF QueueInv, ClaimsArePastTokens
  <2>2. QED
    BY <1>1, <1>2, <1>3, <2>1 DEF Entitled, Fenced
<1>6. Phase' = [Phase EXCEPT ![j] = "running"]
  BY <1>1, <1>2 DEF Phase
<1>7. Tries' = [Tries EXCEPT ![j] = @ + 1]
  BY <1>1, <1>2 DEF Tries
<1>8. EntitledTo' = [EntitledTo EXCEPT ![j] = {e}]
  BY <1>4, <1>5 DEF EntitledTo
<1>9. QED
  BY <1>1, <1>6, <1>7, <1>8 DEF Contract!Begin, Phase, EntitledTo, Tries

(* Touching neither owner nor token, nor the claims. *)
LEMMA RowTouchedMaps ==
  ASSUME QueueTypeOK, NEW j \in Jobs,
         \A k \in Jobs \ {j} : jobs'[k] = jobs[k],
         jobs'[j].owner = jobs[j].owner, jobs'[j].token = jobs[j].token,
         jobs'[j].attempts = jobs[j].attempts, claim' = claim
  PROVE  /\ Phase' = [Phase EXCEPT ![j] = jobs'[j].status]
         /\ EntitledTo' = EntitledTo
         /\ Tries' = Tries
<1>1. \A k \in Jobs : Entitled(k)' = Entitled(k)
  BY EntitledFrame
<1>2. QED
  BY <1>1 DEF Phase, EntitledTo, Tries

LEMMA RenewJobLeaseMaps ==
  ASSUME QueueTypeOK, NEW e \in Executors, RenewJobLease(e)
  PROVE  UNCHANGED <<Phase, EntitledTo, Tries>>
<1> DEFINE j == claim[e].job
<1>1. j \in Jobs
  BY DEF RenewJobLease, QueueTypeOK, Claim
<1>2. /\ jobs'[j] = WithLease(jobs[j], "live")
      /\ \A k \in Jobs \ {j} : jobs'[k] = jobs[k]
      /\ claim' = claim /\ jobs[j] \in Row
  BY <1>1 DEF RenewJobLease, QueueTypeOK
<1>3. /\ jobs'[j].status = jobs[j].status /\ jobs'[j].owner = jobs[j].owner
      /\ jobs'[j].token = jobs[j].token /\ jobs'[j].attempts = jobs[j].attempts
  BY <1>2, WithFields
<1>4. /\ Phase' = [Phase EXCEPT ![j] = jobs'[j].status]
      /\ EntitledTo' = EntitledTo /\ Tries' = Tries
  BY <1>1, <1>2, <1>3, RowTouchedMaps
<1>5. QED
  BY <1>1, <1>3, <1>4 DEF Phase

LEMMA TimeMaps ==
  ASSUME QueueTypeOK, NEW j \in Jobs, LeaseExpires(j) \/ BackoffElapses(j)
  PROVE  UNCHANGED <<Phase, EntitledTo, Tries>>
<1>1. /\ \/ jobs'[j] = WithLease(jobs[j], "expired")
         \/ jobs'[j] = WithBackoff(jobs[j], "over")
      /\ \A k \in Jobs \ {j} : jobs'[k] = jobs[k]
      /\ claim' = claim /\ jobs[j] \in Row
  BY DEF LeaseExpires, BackoffElapses, QueueTypeOK
<1>2. /\ jobs'[j].status = jobs[j].status /\ jobs'[j].owner = jobs[j].owner
      /\ jobs'[j].token = jobs[j].token /\ jobs'[j].attempts = jobs[j].attempts
  BY <1>1, WithFields
<1>3. /\ Phase' = [Phase EXCEPT ![j] = jobs'[j].status]
      /\ EntitledTo' = EntitledTo /\ Tries' = Tries
  BY <1>1, <1>2, RowTouchedMaps
<1>4. QED
  BY <1>2, <1>3 DEF Phase

LEMMA SetJobStatusMaps ==
  ASSUME QueueTypeOK, NEW j \in Jobs, NEW status \in Controls, SetJobStatus(j, status)
  PROVE  Contract!Control(j, status)
<1>1. /\ jobs'[j] = WithStatus(jobs[j], status)
      /\ \A k \in Jobs \ {j} : jobs'[k] = jobs[k]
      /\ claim' = claim /\ jobs[j] \in Row
  BY DEF SetJobStatus, QueueTypeOK
<1>2. status \in {"paused", "queued", "cancelled"} /\ status \in JobStatus
  BY DEF JobStatus
<1>3. /\ jobs'[j].status = status /\ jobs'[j].owner = jobs[j].owner
      /\ jobs'[j].token = jobs[j].token /\ jobs'[j].attempts = jobs[j].attempts
  BY <1>1, <1>2, WithFields
<1>4. /\ Phase' = [Phase EXCEPT ![j] = status]
      /\ EntitledTo' = EntitledTo /\ Tries' = Tries
  BY <1>1, <1>3, RowTouchedMaps
<1>5. \/ status = "paused" /\ jobs[j].status \in {"queued", "running"}
      \/ status = "queued" /\ jobs[j].status = "paused"
      \/ status = "cancelled" /\ jobs[j].status \in {"queued", "running", "paused"}
  BY <1>2 DEF SetJobStatus, AllowedFrom
<1>6. QED
  BY <1>4, <1>5 DEF Contract!Control, Phase, EntitledTo, Tries

(* A decided execution loses its entitlement with the owner of the row. *)
LEMMA DecideMaps ==
  ASSUME QueueTypeOK, NEW e \in Executors, NEW j \in Jobs, claim[e].job = j,
         \A k \in Jobs \ {j} : jobs'[k] = jobs[k],
         jobs'[j].owner = NoWorker, jobs'[j].attempts = jobs[j].attempts,
         claim'[e] = NoClaim,
         \A f \in Executors \ {e} : claim'[f] = claim[f]
  PROVE  /\ Phase' = [Phase EXCEPT ![j] = jobs'[j].status]
         /\ EntitledTo' = [EntitledTo EXCEPT ![j] = {}]
         /\ Tries' = Tries
<1>1. \A k \in Jobs \ {j} : Entitled(k)' = Entitled(k)
  BY EntitledFrame DEF NoClaim
<1>2. Entitled(j)' = {}
  <2>1. \A f \in Executors : WorkerOf[f] # NoWorker
    OBVIOUS
  <2>2. QED
    BY <2>1 DEF Entitled, Fenced
<1>3. QED
  BY <1>1, <1>2 DEF Phase, EntitledTo, Tries

LEMMA FinishJobMaps ==
  ASSUME QueueTypeOK, NEW e \in Executors, FinishJob(e)
  PROVE  \E j \in Jobs : Contract!Complete(j, e)
<1> DEFINE j == claim[e].job
<1>1. j \in Jobs /\ jobs[j] \in Row /\ jobs[j].backoff \in {"over", "waiting"}
      /\ Fenced(e, j) /\ jobs[j].status = "running"
  BY DEF FinishJob, QueueTypeOK, Claim, Row, HoldsLease
<1>2. /\ jobs'[j] = Released(jobs[j], "completed", jobs[j].backoff)
      /\ \A k \in Jobs \ {j} : jobs'[k] = jobs[k]
      /\ claim'[e] = NoClaim
      /\ \A f \in Executors \ {e} : claim'[f] = claim[f]
  BY <1>1 DEF FinishJob, QueueTypeOK
<1>3. /\ jobs'[j].status = "completed" /\ jobs'[j].owner = NoWorker
      /\ jobs'[j].attempts = jobs[j].attempts
  BY <1>1, <1>2, ReleasedFields DEF JobStatus
<1>4. /\ Phase' = [Phase EXCEPT ![j] = "completed"]
      /\ EntitledTo' = [EntitledTo EXCEPT ![j] = {}] /\ Tries' = Tries
  BY <1>1, <1>2, <1>3, DecideMaps
<1>5. Phase[j] = "running" /\ e \in EntitledTo[j]
  BY <1>1 DEF Phase, EntitledTo, Entitled
<1>6. QED
  BY <1>1, <1>4, <1>5 DEF Contract!Complete, Phase, EntitledTo, Tries

LEMMA FailJobMaps ==
  ASSUME QueueTypeOK, NEW e \in Executors, NEW retryable \in BOOLEAN, FailJob(e, retryable)
  PROVE  \E j \in Jobs : Contract!GiveUp(j, e)
<1> DEFINE j == claim[e].job
           status == IF WillRetry(j, retryable) THEN "queued" ELSE "failed"
           backoff == IF WillRetry(j, retryable) THEN "waiting" ELSE "over"
<1>1. j \in Jobs /\ jobs[j] \in Row /\ Fenced(e, j)
  BY DEF FailJob, QueueTypeOK, Claim
<1>2. /\ jobs'[j] = Released(jobs[j], status, backoff)
      /\ \A k \in Jobs \ {j} : jobs'[k] = jobs[k]
      /\ claim'[e] = NoClaim
      /\ \A f \in Executors \ {e} : claim'[f] = claim[f]
  BY <1>1 DEF FailJob, QueueTypeOK
<1>3. /\ jobs'[j].status = status /\ jobs'[j].owner = NoWorker
      /\ jobs'[j].attempts = jobs[j].attempts
  BY <1>1, <1>2, ReleasedFields DEF JobStatus
<1>4. /\ Phase' = [Phase EXCEPT ![j] = status]
      /\ EntitledTo' = [EntitledTo EXCEPT ![j] = {}] /\ Tries' = Tries
  BY <1>1, <1>2, <1>3, DecideMaps
<1>5. /\ status \in {"queued", "failed"}
      /\ status = "queued" => Tries[j] < MaxAttempts
  BY <1>1 DEF Tries, WillRetry
<1>6. e \in EntitledTo[j]
  BY <1>1 DEF EntitledTo, Entitled
<1>7. QED
  BY <1>1, <1>4, <1>5, <1>6 DEF Contract!GiveUp, Phase, EntitledTo, Tries

LEMMA DropClaimMaps ==
  ASSUME QueueTypeOK, QueueInv, NEW e \in Executors, DropClaim(e)
  PROVE  \E j \in Jobs : Contract!Vanish(j, e)
<1>1. PICK j \in Jobs : j = claim[e].job
  BY DEF DropClaim, QueueTypeOK, Claim, QueueInv, ClaimsArePastTokens
<1>2. /\ claim'[e] = NoClaim /\ jobs' = jobs
      /\ \A f \in Executors \ {e} : claim'[f] = claim[f]
  BY DEF DropClaim, QueueTypeOK
<1>3. \A k \in Jobs \ {j} : Entitled(k)' = Entitled(k)
  <2>1. NoClaim.job \notin Jobs
    BY DEF NoClaim
  <2>2. QED
    BY <1>1, <1>2, <2>1, EntitledFrame
<1>4. Entitled(j)' = Entitled(j) \ {e}
  <2>1. NoClaim.job # j
    BY <1>1 DEF NoClaim
  <2>2. ASSUME NEW f \in Executors
        PROVE  f \in Entitled(j)' <=> f \in Entitled(j) /\ f # e
    <3>1. CASE f = e
      BY <1>1, <1>2, <2>1, <3>1 DEF Entitled
    <3>2. CASE f # e
      BY <1>2, <3>2 DEF Entitled, Fenced
    <3>3. QED
      BY <3>1, <3>2
  <2>3. Entitled(j)' \subseteq Executors /\ Entitled(j) \subseteq Executors
    BY DEF Entitled
  <2>4. QED
    BY <2>2, <2>3
<1>5. EntitledTo' = [EntitledTo EXCEPT ![j] = @ \ {e}]
  BY <1>3, <1>4 DEF EntitledTo
<1>6. Phase' = Phase /\ Tries' = Tries
  BY <1>2 DEF Phase, Tries
<1>7. QED
  BY <1>1, <1>5, <1>6 DEF Contract!Vanish, Phase, EntitledTo, Tries

LEMMA RequeueExpiredJobsMaps ==
  ASSUME QueueTypeOK, RequeueExpiredJobs
  PROVE  \E late \in SUBSET Jobs : Contract!TakeBack(late)
<1> DEFINE late == {j \in Jobs : Expired(j)}
<1>1. \A j \in Jobs : jobs[j] \in Row
  BY DEF QueueTypeOK
<1>2. claim' = claim /\ \A j \in Jobs \ late : jobs'[j] = jobs[j]
  BY DEF RequeueExpiredJobs
<1>3. \A j \in late : jobs'[j] = RequeuedRow(jobs[j]) /\ jobs[j].status = "running"
  BY DEF RequeueExpiredJobs, Expired
<1>4. \A j \in late :
        /\ jobs'[j].status = IF jobs[j].attempts >= MaxAttempts THEN "failed" ELSE "queued"
        /\ jobs'[j].owner = NoWorker /\ jobs'[j].attempts = jobs[j].attempts
  BY <1>1, <1>3, RequeuedRowFields
<1>5. \A j \in late : Entitled(j)' = {}
  <2>1. \A f \in Executors : WorkerOf[f] # NoWorker
    OBVIOUS
  <2>2. QED
    BY <1>4, <2>1 DEF Entitled, Fenced
<1>6. \A j \in Jobs \ late : Entitled(j)' = Entitled(j)
  BY <1>2, EntitledFrame
<1>7. late \in SUBSET Jobs
  OBVIOUS
<1> HIDE DEF late
<1>8. \A j \in late : Phase[j] = "running"
  BY <1>3, <1>7 DEF Phase
<1>9. Phase' = [j \in Jobs |->
         IF j \notin late THEN Phase[j]
         ELSE IF Tries[j] >= MaxAttempts THEN "failed" ELSE "queued"]
  BY <1>2, <1>4, <1>7 DEF Phase, Tries
<1>10. EntitledTo' = [j \in Jobs |-> IF j \in late THEN {} ELSE EntitledTo[j]]
  BY <1>5, <1>6, <1>7 DEF EntitledTo
<1>11. Tries' = Tries
  BY <1>2, <1>4 DEF Tries
<1>12. QED
  BY <1>7, <1>8, <1>9, <1>10, <1>11 DEF Contract!TakeBack, Phase, EntitledTo, Tries

LEMMA NextMaps ==
  QueueTypeOK /\ QueueInv /\ [QueueNext]_queueVars => [Contract!Next]_(Contract!contractVars)
<1>1. SUFFICES ASSUME QueueTypeOK, QueueInv, [QueueNext]_queueVars
               PROVE  Contract!Next \/ UNCHANGED <<Phase, EntitledTo, Tries>>
  BY DEF Contract!contractVars, Phase, EntitledTo, Tries
<1>2. CASE UNCHANGED queueVars
  BY <1>2 DEF queueVars, Phase, EntitledTo, Tries, Entitled, Fenced
<1>3. ASSUME NEW j \in Jobs, PutJob(j) PROVE Contract!Next
  BY <1>1, <1>3, PutJobMaps DEF Contract!Next
<1>4. ASSUME NEW e \in Executors, NEW j \in Jobs, ClaimNextJob(e, j) PROVE Contract!Next
  BY <1>1, <1>4, ClaimNextJobMaps DEF Contract!Next
<1>5. ASSUME NEW e \in Executors, FinishJob(e) PROVE Contract!Next
  BY <1>1, <1>5, FinishJobMaps DEF Contract!Next
<1>6. ASSUME NEW e \in Executors, NEW retryable \in BOOLEAN, FailJob(e, retryable)
      PROVE  Contract!Next
  BY <1>1, <1>6, FailJobMaps DEF Contract!Next
<1>7. ASSUME NEW e \in Executors, DropClaim(e) PROVE Contract!Next
  BY <1>1, <1>7, DropClaimMaps DEF Contract!Next
<1>8. ASSUME RequeueExpiredJobs PROVE Contract!Next
  BY <1>1, <1>8, RequeueExpiredJobsMaps DEF Contract!Next
<1>9. ASSUME NEW j \in Jobs, NEW status \in Controls, SetJobStatus(j, status)
      PROVE  Contract!Next
  BY <1>1, <1>9, SetJobStatusMaps DEF Contract!Next
<1>10. CASE QueueNext
  BY <1>1, <1>3, <1>4, <1>5, <1>6, <1>7, <1>8, <1>9, <1>10,
     RenewJobLeaseMaps, TimeMaps DEF QueueNext
<1>11. QED
  BY <1>1, <1>2, <1>10

(* The queue keeps its contract: at most MaxAttempts executions of a job,  *)
(* at most one entitled at a time, and only that one completes it.         *)
THEOREM QueueImplementsContract == QueueSpec => ImplementsContract
  BY InitMaps, NextMaps, QueueTypeCorrect, QueueInvHolds, PTL
  DEF QueueSpec, ImplementsContract, Contract!Spec

-----------------------------------------------------------------------------
(***************************************************************************)
(* The service: Workflow                                                   *)
(***************************************************************************)
(* Every step of the service is a step of the queue or leaves it alone, *)
(* and only Finishes is a FinishJob.                                       *)
NextButFinishing ==
  \/ \E j \in Jobs : PutJob(j)
  \/ \E e \in Executors, j \in Jobs : ClaimNextJob(e, j)
  \/ \E e \in Executors : RenewJobLease(e)
  \/ \E e \in Executors, retryable \in BOOLEAN : FailJob(e, retryable)
  \/ \E e \in Executors : DropClaim(e)
  \/ RequeueExpiredJobs
  \/ \E j \in Jobs, status \in Controls : SetJobStatus(j, status)
  \/ \E j \in Jobs : LeaseExpires(j) \/ BackoffElapses(j)

LEMMA RequestStepsQueue ==
  ASSUME WorkflowTypeOK, RequestsKnowTheirJob, NEW c \in Clients, RequestStep(c)
  PROVE  NextButFinishing \/ UNCHANGED queueVars
<1>1. CASE \E j \in Jobs : StartEnqueues(c, j)
  BY <1>1 DEF StartEnqueues, NextButFinishing
<1>2. CASE ControlSets(c)
  <2>1. req[c].job \in Jobs /\ req[c].status \in Controls
    BY <1>2 DEF ControlSets, RequestsKnowTheirJob
  <2>2. QED
    BY <1>2, <2>1 DEF ControlSets, NextButFinishing
<1>3. CASE UNCHANGED queueVars
  BY <1>3
<1>4. QED
  BY <1>1, <1>2, <1>3 DEF RequestStep, StartRefused, StartConflicts, StartMarks, StartReads,
     ControlRefused, ControlSyncsRun, ControlDisplays

LEMMA WorkStepsQueue ==
  ASSUME WorkflowTypeOK, NEW e \in Executors, WorkStep(e)
  PROVE  NextButFinishing \/ Finishes(e) \/ UNCHANGED queueVars
<1>1. CASE Abandons(e)
  BY <1>1 DEF Abandons, NextButFinishing
<1>2. CASE Renews(e)
  BY <1>2 DEF Renews, NextButFinishing
<1>3. CASE Finishes(e)
  BY <1>3
<1>4. CASE Fails(e)
  <2>1. work[e].retry \in BOOLEAN
    BY DEF WorkflowTypeOK, Work
  <2>2. QED
    BY <1>4, <2>1 DEF Fails, NextButFinishing
<1>5. CASE UNCHANGED queueVars
  BY <1>5
<1>6. QED
  BY <1>1, <1>2, <1>3, <1>4, <1>5 DEF WorkStep, SyncsRunning, Progresses, Works,
     StopsBeforeWork, BuildsGraph, LosesLease, Validates, ReadsAgain, ChecksResult,
     StopsBeforePublishing, FindsItChanged, WorkFails, Publishes, CannotFinish,
     SyncsCompleted, RetryConflicts, SyncsFailed, Reports

LEMMA StepsOfTheQueue ==
  ASSUME WorkflowTypeOK, RequestsKnowTheirJob, [WorkflowNext]_workflowVars
  PROVE  NextButFinishing \/ (\E e \in Executors : Finishes(e)) \/ UNCHANGED queueVars
<1>1. CASE UNCHANGED workflowVars
  BY <1>1 DEF workflowVars
<1>2. CASE \E j \in Jobs : CreateProject(j)
  BY <1>2 DEF CreateProject, NextButFinishing
<1>3. CASE \E c \in Clients : RequestStep(c)
  BY <1>3, RequestStepsQueue
<1>4. CASE \E e \in Executors, j \in Jobs : Claims(e, j)
  BY <1>4 DEF Claims, NextButFinishing
<1>5. CASE \E e \in Executors : WorkStep(e)
  BY <1>5, WorkStepsQueue
<1>6. CASE \E e \in Executors : Heartbeats(e)
  BY <1>6 DEF Heartbeats, NextButFinishing
<1>7. CASE Requeues
  BY <1>7 DEF Requeues, NextButFinishing
<1>8. CASE \E j \in Jobs : TimePasses(j)
  BY <1>8 DEF TimePasses, NextButFinishing
<1>9. CASE \E e \in Executors : WorkerDies(e)
  BY <1>9 DEF WorkerDies, NextButFinishing
<1>10. CASE UNCHANGED queueVars
  BY <1>10
<1>11. QED
  BY <1>1, <1>2, <1>3, <1>4, <1>5, <1>6, <1>7, <1>8, <1>9, <1>10
  DEF WorkflowNext, PrepareRun, StartReads, ControlReads, ApplyGraphFeedback,
      UpdateEnvironment, ThreadEnds, RequestDies

LEMMA StepsQueue ==
  ASSUME WorkflowTypeOK, RequestsKnowTheirJob, [WorkflowNext]_workflowVars
  PROVE  [QueueNext]_queueVars
<1>1. NextButFinishing => QueueNext
  BY DEF NextButFinishing, QueueNext
<1>2. (\E e \in Executors : Finishes(e)) => QueueNext
  BY DEF Finishes, QueueNext
<1>3. QED
  BY <1>1, <1>2, StepsOfTheQueue
-----------------------------------------------------------------------------
(* Types, one step per action.  Of the queue's variables only QueueTypeOK' *)
(* is needed, which the steps of the queue preserve.                       *)

LEMMA WorkflowTypeInit == WorkflowInit => WorkflowTypeOK
<1> SUFFICES ASSUME WorkflowInit PROVE WorkflowTypeOK
  OBVIOUS
<1>1. QueueTypeOK
  BY TypeInit DEF WorkflowInit
<1>2. current \in StageNames \cup {"interaction"}
  BY WorkflowAssumption DEF WorkflowInit, Stages, StageNames
<1>3. NoWork \in Work /\ NoInfo \in Info /\ NoRequest \in Request
  BY WorkflowAssumption
  DEF NoWork, Work, WorkPC, NoInfo, Info, NoRequest, Request, RequestPC, StageNames
<1>4. QED
  BY <1>1, <1>2, <1>3, WorkflowAssumption
  DEF WorkflowTypeOK, WorkflowInit, StageNames, StageStatus

(* What the actions make of the records of a request and of a thread. *)
LEMMA RequestFields ==
  ASSUME NEW r \in Request
  PROVE  /\ \A pc \in RequestPC : [r EXCEPT !.pc = pc] \in Request
         /\ \A pc \in RequestPC, j \in Jobs : [r EXCEPT !.pc = pc, !.job = j] \in Request
         /\ \A pc \in RequestPC, s \in StageNames, n \in 0..MaxRevision :
              [r EXCEPT !.pc = pc, !.stage = s, !.rev = n] \in Request
         /\ \A pc \in RequestPC, s \in StageNames, q \in Runs :
              [r EXCEPT !.pc = pc, !.stage = s, !.run = q] \in Request
         /\ \A pc \in RequestPC, j \in Jobs, st \in {"paused", "queued", "cancelled"},
               q \in Runs \cup {NoRun} :
              [r EXCEPT !.pc = pc, !.job = j, !.status = st, !.run = q] \in Request
  BY DEF Request

LEMMA WorkFields ==
  ASSUME NEW w \in Work
  PROVE  /\ \A pc \in WorkPC : [w EXCEPT !.pc = pc] \in Work
         /\ \A pc \in WorkPC, n \in 0..MaxRevision :
              [w EXCEPT !.pc = pc, !.base = n] \in Work
         /\ \A pc \in WorkPC, b \in BOOLEAN :
              [w EXCEPT !.pc = pc, !.retry = b] \in Work
         /\ \A pc \in WorkPC, j \in Jobs, n \in 0..MaxAttempts :
              [w EXCEPT !.pc = pc, !.job = j, !.attempt = n] \in Work
  BY DEF Work

LEMMA NullRecords == NoWork \in Work /\ NoInfo \in Info /\ NoRequest \in Request
  BY WorkflowAssumption
  DEF NoWork, Work, WorkPC, NoInfo, Info, NoRequest, Request, RequestPC, StageNames

LEMMA EnqueuedInfo ==
  ASSUME NEW r \in Request
  PROVE  [stage |-> r.stage, input |-> r.rev, run |-> r.run] \in Info
  BY DEF Request, Info

LEMMA StartReadsTypes ==
  ASSUME WorkflowTypeOK, QueueTypeOK', NEW c \in Clients, NEW s \in StageNames, StartReads(c, s)
  PROVE  WorkflowTypeOK'
<1> USE WorkflowAssumption DEF WorkflowTypeOK, stateVars
<1> DEFINE reading == [req[c] EXCEPT !.pc = "enqueuing", !.stage = s, !.rev = revision]
<1>1. reading \in Request
  <2>1. req[c] \in Request /\ revision \in 0..MaxRevision /\ "enqueuing" \in RequestPC
    BY DEF RequestPC
  <2>2. QED
    BY <2>1, RequestFields
<1>2. req' = [req EXCEPT ![c] = reading]
  BY DEF StartReads
<1> HIDE DEF reading
<1>3. req' \in [Clients -> Request]
  BY <1>1, <1>2
<1>4. UNCHANGED <<stateVars, run, info, published, work, spawned>>
  BY DEF StartReads
<1>5. QED
  BY <1>3, <1>4

LEMMA RequestTypes ==
  ASSUME WorkflowTypeOK, RequestsKnowTheirJob, QueueTypeOK', NEW c \in Clients, RequestStep(c)
  PROVE  WorkflowTypeOK'
<1> USE WorkflowAssumption DEF WorkflowTypeOK, stateVars
<1>0. /\ req[c] \in Request /\ NoRequest \in Request
      /\ {"enqueuing", "marking", "syncing", "displaying"} \subseteq RequestPC
      /\ req[c].stage \in StageNames /\ req[c].status \in {"paused", "queued", "cancelled"}
  BY NullRecords DEF RequestPC, Request
<1>1. CASE StartRefused(c)
  BY <1>0, <1>1, RequestFields DEF StartRefused
<1>2. CASE StartConflicts(c)
  BY <1>0, <1>2, RequestFields DEF StartConflicts
<1>3. CASE StartMarks(c)
  <2>1. stage' \in [StageNames -> StageStatus] /\ current' \in StageNames
    BY <1>0, <1>3 DEF StartMarks, StageStatus
  <2>2. req' \in [Clients -> Request] /\ spawned' \subseteq Jobs
    <3>1. req[c].job \in Jobs
      BY <1>3 DEF StartMarks, RequestsKnowTheirJob
    <3>2. QED
      BY <1>0, <1>3, <3>1 DEF StartMarks, Spawn
  <2>3. QED
    BY <1>3, <2>1, <2>2 DEF StartMarks
<1>4. CASE StartReads(c, "simulation")
  BY <1>4, StartReadsTypes DEF StageNames
<1>5. ASSUME NEW j \in Jobs, StartEnqueues(c, j) PROVE WorkflowTypeOK'
  BY <1>0, <1>5, RequestFields, EnqueuedInfo DEF StartEnqueues
<1>6. CASE ControlSets(c)
  BY <1>0, <1>6, RequestFields DEF ControlSets
<1>7. CASE ControlRefused(c)
  BY <1>0, <1>7, RequestFields DEF ControlRefused
<1>8. CASE ControlSyncsRun(c)
  <2>1. req[c].status \in JobStatus
    BY <1>0 DEF JobStatus
  <2>2. QED
    BY <1>0, <1>8, <2>1, RequestFields DEF ControlSyncsRun
<1>9. CASE ControlDisplays(c)
  <2>1. stage' \in [StageNames -> StageStatus]
    BY <1>0, <1>9 DEF ControlDisplays, StageStatus
  <2>2. req[c].job \in Jobs
    BY <1>9 DEF ControlDisplays, RequestsKnowTheirJob
  <2>3. QED
    BY <1>0, <1>9, <2>1, <2>2 DEF ControlDisplays, Spawn
<1>10. QED
  BY <1>1, <1>2, <1>3, <1>4, <1>5, <1>6, <1>7, <1>8, <1>9 DEF RequestStep
LEMMA WorkTypes ==
  ASSUME WorkflowTypeOK, ExecutionsMatchClaims, ResultsBelongToJobs, QueueInv,
         QueueTypeOK', NEW e \in Executors, WorkStep(e)
  PROVE  WorkflowTypeOK'
<1> USE WorkflowAssumption DEF WorkflowTypeOK, stateVars, Goes
<1>0. /\ work[e] \in Work /\ NoWork \in Work
      /\ \A s \in {"completed", "failed", "running"} : s \in JobStatus
      /\ \A s \in {"queued", "running", "failed", "ready", "completed"} : s \in StageStatus
      /\ revision \in 0..MaxRevision
  BY NullRecords DEF JobStatus, StageStatus
<1>1. ASSUME NEW pc \in WorkPC, work' = [work EXCEPT ![e].pc = pc]
      PROVE  work' \in [Executors -> Work]
  BY <1>0, <1>1, WorkFields
<1>2. ASSUME NEW s \in StageStatus, Shows(e, s)
      PROVE  stage' \in [StageNames -> StageStatus]
  BY <1>2 DEF Shows
<1>3. ASSUME NEW s \in JobStatus, run' = [run EXCEPT ![RunOf(e)] = s]
      PROVE  run' \in [Runs -> JobStatus \cup {"absent"}]
  BY <1>3
<1>4. CASE SyncsRunning(e)
  <2>1. "started" \in WorkPC
    BY DEF WorkPC
  <2>2. QED
    BY <1>0, <1>1, <1>3, <1>4, <2>1 DEF SyncsRunning
<1>5. CASE Progresses(e)
  <2>1. "working" \in WorkPC
    BY DEF WorkPC
  <2>2. QED
    BY <1>0, <1>1, <1>2, <1>5, <2>1 DEF Progresses
<1>6. CASE Works(e)
  <2>1. work' \in [Executors -> Work]
    BY <1>0, <1>6 DEF Works, Work, WorkPC
  <2>2. QED
    BY <1>6, <2>1 DEF Works
<1>7. CASE Abandons(e)
  BY <1>0, <1>7 DEF Abandons
<1>8. CASE BuildsGraph(e) \/ Validates(e)
  <2>1. {"built", "validating"} \subseteq WorkPC
    BY DEF WorkPC
  <2>2. QED
    BY <1>0, <1>1, <1>2, <1>8, <2>1 DEF BuildsGraph, Validates
<1>9. CASE Renews(e) \/ ReadsAgain(e) \/ ChecksResult(e)
  <2>1. {"renewed", "same", "changed", "checked"} \subseteq WorkPC
    BY DEF WorkPC
  <2>2. QED
    BY <1>1, <1>9, <2>1 DEF Renews, ReadsAgain, ChecksResult
<1>10. ASSUME NEW retryable \in BOOLEAN, Raises(e, retryable),
              UNCHANGED <<stateVars, run, info, published, req, spawned>>
       PROVE  WorkflowTypeOK'
  <2>1. work' \in [Executors -> Work]
    BY <1>0, <1>10 DEF Raises, Work, WorkPC
  <2>2. QED
    BY <1>10, <2>1
<1>11. CASE FindsItChanged(e) \/ CannotFinish(e) \/ \E retryable \in BOOLEAN : WorkFails(e, retryable)
  BY <1>10, <1>11 DEF FindsItChanged, CannotFinish, WorkFails
<1>12. CASE Publishes(e)
  <2>1. PICK j \in Jobs : j = work[e].job /\ claim[e].job = j /\ claim[e].token = work[e].attempt
    BY <1>12 DEF Publishes, ExecutionsMatchClaims, Holding, WorkPC
  <2>2. work[e].attempt \in AttemptNumbers
    <3>1. work[e].attempt \in 1..jobs[j].token /\ jobs[j].token = jobs[j].attempts
      BY <2>1 DEF QueueInv, ClaimsArePastTokens, LedgerIsComplete
    <3>2. jobs[j].attempts \in 0..MaxAttempts /\ MaxAttempts \in Nat
      BY <2>1 DEF QueueTypeOK, Row
    <3>3. QED
      BY <3>1, <3>2 DEF AttemptNumbers
  <2>3. info[j].stage \in StageNames
    BY DEF Info
  <2>4. stage' \in [StageNames -> StageStatus] /\ current' \in StageNames \cup {"interaction"}
    BY <1>0, <1>12, <2>1, <2>3 DEF Publishes, StageOf, Following, StageNames
  <2>5. published' \in [Jobs -> SUBSET AttemptNumbers]
    BY <1>12, <2>1, <2>2 DEF Publishes
  <2>6. run' \in [Runs -> JobStatus \cup {"absent"}]
    BY <1>0, <1>3, <1>12 DEF Publishes
  <2>7. graph' \in {"empty", "partial", "complete"}
    BY <1>12 DEF Publishes
  <2>8. "published" \in WorkPC
    BY DEF WorkPC
  <2>9. QED
    BY <1>1, <1>12, <2>4, <2>5, <2>6, <2>7, <2>8 DEF Publishes
<1>13. CASE Finishes(e)
  <2>1. "finished" \in WorkPC
    BY DEF WorkPC
  <2>2. QED
    BY <1>0, <1>13, <2>1, WorkFields DEF Finishes
<1>14. CASE SyncsCompleted(e)
  BY <1>0, <1>3, <1>14 DEF SyncsCompleted
<1>15. CASE Fails(e)
  <2>1. {"failed", "reporting"} \subseteq WorkPC
    BY DEF WorkPC
  <2>2. QED
    BY <1>1, <1>15, <2>1 DEF Fails, AfterFailing
<1>16. CASE SyncsFailed(e)
  <2>1. "reporting" \in WorkPC
    BY DEF WorkPC
  <2>2. QED
    BY <1>0, <1>1, <1>3, <1>16, <2>1 DEF SyncsFailed
<1>17. CASE Reports(e)
  BY <1>0, <1>2, <1>17 DEF Reports
<1>18. QED
  BY <1>4, <1>5, <1>6, <1>7, <1>8, <1>9, <1>11, <1>12, <1>13, <1>14, <1>15, <1>16, <1>17
  DEF WorkStep, StopsBeforeWork, LosesLease, StopsBeforePublishing, RetryConflicts
LEMMA UserTypes ==
  ASSUME WorkflowTypeOK, QueueTypeOK'
  PROVE  /\ \A j \in Jobs : CreateProject(j) => WorkflowTypeOK'
         /\ \A c \in Clients, r \in Runs : PrepareRun(c, r) => WorkflowTypeOK'
         /\ \A c \in Clients, status \in Controls, r \in Runs \cup {NoRun} :
              ControlReads(c, status, r) => WorkflowTypeOK'
         /\ ApplyGraphFeedback \/ UpdateEnvironment => WorkflowTypeOK'
<1> USE WorkflowAssumption DEF WorkflowTypeOK, stateVars
<1>1. ASSUME NEW j \in Jobs, CreateProject(j) PROVE WorkflowTypeOK'
  <2>1. [stage |-> "graph", input |-> revision, run |-> NoRun] \in Info
    BY DEF Info, StageNames
  <2>2. "queued" \in StageStatus
    BY DEF StageStatus
  <2>3. info' \in [Jobs -> Info] /\ stage' \in [StageNames -> StageStatus] /\ spawned' \subseteq Jobs
    BY <1>1, <2>1, <2>2 DEF CreateProject, Spawn
  <2>4. QED
    BY <1>1, <2>3 DEF CreateProject
<1>2. ASSUME NEW c \in Clients, NEW r \in Runs, PrepareRun(c, r) PROVE WorkflowTypeOK'
  <2>1. [NoRequest EXCEPT !.pc = "starting", !.stage = "simulation", !.run = r] \in Request
    BY NullRecords, RequestFields DEF RequestPC, StageNames
  <2>2. req' \in [Clients -> Request]
    BY <1>2, <2>1 DEF PrepareRun
  <2>3. run' \in [Runs -> JobStatus \cup {"absent"}] /\ revision' \in 1..MaxRevision
    BY <1>2 DEF PrepareRun, JobStatus
  <2>4. QED
    BY <1>2, <2>2, <2>3 DEF PrepareRun
<1>3. ASSUME NEW c \in Clients, NEW status \in Controls, NEW r \in Runs \cup {NoRun},
             ControlReads(c, status, r)
      PROVE  WorkflowTypeOK'
  <2>1. PICK j \in Jobs :
          req' = [req EXCEPT ![c] = [NoRequest EXCEPT !.pc = "controlling", !.job = j,
                                                     !.status = status, !.run = r]]
    BY <1>3 DEF ControlReads
  <2>2. [NoRequest EXCEPT !.pc = "controlling", !.job = j, !.status = status, !.run = r] \in Request
    BY NullRecords, RequestFields DEF RequestPC
  <2>3. req' \in [Clients -> Request]
    BY <2>1, <2>2
  <2>4. UNCHANGED <<stateVars, run, info, published, work, spawned>>
    BY <1>3 DEF ControlReads
  <2>5. QED
    BY <2>3, <2>4
<1>4. CASE ApplyGraphFeedback
  <2>1. stage' \in [StageNames -> StageStatus]
    BY <1>4 DEF ApplyGraphFeedback, StageStatus
  <2>2. revision' \in 1..MaxRevision
    BY <1>4 DEF ApplyGraphFeedback
  <2>3. QED
    BY <1>4, <2>1, <2>2 DEF ApplyGraphFeedback
<1>5. CASE UpdateEnvironment
  BY <1>5 DEF UpdateEnvironment
<1>6. QED
  BY <1>1, <1>2, <1>3, <1>4, <1>5

LEMMA BackgroundTypes ==
  ASSUME WorkflowTypeOK, QueueTypeOK'
  PROVE  /\ \A e \in Executors, j \in Jobs : Claims(e, j) => WorkflowTypeOK'
         /\ \A j \in Jobs : ThreadEnds(j) \/ TimePasses(j) => WorkflowTypeOK'
         /\ \A e \in Executors : Heartbeats(e) \/ WorkerDies(e) => WorkflowTypeOK'
         /\ Requeues => WorkflowTypeOK'
         /\ \A c \in Clients : RequestDies(c) => WorkflowTypeOK'
<1> USE NullRecords DEF WorkflowTypeOK, stateVars, Rest
<1>1. ASSUME NEW e \in Executors, NEW j \in Jobs, Claims(e, j) PROVE WorkflowTypeOK'
  <2>1. jobs'[j].attempts \in 0..MaxAttempts
    BY DEF QueueTypeOK, Row
  <2>2. [NoWork EXCEPT !.pc = "claimed", !.job = j, !.attempt = jobs'[j].attempts] \in Work
    BY <2>1, WorkFields DEF WorkPC
  <2>3. work' \in [Executors -> Work]
    BY <1>1, <2>2 DEF Claims
  <2>4. QED
    BY <1>1, <2>3 DEF Claims
<1>2. ASSUME NEW j \in Jobs, ThreadEnds(j) \/ TimePasses(j) PROVE WorkflowTypeOK'
  BY <1>2 DEF ThreadEnds, TimePasses
<1>3. ASSUME NEW e \in Executors, Heartbeats(e) \/ WorkerDies(e) PROVE WorkflowTypeOK'
  BY <1>3 DEF Heartbeats, WorkerDies
<1>4. CASE Requeues
  BY <1>4 DEF Requeues
<1>5. ASSUME NEW c \in Clients, RequestDies(c) PROVE WorkflowTypeOK'
  BY <1>5 DEF RequestDies
<1>6. QED
  BY <1>1, <1>2, <1>3, <1>4, <1>5

LEMMA WorkflowTypeStep ==
  ASSUME WorkflowTypeOK, QueueInv, WorkflowInv, [WorkflowNext]_workflowVars
  PROVE  WorkflowTypeOK'
<1>1. /\ QueueTypeOK /\ ExecutionsMatchClaims /\ RequestsKnowTheirJob /\ ResultsBelongToJobs
  BY DEF WorkflowTypeOK, WorkflowInv
<1>2. QueueTypeOK'
  BY <1>1, StepsQueue, TypeStep
<1>3. CASE UNCHANGED workflowVars
  BY <1>2, <1>3 DEF workflowVars, WorkflowTypeOK, stateVars
<1>4. CASE WorkflowNext
  BY <1>1, <1>2, <1>4, UserTypes, BackgroundTypes, RequestTypes, WorkTypes, StartReadsTypes
  DEF WorkflowNext
<1>5. QED
  BY <1>3, <1>4
-----------------------------------------------------------------------------
(* What one step of a thread does to what the invariant talks about. *)

ThreadMoves(e) ==
  /\ \A f \in Executors \ {e} : work'[f] = work[f] /\ claim'[f] = claim[f]
  /\ UNCHANGED <<info, revision, req>>
  /\ work'[e].pc # "idle" => work'[e].job = work[e].job /\ work'[e].attempt = work[e].attempt
  /\ work'[e].pc \in Holding => work[e].pc \in Holding /\ claim'[e] = claim[e]
  /\ work'[e].pc \in HavingRead =>
       \/ work'[e].base = revision
       \/ work[e].pc \in HavingRead /\ work'[e].base = work[e].base
  /\ work'[e].pc = "same" => work[e].pc = "validating" /\ Unchanged(e) /\ work'[e].base = work[e].base
  /\ work'[e].pc = "checked" => work[e].pc = "same" /\ work'[e].base = work[e].base
  /\ work'[e].pc = "published" => Publishes(e) /\ work'[e].base = work[e].base
  /\ work'[e].pc = "finished" => work[e].pc = "published"
  /\ published' = published \/ Publishes(e)

LEMMA NoWorkIsIdle == NoWork.pc = "idle"
  BY DEF NoWork

LEMMA AbandonsMoves ==
  ASSUME WorkflowTypeOK, NEW e \in Executors, Abandons(e)
  PROVE  ThreadMoves(e)
<1>1. /\ work'[e] = NoWork
      /\ \A f \in Executors \ {e} : work'[f] = work[f] /\ claim'[f] = claim[f]
      /\ UNCHANGED <<info, revision, req, published>>
  BY DEF Abandons, DropClaim, WorkflowTypeOK, QueueTypeOK, stateVars
<1>2. QED
  BY <1>1, NoWorkIsIdle DEF ThreadMoves, Holding, HavingRead

(* A step that leaves the queue alone and moves its thread on. *)
LEMMA GoesMoves ==
  ASSUME WorkflowTypeOK, NEW e \in Executors, NEW pc, Goes(e, pc),
         UNCHANGED <<claim, info, revision, req, published>>,
         \/ pc \in {"started", "working", "reporting"}
         \/ pc \in {"built", "renewed", "validating", "changed"} /\ work[e].pc \in HavingRead
         \/ pc = "same" /\ work[e].pc = "validating" /\ Unchanged(e)
         \/ pc = "checked" /\ work[e].pc = "same",
         pc \in Holding => work[e].pc \in Holding
  PROVE  ThreadMoves(e)
<1>1. /\ work'[e].pc = pc /\ work'[e].job = work[e].job /\ work'[e].base = work[e].base
      /\ work'[e].attempt = work[e].attempt
      /\ \A f \in Executors \ {e} : work'[f] = work[f]
  BY DEF Goes, WorkflowTypeOK, Work
<1>2. QED
  BY <1>1 DEF ThreadMoves, HavingRead

LEMMA RaisesMoves ==
  ASSUME WorkflowTypeOK, NEW e \in Executors, NEW retryable \in BOOLEAN, Raises(e, retryable),
         UNCHANGED <<claim, info, revision, req, published>>, work[e].pc \in Holding
  PROVE  ThreadMoves(e)
<1>1. /\ work'[e].pc = "failing" /\ work'[e].job = work[e].job
      /\ work'[e].attempt = work[e].attempt
      /\ \A f \in Executors \ {e} : work'[f] = work[f]
  BY DEF Raises, WorkflowTypeOK, Work
<1>2. QED
  BY <1>1 DEF ThreadMoves, HavingRead

LEMMA WorkStepMoves ==
  ASSUME WorkflowTypeOK, NEW e \in Executors, WorkStep(e)
  PROVE  ThreadMoves(e)
<1> USE DEF stateVars
<1>1. CASE Abandons(e)
  BY <1>1, AbandonsMoves
<1>2. CASE SyncsRunning(e) \/ Progresses(e) \/ BuildsGraph(e) \/ Renews(e) \/ Validates(e)
            \/ ChecksResult(e) \/ SyncsFailed(e)
  <2>1. PICK pc : /\ Goes(e, pc) /\ UNCHANGED <<claim, info, revision, req, published>>
                  /\ \/ pc = "started" /\ work[e].pc = "claimed"
                     \/ pc = "working" /\ work[e].pc \in {"started", "claimed"}
                     \/ pc = "built" /\ work[e].pc = "building"
                     \/ pc = "renewed" /\ work[e].pc = "built"
                     \/ pc = "validating" /\ work[e].pc = "renewed"
                     \/ pc = "checked" /\ work[e].pc = "same"
                     \/ pc = "reporting"
    BY <1>2 DEF SyncsRunning, Progresses, BuildsGraph, Renews, Validates, ChecksResult,
                SyncsFailed, RenewJobLease, queueVars
  <2>2. QED
    BY <2>1, GoesMoves DEF Holding, HavingRead, WorkPC
<1>3. CASE ReadsAgain(e)
  <2>1. /\ Goes(e, IF Unchanged(e) THEN "same" ELSE "changed")
        /\ UNCHANGED <<claim, info, revision, req, published>> /\ work[e].pc = "validating"
    BY <1>3 DEF ReadsAgain, queueVars
  <2>2. QED
    BY <2>1, GoesMoves DEF Holding, HavingRead, WorkPC
<1>4. CASE Works(e)
  <2>1. /\ work'[e].pc \in {"building", "built"} /\ work'[e].job = work[e].job
        /\ work'[e].attempt = work[e].attempt /\ work'[e].base = revision
        /\ \A f \in Executors \ {e} : work'[f] = work[f]
    BY <1>4 DEF Works, WorkflowTypeOK, Work
  <2>2. UNCHANGED <<claim, info, revision, req, published>> /\ work[e].pc = "working"
    BY <1>4 DEF Works, queueVars
  <2>3. QED
    BY <2>1, <2>2 DEF ThreadMoves, Holding, WorkPC
<1>5. CASE FindsItChanged(e) \/ CannotFinish(e) \/ \E retryable \in BOOLEAN : WorkFails(e, retryable)
  <2>1. PICK retryable \in BOOLEAN :
          /\ Raises(e, retryable) /\ UNCHANGED <<claim, info, revision, req, published>>
          /\ work[e].pc \in {"changed", "published", "working", "building", "built"}
    BY <1>5 DEF FindsItChanged, CannotFinish, WorkFails, queueVars
  <2>2. QED
    BY <2>1, RaisesMoves DEF Holding, WorkPC
<1>6. CASE Publishes(e)
  <2>1. /\ work'[e].pc = "published" /\ work'[e].job = work[e].job /\ work[e].pc = "checked"
        /\ work'[e].attempt = work[e].attempt /\ work'[e].base = work[e].base
        /\ \A f \in Executors \ {e} : work'[f] = work[f]
        /\ UNCHANGED <<claim, info, revision, req>>
    BY <1>6 DEF Publishes, Goes, WorkflowTypeOK, Work, queueVars
  <2>2. QED
    BY <1>6, <2>1 DEF ThreadMoves, Holding, HavingRead, WorkPC
<1>7. CASE Finishes(e)
  <2>1. /\ \/ work'[e] = NoWork
           \/ /\ work'[e].pc = "finished" /\ work'[e].job = work[e].job
              /\ work'[e].attempt = work[e].attempt
        /\ \A f \in Executors \ {e} : work'[f] = work[f] /\ claim'[f] = claim[f]
        /\ UNCHANGED <<info, revision, req, published>> /\ work[e].pc = "published"
    BY <1>7 DEF Finishes, FinishJob, WorkflowTypeOK, QueueTypeOK, Work
  <2>2. QED
    BY <2>1, NoWorkIsIdle DEF ThreadMoves, Holding, HavingRead
<1>8. CASE SyncsCompleted(e) \/ Reports(e)
  <2>1. /\ work'[e] = NoWork
        /\ \A f \in Executors \ {e} : work'[f] = work[f]
        /\ UNCHANGED <<claim, info, revision, req, published>>
    BY <1>8 DEF SyncsCompleted, Reports, WorkflowTypeOK, queueVars
  <2>2. QED
    BY <2>1, NoWorkIsIdle DEF ThreadMoves, Holding, HavingRead
<1>9. CASE Fails(e)
  <2>1. \A f \in Executors \ {e} : claim'[f] = claim[f]
    BY <1>9 DEF Fails, FailJob, DropClaim, WorkflowTypeOK, QueueTypeOK
  <2>2. /\ work'[e].pc \in {"failed", "reporting"} /\ work'[e].job = work[e].job
        /\ work'[e].attempt = work[e].attempt
        /\ \A f \in Executors \ {e} : work'[f] = work[f]
    BY <1>9 DEF Fails, AfterFailing, Goes, WorkflowTypeOK, Work
  <2>3. UNCHANGED <<info, revision, req, published>>
    BY <1>9 DEF Fails
  <2>4. QED
    BY <2>1, <2>2, <2>3 DEF ThreadMoves, Holding, HavingRead
<1>10. QED
  BY <1>1, <1>2, <1>3, <1>4, <1>5, <1>6, <1>7, <1>8, <1>9
  DEF WorkStep, StopsBeforeWork, LosesLease, StopsBeforePublishing, RetryConflicts
-----------------------------------------------------------------------------
(* What the other steps do to it. *)

LEMMA OtherSteps ==
  ASSUME WorkflowTypeOK, RequestsKnowTheirJob, [WorkflowNext]_workflowVars,
         ~ \E e \in Executors : WorkStep(e),
         ~ \E e \in Executors, j \in Jobs : Claims(e, j),
         ~ \E e \in Executors : WorkerDies(e)
  PROVE  /\ UNCHANGED <<work, claim, published>>
         /\ \A r \in Runs : run'[r] = "completed" => run[r] = "completed"
<1>1. CASE UNCHANGED workflowVars
  BY <1>1 DEF workflowVars, queueVars
<1>2. ASSUME NEW c \in Clients, RequestStep(c) \/ \E s \in StageNames : StartReads(c, s)
      PROVE  /\ UNCHANGED <<work, claim, published>>
             /\ \A r \in Runs : run'[r] = "completed" => run[r] = "completed"
  <2>1. CASE ControlSyncsRun(c)
    <3>1. req[c].status \in {"paused", "queued", "cancelled"}
      BY DEF WorkflowTypeOK, Request
    <3>2. QED
      BY <2>1, <3>1 DEF ControlSyncsRun, WorkflowTypeOK, queueVars
  <2>2. CASE UNCHANGED <<work, claim, published, run>>
    BY <2>2
  <2>3. QED
    BY <1>2, <2>1, <2>2 DEF RequestStep, StartRefused, StartConflicts, StartMarks, StartReads,
       StartEnqueues, PutJob, ControlSets, SetJobStatus, ControlRefused, ControlDisplays, queueVars
<1>3. CASE \E j \in Jobs : CreateProject(j)
  BY <1>3 DEF CreateProject, PutJob
<1>4. CASE \E c \in Clients, r \in Runs : PrepareRun(c, r)
  BY <1>4 DEF PrepareRun, queueVars, WorkflowTypeOK
<1>5. CASE \E c \in Clients, status \in Controls, r \in Runs \cup {NoRun} : ControlReads(c, status, r)
  BY <1>5 DEF ControlReads, queueVars
<1>6. CASE ApplyGraphFeedback \/ UpdateEnvironment
  BY <1>6 DEF ApplyGraphFeedback, UpdateEnvironment, queueVars
<1>7. CASE \E j \in Jobs : ThreadEnds(j)
  BY <1>7 DEF ThreadEnds, queueVars
<1>8. CASE (\E e \in Executors : Heartbeats(e)) \/ Requeues
  BY <1>8 DEF Heartbeats, RenewJobLease, Requeues, RequeueExpiredJobs, Rest
<1>9. CASE \E j \in Jobs : TimePasses(j)
  BY <1>9 DEF TimePasses, LeaseExpires, BackoffElapses, Rest
<1>10. CASE \E c \in Clients : RequestDies(c)
  BY <1>10 DEF RequestDies, queueVars
<1>11. QED
  BY <1>1, <1>2, <1>3, <1>4, <1>5, <1>6, <1>7, <1>8, <1>9, <1>10 DEF WorkflowNext

LEMMA ClaimsFields ==
  ASSUME WorkflowTypeOK, QueueInv', NEW e \in Executors, NEW j \in Jobs, Claims(e, j)
  PROVE  /\ work'[e].pc = "claimed" /\ work'[e].job = j
         /\ claim'[e].job = j /\ claim'[e].token = work'[e].attempt
         /\ \A f \in Executors \ {e} : work'[f] = work[f] /\ claim'[f] = claim[f]
         /\ UNCHANGED <<info, revision, req, published, run>>
<1>1. /\ work'[e] = [NoWork EXCEPT !.pc = "claimed", !.job = j, !.attempt = jobs'[j].attempts]
      /\ \A f \in Executors \ {e} : work'[f] = work[f]
      /\ UNCHANGED <<info, revision, req, published, run>>
  BY DEF Claims, WorkflowTypeOK, stateVars
<1>2. /\ claim'[e] = [job |-> j, token |-> jobs'[j].token]
      /\ \A f \in Executors \ {e} : claim'[f] = claim[f]
  BY DEF Claims, ClaimNextJob, WorkflowTypeOK, QueueTypeOK
<1>3. jobs'[j].token = jobs'[j].attempts
  BY DEF QueueInv, LedgerIsComplete
<1>4. work'[e].pc = "claimed" /\ work'[e].job = j /\ work'[e].attempt = jobs'[j].attempts
  BY <1>1 DEF NoWork
<1>5. QED
  BY <1>1, <1>2, <1>3, <1>4

LEMMA WorkerDiesFields ==
  ASSUME WorkflowTypeOK, NEW e \in Executors, WorkerDies(e)
  PROVE  /\ work'[e] = NoWork
         /\ \A f \in Executors \ {e} : work'[f] = work[f] /\ claim'[f] = claim[f]
         /\ UNCHANGED <<info, revision, req, published, run>>
  BY DEF WorkerDies, DropClaim, WorkflowTypeOK, QueueTypeOK, Rest, stateVars, queueVars

(* A job that exists goes on existing, and only FinishJob completes it. *)
StatusMoves(j) ==
  /\ jobs[j].status # "absent" => jobs'[j].status # "absent"
  /\ jobs'[j].status = "completed" => jobs[j].status = "completed"

LEMMA JobsStay ==
  ASSUME QueueTypeOK, NextButFinishing \/ UNCHANGED queueVars, NEW j \in Jobs
  PROVE  StatusMoves(j)
<1> USE DEF QueueTypeOK, StatusMoves
<1>0. \A i \in Jobs : jobs[i] \in Row
  OBVIOUS
<1>1. CASE UNCHANGED queueVars
  BY <1>1 DEF queueVars
<1>2. ASSUME NEW k \in Jobs, PutJob(k) PROVE StatusMoves(j)
  BY <1>2, NewRowFields DEF PutJob
<1>3. ASSUME NEW e \in Executors, NEW k \in Jobs, ClaimNextJob(e, k) PROVE StatusMoves(j)
  BY <1>0, <1>3, ClaimedRowFields DEF ClaimNextJob, Claimable
<1>4. ASSUME NEW e \in Executors, RenewJobLease(e) PROVE StatusMoves(j)
  <2>1. PICK k \in Jobs : k = claim[e].job
    BY <1>4 DEF RenewJobLease, Claim
  <2>2. jobs' = [jobs EXCEPT ![k] = WithLease(jobs[k], "live")]
    BY <1>4, <2>1 DEF RenewJobLease
  <2>3. QED
    BY <1>0, <2>2, WithFields
<1>5. ASSUME NEW e \in Executors, NEW b \in BOOLEAN, FailJob(e, b) PROVE StatusMoves(j)
  <2>1. PICK k \in Jobs : k = claim[e].job
    BY <1>5 DEF FailJob, Claim
  <2>2. \/ jobs' = [jobs EXCEPT ![k] = Released(jobs[k], "queued", "waiting")]
        \/ jobs' = [jobs EXCEPT ![k] = Released(jobs[k], "failed", "over")]
    BY <1>5, <2>1 DEF FailJob
  <2>3. "queued" \in JobStatus /\ "failed" \in JobStatus
    BY DEF JobStatus
  <2>4. /\ Released(jobs[k], "queued", "waiting").status = "queued"
        /\ Released(jobs[k], "failed", "over").status = "failed"
    BY <1>0, <2>3, ReleasedFields
  <2>5. QED
    BY <2>2, <2>4
<1>6. ASSUME NEW e \in Executors, DropClaim(e) PROVE StatusMoves(j)
  BY <1>6 DEF DropClaim
<1>7. CASE RequeueExpiredJobs
  BY <1>0, <1>7, RequeuedRowFields DEF RequeueExpiredJobs
<1>8. ASSUME NEW k \in Jobs, NEW status \in Controls, SetJobStatus(k, status)
      PROVE  StatusMoves(j)
  <2>1. status \in JobStatus
    BY DEF JobStatus
  <2>2. jobs' = [jobs EXCEPT ![k] = WithStatus(jobs[k], status)]
    BY <1>8 DEF SetJobStatus
  <2>3. WithStatus(jobs[k], status).status = status
    BY <1>0, <2>1, WithFields
  <2>4. status \notin {"absent", "completed"}
    OBVIOUS
  <2>5. QED
    BY <2>2, <2>3, <2>4
<1>9. ASSUME NEW k \in Jobs, LeaseExpires(k) \/ BackoffElapses(k) PROVE StatusMoves(j)
  BY <1>0, <1>9, WithFields DEF LeaseExpires, BackoffElapses
<1>10. QED
  BY <1>1, <1>2, <1>3, <1>4, <1>5, <1>6, <1>7, <1>8, <1>9 DEF NextButFinishing

(* What FinishJob does to the statuses. *)
LEMMA FinishedStatus ==
  ASSUME QueueTypeOK, NEW e \in Executors, FinishJob(e)
  PROVE  /\ claim[e].job \in Jobs /\ jobs'[claim[e].job].status = "completed"
         /\ \A j \in Jobs \ {claim[e].job} : jobs'[j] = jobs[j]
<1>1. PICK k \in Jobs : k = claim[e].job
  BY DEF FinishJob, Claim, QueueTypeOK
<1>2. jobs' = [jobs EXCEPT ![k] = Released(jobs[k], "completed", jobs[k].backoff)]
  BY <1>1 DEF FinishJob
<1>3. jobs[k] \in Row /\ jobs[k].backoff \in {"over", "waiting"} /\ "completed" \in JobStatus
  BY DEF QueueTypeOK, Row, JobStatus
<1>4. Released(jobs[k], "completed", jobs[k].backoff).status = "completed"
  BY <1>3, ReleasedFields
<1>5. QED
  BY <1>1, <1>2, <1>4 DEF QueueTypeOK

(* A job that is held exists. *)
LEMMA HeldJobsExist ==
  ASSUME QueueTypeOK, QueueInv, NEW e \in Executors, claim[e].job \in Jobs
  PROVE  jobs[claim[e].job].status # "absent"
<1>1. jobs[claim[e].job] \in Row
  BY DEF QueueTypeOK
<1>2. QED
  BY <1>1 DEF QueueInv, ClaimsArePastTokens, LedgerIsComplete, Row

(* What requests remember, and what jobs were queued for. *)
RequestsMove ==
  /\ revision <= revision'
  /\ \A j \in Jobs : \/ info'[j] = info[j]
                     \/ jobs[j].status = "absent" /\ info'[j].input <= revision
  /\ \A c \in Clients : req'[c].rev <= revision
  /\ RequestsKnowTheirJob'

LEMMA RequestsAndInfo ==
  ASSUME WorkflowTypeOK, RevisionsAreOrdered, RequestsKnowTheirJob, [WorkflowNext]_workflowVars
  PROVE  RequestsMove
<1> USE DEF stateVars
<1>0. /\ revision \in Nat /\ NoRequest.rev = 0 /\ NoRequest.pc = "idle"
      /\ \A c \in Clients : req[c] \in Request /\ req[c].rev <= revision
  BY WorkflowAssumption DEF WorkflowTypeOK, RevisionsAreOrdered, NoRequest
<1>1. CASE UNCHANGED <<revision, info, req>>
  BY <1>0, <1>1 DEF RequestsMove, RequestsKnowTheirJob
<1>2. ASSUME NEW c \in Clients, UNCHANGED <<revision, info>>,
             \A d \in Clients \ {c} : req'[d] = req[d],
             req'[c].rev <= revision,
             req'[c].pc \in {"marking", "controlling", "syncing", "displaying"}
               => req'[c].job \in Jobs,
             req'[c].pc \in {"controlling", "syncing", "displaying"}
               => req'[c].status \in Controls
      PROVE  RequestsMove
  BY <1>0, <1>2 DEF RequestsMove, RequestsKnowTheirJob
<1>3. ASSUME NEW c \in Clients, req' = [req EXCEPT ![c] = NoRequest], UNCHANGED <<revision, info>>
      PROVE  RequestsMove
  BY <1>0, <1>2, <1>3 DEF WorkflowTypeOK
<1>4. CASE \E c \in Clients : StartRefused(c) \/ StartConflicts(c) \/ StartMarks(c)
                               \/ ControlRefused(c) \/ ControlDisplays(c) \/ RequestDies(c)
  BY <1>3, <1>4 DEF StartRefused, StartConflicts, StartMarks, ControlRefused, ControlDisplays,
                    RequestDies
<1>5. ASSUME NEW c \in Clients, NEW s \in StageNames, StartReads(c, s)
      PROVE  RequestsMove
  <2>1. /\ req'[c].pc = "enqueuing" /\ req'[c].rev = revision
        /\ \A d \in Clients \ {c} : req'[d] = req[d]
        /\ UNCHANGED <<revision, info>>
    BY <1>0, <1>5 DEF StartReads, WorkflowTypeOK, Request
  <2>2. QED
    BY <1>0, <1>2, <2>1
<1>6. ASSUME NEW c \in Clients, NEW j \in Jobs, StartEnqueues(c, j)
      PROVE  RequestsMove
  <2>1. /\ req'[c].pc = "marking" /\ req'[c].rev = req[c].rev /\ req'[c].job = j
        /\ \A d \in Clients \ {c} : req'[d] = req[d]
        /\ revision' = revision
    BY <1>0, <1>6 DEF StartEnqueues, WorkflowTypeOK, Request
  <2>2. /\ info'[j].input = req[c].rev /\ jobs[j].status = "absent"
        /\ \A k \in Jobs \ {j} : info'[k] = info[k]
    BY <1>6 DEF StartEnqueues, PutJob, WorkflowTypeOK
  <2>3. QED
    BY <1>0, <2>1, <2>2 DEF RequestsMove, RequestsKnowTheirJob
<1>7. CASE \E j \in Jobs : CreateProject(j)
  <2>1. PICK j \in Jobs : CreateProject(j)
    BY <1>7
  <2>2. /\ info'[j].input = revision /\ jobs[j].status = "absent"
        /\ \A k \in Jobs \ {j} : info'[k] = info[k]
        /\ UNCHANGED <<revision, req>>
    BY <2>1 DEF CreateProject, PutJob, WorkflowTypeOK
  <2>3. QED
    BY <1>0, <2>2 DEF RequestsMove, RequestsKnowTheirJob
<1>8. CASE \E c \in Clients, r \in Runs : PrepareRun(c, r)
  <2>1. PICK c \in Clients, r \in Runs : PrepareRun(c, r)
    BY <1>8
  <2>2. /\ req'[c].pc = "starting" /\ req'[c].rev = 0
        /\ \A d \in Clients \ {c} : req'[d] = req[d]
        /\ revision' = revision + 1 /\ info' = info
    BY <2>1 DEF PrepareRun, WorkflowTypeOK, NoRequest
  <2>3. QED
    BY <1>0, <2>2 DEF RequestsMove, RequestsKnowTheirJob
<1>9. ASSUME NEW c \in Clients, NEW status \in Controls, NEW r \in Runs \cup {NoRun},
             ControlReads(c, status, r)
      PROVE  RequestsMove
  <2>1. PICK j \in Jobs :
          req' = [req EXCEPT ![c] = [NoRequest EXCEPT !.pc = "controlling", !.job = j,
                                                     !.status = status, !.run = r]]
    BY <1>9 DEF ControlReads
  <2>2. /\ req'[c].rev = 0 /\ req'[c].job = j /\ req'[c].status = status
        /\ \A d \in Clients \ {c} : req'[d] = req[d]
    BY <2>1 DEF WorkflowTypeOK, NoRequest
  <2>3. UNCHANGED <<revision, info>>
    BY <1>9 DEF ControlReads
  <2>4. QED
    BY <1>0, <1>2, <2>2, <2>3
<1>10. ASSUME NEW c \in Clients, ControlSets(c) \/ ControlSyncsRun(c)
      PROVE  RequestsMove
  <2>1. /\ req'[c].rev = req[c].rev /\ req'[c].job = req[c].job
        /\ req'[c].status = req[c].status /\ req[c].pc \in {"controlling", "syncing"}
        /\ \A d \in Clients \ {c} : req'[d] = req[d]
        /\ UNCHANGED <<revision, info>>
    BY <1>0, <1>10 DEF ControlSets, ControlSyncsRun, WorkflowTypeOK, Request
  <2>2. QED
    BY <1>0, <1>2, <2>1 DEF RequestsMove, RequestsKnowTheirJob
<1>11. CASE ApplyGraphFeedback \/ UpdateEnvironment
  <2>1. revision' = revision + 1 /\ UNCHANGED <<info, req>>
    BY <1>11 DEF ApplyGraphFeedback, UpdateEnvironment
  <2>2. QED
    BY <1>0, <2>1 DEF RequestsMove, RequestsKnowTheirJob
<1>12. CASE \E e \in Executors : WorkStep(e)
  BY <1>1, <1>12, WorkStepMoves DEF ThreadMoves
<1>13. CASE \/ UNCHANGED workflowVars
            \/ \E e \in Executors, j \in Jobs : Claims(e, j)
            \/ (\E j \in Jobs : ThreadEnds(j)) \/ (\E j \in Jobs : TimePasses(j))
            \/ (\E e \in Executors : Heartbeats(e)) \/ (\E e \in Executors : WorkerDies(e))
            \/ Requeues
  BY <1>1, <1>13 DEF workflowVars, Claims, ThreadEnds, TimePasses, Heartbeats, WorkerDies,
                     Requeues, Rest
<1>14. CASE \E c \in Clients : RequestStep(c) \/ \E s \in StageNames : StartReads(c, s)
  <2>1. PICK c \in Clients : RequestStep(c) \/ \E s \in StageNames : StartReads(c, s)
    BY <1>14
  <2>2. CASE \E s \in StageNames : StartReads(c, s)
    BY <1>5, <2>2
  <2>3. CASE \E j \in Jobs : StartEnqueues(c, j)
    BY <1>6, <2>3
  <2>4. CASE ControlSets(c) \/ ControlSyncsRun(c)
    BY <1>10, <2>4
  <2>5. "simulation" \in StageNames
    BY DEF StageNames
  <2>6. QED
    BY <1>4, <2>1, <2>2, <2>3, <2>4, <2>5 DEF RequestStep
<1>15. CASE \E c \in Clients, status \in Controls, r \in Runs \cup {NoRun} : ControlReads(c, status, r)
  BY <1>9, <1>15
<1>16. CASE \E c \in Clients : RequestDies(c)
  BY <1>4, <1>16
<1>17. QED
  BY <1>7, <1>8, <1>11, <1>12, <1>13, <1>14, <1>15, <1>16 DEF WorkflowNext

-----------------------------------------------------------------------------
(* The inductive invariant: one lemma per conjunct, and in it one step per *)
(* kind of step that can disturb it.                                       *)

Assumed ==
  /\ WorkflowTypeOK /\ WorkflowTypeOK'
  /\ QueueInv /\ QueueInv'
  /\ WorkflowInv
  /\ [WorkflowNext]_workflowVars

LEMMA MatchStep ==
  ASSUME Assumed
  PROVE  ExecutionsMatchClaims'
<1> USE DEF ExecutionsMatchClaims
<1>0. ExecutionsMatchClaims /\ RequestsKnowTheirJob
  BY DEF Assumed, WorkflowInv
<1>1. ASSUME NEW e \in Executors, WorkStep(e) PROVE ExecutionsMatchClaims'
  <2>1. ThreadMoves(e)
    BY <1>1, WorkStepMoves DEF Assumed
  <2>2. "idle" \notin Holding
    BY DEF Holding
  <2>3. QED
    BY <1>0, <2>1, <2>2 DEF ThreadMoves
<1>2. ASSUME NEW e \in Executors, NEW j \in Jobs, Claims(e, j) PROVE ExecutionsMatchClaims'
  BY <1>0, <1>2, ClaimsFields DEF Assumed
<1>3. ASSUME NEW e \in Executors, WorkerDies(e) PROVE ExecutionsMatchClaims'
  <2>1. NoWork.pc \notin Holding
    BY NoWorkIsIdle DEF Holding
  <2>2. QED
    BY <1>0, <1>3, <2>1, WorkerDiesFields DEF Assumed
<1>4. CASE UNCHANGED <<work, claim>>
  BY <1>0, <1>4
<1>5. QED
  BY <1>0, <1>1, <1>2, <1>3, <1>4, OtherSteps DEF Assumed

(* In one step each thread stays, ends, claims, or takes a step of its own. *)
LEMMA EachThread ==
  ASSUME Assumed, NEW e \in Executors
  PROVE  \/ work'[e] = work[e]
         \/ work'[e].pc \in {"idle", "claimed"}
         \/ WorkStep(e)
<1>0. RequestsKnowTheirJob /\ WorkflowTypeOK /\ QueueInv' /\ [WorkflowNext]_workflowVars
  BY DEF Assumed, WorkflowInv
<1>1. ASSUME NEW f \in Executors, WorkStep(f)
      PROVE  \A g \in Executors \ {f} : work'[g] = work[g]
  BY <1>0, <1>1, WorkStepMoves DEF ThreadMoves
<1>2. ASSUME NEW f \in Executors, NEW j \in Jobs, Claims(f, j)
      PROVE  work'[f].pc = "claimed" /\ \A g \in Executors \ {f} : work'[g] = work[g]
  BY <1>0, <1>2, ClaimsFields
<1>3. ASSUME NEW f \in Executors, WorkerDies(f)
      PROVE  work'[f].pc = "idle" /\ \A g \in Executors \ {f} : work'[g] = work[g]
  BY <1>0, <1>3, NoWorkIsIdle, WorkerDiesFields
<1>4. QED
  BY <1>0, <1>1, <1>2, <1>3, OtherSteps

(* What is known of the job an execution holds does not change. *)
LEMMA HeldInfoStays ==
  ASSUME Assumed, NEW e \in Executors, work[e].pc \in Holding
  PROVE  /\ work[e].job \in Jobs
         /\ jobs[work[e].job].status # "absent"
         /\ info'[work[e].job] = info[work[e].job]
<1>1. work[e].job \in Jobs /\ claim[e].job = work[e].job
  BY DEF Assumed, WorkflowInv, ExecutionsMatchClaims
<1>2. jobs[work[e].job].status # "absent"
  BY <1>1, HeldJobsExist DEF Assumed, WorkflowTypeOK
<1>3. RequestsMove
  BY RequestsAndInfo DEF Assumed, WorkflowInv
<1>4. QED
  BY <1>1, <1>2, <1>3 DEF RequestsMove

LEMMA ReadingIsHolding == HavingRead \subseteq Holding
  BY DEF HavingRead, Holding, WorkPC

LEMMA RevisionStep ==
  ASSUME Assumed
  PROVE  RevisionsAreOrdered'
<1>0. /\ RevisionsAreOrdered /\ RequestsKnowTheirJob
      /\ revision \in Nat /\ revision' \in Nat
      /\ \A j \in Jobs : info[j].input \in Nat /\ info'[j].input \in Nat
      /\ \A c \in Clients : req'[c].rev \in Nat
      /\ \A e \in Executors : work[e].base \in Nat /\ work'[e].base \in Nat
  BY WorkflowAssumption DEF Assumed, WorkflowInv, WorkflowTypeOK, Info, Request, Work
<1>1. /\ revision <= revision'
      /\ \A j \in Jobs : info'[j] = info[j] \/ info'[j].input <= revision
      /\ \A c \in Clients : req'[c].rev <= revision
  BY RequestsAndInfo DEF Assumed, WorkflowInv, RequestsMove
<1>2. \A j \in Jobs : info'[j].input <= revision'
  BY <1>0, <1>1 DEF RevisionsAreOrdered
<1>3. \A c \in Clients : req'[c].rev <= revision'
  BY <1>0, <1>1
<1>4. ASSUME NEW f \in Executors, work'[f] = work[f], work'[f].pc \in HavingRead
      PROVE  info'[work'[f].job].input <= work'[f].base /\ work'[f].base <= revision'
  BY <1>0, <1>1, <1>4, ReadingIsHolding, HeldInfoStays DEF RevisionsAreOrdered
<1>5. ASSUME NEW e \in Executors, WorkStep(e), work'[e].pc \in HavingRead
      PROVE  info'[work'[e].job].input <= work'[e].base /\ work'[e].base <= revision'
  <2>1. ThreadMoves(e)
    BY <1>5, WorkStepMoves DEF Assumed
  <2>2. "idle" \notin HavingRead /\ work'[e].pc \in Holding
    BY <1>5, ReadingIsHolding DEF HavingRead
  <2>3. /\ work'[e].job = work[e].job /\ work[e].pc \in Holding
        /\ UNCHANGED <<info, revision>>
        /\ \/ work'[e].base = revision
           \/ work[e].pc \in HavingRead /\ work'[e].base = work[e].base
    BY <1>5, <2>1, <2>2 DEF ThreadMoves
  <2>4. work[e].job \in Jobs
    BY <2>3, HeldInfoStays
  <2>5. QED
    BY <1>0, <2>3, <2>4 DEF RevisionsAreOrdered
<1>6. \A e \in Executors : work'[e].pc \in HavingRead =>
        info'[work'[e].job].input <= work'[e].base /\ work'[e].base <= revision'
  BY <1>4, <1>5, EachThread DEF HavingRead
<1>7. QED
  BY <1>2, <1>3, <1>6 DEF RevisionsAreOrdered

(* Only a thread that publishes changes what is published. *)
LEMMA PublishedMoves ==
  ASSUME Assumed
  PROVE  \/ UNCHANGED published
         \/ \E e \in Executors : WorkStep(e) /\ Publishes(e)
<1>0. RequestsKnowTheirJob /\ WorkflowTypeOK /\ QueueInv' /\ [WorkflowNext]_workflowVars
  BY DEF Assumed, WorkflowInv
<1>1. CASE \E e \in Executors : WorkStep(e)
  BY <1>0, <1>1, WorkStepMoves DEF ThreadMoves
<1>2. CASE \E e \in Executors, j \in Jobs : Claims(e, j)
  BY <1>0, <1>2, ClaimsFields
<1>3. CASE \E e \in Executors : WorkerDies(e)
  BY <1>0, <1>3, WorkerDiesFields
<1>4. QED
  BY <1>0, <1>1, <1>2, <1>3, OtherSteps

LEMMA PublishesFields ==
  ASSUME Assumed, NEW e \in Executors, Publishes(e)
  PROVE  /\ work[e].job \in Jobs /\ jobs[work[e].job].status # "absent"
         /\ published'[work[e].job] = published[work[e].job] \cup {work[e].attempt}
         /\ \A j \in Jobs \ {work[e].job} : published'[j] = published[j]
         /\ work'[e].pc = "published" /\ work'[e].job = work[e].job
         /\ work'[e].attempt = work[e].attempt
<1>1. work[e].pc \in Holding
  BY DEF Publishes, Holding, WorkPC
<1>2. work[e].job \in Jobs /\ jobs[work[e].job].status # "absent"
  BY <1>1, HeldInfoStays
<1>3. work'[e] = [work[e] EXCEPT !.pc = "published"] /\ work[e] \in Work
  BY DEF Publishes, Goes, Assumed, WorkflowTypeOK
<1>4. /\ published'[work[e].job] = published[work[e].job] \cup {work[e].attempt}
      /\ \A j \in Jobs \ {work[e].job} : published'[j] = published[j]
  BY <1>2 DEF Publishes, Assumed, WorkflowTypeOK
<1>5. QED
  BY <1>2, <1>3, <1>4 DEF Work

LEMMA PublishedGrows ==
  ASSUME Assumed, NEW j \in Jobs
  PROVE  published[j] \subseteq published'[j]
  BY PublishedMoves, PublishesFields

LEMMA ResultsStep ==
  ASSUME Assumed
  PROVE  ResultsBelongToJobs'
<1>0. /\ ResultsBelongToJobs /\ RequestsKnowTheirJob /\ WorkflowTypeOK
      /\ [QueueNext]_queueVars /\ QueueTypeOK
  BY StepsQueue DEF Assumed, WorkflowInv, WorkflowTypeOK
<1>1. ASSUME NEW j \in Jobs, published'[j] # {} PROVE jobs'[j].status # "absent"
  <2>1. jobs[j].status # "absent"
    BY <1>0, <1>1, PublishedMoves, PublishesFields DEF ResultsBelongToJobs
  <2>2. CASE \E e \in Executors : Finishes(e)
    BY <1>0, <2>1, <2>2, FinishedStatus DEF Finishes
  <2>3. CASE NextButFinishing \/ UNCHANGED queueVars
    BY <1>0, <2>1, <2>3, JobsStay DEF StatusMoves
  <2>4. QED
    BY <1>0, <2>2, <2>3, StepsOfTheQueue DEF Assumed
<1>2. ASSUME NEW f \in Executors, work'[f] = work[f]
      PROVE  /\ work'[f].pc = "published" => work'[f].attempt \in published'[work'[f].job]
             /\ work'[f].pc = "finished" => work'[f].job \in Jobs /\ published'[work'[f].job] # {}
  <2>1. work[f].pc = "published" => work[f].job \in Jobs
    BY HeldInfoStays DEF Holding, WorkPC
  <2>2. QED
    BY <1>0, <1>2, <2>1, PublishedGrows DEF ResultsBelongToJobs
<1>3. ASSUME NEW e \in Executors, WorkStep(e)
      PROVE  /\ work'[e].pc = "published" => work'[e].attempt \in published'[work'[e].job]
             /\ work'[e].pc = "finished" => work'[e].job \in Jobs /\ published'[work'[e].job] # {}
  <2>1. ThreadMoves(e)
    BY <1>0, <1>3, WorkStepMoves
  <2>2. CASE work'[e].pc = "published"
    <3>1. Publishes(e)
      BY <2>1, <2>2 DEF ThreadMoves
    <3>2. QED
      BY <2>2, <3>1, PublishesFields
  <2>3. CASE work'[e].pc = "finished"
    <3>1. work[e].pc = "published" /\ work'[e].job = work[e].job
      BY <2>1, <2>3 DEF ThreadMoves
    <3>2. work[e].job \in Jobs
      BY <3>1, HeldInfoStays DEF Holding, WorkPC
    <3>3. QED
      BY <1>0, <2>3, <3>1, <3>2, PublishedGrows DEF ResultsBelongToJobs
  <2>4. QED
    BY <2>2, <2>3
<1>4. \A e \in Executors :
        /\ work'[e].pc = "published" => work'[e].attempt \in published'[work'[e].job]
        /\ work'[e].pc = "finished" => work'[e].job \in Jobs /\ published'[work'[e].job] # {}
  BY <1>2, <1>3, EachThread
<1>5. QED
  BY <1>1, <1>4 DEF ResultsBelongToJobs

(* Between the check of the revision and the end, base is the input. *)
CheckedBase ==
  \A e \in Executors : work[e].pc \in {"same", "checked", "published"} =>
    work[e].base = info[work[e].job].input

LEMMA CheckedBaseStep ==
  ASSUME Assumed
  PROVE  CheckedBase'
<1>0. /\ CheckedBase /\ RevisionsAreOrdered
      /\ revision \in Nat
      /\ \A j \in Jobs : info[j].input \in Nat
      /\ \A e \in Executors : work[e].base \in Nat
  BY WorkflowAssumption
  DEF Assumed, WorkflowInv, ComputedOnItsInput, CheckedBase, WorkflowTypeOK, Info, Work
<1>1. ASSUME NEW f \in Executors, work'[f] = work[f],
             work'[f].pc \in {"same", "checked", "published"}
      PROVE  work'[f].base = info'[work'[f].job].input
  BY <1>0, <1>1, HeldInfoStays DEF CheckedBase, Holding, WorkPC
<1>2. ASSUME NEW e \in Executors, WorkStep(e),
             work'[e].pc \in {"same", "checked", "published"}
      PROVE  work'[e].base = info'[work'[e].job].input
  <2>1. ThreadMoves(e) /\ work'[e].pc # "idle"
    BY <1>2, WorkStepMoves DEF Assumed
  <2>2. work'[e].job = work[e].job /\ info' = info /\ work'[e].base = work[e].base
    BY <1>2, <2>1 DEF ThreadMoves
  <2>3. CASE work'[e].pc = "same"
    <3>1. work[e].pc = "validating" /\ revision = info[work[e].job].input
      BY <2>1, <2>3 DEF ThreadMoves, Unchanged
    <3>2. work[e].job \in Jobs
      BY <3>1, HeldInfoStays DEF Holding, WorkPC
    <3>3. info[work[e].job].input <= work[e].base /\ work[e].base <= revision
      BY <1>0, <3>1 DEF RevisionsAreOrdered, HavingRead
    <3>4. QED
      BY <1>0, <2>2, <3>1, <3>2, <3>3
  <2>4. CASE work'[e].pc \in {"checked", "published"}
    <3>1. work[e].pc \in {"same", "checked"}
      BY <2>1, <2>4 DEF ThreadMoves, Publishes
    <3>2. QED
      BY <1>0, <2>2, <3>1 DEF CheckedBase
  <2>5. QED
    BY <1>2, <2>3, <2>4
<1>3. QED
  BY <1>1, <1>2, EachThread DEF CheckedBase

(* The only step that completes a job follows the write of its result, and *)
(* a completed row no longer changes.                                      *)
LEMMA CompletedStep ==
  ASSUME Assumed
  PROVE  CompletedMeansPublished'
<1>0. /\ CompletedMeansPublished /\ ResultsBelongToJobs /\ ExecutionsMatchClaims
      /\ RequestsKnowTheirJob /\ WorkflowTypeOK /\ QueueTypeOK /\ QueueInv
      /\ [WorkflowNext]_workflowVars /\ [QueueNext]_queueVars
  BY StepsQueue DEF Assumed, WorkflowInv, WorkflowTypeOK
<1> SUFFICES ASSUME NEW j \in Jobs, jobs'[j].status = "completed"
             PROVE  jobs'[j].attempts \in published'[j]
  BY DEF CompletedMeansPublished
<1>1. CASE jobs[j].status = "completed"
  <2>1. jobs'[j] = jobs[j]
    BY <1>0, <1>1, SettledStep
  <2>2. QED
    BY <1>0, <1>1, <2>1, PublishedGrows DEF CompletedMeansPublished
<1>2. CASE jobs[j].status # "completed"
  <2>1. ~(NextButFinishing \/ UNCHANGED queueVars)
    BY <1>0, <1>2, JobsStay DEF StatusMoves
  <2>2. PICK e \in Executors : Finishes(e)
    BY <1>0, <2>1, StepsOfTheQueue
  <2>3. work[e].pc = "published" /\ FinishJob(e)
    BY <2>2 DEF Finishes
  <2>4. j = claim[e].job
    BY <1>0, <1>2, <2>3, FinishedStatus
  <2>5. work[e].job = j /\ claim[e].token = work[e].attempt
    BY <1>0, <2>3, <2>4 DEF ExecutionsMatchClaims, Holding, WorkPC
  <2>6. claim[e].token = jobs[j].attempts
    BY <1>0, <2>3, <2>4, FencedIsNewest DEF FinishJob, HoldsLease
  <2>7. jobs[j].attempts \in published[j]
    BY <1>0, <2>3, <2>5, <2>6 DEF ResultsBelongToJobs
  <2>8. jobs'[j].attempts = jobs[j].attempts
    <3>1. jobs' = [jobs EXCEPT ![j] = Released(jobs[j], "completed", jobs[j].backoff)]
      BY <2>3, <2>4 DEF FinishJob
    <3>2. jobs[j] \in Row /\ jobs[j].backoff \in {"over", "waiting"} /\ "completed" \in JobStatus
      BY <1>0 DEF QueueTypeOK, Row, JobStatus
    <3>3. QED
      BY <1>0, <3>1, <3>2, ReleasedFields DEF QueueTypeOK
  <2>9. QED
    BY <2>7, <2>8, PublishedGrows
<1>3. QED
  BY <1>1, <1>2

LEMMA RunMoves ==
  ASSUME WorkflowTypeOK, NEW e \in Executors, WorkStep(e), NEW r \in Runs,
         run'[r] = "completed", run[r] # "completed"
  PROVE  RunOf(e) = r /\ (Publishes(e) \/ SyncsCompleted(e))
<1>1. ASSUME NEW status \in {"running", "failed"}, run' = [run EXCEPT ![RunOf(e)] = status]
      PROVE  FALSE
  BY <1>1 DEF WorkflowTypeOK
<1>2. CASE Publishes(e) \/ SyncsCompleted(e)
  BY <1>2 DEF Publishes, SyncsCompleted, WorkflowTypeOK
<1>3. run' # run
  OBVIOUS
<1>4. QED
  BY <1>1, <1>2, <1>3
  DEF WorkStep, SyncsRunning, Progresses, Works, StopsBeforeWork, BuildsGraph, Renews, LosesLease,
      Validates, ReadsAgain, ChecksResult, StopsBeforePublishing, FindsItChanged, WorkFails,
      Finishes, CannotFinish, Fails, RetryConflicts, SyncsFailed, Reports, Abandons

LEMMA CompletedRunStep ==
  ASSUME Assumed
  PROVE  CompletedRunHasResult'
<1>0. /\ CompletedRunHasResult /\ ResultsBelongToJobs
      /\ RequestsKnowTheirJob /\ WorkflowTypeOK /\ QueueInv' /\ [WorkflowNext]_workflowVars
      /\ RequestsMove
  BY RequestsAndInfo DEF Assumed, WorkflowInv
<1> SUFFICES ASSUME NEW r \in Runs, run'[r] = "completed"
             PROVE  \E j \in Jobs : info'[j].run = r /\ published'[j] # {}
  BY DEF CompletedRunHasResult
<1>1. CASE run[r] = "completed"
  <2>1. PICK j \in Jobs : info[j].run = r /\ published[j] # {}
    BY <1>0, <1>1 DEF CompletedRunHasResult
  <2>2. info'[j] = info[j]
    BY <1>0, <2>1 DEF ResultsBelongToJobs, RequestsMove
  <2>3. QED
    BY <2>1, <2>2, PublishedGrows
<1>2. CASE run[r] # "completed"
  <2>1. PICK e \in Executors : WorkStep(e)
    BY <1>0, <1>2, ClaimsFields, WorkerDiesFields, OtherSteps
  <2>2. RunOf(e) = r /\ (Publishes(e) \/ SyncsCompleted(e))
    BY <1>0, <1>2, <2>1, RunMoves
  <2>3. info[work[e].job].run = r /\ info' = info
    BY <2>2 DEF RunOf, Publishes, SyncsCompleted
  <2>4. CASE Publishes(e)
    BY <2>3, <2>4, PublishesFields
  <2>5. CASE SyncsCompleted(e)
    <3>1. work[e].pc = "finished"
      BY <2>5 DEF SyncsCompleted
    <3>2. work[e].job \in Jobs /\ published[work[e].job] # {}
      BY <1>0, <3>1 DEF ResultsBelongToJobs
    <3>3. QED
      BY <2>3, <3>2, PublishedGrows
  <2>6. QED
    BY <2>2, <2>4, <2>5
<1>3. QED
  BY <1>1, <1>2

-----------------------------------------------------------------------------
LEMMA WorkflowInvInit == WorkflowInit => WorkflowInv
<1> SUFFICES ASSUME WorkflowInit PROVE WorkflowInv
  OBVIOUS
<1>1. /\ \A e \in Executors : work[e].pc = "idle"
      /\ \A c \in Clients : req[c].pc = "idle" /\ req[c].rev = 0
      /\ \A j \in Jobs : /\ info[j].input = 0 /\ published[j] = {}
                         /\ jobs[j].status = "absent"
      /\ \A r \in Runs : run[r] = "absent"
      /\ revision = 1
  BY DEF WorkflowInit, QueueInit, NoWork, NoRequest, NoInfo, AbsentRow
<1>2. ExecutionsMatchClaims /\ RequestsKnowTheirJob
  BY <1>1 DEF ExecutionsMatchClaims, Holding, RequestsKnowTheirJob
<1>3. RevisionsAreOrdered
  BY <1>1 DEF RevisionsAreOrdered, HavingRead
<1>4. ResultsBelongToJobs /\ CompletedMeansPublished /\ CompletedRunHasResult
  BY <1>1 DEF ResultsBelongToJobs, CompletedMeansPublished, CompletedRunHasResult
<1>5. QED
  BY <1>1, <1>2, <1>3, <1>4 DEF WorkflowInv, ComputedOnItsInput

LEMMA WorkflowInvStep ==
  ASSUME Assumed
  PROVE  WorkflowInv'
<1>1. RequestsKnowTheirJob'
  BY RequestsAndInfo DEF Assumed, WorkflowInv, RequestsMove
<1>2. QED
  BY <1>1, MatchStep, RevisionStep, ResultsStep, CheckedBaseStep, CompletedStep, CompletedRunStep
  DEF WorkflowInv, CheckedBase, ComputedOnItsInput

LEMMA AllStep ==
  WorkflowTypeOK /\ QueueInv /\ WorkflowInv /\ [WorkflowNext]_workflowVars
    => WorkflowTypeOK' /\ QueueInv' /\ WorkflowInv'
<1> SUFFICES ASSUME WorkflowTypeOK, QueueInv, WorkflowInv, [WorkflowNext]_workflowVars
             PROVE  WorkflowTypeOK' /\ QueueInv' /\ WorkflowInv'
  OBVIOUS
<1>1. QueueTypeOK /\ RequestsKnowTheirJob
  BY DEF WorkflowTypeOK, WorkflowInv
<1>2. QueueInv'
  BY <1>1, StepsQueue, InvStep
<1>3. WorkflowTypeOK'
  BY WorkflowTypeStep
<1>4. QED
  BY <1>2, <1>3, WorkflowInvStep DEF Assumed

LEMMA AllInit == WorkflowInit => WorkflowTypeOK /\ QueueInv /\ WorkflowInv
  BY WorkflowTypeInit, InvInit, WorkflowInvInit DEF WorkflowInit

LEMMA AllHolds == WorkflowSpec => [](WorkflowTypeOK /\ QueueInv /\ WorkflowInv)
<1>1. WorkflowInit => WorkflowTypeOK /\ QueueInv /\ WorkflowInv
  BY AllInit
<1>2. QED
  BY <1>1, AllStep, PTL DEF WorkflowSpec

(* Type correctness of the tables, the snapshot, the threads and requests. *)
THEOREM WorkflowTypeCorrect == WorkflowSpec => []WorkflowTypeOK
  BY AllHolds, PTL

(* The inductive invariant of the service: what threads hold, the order of *)
(* the revisions they read, and what was published for whom.               *)
THEOREM WorkflowInvHolds == WorkflowSpec => []WorkflowInv
  BY AllHolds, PTL

(* run_once, start() and control() use the tables only through the         *)
(* repository's operations: every behaviour of the service is one of the   *)
(* queue.                                                                  *)
THEOREM ServiceRunsOnTheQueue == WorkflowSpec => RunsOnTheQueue
<1>1. WorkflowInit => QueueInit
  BY DEF WorkflowInit
<1>2. WorkflowTypeOK /\ WorkflowInv /\ [WorkflowNext]_workflowVars => [QueueNext]_queueVars
  BY StepsQueue DEF WorkflowInv
<1>3. QED
  BY <1>1, <1>2, AllHolds, PTL DEF WorkflowSpec, RunsOnTheQueue, QueueSpec

(* Hence the service inherits the queue's fencing: whatever requests,      *)
(* controls, edits and faults do, two executions never decide one job.     *)
THEOREM ServiceIsFenced == WorkflowSpec => []AtMostOneEntitled
  BY ServiceRunsOnTheQueue, ExecutionsAreFenced, PTL DEF RunsOnTheQueue

(* finish_job is only reached after _complete: no job completes without    *)
(* the result of its last attempt.                                         *)
THEOREM ResultsBeforeCompletion == WorkflowSpec => []CompletedMeansPublished
<1>1. WorkflowInv => CompletedMeansPublished
  BY DEF WorkflowInv
<1>2. QED
  BY <1>1, WorkflowInvHolds, PTL

(* A result that passed the revision check was computed on that revision.  *)
THEOREM ComputedFromItsInput == WorkflowSpec => []ComputedOnItsInput
<1>1. WorkflowInv => ComputedOnItsInput
  BY DEF WorkflowInv
<1>2. QED
  BY <1>1, WorkflowInvHolds, PTL

(* A scenario run that shows completed has a result of its own.            *)
THEOREM RunsHaveResults == WorkflowSpec => []CompletedRunHasResult
<1>1. WorkflowInv => CompletedRunHasResult
  BY DEF WorkflowInv
<1>2. QED
  BY <1>1, WorkflowInvHolds, PTL
-----------------------------------------------------------------------------
(* The order of the stages: nothing that was delivered is taken back, so a *)
(* stage founded once stays founded; each step that touches a stage, a     *)
(* request or a job has met one that is.                                   *)

LEMMA DeliveredStays ==
  ASSUME Assumed, NEW s \in StageNames, Delivered(s)
  PROVE  Delivered(s)'
<1>1. RequestsMove /\ ResultsBelongToJobs
  BY RequestsAndInfo DEF Assumed, WorkflowInv
<1>2. ASSUME NEW j \in Jobs, info[j].stage = s, published[j] # {}
      PROVE  info'[j].stage = s /\ published'[j] # {}
  BY <1>1, <1>2, PublishedGrows DEF RequestsMove, ResultsBelongToJobs
<1>3. QED
  BY <1>2 DEF Delivered

LEMMA FoundedStays ==
  ASSUME Assumed, NEW s \in StageNames, Founded(s)
  PROVE  Founded(s)'
<1>1. "environment" \in StageNames /\ "simulation" \in StageNames
  BY DEF StageNames
<1>2. QED
  BY <1>1, DeliveredStays DEF Founded

LEMMA PublishingFounds ==
  ASSUME Assumed, NEW e \in Executors, Publishes(e), NEW s \in StageNames, s = Following(StageOf(e))
  PROVE  Founded(s)'
<1>1. PICK j \in Jobs, n \in StageNames : j = work[e].job /\ n = info[j].stage
  BY PublishesFields DEF Assumed, WorkflowTypeOK, Info
<1>2. info'[j].stage = n /\ published'[j] # {}
  BY <1>1, PublishesFields DEF Publishes
<1>3. Delivered(n)'
  BY <1>2 DEF Delivered
<1>4. s = Following(n)
  BY <1>1 DEF StageOf
<1>5. \/ s = "environment"
      \/ s = "simulation" /\ n = "environment"
      \/ s = "report" /\ n = "simulation"
  BY <1>4 DEF Following, StageNames
<1>6. QED
  BY <1>3, <1>5 DEF Founded

(* Graph and environment need nothing, whatever was delivered. *)
LEMMA FoundedAlways == Founded("graph") /\ Founded("environment")
  BY DEF Founded

(* What a step does to the snapshot's stages, and who does it. *)
Unlocks(s) ==
  stage'[s] # "locked" \/ current' = s =>
    stage[s] # "locked" \/ current = s \/ Founded(s) \/ Founded(s)'

LEMMA StagesMove ==
  ASSUME Assumed, OrderInv, NEW s \in StageNames
  PROVE  Unlocks(s)
<1> USE DEF Unlocks
<1>0. stage \in [StageNames -> StageStatus] /\ [WorkflowNext]_workflowVars
  BY DEF Assumed, WorkflowTypeOK
<1>1. CASE UNCHANGED <<stage, current>>
  BY <1>1
<1>2. ASSUME NEW j \in Jobs, CreateProject(j) PROVE Unlocks(s)
  BY <1>0, <1>2, FoundedAlways DEF CreateProject
<1>3. ASSUME NEW c \in Clients, StartMarks(c) PROVE Unlocks(s)
  <2>1. PICK n \in StageNames : n = req[c].stage
    BY DEF Assumed, WorkflowTypeOK, Request
  <2>2. Founded(n)
    BY <1>3, <2>1 DEF StartMarks, OrderInv, RequestsAreFounded
  <2>3. stage' = [stage EXCEPT ![n] = "queued"] /\ current' = n
    BY <1>3, <2>1 DEF StartMarks
  <2>4. QED
    BY <1>0, <2>2, <2>3
<1>4. ASSUME NEW c \in Clients, ControlDisplays(c) PROVE Unlocks(s)
  <2>1. Founded("simulation")
    BY <1>4 DEF ControlDisplays, OrderInv, RequestsAreFounded, StageNames
  <2>2. QED
    BY <1>0, <1>4, <2>1 DEF ControlDisplays
<1>5. CASE ApplyGraphFeedback
  <2>1. s # "environment" => stage'[s] \in {"locked", stage[s]}
    BY <1>5 DEF ApplyGraphFeedback
  <2>2. current' = current
    BY <1>5 DEF ApplyGraphFeedback
  <2>3. QED
    BY <2>1, <2>2, FoundedAlways
<1>6. ASSUME NEW e \in Executors, work[e].pc # "idle", NEW status, Shows(e, status),
             UNCHANGED current
      PROVE  Unlocks(s)
  <2>1. PICK j \in Jobs, n \in StageNames : j = work[e].job /\ n = info[j].stage
    BY <1>6 DEF OrderInv, BusyThreadsHaveAJob, Assumed, WorkflowTypeOK, Info
  <2>2. Founded(n)
    BY <2>1 DEF OrderInv, JobsAreFounded
  <2>3. stage' = [stage EXCEPT ![n] = status]
    BY <1>6, <2>1 DEF Shows, StageOf
  <2>4. QED
    BY <1>0, <1>6, <2>2, <2>3
<1>7. ASSUME NEW e \in Executors, Publishes(e) PROVE Unlocks(s)
  <2>1. PICK j \in Jobs, n \in StageNames : j = work[e].job /\ n = info[j].stage
    BY <1>7, PublishesFields DEF Assumed, WorkflowTypeOK, Info
  <2>2. Founded(n)
    BY <2>1 DEF OrderInv, JobsAreFounded
  <2>3. s = Following(n) => Founded(s)'
    BY <1>7, <2>1, PublishingFounds DEF StageOf
  <2>4. stage'[s] = (IF s = n THEN "completed" ELSE IF s = Following(n) THEN "ready" ELSE stage[s])
    BY <1>7, <2>1 DEF Publishes, StageOf
  <2>5. current' = Following(n)
    BY <1>7, <2>1 DEF Publishes, StageOf
  <2>6. QED
    BY <2>2, <2>3, <2>4, <2>5
<1>8. ASSUME NEW e \in Executors, WorkStep(e) PROVE Unlocks(s)
  <2>1. CASE Progresses(e) \/ BuildsGraph(e) \/ Validates(e) \/ Reports(e)
    BY <1>6, <2>1 DEF Progresses, BuildsGraph, Validates, Reports
  <2>2. CASE UNCHANGED <<stage, current>>
    BY <1>1, <2>2
  <2>3. QED
    BY <1>7, <1>8, <2>1, <2>2
    DEF WorkStep, SyncsRunning, Works, StopsBeforeWork, Renews, LosesLease, ReadsAgain,
        ChecksResult, StopsBeforePublishing, FindsItChanged, WorkFails, Finishes, CannotFinish,
        SyncsCompleted, Fails, RetryConflicts, SyncsFailed, Abandons, stateVars
<1>9. CASE \E c \in Clients : RequestStep(c) \/ \E n \in StageNames : StartReads(c, n)
  BY <1>1, <1>3, <1>4, <1>9
  DEF RequestStep, StartRefused, StartConflicts, StartReads, StartEnqueues, ControlSets,
      ControlRefused, ControlSyncsRun, stateVars
<1>10. QED
  BY <1>0, <1>1, <1>2, <1>5, <1>8, <1>9
  DEF WorkflowNext, workflowVars, stateVars, PrepareRun, ControlReads, UpdateEnvironment, Claims,
      ThreadEnds, Heartbeats, Requeues, TimePasses, WorkerDies, RequestDies, Rest

LEMMA StagesAreFoundedStep ==
  ASSUME Assumed, OrderInv
  PROVE  StagesAreFounded'
  BY StagesMove, FoundedStays DEF Unlocks, OrderInv, StagesAreFounded

(* A request goes on from a stage it found unlocked. *)
Asks(c, s) ==
  \/ req[c].pc \in {"enqueuing", "marking"} /\ req[c].stage = s
  \/ req[c].pc \in {"controlling", "syncing", "displaying"} /\ s = "simulation"

LEMMA RequestsAreFoundedStep ==
  ASSUME Assumed, OrderInv
  PROVE  RequestsAreFounded'
<1> DEFINE Goal == \A c \in Clients, s \in StageNames : Asks(c, s)' => Asks(c, s) \/ Founded(s)
<1> SUFFICES Goal
  BY FoundedStays DEF OrderInv, RequestsAreFounded, Asks
<1>0. /\ req \in [Clients -> Request] /\ [WorkflowNext]_workflowVars
      /\ \A c \in Clients : req[c] \in Request
  BY DEF Assumed, WorkflowTypeOK
<1>1. CASE UNCHANGED req
  BY <1>1 DEF Asks
<1>2. ASSUME NEW c \in Clients, \A d \in Clients \ {c} : req'[d] = req[d],
             \A s \in StageNames : Asks(c, s)' => Asks(c, s) \/ Founded(s)
      PROVE  Goal
  BY <1>2 DEF Asks
<1>3. ASSUME NEW c \in Clients, req'[c].pc \in {"idle", "starting"},
             \A d \in Clients \ {c} : req'[d] = req[d]
      PROVE  Goal
  BY <1>2, <1>3 DEF Asks
<1>4. ASSUME NEW c \in Clients, req' = [req EXCEPT ![c] = NoRequest]
      PROVE  Goal
  BY <1>0, <1>3, <1>4 DEF NoRequest
<1>5. ASSUME NEW c \in Clients, NEW n \in StageNames, StartReads(c, n) PROVE Goal
  <2>1. /\ req'[c].pc = "enqueuing" /\ req'[c].stage = n
        /\ \A d \in Clients \ {c} : req'[d] = req[d]
    BY <1>0, <1>5 DEF StartReads, Request
  <2>2. Founded(n)
    BY <1>5 DEF StartReads, Startable, OrderInv, StagesAreFounded
  <2>3. QED
    BY <1>2, <2>1, <2>2 DEF Asks
<1>6. ASSUME NEW c \in Clients, NEW j \in Jobs, StartEnqueues(c, j) PROVE Goal
  <2>1. /\ req[c].pc = "enqueuing" /\ req'[c].pc = "marking" /\ req'[c].stage = req[c].stage
        /\ \A d \in Clients \ {c} : req'[d] = req[d]
    BY <1>0, <1>6 DEF StartEnqueues, Request
  <2>2. QED
    BY <1>2, <2>1 DEF Asks
<1>7. ASSUME NEW c \in Clients, NEW r \in Runs, PrepareRun(c, r) PROVE Goal
  <2>1. /\ req'[c].pc = "starting"
        /\ \A d \in Clients \ {c} : req'[d] = req[d]
    BY <1>0, <1>7 DEF PrepareRun, NoRequest
  <2>2. QED
    BY <1>3, <2>1
<1>8. ASSUME NEW c \in Clients, NEW status \in Controls, NEW r \in Runs \cup {NoRun},
             ControlReads(c, status, r)
      PROVE  Goal
  <2>1. /\ req'[c].pc = "controlling"
        /\ \A d \in Clients \ {c} : req'[d] = req[d]
    BY <1>0, <1>8 DEF ControlReads, NoRequest
  <2>2. Founded("simulation")
    BY <1>8 DEF ControlReads, OrderInv, StagesAreFounded, StageNames
  <2>3. QED
    BY <1>2, <2>1, <2>2 DEF Asks
<1>9. ASSUME NEW c \in Clients, ControlSets(c) \/ ControlSyncsRun(c) PROVE Goal
  <2>1. /\ req[c].pc \in {"controlling", "syncing"} /\ req'[c].pc \in {"syncing", "displaying"}
        /\ \A d \in Clients \ {c} : req'[d] = req[d]
    BY <1>0, <1>9 DEF ControlSets, ControlSyncsRun, Request
  <2>2. QED
    BY <1>2, <2>1 DEF Asks
<1>10. ASSUME NEW c \in Clients, RequestStep(c) PROVE Goal
  <2>1. "simulation" \in StageNames
    BY DEF StageNames
  <2>2. QED
    BY <1>4, <1>5, <1>6, <1>9, <1>10, <2>1
    DEF RequestStep, StartRefused, StartConflicts, StartMarks, ControlRefused, ControlDisplays
<1>11. ASSUME NEW e \in Executors, WorkStep(e) PROVE UNCHANGED req
  BY <1>11, WorkStepMoves DEF ThreadMoves, Assumed
<1>12. QED
  BY <1>0, <1>1, <1>4, <1>5, <1>7, <1>8, <1>10, <1>11
  DEF WorkflowNext, workflowVars, CreateProject, ApplyGraphFeedback, UpdateEnvironment, Claims,
      ThreadEnds, Heartbeats, Requeues, TimePasses, WorkerDies, RequestDies, Rest

LEMMA JobsAreFoundedStep ==
  ASSUME Assumed, OrderInv
  PROVE  JobsAreFounded'
<1> DEFINE Goal == \A j \in Jobs, s \in StageNames : info'[j].stage = s => Founded(s)
<1> SUFFICES Goal
  BY FoundedStays DEF JobsAreFounded
<1>0. info \in [Jobs -> Info] /\ [WorkflowNext]_workflowVars
  BY DEF Assumed, WorkflowTypeOK
<1>1. CASE UNCHANGED info
  BY <1>1 DEF OrderInv, JobsAreFounded
<1>2. ASSUME NEW j \in Jobs, NEW n \in StageNames, Founded(n), info'[j].stage = n,
             \A k \in Jobs \ {j} : info'[k] = info[k]
      PROVE  Goal
  BY <1>2 DEF OrderInv, JobsAreFounded
<1>3. ASSUME NEW j \in Jobs, CreateProject(j) PROVE Goal
  <2>1. info'[j].stage = "graph" /\ \A k \in Jobs \ {j} : info'[k] = info[k]
    BY <1>0, <1>3 DEF CreateProject
  <2>2. "graph" \in StageNames
    BY DEF StageNames
  <2>3. QED
    BY <1>2, <2>1, <2>2, FoundedAlways
<1>4. ASSUME NEW c \in Clients, NEW j \in Jobs, StartEnqueues(c, j) PROVE Goal
  <2>1. PICK n \in StageNames : n = req[c].stage
    BY DEF Assumed, WorkflowTypeOK, Request
  <2>2. Founded(n)
    BY <1>4, <2>1 DEF StartEnqueues, OrderInv, RequestsAreFounded
  <2>3. info'[j].stage = n /\ \A k \in Jobs \ {j} : info'[k] = info[k]
    BY <1>0, <1>4, <2>1 DEF StartEnqueues
  <2>4. QED
    BY <1>2, <2>2, <2>3
<1>5. ASSUME NEW e \in Executors, WorkStep(e) PROVE UNCHANGED info
  BY <1>5, WorkStepMoves DEF ThreadMoves, Assumed
<1>6. QED
  BY <1>0, <1>1, <1>3, <1>4, <1>5
  DEF WorkflowNext, workflowVars, RequestStep, StartRefused, StartConflicts, StartMarks,
      StartReads, ControlSets, ControlRefused, ControlSyncsRun, ControlDisplays, PrepareRun,
      ControlReads, ApplyGraphFeedback, UpdateEnvironment, Claims, ThreadEnds, Heartbeats,
      Requeues, TimePasses, WorkerDies, RequestDies, Rest

LEMMA BusyThreadsStep ==
  ASSUME Assumed, OrderInv
  PROVE  BusyThreadsHaveAJob'
<1>1. ASSUME NEW e \in Executors, WorkStep(e), work'[e].pc # "idle"
      PROVE  work'[e].job \in Jobs
  <2>1. ThreadMoves(e)
    BY <1>1, WorkStepMoves DEF Assumed
  <2>2. work[e].pc # "idle"
    BY <1>1 DEF WorkStep, SyncsRunning, Progresses, Works, StopsBeforeWork, BuildsGraph, Renews,
      LosesLease, Validates, ReadsAgain, ChecksResult, StopsBeforePublishing, FindsItChanged,
      WorkFails, Publishes, Finishes, CannotFinish, SyncsCompleted, Fails, RetryConflicts,
      SyncsFailed, Reports
  <2>3. QED
    BY <1>1, <2>1, <2>2 DEF ThreadMoves, OrderInv, BusyThreadsHaveAJob
<1>2. ASSUME NEW e \in Executors, work'[e].pc = "claimed", work'[e] # work[e]
      PROVE  work'[e].job \in Jobs
  BY <1>2, MatchStep DEF ExecutionsMatchClaims, Holding, WorkPC
<1>3. QED
  BY <1>1, <1>2, EachThread DEF OrderInv, BusyThreadsHaveAJob

LEMMA OrderInit == WorkflowInit => OrderInv
<1> SUFFICES ASSUME WorkflowInit PROVE OrderInv
  OBVIOUS
<1>1. DoneAtStart \in 0..4
  BY WorkflowAssumption
<1>2. /\ \A c \in Clients : req[c].pc = "idle"
      /\ \A e \in Executors : work[e].pc = "idle"
      /\ \A j \in Jobs : info[j].stage = "graph" /\ published[j] = {}
  BY DEF WorkflowInit, NoRequest, NoWork, NoInfo
<1>3. \A s \in StageNames : stage[s] # "locked" \/ current = s => Founded(s)
  BY <1>1 DEF WorkflowInit, StageNames, Stages, DoneStages, Founded, Delivered
<1>4. QED
  BY <1>2, <1>3, FoundedAlways
  DEF OrderInv, StagesAreFounded, RequestsAreFounded, JobsAreFounded, BusyThreadsHaveAJob

LEMMA OrderStep ==
  WorkflowTypeOK /\ QueueInv /\ WorkflowInv /\ OrderInv /\ [WorkflowNext]_workflowVars
    => OrderInv'
<1> SUFFICES ASSUME WorkflowTypeOK, QueueInv, WorkflowInv, OrderInv, [WorkflowNext]_workflowVars
             PROVE  OrderInv'
  OBVIOUS
<1>1. Assumed
  BY AllStep DEF Assumed
<1>2. QED
  BY <1>1, StagesAreFoundedStep, RequestsAreFoundedStep, JobsAreFoundedStep, BusyThreadsStep
  DEF OrderInv

(* What was delivered when the behaviour began was delivered in order; what *)
(* is delivered later belongs to a job whose stage was founded.            *)
LEMMA FoundedIsInOrder == OrderInv => DeliveredInOrder
<1> SUFFICES ASSUME OrderInv PROVE DeliveredInOrder
  OBVIOUS
<1>1. DoneAtStart \in 0..4 /\ "simulation" \in StageNames /\ "report" \in StageNames
  BY WorkflowAssumption DEF StageNames
<1>2. /\ "simulation" \in DoneStages => "environment" \in DoneStages
      /\ "report" \in DoneStages => "simulation" \in DoneStages
  BY <1>1 DEF DoneStages, Stages
<1>3. \A j \in Jobs : /\ info[j].stage = "simulation" => Delivered("environment")
                      /\ info[j].stage = "report" => Delivered("simulation")
  BY <1>1 DEF OrderInv, JobsAreFounded, Founded
<1>4. QED
  BY <1>2, <1>3 DEF DeliveredInOrder, Delivered

(* start(), control() and run_once re-read nothing about earlier stages,   *)
(* yet whatever edits lock and requests unlock in between, no simulation   *)
(* is delivered without an environment and no report without a simulation. *)
THEOREM StagesInOrder == WorkflowSpec => []DeliveredInOrder
<1>1. WorkflowInit => OrderInv
  BY OrderInit
<1>2. WorkflowSpec => []OrderInv
  BY <1>1, OrderStep, AllHolds, PTL DEF WorkflowSpec
<1>3. QED
  BY <1>2, FoundedIsInOrder, PTL
=============================================================================
