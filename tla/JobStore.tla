------------------------------ MODULE JobStore ------------------------------
(***************************************************************************)
(* The durable job records of the Local control plane                      *)
(* (backend/app/control_plane/store.py, LocalControlPlaneStore).           *)
(*                                                                         *)
(* Every public method of the store runs in one BEGIN IMMEDIATE            *)
(* transaction, so each is one atomic step here: an operator whose         *)
(* unprimed conjuncts are the method's checks and whose primed conjuncts   *)
(* are its UPDATEs.  A method that raises changes nothing and is not a     *)
(* step.                                                                   *)
(*                                                                         *)
(* Abstracted: a job is its idempotency key, so submitting a known key is  *)
(* the early return of create_job; hashes, payloads, timestamps, audit     *)
(* rows, error codes and the revision counter (no caller in src/ passes    *)
(* expected_revision) are dropped.  An execution token is valid for        *)
(* exactly one attempt, so holding the token of attempt n of job j is      *)
(* modelled by acting as <<j, n>>.                                         *)
(***************************************************************************)
EXTENDS Naturals, FiniteSets

CONSTANTS Jobs,          \* jobs the clients may create
          MaxAttempts    \* JobRecord.max_attempts, the same for every job

ASSUME MaxAttemptsAssumption == MaxAttempts \in Nat \ {0}

VARIABLES status,           \* status[j]: JobRecord.status, or Absent
          current,          \* current[j]: JobRecord.current_attempt_number (0 if absent)
          cancelRequested,  \* cancelRequested[j]: JobRecord.cancel_requested
          attempt,          \* attempt[j][n]: status of attempt n, or Absent
          outbox            \* outbox[j][n]: status of attempt n's outbox event, or Absent

store == <<status, current, cancelRequested, attempt, outbox>>

Absent == "absent"
AttemptNumbers == 1 .. MaxAttempts

TerminalJobs == {"completed", "partial", "failed", "cancelled", "dead"}
OpenJobs == {"queued", "dispatching", "dispatched", "running", "retry_wait", "cancelling"}

LiveAttempts == {"created", "dispatched", "claimed", "running"}
FinishedAttempts == {"succeeded", "failed_retryable", "failed_terminal", "cancelled",
                     "lost", "superseded"}

\* JOB_TRANSITIONS, as a relation.
JobTransitions ==
      ({"queued"} \X {"dispatching", "cancelling", "failed"})
 \cup ({"dispatching"} \X {"dispatched", "queued", "failed"})
 \cup ({"dispatched"} \X {"running", "queued", "cancelling"})
 \cup ({"running"} \X {"completed", "partial", "retry_wait", "cancelling", "failed"})
 \cup ({"retry_wait"} \X {"queued", "dead", "cancelling"})
 \cup ({"cancelling"} \X {"cancelled", "failed"})

\* ATTEMPT_TRANSITIONS, as a relation.
AttemptTransitions ==
      ({"created"} \X {"dispatched", "cancelled", "superseded"})
 \cup ({"dispatched"} \X {"claimed", "lost", "cancelled", "superseded"})
 \cup ({"claimed"} \X {"running", "lost", "cancelled", "superseded"})
 \cup ({"running"} \X FinishedAttempts)

StoreInit ==
    /\ status = [j \in Jobs |-> Absent]
    /\ current = [j \in Jobs |-> 0]
    /\ cancelRequested = [j \in Jobs |-> FALSE]
    /\ attempt = [j \in Jobs |-> [n \in AttemptNumbers |-> Absent]]
    /\ outbox = [j \in Jobs |-> [n \in AttemptNumbers |-> Absent]]

StoreTypeOK ==
    /\ status \in [Jobs -> TerminalJobs \cup OpenJobs \cup {Absent}]
    /\ current \in [Jobs -> 0 .. MaxAttempts]
    /\ cancelRequested \in [Jobs -> BOOLEAN]
    /\ attempt \in [Jobs -> [AttemptNumbers -> LiveAttempts \cup FinishedAttempts \cup {Absent}]]
    /\ outbox \in [Jobs -> [AttemptNumbers -> {"pending", "published", "failed", Absent}]]

-----------------------------------------------------------------------------
\* create_job with a fresh idempotency key: job, first attempt and outbox event together.
CreateJob(j) ==
    /\ status[j] = Absent
    /\ status' = [status EXCEPT ![j] = "queued"]
    /\ current' = [current EXCEPT ![j] = 1]
    /\ attempt' = [attempt EXCEPT ![j][1] = "created"]
    /\ outbox' = [outbox EXCEPT ![j][1] = "pending"]
    /\ UNCHANGED cancelRequested

\* transition_job: only along JOB_TRANSITIONS, never out of a terminal status.
TransitionJob(j, target) ==
    /\ <<status[j], target>> \in JobTransitions
    /\ status' = [status EXCEPT ![j] = target]
    /\ UNCHANGED <<current, cancelRequested, attempt, outbox>>

\* transition_attempt, by the holder of attempt n's token.
TransitionAttempt(j, n, target) ==
    /\ <<attempt[j][n], target>> \in AttemptTransitions
    /\ attempt' = [attempt EXCEPT ![j][n] = target]
    /\ UNCHANGED <<status, current, cancelRequested, outbox>>

\* The checks of complete_attempt: the attempt is the current one, and it may take this
\* result; a created attempt may take any (the v1 compatibility path).
MayComplete(j, n, result) ==
    /\ n = current[j]
    /\ \/ <<attempt[j][n], result>> \in AttemptTransitions
       \/ attempt[j][n] = "created"

\* What the result of its attempt makes of a job.
JobAfter(result) ==
    CASE result = "succeeded" -> "completed"
      [] result \in {"failed_retryable", "lost"} -> "retry_wait"
      [] result = "failed_terminal" -> "failed"
      [] result = "cancelled" -> "cancelled"

\* complete_attempt: attempt and job in one transaction.  The job's own status is not read.
CompleteAttempt(j, n, result) ==
    /\ MayComplete(j, n, result)
    /\ attempt' = [attempt EXCEPT ![j][n] = result]
    /\ status' = [status EXCEPT ![j] = JobAfter(result)]
    /\ UNCHANGED <<current, cancelRequested, outbox>>

\* create_retry_attempt while attempts are left: cancel_requested keeps its value.
CreateRetryAttempt(j) ==
    /\ status[j] = "retry_wait"
    /\ current[j] < MaxAttempts
    /\ status' = [status EXCEPT ![j] = "queued"]
    /\ current' = [current EXCEPT ![j] = @ + 1]
    /\ attempt' = [attempt EXCEPT ![j][current[j] + 1] = "created"]
    /\ outbox' = [outbox EXCEPT ![j][current[j] + 1] = "pending"]
    /\ UNCHANGED cancelRequested

\* Mutant: the attempts left are not looked at.
ExhaustAttemptsEarly(j) ==
    /\ status[j] = "retry_wait"
    /\ status' = [status EXCEPT ![j] = "dead"]
    /\ UNCHANGED <<current, cancelRequested, attempt, outbox>>

\* create_retry_attempt with none left: DEAD is committed, then job_attempts_exhausted raised.
ExhaustAttempts(j) ==
    /\ status[j] = "retry_wait"
    /\ current[j] >= MaxAttempts
    /\ status' = [status EXCEPT ![j] = "dead"]
    /\ UNCHANGED <<current, cancelRequested, attempt, outbox>>

\* request_cancel on a job that is not terminal.
RequestCancel(j) ==
    /\ <<status[j], "cancelling">> \in JobTransitions
    /\ status' = [status EXCEPT ![j] = "cancelling"]
    /\ cancelRequested' = [cancelRequested EXCEPT ![j] = TRUE]
    /\ UNCHANGED <<current, attempt, outbox>>

\* mark_outbox_consumed_local: the local stand-in for publishing to a broker.
MarkOutboxConsumedLocal(j, n) ==
    /\ outbox[j][n] \in {"pending", "published"}
    /\ outbox' = [outbox EXCEPT ![j][n] = "published"]
    /\ UNCHANGED <<status, current, cancelRequested, attempt>>

-----------------------------------------------------------------------------
\* Mutant: the query forgets that cancelled jobs are terminal.
OpenOrCancelled(j) == status[j] \in OpenJobs \cup {"cancelled"}

\* recover_incomplete_jobs: one transaction over every job that is not terminal.
Open(j) == status[j] \in OpenJobs

\* Jobs the recovery queues again, with a new attempt.
Requeued(j) ==
    /\ Open(j)
    /\ status[j] # "cancelling"
    /\ current[j] < MaxAttempts

RecoveredStatus(j) ==
    CASE ~Open(j) -> status[j]
      [] status[j] = "cancelling" -> "cancelled"
      [] Requeued(j) -> "queued"
      [] OTHER -> "dead"

\* What the restart makes of the attempt the previous process was running.
Abandoned(a) ==
    CASE a = "created" -> "superseded"
      [] a \in LiveAttempts \ {"created"} -> "lost"
      [] OTHER -> a

RecoveredAttempt(j, n) ==
    CASE Open(j) /\ n = current[j] -> Abandoned(attempt[j][n])
      [] Requeued(j) /\ n = current[j] + 1 -> "created"
      [] OTHER -> attempt[j][n]

\* Mutant: the abandoned attempt's dispatch record stays deliverable.
RecoveredOutboxKept(j, n) ==
    IF Requeued(j) /\ n = current[j] + 1 THEN "pending" ELSE outbox[j][n]

RecoveredOutbox(j, n) ==
    CASE Open(j) /\ n = current[j] -> "failed"
      [] Requeued(j) /\ n = current[j] + 1 -> "pending"
      [] OTHER -> outbox[j][n]

RecoverIncompleteJobs ==
    /\ status' = [j \in Jobs |-> RecoveredStatus(j)]
    /\ current' = [j \in Jobs |-> IF Requeued(j) THEN current[j] + 1 ELSE current[j]]
    /\ cancelRequested' = [j \in Jobs |-> IF Requeued(j) THEN FALSE ELSE cancelRequested[j]]
    /\ attempt' = [j \in Jobs |-> [n \in AttemptNumbers |-> RecoveredAttempt(j, n)]]
    /\ outbox' = [j \in Jobs |-> [n \in AttemptNumbers |-> RecoveredOutbox(j, n)]]
=============================================================================
