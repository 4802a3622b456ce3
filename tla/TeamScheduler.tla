---------------------------- MODULE TeamScheduler ----------------------------
(***************************************************************************)
(* The Team profile's way from a queued job to its result: the dispatcher  *)
(* process (team_process.py), the broker, the worker processes             *)
(* (team_worker.py, team_worker_handlers.py) and the PostgreSQL functions  *)
(* they share (postgres/002_scheduler_functions.sql).                      *)
(*                                                                         *)
(* Each database transaction is one step.  A Team job has one attempt.     *)
(* Its row holds its status twice: the column the SQL functions write, and *)
(* the job_json document the Python code reads back and rewrites.  The     *)
(* broker delivers a message at least once: it is taken back from a worker *)
(* that dies before it is done (task_acks_late).                           *)
(*                                                                         *)
(* Abstracted: payloads, hashes and artifacts; row-level security, whose   *)
(* scope every caller is assumed to have set; the passing of time, so that *)
(* a lease or a heartbeat may expire at any moment.                        *)
(***************************************************************************)
EXTENDS Naturals, FiniteSets

CONSTANTS Jobs, Workers, Dispatchers,
          Capable,      \* workers whose task schema range covers the jobs'
          MaxClaims,    \* bound: how often the outbox event of a job is claimed
          MaxFaults     \* bound: processes that die, tasks that raise, messages given twice

ASSUME TeamAssumption ==
    /\ Capable \subseteq Workers
    /\ MaxClaims \in Nat
    /\ MaxFaults \in Nat
    /\ "none" \notin Jobs

VARIABLES column,     \* column[j]: jobs.status
          document,   \* document[j]: status in jobs.job_json
          cancel,     \* cancel[j]: cancel_requested in jobs.job_json
          attempt,    \* attempt[j]: job_attempts.status
          event,      \* event[j]: outbox_events.status
          claims,     \* claims[j]: publish_attempt; the current claim token is the last
          queue,      \* queue[j]: messages for job j at the broker
          dispatcher, \* dispatcher[d]: the claims in hand, and the one published last
          worker,     \* worker[w]: program counter, job in hand, cancel flag read with it
          alive,      \* workers whose registry heartbeat is less than 90 seconds old
          runs,       \* runs[j]: how often the handler of job j was started
          faults

rows == <<column, document, cancel, attempt, event, claims>>
vars == <<rows, queue, dispatcher, worker, alive, runs, faults>>

Absent == "absent"
NoJob == "none"
Verdicts == {"completed", "failed", "cancelled"}
Statuses == Verdicts \cup {Absent, "queued", "dispatched", "running", "cancelling"}
Attempts == {Absent, "created", "dispatched", "claimed", "running",
             "succeeded", "failed_terminal", "cancelled"}

NoClaim == <<NoJob, 0>>
IdleDispatcher == [todo |-> {}, sent |-> NoClaim]
IdleWorker == [pc |-> "idle", job |-> NoJob, cancelled |-> FALSE]

Init ==
    /\ column = [j \in Jobs |-> Absent]
    /\ document = [j \in Jobs |-> Absent]
    /\ cancel = [j \in Jobs |-> FALSE]
    /\ attempt = [j \in Jobs |-> Absent]
    /\ event = [j \in Jobs |-> Absent]
    /\ claims = [j \in Jobs |-> 0]
    /\ queue = [j \in Jobs |-> 0]
    /\ dispatcher = [d \in Dispatchers |-> IdleDispatcher]
    /\ worker = [w \in Workers |-> IdleWorker]
    /\ alive = Workers
    /\ runs = [j \in Jobs |-> 0]
    /\ faults = 0

-----------------------------------------------------------------------------
(* The API process. *)

\* create_job: job, attempt and outbox event in one transaction.  A manual retry of a
\* terminal job is the same transaction for a new job.
CreateJob(j) ==
    /\ column[j] = Absent
    /\ column' = [column EXCEPT ![j] = "queued"]
    /\ document' = [document EXCEPT ![j] = "queued"]
    /\ attempt' = [attempt EXCEPT ![j] = "created"]
    /\ event' = [event EXCEPT ![j] = "pending"]
    /\ UNCHANGED <<cancel, claims, queue, dispatcher, worker, alive, runs, faults>>

\* Mutant: a terminal job may be cancelled too.
RequestCancelAnyway(j) ==
    /\ column[j] # Absent
    /\ column' = [column EXCEPT ![j] = "cancelling"]
    /\ document' = [document EXCEPT ![j] = "cancelling"]
    /\ cancel' = [cancel EXCEPT ![j] = TRUE]
    /\ UNCHANGED <<attempt, event, claims, queue, dispatcher, worker, alive, runs, faults>>

\* request_cancel: reads the document under a row lock, writes both.
RequestCancel(j) ==
    /\ document[j] \notin Verdicts \cup {Absent}
    /\ column' = [column EXCEPT ![j] = "cancelling"]
    /\ document' = [document EXCEPT ![j] = "cancelling"]
    /\ cancel' = [cancel EXCEPT ![j] = TRUE]
    /\ UNCHANGED <<attempt, event, claims, queue, dispatcher, worker, alive, runs, faults>>

-----------------------------------------------------------------------------
(* The dispatcher: claim in one transaction, publish outside, acknowledge in another. *)

\* A lease runs out when the database clock says so, whatever its owner is doing.
Claimable(j) ==
    /\ event[j] \in {"pending", "publishing"}
    /\ claims[j] < MaxClaims
    /\ alive \cap Capable # {}

\* claim_outbox_batch: rows another dispatcher has locked are skipped.
ClaimBatch(d) ==
    /\ dispatcher[d] = IdleDispatcher
    /\ \E batch \in SUBSET {j \in Jobs : Claimable(j)} :
        /\ batch # {}
        /\ event' = [j \in Jobs |-> IF j \in batch THEN "publishing" ELSE event[j]]
        /\ claims' = [j \in Jobs |-> IF j \in batch THEN claims[j] + 1 ELSE claims[j]]
        /\ dispatcher' = [dispatcher EXCEPT ![d].todo = {<<j, claims[j] + 1>> : j \in batch}]
    /\ UNCHANGED <<column, document, cancel, attempt, queue, worker, alive, runs, faults>>

\* send_task.
Publish(d) ==
    /\ dispatcher[d].sent = NoClaim
    /\ \E claim \in dispatcher[d].todo :
        /\ queue' = [queue EXCEPT ![claim[1]] = @ + 1]
        /\ dispatcher' = [dispatcher EXCEPT ![d] = [todo |-> @.todo \ {claim}, sent |-> claim]]
    /\ UNCHANGED <<rows, worker, alive, runs, faults>>

\* Mutant: the claim token is not compared.
HoldsAnyClaim(claim) == event[claim[1]] \in {"pending", "publishing"}

HoldsClaim(claim) == event[claim[1]] = "publishing" /\ claims[claim[1]] = claim[2]

\* Mutant: the acknowledgement moves a job whatever its status.
AcknowledgeBlindly(d) ==
    /\ dispatcher[d].sent # NoClaim
    /\ LET claim == dispatcher[d].sent
           j == claim[1]
       IN  IF HoldsClaim(claim)
           THEN /\ event' = [event EXCEPT ![j] = "published"]
                /\ column' = [column EXCEPT ![j] = "dispatched"]
                /\ attempt' = [attempt EXCEPT ![j] = "dispatched"]
           ELSE UNCHANGED <<event, column, attempt>>
    /\ dispatcher' = [dispatcher EXCEPT ![d].sent = NoClaim]
    /\ UNCHANGED <<document, cancel, claims, queue, worker, alive, runs, faults>>

\* acknowledge_outbox_publish: only the holder of the current claim; the job's column moves
\* if it is still queued, its attempt if it is still created.
Acknowledge(d) ==
    /\ dispatcher[d].sent # NoClaim
    /\ LET claim == dispatcher[d].sent
           j == claim[1]
       IN  IF HoldsClaim(claim)
           THEN /\ event' = [event EXCEPT ![j] = "published"]
                /\ column' = [column EXCEPT ![j] = IF @ = "queued" THEN "dispatched" ELSE @]
                /\ attempt' = [attempt EXCEPT ![j] = IF @ = "created" THEN "dispatched" ELSE @]
           ELSE UNCHANGED <<event, column, attempt>>
    /\ dispatcher' = [dispatcher EXCEPT ![d].sent = NoClaim]
    /\ UNCHANGED <<document, cancel, claims, queue, worker, alive, runs, faults>>

Fault == faults < MaxFaults /\ faults' = faults + 1

\* The process dies, or send_task raises, which nothing catches; it is started again.
DispatcherCrash(d) ==
    /\ Fault
    /\ dispatcher[d] # IdleDispatcher
    /\ dispatcher' = [dispatcher EXCEPT ![d] = IdleDispatcher]
    /\ UNCHANGED <<rows, queue, worker, alive, runs>>

-----------------------------------------------------------------------------
(* The workers. *)

Move(w, pc) == worker' = [worker EXCEPT ![w].pc = pc]

\* The task is done and acknowledges its message.
Done(w) == worker' = [worker EXCEPT ![w] = IdleWorker]

\* A message wakes a worker, which registers first: this is its only heartbeat.
Receive(w) ==
    /\ worker[w].pc = "idle"
    /\ \E j \in Jobs :
        /\ queue[j] > 0
        /\ queue' = [queue EXCEPT ![j] = @ - 1]
        /\ worker' = [worker EXCEPT ![w] = [pc |-> "claim", job |-> j, cancelled |-> FALSE]]
    /\ alive' = alive \cup {w}
    /\ UNCHANGED <<rows, dispatcher, runs, faults>>

\* Mutant: a running job may be claimed again, as after a redelivery.
ExecutableAgain(w, j) ==
    /\ w \in Capable
    /\ column[j] \in {"dispatched", "running"}
    /\ attempt[j] \in {"dispatched", "claimed", "running"}

Executable(w, j) == w \in Capable /\ column[j] = "dispatched" /\ attempt[j] = "dispatched"

\* claim_next_job: the database decides; a message for a job it does not give is used up.
ClaimJob(w) ==
    /\ worker[w].pc = "claim"
    /\ LET j == worker[w].job
       IN  IF Executable(w, j)
           THEN /\ column' = [column EXCEPT ![j] = "running"]
                /\ attempt' = [attempt EXCEPT ![j] = "claimed"]
                /\ Move(w, "load")
           ELSE /\ Done(w)
                /\ UNCHANGED <<column, attempt>>
    /\ UNCHANGED <<document, cancel, event, claims, queue, dispatcher, alive, runs, faults>>

\* execute_claimed_job reads the document without a lock ...
Load(w) ==
    /\ worker[w].pc = "load"
    /\ worker' = [worker EXCEPT ![w].pc = "begin", ![w].cancelled = cancel[worker[w].job]]
    /\ UNCHANGED <<rows, queue, dispatcher, alive, runs, faults>>

\* ... and writes the copy back, running; then the handler starts.
Begin(w) ==
    /\ worker[w].pc = "begin"
    /\ LET j == worker[w].job
       IN  /\ attempt' = [attempt EXCEPT ![j] = "running"]
           /\ column' = [column EXCEPT ![j] = "running"]
           /\ document' = [document EXCEPT ![j] = "running"]
           /\ cancel' = [cancel EXCEPT ![j] = worker[w].cancelled]
           /\ runs' = [runs EXCEPT ![j] = @ + 1]
    /\ Move(w, "execute")
    /\ UNCHANGED <<event, claims, queue, dispatcher, alive, faults>>

\* Mutant: the document is not read again at the end.
FinalizeBlindly(w) ==
    /\ worker[w].pc = "execute"
    /\ \E verdict \in {"completed", "failed"} :
        LET j == worker[w].job
        IN  /\ column' = [column EXCEPT ![j] = verdict]
            /\ document' = [document EXCEPT ![j] = verdict]
            /\ attempt' = [attempt EXCEPT ![j] = IF verdict = "completed" THEN "succeeded"
                                                                       ELSE "failed_terminal"]
    /\ Done(w)
    /\ UNCHANGED <<cancel, event, claims, queue, dispatcher, alive, runs, faults>>

\* _finalize: under a row lock; a cancellation seen now wins over the handler's result.
Finalize(w) ==
    /\ worker[w].pc = "execute"
    /\ \E result \in {"succeeded", "failed_terminal"} :
        LET j == worker[w].job
            outcome == IF cancel[j] \/ document[j] = "cancelling" THEN "cancelled" ELSE result
            verdict == CASE outcome = "succeeded" -> "completed"
                         [] outcome = "failed_terminal" -> "failed"
                         [] OTHER -> "cancelled"
        IN  /\ attempt' = [attempt EXCEPT ![j] = outcome]
            /\ column' = [column EXCEPT ![j] = verdict]
            /\ document' = [document EXCEPT ![j] = verdict]
    /\ Done(w)
    /\ UNCHANGED <<cancel, event, claims, queue, dispatcher, alive, runs, faults>>

\* The process dies with its task: the broker takes the message back, and the worker that
\* replaces it registers (worker_ready).
WorkerCrash(w) ==
    /\ Fault
    /\ worker[w] # IdleWorker
    /\ queue' = [queue EXCEPT ![worker[w].job] = @ + 1]
    /\ Done(w)
    /\ alive' = alive \cup {w}
    /\ UNCHANGED <<rows, dispatcher, runs>>

\* The database cannot be reached: the task raises, and that acknowledges its message.
TaskRaises(w) ==
    /\ Fault
    /\ worker[w] # IdleWorker
    /\ Done(w)
    /\ UNCHANGED <<rows, queue, dispatcher, alive, runs>>

\* The broker gives a message again while its task is still busy (visibility_timeout).
Redeliver(w) ==
    /\ Fault
    /\ worker[w] # IdleWorker
    /\ queue' = [queue EXCEPT ![worker[w].job] = @ + 1]
    /\ UNCHANGED <<rows, dispatcher, worker, alive, runs>>

\* Ninety seconds without a registration.
HeartbeatExpires(w) ==
    /\ w \in alive
    /\ alive' = alive \ {w}
    /\ UNCHANGED <<rows, queue, dispatcher, worker, runs, faults>>

-----------------------------------------------------------------------------
DispatcherStep(d) == ClaimBatch(d) \/ Publish(d) \/ Acknowledge(d)

WorkerStep(w) == Receive(w) \/ ClaimJob(w) \/ Load(w) \/ Begin(w) \/ Finalize(w)

Next ==
    \/ \E j \in Jobs : CreateJob(j) \/ RequestCancel(j)
    \/ \E d \in Dispatchers : DispatcherStep(d) \/ DispatcherCrash(d)
    \/ \E w \in Workers : WorkerStep(w) \/ HeartbeatExpires(w)
    \/ \E w \in Workers : WorkerCrash(w) \/ TaskRaises(w) \/ Redeliver(w)

Spec == Init /\ [][Next]_vars

-----------------------------------------------------------------------------
TypeOK ==
    /\ column \in [Jobs -> Statuses]
    /\ document \in [Jobs -> Statuses]
    /\ cancel \in [Jobs -> BOOLEAN]
    /\ attempt \in [Jobs -> Attempts]
    /\ event \in [Jobs -> {Absent, "pending", "publishing", "published"}]
    /\ claims \in [Jobs -> 0 .. MaxClaims]
    /\ queue \in [Jobs -> Nat]
    /\ dispatcher \in [Dispatchers -> [todo : SUBSET (Jobs \X (1 .. MaxClaims)),
                                       sent : (Jobs \X (1 .. MaxClaims)) \cup {NoClaim}]]
    /\ worker \in [Workers -> [pc : {"idle", "claim", "load", "begin", "execute"},
                               job : Jobs \cup {NoJob}, cancelled : BOOLEAN]]
    /\ alive \subseteq Workers
    /\ runs \in [Jobs -> Nat]
    /\ faults \in 0 .. MaxFaults

\* However often a job's message is published or delivered, its handler is started at most
\* once: duplicates, redeliveries after a crash and stale acknowledgements are all harmless
\* because claim_next_job takes a dispatched job only, and nothing makes it dispatched again.
HandledAtMostOnce ==
    \A j \in Jobs :
        /\ runs[j] <= 1
        /\ Cardinality({w \in Workers : worker[w].job = j
                                        /\ worker[w].pc \in {"load", "begin", "execute"}}) <= 1

\* The two copies of a job's status agree, but for the steps only the SQL functions make: a
\* reader of the document sees a queued job that is in truth dispatched or claimed.
DocumentFollowsColumn ==
    \A j \in Jobs :
        \/ document[j] = column[j]
        \/ document[j] = "queued" /\ column[j] \in {"dispatched", "running"}

\* A published event was published: its job was handed to the broker under the claim that was
\* acknowledged, and no dispatcher still holds work for it under that claim.
PublishedOnce ==
    \A j \in Jobs :
        event[j] = "published" =>
            \A d \in Dispatchers :
                /\ <<j, claims[j]>> \notin dispatcher[d].todo
                /\ dispatcher[d].sent # <<j, claims[j]>>

\* The types, and what dispatchers still hold of published events.
DeliveriesAreSound == TypeOK /\ PublishedOnce

\* A cancellation the finalizing worker can see wins: a job marked cancelled never completes.
SeenCancelWins ==
    [][\A j \in Jobs : cancel[j] /\ document'[j] \in Verdicts /\ document[j] \notin Verdicts
            => document'[j] = "cancelled"]_vars

\* A verdict is final whatever a late dispatcher, worker or client does.
VerdictIsFinal ==
    [][\A j \in Jobs : document[j] \in Verdicts =>
            document'[j] = document[j] /\ column'[j] = column[j] /\ attempt'[j] = attempt[j]]_vars

\* How far the one attempt of a job has come, as in JobBackend.  A worker that is lost leaves it
\* taken for good.
Turn(j) ==
    CASE attempt[j] \in {"created", "dispatched"} -> "fresh"
      [] attempt[j] \in {"claimed", "running"} -> "taken"
      [] OTHER -> "spent"

\* What a client is shown, who reads the document.
Verdict(j) ==
    CASE document[j] = Absent -> "none"
      [] document[j] \in Verdicts -> document[j]
      [] OTHER -> "open"

Contract == INSTANCE JobContract WITH
    MaxAttempts <- 1,
    tries <- [j \in Jobs |-> IF attempt[j] = Absent THEN 0 ELSE 1],
    turn <- [j \in Jobs |-> Turn(j)],
    verdict <- [j \in Jobs |-> Verdict(j)]

\* The Team profile keeps the contract of the Local one, with a single attempt: it is handed to
\* a worker once and never taken back, only a worker that has it completes the job, and the job
\* is decided once, whatever the broker, the dispatchers and the workers repeat or lose.
KeepsContract == Contract!Spec

=============================================================================
