----------------------------- MODULE JobBackend -----------------------------
(***************************************************************************)
(* The in-process job backend of the Local profile                         *)
(* (backend/app/control_plane/jobs.py, InProcessJobBackend, with the       *)
(* process life cycle of runtime.py) on top of the durable JobStore.       *)
(*                                                                         *)
(* One asyncio event loop runs one task per job.  A task gives way only at *)
(* an await: on the semaphore, inside the handler, and while the heartbeat *)
(* task is gathered.  Between awaits it makes a series of store calls;     *)
(* each call is a step, because the process may die or the store refuse    *)
(* between two of them, but no other coroutine runs (LoopFree).            *)
(*                                                                         *)
(* pc[j] is the next thing the task of job j does:                         *)
(*   none       no task                                                    *)
(*   waiting    acquire the semaphore, then the first two store calls      *)
(*   consume .. run   the remaining dispatch calls, in the code's order    *)
(*   unhandled  no handler is registered for the job's type                *)
(*   running    the handler's coroutine, with its heartbeat task           *)
(*   returning  the handler ended with outcome[j]; heartbeat being gathered*)
(*   failing    a store call raised inside the try block                   *)
(*   retry      the attempt was recorded failed_retryable                  *)
(* held[j] is the attempt whose execution token the task carries.          *)
(***************************************************************************)
EXTENDS JobStore

CONSTANTS Concurrency,   \* size of the semaphore
          Unhandled,     \* jobs whose type has no registered handler
          MaxStarts,     \* bound: process starts explored
          MaxFaults      \* bound: store calls that raise sqlite3.OperationalError

ASSUME BackendAssumption ==
    /\ Concurrency \in Nat \ {0}
    /\ Unhandled \subseteq Jobs
    /\ MaxStarts \in Nat \ {0}
    /\ MaxFaults \in Nat

VARIABLES phase,     \* of the process: down, up, draining, stopping, killing
          pc, held, outcome,
          starts, faults

backend == <<phase, pc, held, outcome, starts, faults>>
vars == <<store, backend>>

Phases == {"down", "up", "draining", "stopping", "killing"}
DispatchPC == {"consume", "dispatch", "announce", "claim", "begin", "run"}
\* Inside these a task is between two store calls without an await.
SyncPC == DispatchPC \cup {"unhandled", "failing", "retry"}
PCs == SyncPC \cup {"none", "waiting", "running", "returning"}
Outcomes == {"none", "ok", "retryable", "terminal", "cancelled", "shutdown"}

\* phase is the pair (_accepting, _shutdown_requested) of the backend object.
Accepting == phase = "up"
ShutdownRequested == phase \in {"stopping", "killing"}

\* No coroutine is in the middle of a synchronous block.
LoopFree ==
    /\ phase \in {"up", "draining", "stopping"}
    /\ \A j \in Jobs : pc[j] \notin SyncPC

Holders == {j \in Jobs : pc[j] \notin {"none", "waiting"}}
SemaphoreFree == Cardinality(Holders) < Concurrency

Init ==
    /\ StoreInit
    /\ phase = "down"
    /\ pc = [j \in Jobs |-> "none"]
    /\ held = [j \in Jobs |-> 0]
    /\ outcome = [j \in Jobs |-> "none"]
    /\ starts = 0
    /\ faults = 0

-----------------------------------------------------------------------------
\* Bookkeeping shared by the actions: what becomes of the task of job j.
Goto(j, l) ==
    /\ pc' = [pc EXCEPT ![j] = l]
    /\ UNCHANGED <<phase, held, outcome, starts, faults>>

\* The task ends: its finally clause drops it from _tasks and _active.
EndTask(j) ==
    /\ pc' = [pc EXCEPT ![j] = "none"]
    /\ held' = [held EXCEPT ![j] = 0]
    /\ outcome' = [outcome EXCEPT ![j] = "none"]
    /\ UNCHANGED <<phase, starts, faults>>

\* _schedule: a new task that carries the token of attempt n.
Schedule(j, n) ==
    /\ pc' = [pc EXCEPT ![j] = "waiting"]
    /\ held' = [held EXCEPT ![j] = n]
    /\ outcome' = [outcome EXCEPT ![j] = "none"]
    /\ UNCHANGED <<phase, starts, faults>>

HandlerEnds(j, result) ==
    /\ LoopFree
    /\ pc[j] = "running"
    /\ pc' = [pc EXCEPT ![j] = "returning"]
    /\ outcome' = [outcome EXCEPT ![j] = result]
    /\ UNCHANGED <<store, phase, held, starts, faults>>

-----------------------------------------------------------------------------
(* The client's calls: coroutines without an await, run on the event loop. *)

\* submit with a fresh idempotency key; a known key returns the existing job.
Submit(j) ==
    /\ LoopFree
    /\ Accepting
    /\ CreateJob(j)
    /\ Schedule(j, 1)

Cancel(j) ==
    /\ LoopFree
    /\ RequestCancel(j)
    /\ UNCHANGED backend

\* retry: create_manual_retry makes a new job out of a terminal one before _accepting is read.
Retry(old, new) ==
    /\ LoopFree
    /\ status[old] \in TerminalJobs
    /\ CreateJob(new)
    /\ IF Accepting THEN Schedule(new, 1) ELSE UNCHANGED backend

-----------------------------------------------------------------------------
(* _execute. *)

HasTurn(j) == pc[j] = "waiting" /\ LoopFree /\ SemaphoreFree

\* Mutant: the early return leaves the job cancelling.
DropCancelledSilently(j) ==
    /\ HasTurn(j)
    /\ status[j] = "cancelling"
    /\ EndTask(j)
    /\ UNCHANGED store

\* The job was cancelled while it waited for the semaphore.
DropCancelled(j) ==
    /\ HasTurn(j)
    /\ status[j] = "cancelling"
    /\ CompleteAttempt(j, held[j], "cancelled")
    /\ EndTask(j)

Acquire(j) ==
    /\ HasTurn(j)
    /\ status[j] # "cancelling"
    /\ TransitionJob(j, "dispatching")
    /\ Goto(j, "consume")

ConsumeOutbox(j) ==
    /\ pc[j] = "consume"
    /\ MarkOutboxConsumedLocal(j, held[j])
    /\ Goto(j, "dispatch")

DispatchJob(j) ==
    /\ pc[j] = "dispatch"
    /\ TransitionJob(j, "dispatched")
    /\ Goto(j, "announce")

AnnounceAttempt(j) ==
    /\ pc[j] = "announce"
    /\ TransitionAttempt(j, held[j], "dispatched")
    /\ Goto(j, "claim")

ClaimAttempt(j) ==
    /\ pc[j] = "claim"
    /\ TransitionAttempt(j, held[j], "claimed")
    /\ Goto(j, "begin")

BeginAttempt(j) ==
    /\ pc[j] = "begin"
    /\ TransitionAttempt(j, held[j], "running")
    /\ Goto(j, "run")

RunJob(j) ==
    /\ pc[j] = "run"
    /\ TransitionJob(j, "running")
    /\ Goto(j, IF j \in Unhandled THEN "unhandled" ELSE "running")

RejectUnhandled(j) ==
    /\ pc[j] = "unhandled"
    /\ CompleteAttempt(j, held[j], "failed_terminal")
    /\ EndTask(j)

Dispatch(j) ==
    \/ DropCancelled(j)
    \/ Acquire(j)
    \/ ConsumeOutbox(j)
    \/ DispatchJob(j)
    \/ AnnounceAttempt(j)
    \/ ClaimAttempt(j)
    \/ BeginAttempt(j)
    \/ RunJob(j)
    \/ RejectUnhandled(j)

\* The handler returns or raises of its own accord.
HandlerReturns(j) == \E result \in {"ok", "retryable", "terminal"} : HandlerEnds(j, result)

\* A checkpoint, the handler's or the heartbeat's: shutdown is looked at before cancellation.
ObserveShutdown(j) == ShutdownRequested /\ HandlerEnds(j, "shutdown")

ObserveCancel(j) ==
    /\ ~ShutdownRequested
    /\ cancelRequested[j]
    /\ HandlerEnds(j, "cancelled")

-----------------------------------------------------------------------------
(* The end of _execute: what the task records for its attempt. *)

Settling(j, result) ==
    /\ \/ pc[j] = "returning" /\ LoopFree
       \/ pc[j] = "failing"
    /\ outcome[j] = result

\* Mutant: the result is recorded without reading the job again.
SettleOkBlind(j) ==
    /\ Settling(j, "ok")
    /\ CompleteAttempt(j, held[j], "succeeded")
    /\ EndTask(j)

SettleOk(j) ==
    /\ Settling(j, "ok")
    /\ CompleteAttempt(j, held[j],
                       IF status[j] = "cancelling" THEN "cancelled" ELSE "succeeded")
    /\ EndTask(j)

SettleCancelled(j) ==
    /\ Settling(j, "cancelled")
    /\ CompleteAttempt(j, held[j], IF ShutdownRequested THEN "lost" ELSE "cancelled")
    /\ EndTask(j)

\* Mutant: a shutdown is recorded as a cancellation.
SettleShutdownAsCancel(j) ==
    /\ Settling(j, "shutdown")
    /\ CompleteAttempt(j, held[j], "cancelled")
    /\ EndTask(j)

SettleShutdown(j) ==
    /\ Settling(j, "shutdown")
    /\ CompleteAttempt(j, held[j], "lost")
    /\ EndTask(j)

SettleTerminal(j) ==
    /\ Settling(j, "terminal")
    /\ CompleteAttempt(j, held[j], "failed_terminal")
    /\ EndTask(j)

SettleRetryable(j) ==
    /\ Settling(j, "retryable")
    /\ CompleteAttempt(j, held[j], "failed_retryable")
    /\ Goto(j, "retry")

\* complete_attempt refuses the result: swallowed by _finish_safely for a terminal failure,
\* raised out of the except clause for a retryable one.  The task ends either way.
SettleRefused(j) ==
    /\ pc[j] = "failing"
    /\ ~MayComplete(j, held[j], IF outcome[j] = "retryable" THEN "failed_retryable"
                                                            ELSE "failed_terminal")
    /\ EndTask(j)
    /\ UNCHANGED store

\* Mutant: the next attempt is created and nobody runs it.
RetryUnscheduled(j) ==
    /\ pc[j] = "retry"
    /\ CreateRetryAttempt(j)
    /\ EndTask(j)

\* The next attempt is created now, and scheduled unless the backend is stopping.
RetryNow(j) ==
    /\ pc[j] = "retry"
    /\ CreateRetryAttempt(j)
    /\ IF ShutdownRequested THEN EndTask(j) ELSE Schedule(j, held[j] + 1)

GiveUp(j) ==
    /\ pc[j] = "retry"
    /\ ExhaustAttempts(j)
    /\ EndTask(j)

Settle(j) ==
    \/ SettleOk(j)
    \/ SettleCancelled(j)
    \/ SettleShutdown(j)
    \/ SettleTerminal(j)
    \/ SettleRetryable(j)
    \/ SettleRefused(j)
    \/ RetryNow(j)
    \/ GiveUp(j)

-----------------------------------------------------------------------------
(* A store call raises sqlite3.OperationalError. *)

\* Inside the try block: classify_job_error calls a busy store retryable, the rest terminal.
FaultIsClassified(j) ==
    /\ faults < MaxFaults
    /\ \/ HasTurn(j)
       \/ pc[j] \in DispatchPC \cup {"unhandled"}
       \/ Settling(j, "ok")
    /\ pc[j] # "failing"
    /\ pc' = [pc EXCEPT ![j] = "failing"]
    /\ \E kind \in {"retryable", "terminal"} : outcome' = [outcome EXCEPT ![j] = kind]
    /\ faults' = faults + 1
    /\ UNCHANGED <<store, phase, held, starts>>

\* Inside an except clause: nothing catches it and the task dies.
FaultEscapes(j) ==
    /\ faults < MaxFaults
    /\ \/ pc[j] \in {"failing", "retry"}
       \/ \E result \in Outcomes \ {"ok"} : Settling(j, result)
    /\ pc' = [pc EXCEPT ![j] = "none"]
    /\ held' = [held EXCEPT ![j] = 0]
    /\ outcome' = [outcome EXCEPT ![j] = "none"]
    /\ faults' = faults + 1
    /\ UNCHANGED <<store, phase, starts>>

\* In the heartbeat task: it cancels the owner, which takes it for a cancellation.
FaultInHeartbeat(j) ==
    /\ faults < MaxFaults
    /\ LoopFree
    /\ pc[j] = "running"
    /\ pc' = [pc EXCEPT ![j] = "returning"]
    /\ outcome' = [outcome EXCEPT ![j] = "cancelled"]
    /\ faults' = faults + 1
    /\ UNCHANGED <<store, phase, held, starts>>

-----------------------------------------------------------------------------
(* The process. *)

\* start: recover, then schedule every recovered job.
Start ==
    /\ phase = "down"
    /\ starts < MaxStarts
    /\ RecoverIncompleteJobs
    /\ phase' = "up"
    /\ pc' = [j \in Jobs |-> IF Requeued(j) THEN "waiting" ELSE "none"]
    /\ held' = [j \in Jobs |-> IF Requeued(j) THEN current[j] + 1 ELSE 0]
    /\ outcome' = [j \in Jobs |-> "none"]
    /\ starts' = starts + 1
    /\ UNCHANGED faults

\* The last start explored is never stopped, so that what it owes the jobs can be judged.
MayStop == starts < MaxStarts

\* shutdown, first wait: no new jobs, the tasks may finish within the grace period.
BeginShutdown ==
    /\ MayStop
    /\ LoopFree
    /\ phase = "up"
    /\ phase' = "draining"
    /\ UNCHANGED <<store, pc, held, outcome, starts, faults>>

\* The grace period is over: the flag every checkpoint looks at is set; one more second.
GraceOver ==
    /\ LoopFree
    /\ phase = "draining"
    /\ phase' = "stopping"
    /\ UNCHANGED <<store, pc, held, outcome, starts, faults>>

\* That second is up.  It is enough for a task whose turn it is to be resumed.
StopWaiting ==
    /\ LoopFree
    /\ phase = "stopping"
    /\ \A j \in Jobs : ~HasTurn(j)
    /\ phase' = "killing"
    /\ UNCHANGED <<store, pc, held, outcome, starts, faults>>

\* A task still pending: its attempt is recorded lost, then the task is cancelled.
\* The cancelled task's own report is refused, its attempt being finished.
KillTask(j) ==
    /\ phase = "killing"
    /\ pc[j] # "none"
    /\ CompleteAttempt(j, held[j], "lost")
    /\ EndTask(j)

Halt ==
    /\ phase = "killing"
    /\ \A j \in Jobs : pc[j] = "none"
    /\ phase' = "down"
    /\ UNCHANGED <<store, pc, held, outcome, starts, faults>>

\* The process dies: what it had in memory is gone, the store stays.
Crash ==
    /\ MayStop
    /\ phase # "down"
    /\ phase' = "down"
    /\ pc' = [j \in Jobs |-> "none"]
    /\ held' = [j \in Jobs |-> 0]
    /\ outcome' = [j \in Jobs |-> "none"]
    /\ UNCHANGED <<store, starts, faults>>

-----------------------------------------------------------------------------
TaskStep(j) == Dispatch(j) \/ HandlerReturns(j) \/ Settle(j) \/ KillTask(j)

Observe(j) == ObserveShutdown(j) \/ ObserveCancel(j)

Fault(j) == FaultIsClassified(j) \/ FaultEscapes(j) \/ FaultInHeartbeat(j)

ClientCall(j) == Submit(j) \/ Cancel(j) \/ \E new \in Jobs : Retry(j, new)

ShutdownStep == GraceOver \/ StopWaiting \/ Halt

Process == Start \/ BeginShutdown \/ ShutdownStep \/ Crash

Next ==
    \/ \E j \in Jobs : TaskStep(j) \/ Observe(j) \/ Fault(j) \/ ClientCall(j)
    \/ Process

Spec == Init /\ [][Next]_vars

\* The event loop runs every ready task, handlers return, a shutdown proceeds, and the
\* process is started again.  Nothing is owed by clients, crashes and faults.
FairSpec ==
    /\ Spec
    /\ \A j \in Jobs : WF_vars(TaskStep(j))
    /\ WF_vars(ShutdownStep)
    /\ WF_vars(Start)

-----------------------------------------------------------------------------
(* Properties. *)

TypeOK ==
    /\ StoreTypeOK
    /\ phase \in Phases
    /\ pc \in [Jobs -> PCs]
    /\ held \in [Jobs -> 0 .. MaxAttempts]
    /\ outcome \in [Jobs -> Outcomes]
    /\ starts \in 0 .. MaxStarts
    /\ faults \in 0 .. MaxFaults

\* At most one attempt of a job is alive, and it is the current one: every earlier attempt
\* has a final status, no later one exists.  This is what recovery, retry and shutdown
\* together have to keep while tasks come and go.
OneLiveAttempt ==
    \A j \in Jobs, n \in AttemptNumbers :
        /\ n < current[j] => attempt[j][n] \in FinishedAttempts
        /\ n > current[j] => attempt[j][n] = Absent

\* What each job status says about the current attempt.  Job and attempt have separate
\* state machines; a user sees the job, a worker's late write is judged by the attempt.
AttemptFits(s, a) ==
    CASE s = Absent -> a = Absent
      [] s \in {"queued", "dispatching"} -> a = "created"
      [] s = "dispatched" -> a \in LiveAttempts
      [] s = "running" -> a = "running"
      [] s = "retry_wait" -> a \in {"failed_retryable", "lost"}
      [] s = "cancelling" -> a \in LiveAttempts \cup {"failed_retryable", "lost"}
      [] s = "completed" -> a = "succeeded"
      [] s = "failed" -> a = "failed_terminal"
      [] s = "cancelled" -> a \in {"cancelled", "superseded", "lost", "failed_retryable"}
      [] s = "dead" -> a \in {"superseded", "lost", "failed_retryable"}
      [] OTHER -> FALSE

CurrentAttempt(j) == IF current[j] = 0 THEN Absent ELSE attempt[j][current[j]]

StatusMatchesAttempt == \A j \in Jobs : AttemptFits(status[j], CurrentAttempt(j))

\* A running process forgets no job: while it serves requests and the store has not failed
\* it, every job that is not terminal has a task that will see to it.  Violated by any path
\* of retry, recovery or shutdown that leaves a job queued or waiting with nobody to run it.
NoStrandedJob ==
    phase = "up" /\ faults = 0 => \A j \in Jobs : Open(j) => pc[j] # "none"

\* A job is reported cancelled only when somebody asked for it: neither a shutdown nor a
\* recovery may pass for a cancellation (a store fault in the heartbeat does: see README).
CancelledOnlyOnRequest ==
    faults = 0 => \A j \in Jobs : status[j] = "cancelled" => cancelRequested[j]

\* A dispatch record still pending belongs to the current attempt of its job; the one of a
\* job that runs has been consumed.  Otherwise a dispatcher could publish an old attempt.
OutboxFollowsAttempt ==
    faults = 0 =>
        \A j \in Jobs, n \in AttemptNumbers :
            outbox[j][n] = "pending" =>
                n = current[j] /\ status[j] \notin {"dispatched", "running", "completed", "failed"}

\* A verdict is final: once a job is terminal neither its status nor any of its attempts
\* changes, whichever task, shutdown or recovery comes late.
VerdictIsFinal ==
    [][\A j \in Jobs : status[j] \in TerminalJobs =>
            /\ status'[j] = status[j]
            /\ current'[j] = current[j]
            /\ attempt'[j] = attempt[j]]_vars

\* A cancellation accepted before the result wins over it: the attempt that was running when
\* the job went to cancelling never completes the job.
CancelBeatsSuccess ==
    [][\A j \in Jobs : status[j] = "cancelling" => status'[j] # "completed"]_vars

\* Every accepted job reaches a verdict, through retries, restarts and shutdowns, as long
\* as the store does not fail.
EveryJobSettles ==
    \A j \in Jobs : status[j] = "queued" ~> status[j] \in TerminalJobs \/ faults > 0

\* How far the current attempt of a job has come: made, in a worker's hands, or over.
Turn(j) ==
    CASE CurrentAttempt(j) = "created" -> "fresh"
      [] CurrentAttempt(j) \in LiveAttempts \ {"created"} -> "taken"
      [] OTHER -> "spent"

Verdict(j) ==
    CASE status[j] = Absent -> "none"
      [] status[j] \in OpenJobs -> "open"
      [] OTHER -> status[j]

Contract == INSTANCE JobContract WITH
    tries <- current,
    turn <- [j \in Jobs |-> Turn(j)],
    verdict <- [j \in Jobs |-> Verdict(j)]

\* The backend keeps the contract of JobContract in spite of crashes, shutdowns and store
\* faults: bounded tries, each handed to a worker at most once, one verdict.
KeepsContract == Contract!Spec

-----------------------------------------------------------------------------
(* The inductive invariant behind the safety properties.  It adds to them what the program  *)
(* counter of a task says about the durable state of its job.                               *)

\* What the task of a job may rely on at each point of its program.
TaskFits(l, s, a) ==
    CASE l = "none" -> TRUE
      [] l = "waiting" -> s \in {"queued", "cancelling"} /\ a = "created"
      [] l \in {"consume", "dispatch"} -> s = "dispatching" /\ a = "created"
      [] l = "announce" -> s = "dispatched" /\ a = "created"
      [] l = "claim" -> s = "dispatched" /\ a = "dispatched"
      [] l = "begin" -> s = "dispatched" /\ a = "claimed"
      [] l = "run" -> s = "dispatched" /\ a = "running"
      [] l = "unhandled" -> s = "running" /\ a = "running"
      [] l \in {"running", "returning"} -> s \in {"running", "cancelling"} /\ a = "running"
      [] l = "failing" -> s # "retry_wait" /\ a \in LiveAttempts
      [] l = "retry" -> s = "retry_wait" /\ a = "failed_retryable"
      [] OTHER -> FALSE

\* Where the process is in its life says which tasks there may be, and that while it serves
\* requests and the store has not failed every open job has one.
ProcessFits(j) ==
    /\ phase = "down" => pc[j] = "none"
    /\ phase = "killing" => pc[j] \notin SyncPC
    /\ phase \in {"up", "draining"} => outcome[j] # "shutdown"
    /\ pc[j] = "failing" => faults > 0 /\ outcome[j] \in {"retryable", "terminal"}
    /\ phase = "up" /\ faults = 0 /\ Open(j) => pc[j] # "none"

\* What holds of each job: its attempts, its status, its task and the process fit together.
JobInv(j) ==
    /\ status[j] = Absent => current[j] = 0
    /\ \A n \in AttemptNumbers :
           /\ n < current[j] => attempt[j][n] \in FinishedAttempts
           /\ n > current[j] => attempt[j][n] = Absent
    /\ AttemptFits(status[j], CurrentAttempt(j))
    /\ TaskFits(pc[j], status[j], CurrentAttempt(j))
    /\ pc[j] # "none" => current[j] > 0 /\ held[j] = current[j]
    /\ ProcessFits(j)

\* The inductive invariant: the types, and JobInv of every job.  It says of every point of
\* _execute what a crash, a shutdown or a fault there finds in the store.
IInv == TypeOK /\ \A j \in Jobs : JobInv(j)
=============================================================================
