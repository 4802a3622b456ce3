---------------------------- MODULE ResearchRuns ----------------------------
(***************************************************************************)
(* Research runs and the coordinators that execute them                    *)
(* (backend/app/persistence/research_run_store.py and                      *)
(* backend/app/services/research_run_coordinator.py).                      *)
(*                                                                         *)
(* Several processes share one SQLite file; in each, a coordinator polls   *)
(* for runs, takes a lease and executes the run's graph in an asyncio task.*)
(* Every transaction is a step: the coordinator reads a run's status in    *)
(* one and writes it, by compare-and-set, in the next, and another process *)
(* may come in between.                                                    *)
(*                                                                         *)
(* task[c][r].pc is the next thing coordinator c does for run r:           *)
(*   none         no task                                                  *)
(*   starting     read the run                                             *)
(*   loading      look for the run's checkpoint                            *)
(*   running      the next node of the graph                               *)
(*   publish, finalize, dismiss, fail, interrupt, abandon                  *)
(*                a status to write: read the present one, then write      *)
(*   releasing    give the lease back                                      *)
(* What the graph computes is left to module ResearchGraph: here it makes  *)
(* up to Nodes checkpoints, and ends or raises when it likes.              *)
(***************************************************************************)
EXTENDS Naturals, FiniteSets

CONSTANTS Coordinators, Runs,
          MaxConcurrentRuns,  \* runs a coordinator executes at a time
          Nodes,              \* bound: checkpoints of one run
          MaxFaults,          \* bound: stops, deaths and failed renewals
          MaxStalls           \* bound: leases that run out under their task

ASSUME RunsAssumption ==
    /\ IsFiniteSet(Coordinators)
    /\ MaxConcurrentRuns \in Nat \ {0}
    /\ Nodes \in Nat \ {0}
    /\ MaxFaults \in Nat
    /\ MaxStalls \in Nat

VARIABLES status, cancelRequested,  \* research_runs
          lease,                    \* research_run_leases
          thread,                   \* the last checkpoint of the run's thread
          task, scan, mode,         \* of each coordinator
          faults, stalls

rows == <<status, cancelRequested>>
counts == <<faults, stalls>>
vars == <<rows, lease, thread, task, scan, mode, counts>>

Terminal == {"completed", "partial", "failed", "cancelled"}
\* The eleven phases from routing to finalizing are one; paused is never written.
Statuses == Terminal \cup {"absent", "queued", "running", "interrupted", "cancelling"}
Decided(r) == status[r] \in Terminal

Unread == "unread"
Writing == {"publish", "finalize", "dismiss", "fail", "interrupt", "abandon"}
PCs == Writing \cup {"none", "starting", "loading", "running", "releasing"}
Results == {"none", "completed", "partial", "cancelled"}

\* A token is drawn anew for each lease: it differs from all that are still held.
Tokens == 1..(Cardinality(Coordinators) + 1)
NoLease == [owner |-> "nobody", token |-> 0, live |-> FALSE]
NoCheckpoint == [saved |-> 0, result |-> "none"]
NoTask == [pc |-> "none", token |-> 0, seen |-> Unread, saved |-> 0, result |-> "none"]

HasTask(c, r) == task[c][r].pc # "none"
Busy(c) == {r \in Runs : HasTask(c, r)}
\* A coroutine gives way only here; a read and the write after it stay together in a process.
Suspended(c) == \A r \in Runs : task[c][r].pc \notin Writing
Goes(c, r, pc) == task' = [task EXCEPT ![c][r].pc = pc, ![c][r].seen = Unread]

Init ==
    /\ status = [r \in Runs |-> "absent"]
    /\ cancelRequested = [r \in Runs |-> FALSE]
    /\ lease = [r \in Runs |-> NoLease]
    /\ thread = [r \in Runs |-> NoCheckpoint]
    /\ task = [c \in Coordinators |-> [r \in Runs |-> NoTask]]
    /\ scan = [c \in Coordinators |-> {}]
    /\ mode = [c \in Coordinators |-> "up"]
    /\ faults = 0
    /\ stalls = 0

----------------------------------------------------------------------------
\* The clients, through any process.

CreateRun(r) ==
    /\ status[r] = "absent"
    /\ status' = [status EXCEPT ![r] = "queued"]
    /\ UNCHANGED <<cancelRequested, lease, thread, task, scan, mode, counts>>

RequestCancel(r) ==
    /\ status[r] # "absent"
    /\ ~Decided(r)
    /\ status' = [status EXCEPT ![r] = "cancelling"]
    /\ cancelRequested' = [cancelRequested EXCEPT ![r] = TRUE]
    /\ UNCHANGED <<lease, thread, task, scan, mode, counts>>

----------------------------------------------------------------------------
\* Leases.

\* Mutant: a lease is taken although another owner's has not run out.
AcquirableAlways(c, r) == c \in Coordinators /\ r \in Runs

Acquirable(c, r) == lease[r].live => lease[r].owner = c

FreshToken(r) ==
    CHOOSE t \in Tokens : t # lease[r].token /\ \A c \in Coordinators : t # task[c][r].token

\* acquire_lease, and the task that is created right after it.
Begin(c, r) ==
    /\ Acquirable(c, r)
    /\ LET t == FreshToken(r)
       IN  /\ lease' = [lease EXCEPT ![r] = [owner |-> c, token |-> t, live |-> TRUE]]
           /\ task' = [task EXCEPT ![c][r] = [NoTask EXCEPT !.pc = "starting", !.token = t]]

HoldsLease(c, r) == lease[r].token = task[c][r].token

\* The heartbeat of the task renews the lease, also one that has run out.
Renew(c, r) ==
    /\ HasTask(c, r) /\ HoldsLease(c, r)
    /\ ~lease[r].live
    /\ lease' = [lease EXCEPT ![r].live = TRUE]
    /\ UNCHANGED <<rows, thread, task, scan, mode, counts>>

Held(r) == \E c \in Coordinators : HasTask(c, r) /\ HoldsLease(c, r)

\* Mutant: the heartbeat sleeps longer than the lease lasts.
ExpireUnrenewed(r) ==
    /\ lease[r].live
    /\ lease' = [lease EXCEPT ![r].live = FALSE]
    /\ UNCHANGED <<rows, thread, task, scan, mode, counts>>

\* The lease of a task that is gone runs out.
Expire(r) ==
    /\ lease[r].live /\ ~Held(r)
    /\ lease' = [lease EXCEPT ![r].live = FALSE]
    /\ UNCHANGED <<rows, thread, task, scan, mode, counts>>

\* The lease of a task runs out because its process stands still.
Stall(r) ==
    /\ lease[r].live /\ Held(r)
    /\ stalls < MaxStalls
    /\ stalls' = stalls + 1
    /\ lease' = [lease EXCEPT ![r].live = FALSE]
    /\ UNCHANGED <<rows, thread, task, scan, mode, faults>>

\* renew_lease found another's lease, or none: the heartbeat raises and the task is cancelled.
LoseLease(c, r) ==
    /\ Suspended(c)
    /\ task[c][r].pc \in {"loading", "running"}
    /\ ~HoldsLease(c, r)
    /\ Goes(c, r, IF mode[c] = "up" THEN "interrupt" ELSE "releasing")
    /\ UNCHANGED <<rows, lease, thread, scan, mode, counts>>

\* renew_lease raises a sqlite3 error: the same, but release_lease is not reached.
FailHeartbeat(c, r) ==
    /\ Suspended(c)
    /\ task[c][r].pc \in {"loading", "running"}
    /\ faults < MaxFaults
    /\ faults' = faults + 1
    /\ IF mode[c] = "up"
       THEN Goes(c, r, "abandon")
       ELSE task' = [task EXCEPT ![c][r] = NoTask]
    /\ UNCHANGED <<rows, lease, thread, scan, mode, stalls>>

Release(c, r) ==
    /\ Suspended(c) /\ task[c][r].pc = "releasing"
    /\ lease' = IF HoldsLease(c, r) THEN [lease EXCEPT ![r] = NoLease] ELSE lease
    /\ task' = [task EXCEPT ![c][r] = NoTask]
    /\ UNCHANGED <<rows, thread, scan, mode, counts>>

----------------------------------------------------------------------------
\* The polling loop, and a client's resume.

\* Mutant: an interrupted run waits for a client to resume it.
ClaimableUnlessInterrupted(r) ==
    /\ status[r] \notin {"absent", "interrupted"} /\ ~Decided(r)
    /\ status[r] = "queued" \/ ~lease[r].live

Claimable(r) ==
    /\ status[r] # "absent" /\ ~Decided(r)
    /\ status[r] = "queued" \/ ~lease[r].live

ListClaimable(c) ==
    /\ mode[c] = "up" /\ Suspended(c)
    /\ scan[c] = {}
    /\ {r \in Runs : Claimable(r)} # {}
    /\ scan' = [scan EXCEPT ![c] = {r \in Runs : Claimable(r)}]
    /\ UNCHANGED <<rows, lease, thread, task, mode, counts>>

MayTake(c, r) ==
    /\ ~HasTask(c, r)
    /\ Cardinality(Busy(c)) < MaxConcurrentRuns
    /\ Acquirable(c, r)

ClaimRun(c, r) ==
    /\ mode[c] = "up" /\ Suspended(c)
    /\ r \in scan[c]
    /\ scan' = [scan EXCEPT ![c] = @ \ {r}]
    /\ IF MayTake(c, r) THEN Begin(c, r) ELSE UNCHANGED <<lease, task>>
    /\ UNCHANGED <<rows, thread, mode, counts>>

Resume(c, r) ==
    /\ mode[c] = "up" /\ Suspended(c)
    /\ thread[r] # NoCheckpoint
    /\ ~HasTask(c, r)
    /\ status[r] = "interrupted"
    /\ Begin(c, r)
    /\ UNCHANGED <<rows, thread, scan, mode, counts>>

\* The lease is taken before the status is looked at, and given back after.
RefuseResume(c, r) ==
    /\ mode[c] = "up" /\ Suspended(c)
    /\ thread[r] # NoCheckpoint
    /\ ~HasTask(c, r)
    /\ status[r] # "interrupted"
    /\ lease[r] # NoLease /\ Acquirable(c, r)
    /\ lease' = [lease EXCEPT ![r] = NoLease]
    /\ UNCHANGED <<rows, thread, task, scan, mode, counts>>

----------------------------------------------------------------------------
\* A task.

Open(c, r) ==
    /\ Suspended(c) /\ task[c][r].pc = "starting"
    /\ LET next == IF status[r] = "cancelling" \/ cancelRequested[r] THEN "dismiss" ELSE "loading"
       IN  task' = [task EXCEPT ![c][r].pc = next, ![c][r].seen = status[r]]
    /\ UNCHANGED <<rows, lease, thread, scan, mode, counts>>

\* Mutant: only an interrupted run is continued from its checkpoint.
FreshUnlessInterrupted(c, r) == task[c][r].seen # "interrupted"

Fresh(c, r) == thread[r] = NoCheckpoint

\* Continue from the checkpoint or start with the initial state, which is one too.
Load(c, r) ==
    /\ Suspended(c) /\ task[c][r].pc = "loading"
    /\ task[c][r].seen = "interrupted" => thread[r] # NoCheckpoint
    /\ LET from == IF Fresh(c, r) THEN [saved |-> 1, result |-> "none"] ELSE thread[r]
       IN  /\ thread' = [thread EXCEPT ![r] = from]
           /\ task' = [task EXCEPT ![c][r] =
                 [@ EXCEPT !.pc = IF from.result = "none" THEN "publish" ELSE "finalize",
                           !.seen = Unread, !.saved = from.saved, !.result = from.result]]
    /\ UNCHANGED <<rows, lease, scan, mode, counts>>

MissCheckpoint(c, r) ==
    /\ Suspended(c) /\ task[c][r].pc = "loading"
    /\ task[c][r].seen = "interrupted" /\ thread[r] = NoCheckpoint
    /\ Goes(c, r, "fail")
    /\ UNCHANGED <<rows, lease, thread, scan, mode, counts>>

\* A node ends; its checkpoint is written, then its state is handed to the task.
RunNode(c, r) ==
    /\ Suspended(c) /\ task[c][r].pc = "running"
    /\ task[c][r].saved < Nodes
    /\ thread' = [thread EXCEPT ![r] = [saved |-> task[c][r].saved + 1, result |-> "none"]]
    /\ task' = [task EXCEPT ![c][r].pc = "publish", ![c][r].saved = @ + 1]
    /\ UNCHANGED <<rows, lease, scan, mode, counts>>

\* The last node: cancelled only if a node has read the flag.
EndGraph(c, r) ==
    /\ Suspended(c) /\ task[c][r].pc = "running"
    /\ \E result \in Results \ {"none"} :
          /\ result = "cancelled" => cancelRequested[r]
          /\ thread' = [thread EXCEPT ![r] = [saved |-> task[c][r].saved, result |-> result]]
          /\ task' = [task EXCEPT ![c][r].pc = "finalize", ![c][r].result = result]
    /\ UNCHANGED <<rows, lease, scan, mode, counts>>

GraphRaises(c, r) ==
    /\ Suspended(c) /\ task[c][r].pc = "running"
    /\ Goes(c, r, "fail")
    /\ UNCHANGED <<rows, lease, thread, scan, mode, counts>>

----------------------------------------------------------------------------
\* Writing a status.

ReadStatus(c, r) ==
    /\ task[c][r].pc \in Writing
    /\ task[c][r].seen = Unread
    /\ task' = [task EXCEPT ![c][r].seen = status[r]]
    /\ UNCHANGED <<rows, lease, thread, scan, mode, counts>>

\* Mutant: a cancellation that came after the last node is not looked for.
TargetOfGraph(c, r) ==
    LET me == task[c][r]
    IN  CASE me.pc = "publish"  -> IF me.saved = 1 THEN "queued" ELSE "running"
          [] me.pc = "finalize" -> me.result
          [] me.pc = "dismiss"  -> "cancelled"
          [] me.pc = "fail"     -> "failed"
          [] OTHER              -> "interrupted"

Target(c, r) ==
    LET me == task[c][r]
    IN  CASE me.pc = "publish"  -> IF me.saved = 1 THEN "queued" ELSE "running"
          [] me.pc = "finalize" -> IF me.seen = "cancelling" THEN "cancelled" ELSE me.result
          [] me.pc = "dismiss"  -> "cancelled"
          [] me.pc = "fail"     -> "failed"
          [] OTHER              -> "interrupted"

\* Mutant: the update names no state it may start from.
UpdatesBlindly(c, r) == task[c][r].pc = "publish" => status[r] # "cancelling"

\* The update finds the status it expects; _publish_state leaves cancelling alone.
Updates(c, r) ==
    /\ task[c][r].seen \notin Terminal
    /\ status[r] = task[c][r].seen
    /\ task[c][r].pc = "publish" => status[r] # "cancelling"

\* Where the task goes when update_status has returned, or raised.
Then(c, r) ==
    LET me == task[c][r]
    IN  CASE me.pc = "publish" -> "running"
          [] me.pc = "abandon" -> "none"
          [] me.pc \in {"fail", "interrupt"} -> "releasing"
          [] OTHER -> IF Updates(c, r) \/ status[r] = Target(c, r) THEN "releasing" ELSE "fail"

WriteStatus(c, r) ==
    /\ task[c][r].pc \in Writing
    /\ task[c][r].seen # Unread
    /\ status' = IF Updates(c, r) THEN [status EXCEPT ![r] = Target(c, r)] ELSE status
    /\ IF Then(c, r) = "none"
       THEN task' = [task EXCEPT ![c][r] = NoTask]
       ELSE Goes(c, r, Then(c, r))
    /\ UNCHANGED <<cancelRequested, lease, thread, scan, mode, counts>>

----------------------------------------------------------------------------
\* The life of a process.  A new one has a new owner name.

Disown(c) == [r \in Runs |-> IF lease[r].owner = c THEN [lease[r] EXCEPT !.owner = "gone"]
                                                   ELSE lease[r]]

\* stop(): the loop ends, tasks may finish.
BeginStop(c) ==
    /\ mode[c] = "up" /\ Suspended(c)
    /\ faults < MaxFaults
    /\ faults' = faults + 1
    /\ mode' = [mode EXCEPT ![c] = "stopping"]
    /\ scan' = [scan EXCEPT ![c] = {}]
    /\ UNCHANGED <<rows, lease, thread, task, stalls>>

\* A task that has not come to its try block does not release its lease.
Cut(pc) == IF pc = "starting" THEN "abandon" ELSE "interrupt"

\* The grace period is over: stop() cancels the tasks and writes interrupted for each.
CancelTasks(c) ==
    /\ mode[c] = "stopping" /\ Suspended(c)
    /\ Busy(c) # {}
    /\ mode' = [mode EXCEPT ![c] = "closing"]
    /\ task' = [task EXCEPT ![c] = [r \in Runs |->
                  IF HasTask(c, r)
                  THEN [task[c][r] EXCEPT !.pc = Cut(task[c][r].pc), !.seen = Unread]
                  ELSE NoTask]]
    /\ UNCHANGED <<rows, lease, thread, scan, counts>>

Exit(c) ==
    /\ mode[c] \in {"stopping", "closing"}
    /\ Busy(c) = {}
    /\ mode' = [mode EXCEPT ![c] = "down"]
    /\ lease' = Disown(c)
    /\ UNCHANGED <<rows, thread, task, scan, counts>>

Crash(c) ==
    /\ mode[c] # "down"
    /\ faults < MaxFaults
    /\ faults' = faults + 1
    /\ mode' = [mode EXCEPT ![c] = "down"]
    /\ lease' = Disown(c)
    /\ scan' = [scan EXCEPT ![c] = {}]
    /\ task' = [task EXCEPT ![c] = [r \in Runs |-> NoTask]]
    /\ UNCHANGED <<rows, thread, stalls>>

Start(c) ==
    /\ mode[c] = "down"
    /\ mode' = [mode EXCEPT ![c] = "up"]
    /\ UNCHANGED <<rows, lease, thread, task, scan, counts>>

----------------------------------------------------------------------------
TaskStep(c, r) ==
    \/ Open(c, r) \/ Load(c, r) \/ MissCheckpoint(c, r)
    \/ RunNode(c, r) \/ EndGraph(c, r) \/ GraphRaises(c, r)
    \/ ReadStatus(c, r) \/ WriteStatus(c, r) \/ Release(c, r)

Next ==
    \/ \E r \in Runs : CreateRun(r) \/ RequestCancel(r) \/ Expire(r) \/ Stall(r)
    \/ \E c \in Coordinators, r \in Runs :
          \/ Renew(c, r) \/ LoseLease(c, r) \/ FailHeartbeat(c, r)
          \/ ClaimRun(c, r) \/ Resume(c, r) \/ RefuseResume(c, r)
          \/ TaskStep(c, r)
    \/ \E c \in Coordinators :
          \/ ListClaimable(c)
          \/ BeginStop(c) \/ CancelTasks(c) \/ Exit(c) \/ Crash(c) \/ Start(c)

Spec == Init /\ [][Next]_vars

\* The event loop goes on, leases of the dead run out, a process is started again.
FairSpec ==
    /\ Spec
    /\ \A r \in Runs : WF_vars(Expire(r))
    /\ \A c \in Coordinators, r \in Runs :
          WF_vars(TaskStep(c, r)) /\ WF_vars(Renew(c, r)) /\ WF_vars(ClaimRun(c, r))
    /\ \A c \in Coordinators :
          WF_vars(ListClaimable(c)) /\ WF_vars(CancelTasks(c)) /\ WF_vars(Exit(c)) /\ WF_vars(Start(c))

----------------------------------------------------------------------------
TaskType == [pc : PCs, token : Tokens \cup {0}, seen : Statuses \cup {Unread},
             saved : 0..Nodes, result : Results]

\* The columns keep to their types, and a task's parts fit together.
TypeOK ==
    /\ status \in [Runs -> Statuses]
    /\ cancelRequested \in [Runs -> BOOLEAN]
    /\ lease \in [Runs -> [owner : Coordinators \cup {"nobody", "gone"},
                           token : Tokens \cup {0}, live : BOOLEAN]]
    /\ thread \in [Runs -> [saved : 0..Nodes, result : Results]]
    /\ task \in [Coordinators -> [Runs -> TaskType]]
    /\ scan \in [Coordinators -> SUBSET Runs]
    /\ mode \in [Coordinators -> {"up", "stopping", "closing", "down"}]
    /\ faults \in 0..MaxFaults
    /\ stalls \in 0..MaxStalls
    /\ \A c \in Coordinators : mode[c] # "up" => scan[c] = {}

----------------------------------------------------------------------------
\* One process executes a run at a time, as long as no process stands still past its lease.
OneExecutor ==
    stalls = 0 =>
        \A r \in Runs, c, d \in Coordinators : HasTask(c, r) /\ HasTask(d, r) => c = d

\* A verdict is final, whoever still has something to write (update_status, request_cancel).
VerdictIsFinal == [][\A r \in Runs : Decided(r) => status'[r] = status[r]]_vars

Answers(r) == status'[r] # status[r] /\ status'[r] \in {"completed", "partial"}

\* A run whose cancellation was accepted does not end with an answer, as long as no
\* process stands still past its lease.
CancelNeverAnswers ==
    [][stalls = 0 => \A r \in Runs : cancelRequested[r] => ~Answers(r)]_vars

\* A run is continued from its last checkpoint, never replayed from the start, as long
\* as no process stands still past its lease.
NeverReplayed == [][stalls = 0 => \A r \in Runs : thread'[r].saved >= thread[r].saved]_vars

\* Every run ends, if processes that stop are started again.
EveryRunEnds == \A r \in Runs : status[r] = "queued" ~> Decided(r)

\* What a task and its run's lease say of each other: a task that is over keeps no token,
\* and until a process stands still past its lease, a task holds the lease of its run.
\* A task that finalizes has the graph's result.
TasksFit ==
    \A c \in Coordinators, r \in Runs :
        LET me == task[c][r]
        IN  /\ ~HasTask(c, r) => me.token = 0
            /\ me.pc = "finalize" => me.result # "none"
            /\ stalls = 0 /\ HasTask(c, r) =>
                  lease[r] = [owner |-> c, token |-> me.token, live |-> TRUE]

\* The inductive invariant: the types, and tasks that fit the leases.
IInv == TypeOK /\ TasksFit
=============================================================================
