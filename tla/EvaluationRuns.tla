--------------------------- MODULE EvaluationRuns ---------------------------
(***************************************************************************)
(* Evaluation runs: the store's rows and leases, the coordinators that     *)
(* claim runs, and EvaluationService.process_run, which executes the cases *)
(* of a run and closes it (backend/app/persistence/evaluation_store.py,    *)
(* services/evaluation_run_coordinator.py, evaluation/evaluation_service.py).*)
(*                                                                         *)
(* update_run is two transactions.  The first reads the row and checks the *)
(* transition; the second writes the whole row, unless it is terminal by   *)
(* then.  Nothing compares the row with what was read, so a write may put  *)
(* an older copy back.  Clients cancel from API threads, and coordinators  *)
(* of other processes share the file: they all meet between the two.       *)
(*                                                                         *)
(* Runs are the attempts of one fingerprint: a run's id is a hash of the   *)
(* fingerprint, the attempt and the run it retries.  A coordinator has its *)
(* default of one run at a time.                                           *)
(***************************************************************************)
EXTENDS Naturals, FiniteSets

CONSTANTS Coordinators, Cases,
          Attempts,         \* bound: attempts of the fingerprint
          CaseConcurrency,  \* plan.case_concurrency
          MaxEvents         \* bound: retries, stalls, stops, deaths and sqlite errors, together

ASSUME EvaluationAssumption ==
    /\ IsFiniteSet(Coordinators) /\ IsFiniteSet(Cases) /\ Cases # {}
    /\ Attempts \in Nat \ {0}
    /\ CaseConcurrency \in Nat \ {0}
    /\ MaxEvents \in Nat

VARIABLES row,      \* evaluation_runs
          lease,    \* evaluation_run_leases
          results,  \* evaluation_case_results: an outcome, or none
          metrics,  \* evaluation_metric_results: the results they were computed from
          task,     \* of each coordinator
          strays,   \* cases that go on after their task, of each coordinator
          up,       \* the processes that are running
          client,   \* the request_cancel of each run
          events    \* so far: stalls, and the others

store == <<row, lease, results, metrics>>
vars == <<store, task, strays, up, client, events>>

Runs == 1..Attempts
Terminal == {"completed", "partial", "failed", "cancelled"}
Claimable == {"queued", "preparing", "running", "aggregating"}
Statuses == Claimable \cup Terminal \cup {"absent"}
Outcomes == {"passed", "failed", "error"}
Judged == {"passed", "failed"}

\* comparing is never written.
Follows(s) ==
    CASE s = "queued"      -> {"preparing", "failed", "cancelled"}
      [] s = "preparing"   -> {"running", "failed", "cancelled"}
      [] s = "running"     -> {"aggregating", "failed", "cancelled"}
      [] s = "aggregating" -> Terminal
      [] OTHER             -> {}

NoRow == [status |-> "absent", cancel |-> FALSE]
NoLease == [owner |-> "nobody", token |-> 0, live |-> FALSE]
NoResults == [k \in Cases |-> "none"]
NoTask == [pc |-> "none", run |-> 0, token |-> 0, beats |-> FALSE, copy |-> NoRow, goal |-> "absent",
           known |-> NoResults, waiting |-> {}, busy |-> {}]
NoRequest == [pc |-> "idle", copy |-> NoRow]

Init ==
    /\ row = [r \in Runs |-> NoRow]
    /\ lease = [r \in Runs |-> NoLease]
    /\ results = [r \in Runs |-> NoResults]
    /\ metrics = [r \in Runs |-> NoResults]
    /\ task = [c \in Coordinators |-> NoTask]
    /\ strays = [c \in Coordinators |-> {}]
    /\ up = [c \in Coordinators |-> TRUE]
    /\ client = [r \in Runs |-> NoRequest]
    /\ events = [stalls |-> 0, others |-> 0]

Decided(r) == row[r].status \in Terminal
Spend(kind) ==
    /\ events.stalls + events.others < MaxEvents
    /\ events' = [events EXCEPT ![kind] = @ + 1]

----------------------------------------------------------------------------
\* The clients: prepare_run and request_cancel.

\* A first attempt is made once: later requests find it, or collide with its id.
PrepareRun ==
    /\ row[1] = NoRow
    /\ row' = [row EXCEPT ![1].status = "queued"]
    /\ UNCHANGED <<lease, results, metrics, task, strays, up, client, events>>

\* Mutant: any run may be retried.
RetryAnything(r) ==
    /\ r > 1 /\ row[r] = NoRow /\ row[r - 1] # NoRow
    /\ row' = [row EXCEPT ![r].status = "queued"]
    /\ Spend("others")
    /\ UNCHANGED <<lease, results, metrics, task, strays, up, client>>

Retry(r) ==
    /\ r > 1 /\ row[r] = NoRow
    /\ row[r - 1].status \in {"failed", "cancelled", "partial"}
    /\ row' = [row EXCEPT ![r].status = "queued"]
    /\ Spend("others")
    /\ UNCHANGED <<lease, results, metrics, task, strays, up, client>>

\* What update_run's first transaction lets pass, from the row to the copy it was given.
Passes(r, goal) ==
    /\ ~Decided(r)
    /\ goal # row[r].status => goal \in Follows(row[r].status)

ReadToCancel(r) ==
    /\ client[r].pc = "idle"
    /\ row[r] # NoRow /\ ~Decided(r)
    /\ client' = [client EXCEPT ![r] = [pc |-> "check", copy |-> [row[r] EXCEPT !.cancel = TRUE]]]
    /\ UNCHANGED <<store, task, strays, up, events>>

CheckCancel(r) ==
    /\ client[r].pc = "check"
    /\ client' = [client EXCEPT ![r] =
                    IF Passes(r, client[r].copy.status) THEN [@ EXCEPT !.pc = "write"] ELSE NoRequest]
    /\ UNCHANGED <<store, task, strays, up, events>>

WriteCancel(r) ==
    /\ client[r].pc = "write"
    /\ IF Decided(r)
       THEN UNCHANGED row /\ client' = [client EXCEPT ![r] = NoRequest]
       ELSE row' = [row EXCEPT ![r] = client[r].copy]
            /\ client' = [client EXCEPT ![r].pc = "accepted"]
    /\ UNCHANGED <<lease, results, metrics, task, strays, up, events>>

----------------------------------------------------------------------------
\* Leases.

Active(c) == task[c].pc # "none"
HoldsLease(c) == lease[task[c].run].token = task[c].token
Held(r) == \E c \in Coordinators : Active(c) /\ task[c].run = r /\ task[c].beats /\ HoldsLease(c)

FreshToken(r) ==
    CHOOSE t \in 1..(Cardinality(Coordinators) + 1) :
        t # lease[r].token /\ \A c \in Coordinators : t # task[c].token

\* Mutant: a lease is no obstacle.
FreeAlways(r) == r \in Runs

Free(r) == ~lease[r].live

\* list_claimable_runs and acquire_lease; the task is made right after.
Claim(c, r) ==
    /\ up[c] /\ ~Active(c)
    /\ row[r].status \in Claimable
    /\ Free(r)
    /\ LET t == FreshToken(r)
       IN  /\ lease' = [lease EXCEPT ![r] = [owner |-> c, token |-> t, live |-> TRUE]]
           /\ task' = [task EXCEPT ![c] = [NoTask EXCEPT !.pc = "open", !.run = r, !.token = t, !.beats = TRUE]]
    /\ UNCHANGED <<row, results, metrics, strays, up, client, events>>

\* renew_lease asks for the owner and the token, not for the time.
Renew(c) ==
    /\ Active(c) /\ task[c].beats
    /\ IF HoldsLease(c)
       THEN /\ ~lease[task[c].run].live
            /\ lease' = [lease EXCEPT ![task[c].run].live = TRUE]
            /\ UNCHANGED task
       ELSE /\ task' = [task EXCEPT ![c].beats = FALSE]
            /\ UNCHANGED lease
    /\ UNCHANGED <<row, results, metrics, strays, up, client, events>>

\* renew_lease raises: the heartbeat is over and process_run does not hear of it.
LoseHeartbeat(c) ==
    /\ Active(c) /\ task[c].beats
    /\ Spend("others")
    /\ task' = [task EXCEPT ![c].beats = FALSE]
    /\ UNCHANGED <<store, strays, up, client>>

Expire(r) ==
    /\ lease[r].live /\ ~Held(r)
    /\ lease' = [lease EXCEPT ![r].live = FALSE]
    /\ UNCHANGED <<row, results, metrics, task, strays, up, client, events>>

\* A process stands still past its lease.
Stall(r) ==
    /\ lease[r].live /\ Held(r)
    /\ Spend("stalls")
    /\ lease' = [lease EXCEPT ![r].live = FALSE]
    /\ UNCHANGED <<row, results, metrics, task, strays, up, client>>

----------------------------------------------------------------------------
\* process_run.

Me(c) == task[c]
Run(c) == task[c].run
Becomes(c, new) == task' = [task EXCEPT ![c] = new]
Goes(c, pc) == Becomes(c, [Me(c) EXCEPT !.pc = pc])
Aims(me, goal) == [me EXCEPT !.pc = "check", !.goal = goal]

\* What process_run does next with the copy it has, before the cases.
Proceed(me) ==
    CASE me.copy.status = "queued"    -> Aims(me, "preparing")
      [] me.copy.cancel               -> Aims(me, "cancelled")
      [] me.copy.status = "preparing" -> Aims(me, "running")
      [] OTHER                        -> [me EXCEPT !.pc = "list"]

Open(c) ==
    /\ Me(c).pc = "open"
    /\ Becomes(c, IF Decided(Run(c)) THEN [Me(c) EXCEPT !.pc = "raised"]
                  ELSE Proceed([Me(c) EXCEPT !.copy = row[Run(c)]]))
    /\ UNCHANGED <<store, strays, up, client, events>>

\* Results that are there are not computed again.  Only a running run executes the rest.
ListResults(c) ==
    /\ Me(c).pc = "list"
    /\ LET stored == results[Run(c)]
       IN  Becomes(c, [Me(c) EXCEPT
                 !.pc = "cases", !.known = stored,
                 !.waiting = IF Me(c).copy.status = "running"
                             THEN {k \in Cases : stored[k] = "none"} ELSE {}])
    /\ UNCHANGED <<store, strays, up, client, events>>

\* A case whose turn has come looks for a cancellation and calls its adapter.
BeginCase(c, k) ==
    /\ k \in Me(c).waiting
    /\ Cardinality(Me(c).busy) < CaseConcurrency
    /\ Becomes(c, [Me(c) EXCEPT !.waiting = @ \ {k},
                                !.busy = IF row[Run(c)].cancel THEN @ ELSE @ \cup {k}])
    /\ UNCHANGED <<store, strays, up, client, events>>

\* Another task's result is never this one's: it has other times.  The first error is
\* process_run's; cases that wait or are busy go on without it.
SaveResult(c, k) ==
    /\ k \in Me(c).busy
    /\ IF results[Run(c)][k] = "none"
       THEN \E o \in Outcomes :
              /\ results' = [results EXCEPT ![Run(c)][k] = o]
              /\ Becomes(c, [Me(c) EXCEPT !.busy = @ \ {k}, !.known[k] = o])
       ELSE /\ UNCHANGED results
            /\ Becomes(c, [Me(c) EXCEPT !.busy = @ \ {k},
                                        !.pc = IF @ = "cases" THEN "raised" ELSE @])
    /\ UNCHANGED <<row, lease, metrics, strays, up, client, events>>

Collect(c) ==
    /\ Me(c).pc = "cases" /\ Me(c).waiting = {} /\ Me(c).busy = {}
    /\ LET me == [Me(c) EXCEPT !.copy = row[Run(c)]]
       IN  Becomes(c, CASE me.copy.cancel                 -> Aims(me, "cancelled")
                        [] me.copy.status = "running"     -> Aims(me, "aggregating")
                        [] me.copy.status = "aggregating" -> [me EXCEPT !.pc = "measure"]
                        [] OTHER                          -> [me EXCEPT !.pc = "raised"])
    /\ UNCHANGED <<store, strays, up, client, events>>

\* Metrics are computed from the results at hand and are immutable, too.
Measure(c) ==
    /\ Me(c).pc = "measure"
    /\ IF metrics[Run(c)] \in {NoResults, Me(c).known}
       THEN metrics' = [metrics EXCEPT ![Run(c)] = Me(c).known] /\ Goes(c, "analyse")
       ELSE UNCHANGED metrics /\ Goes(c, "raised")
    /\ UNCHANGED <<row, lease, results, strays, up, client, events>>

Whole(known) == \A k \in Cases : known[k] \in Judged

\* The bad case of a case that did not pass may be somebody else's just now (bad_case_conflict).
Analyse(c) ==
    /\ Me(c).pc = "analyse"
    /\ \/ Becomes(c, Aims(Me(c), IF Whole(Me(c).known) THEN "completed" ELSE "partial"))
       \/ (\E k \in Cases : Me(c).known[k] \in {"failed", "error"}) /\ Goes(c, "raised")
    /\ UNCHANGED <<store, strays, up, client, events>>

----------------------------------------------------------------------------
\* update_run, called by a task.

CheckUpdate(c) ==
    /\ Me(c).pc = "check"
    /\ Goes(c, CASE Passes(Run(c), Me(c).goal) -> "write"
                 [] Me(c).goal = "failed"      -> "leave"
                 [] OTHER                      -> "raised")
    /\ UNCHANGED <<store, strays, up, client, events>>

\* Mutant: the update does not ask whether the row is terminal by now.
WritableAlways(r) == r \in Runs

Writable(r) == ~Decided(r)

WriteUpdate(c) ==
    /\ Me(c).pc = "write"
    /\ LET new == [Me(c).copy EXCEPT !.status = Me(c).goal]
           me  == [Me(c) EXCEPT !.copy = new, !.goal = "absent"]
       IN  IF Writable(Run(c))
           THEN /\ row' = [row EXCEPT ![Run(c)] = new]
                /\ Becomes(c, CASE new.status \in Terminal      -> [me EXCEPT !.pc = "leave"]
                                [] new.status = "aggregating"   -> [me EXCEPT !.pc = "measure"]
                                [] OTHER                        -> Proceed(me))
           ELSE /\ UNCHANGED row
                /\ Goes(c, IF Me(c).goal = "failed" THEN "leave" ELSE "raised")
    /\ UNCHANGED <<lease, results, metrics, strays, up, client, events>>

\* _mark_failed_if_needed.
MarkFailed(c) ==
    /\ Me(c).pc = "raised"
    /\ Becomes(c, IF Decided(Run(c)) THEN [Me(c) EXCEPT !.pc = "leave"]
                  ELSE Aims([Me(c) EXCEPT !.copy = row[Run(c)]], "failed"))
    /\ UNCHANGED <<store, strays, up, client, events>>

\* sqlite raises in process_run, or in _mark_failed_if_needed, which ends the task.
StoreRaises(c) ==
    /\ Me(c).pc \in {"open", "list", "cases", "measure", "analyse", "check", "raised"}
    /\ Spend("others")
    /\ Goes(c, IF Me(c).pc = "raised" \/ Me(c).goal = "failed" THEN "leave" ELSE "raised")
    /\ UNCHANGED <<store, strays, up, client>>

Released(c) ==
    IF Me(c).beats /\ HoldsLease(c) THEN [lease EXCEPT ![Run(c)] = NoLease] ELSE lease

\* The cases a task has left, behind a gather that has raised.
Left(c) ==
    [run : {Run(c)}, case : Me(c).waiting, pc : {"waiting"}] \cup [run : {Run(c)}, case : Me(c).busy, pc : {"busy"}]

\* _execute_impl's finally: a heartbeat that has raised raises again, before release_lease.
Leave(c) ==
    /\ Me(c).pc = "leave"
    /\ lease' = Released(c)
    /\ Becomes(c, NoTask)
    /\ strays' = [strays EXCEPT ![c] = @ \cup Left(c)]
    /\ UNCHANGED <<row, results, metrics, up, client, events>>

\* What is left goes on as it did in its task.
BeginStray(c, s) ==
    /\ s.pc = "waiting"
    /\ Cardinality({t \in strays[c] : t.run = s.run /\ t.pc = "busy"}) < CaseConcurrency
    /\ strays' = [strays EXCEPT ![c] = (@ \ {s}) \cup
                     (IF row[s.run].cancel THEN {} ELSE {[s EXCEPT !.pc = "busy"]})]
    /\ UNCHANGED <<store, task, up, client, events>>

SaveStray(c, s) ==
    /\ s.pc = "busy"
    /\ IF results[s.run][s.case] = "none"
       THEN \E o \in Outcomes : results' = [results EXCEPT ![s.run][s.case] = o]
       ELSE UNCHANGED results
    /\ strays' = [strays EXCEPT ![c] = @ \ {s}]
    /\ UNCHANGED <<row, lease, metrics, task, up, client, events>>

----------------------------------------------------------------------------
\* stop() cancels the task where it awaits: in its cases.  The run stays as it is.
Stop(c) ==
    /\ up[c] /\ Me(c).pc \in {"none", "cases"}
    /\ Spend("others")
    /\ up' = [up EXCEPT ![c] = FALSE]
    /\ lease' = IF Active(c) THEN Released(c) ELSE lease
    /\ Becomes(c, NoTask)
    /\ strays' = [strays EXCEPT ![c] = {}]
    /\ UNCHANGED <<row, results, metrics, client>>

Crash(c) ==
    /\ up[c]
    /\ Spend("others")
    /\ up' = [up EXCEPT ![c] = FALSE]
    /\ Becomes(c, NoTask)
    /\ strays' = [strays EXCEPT ![c] = {}]
    /\ UNCHANGED <<store, client>>

Start(c) ==
    /\ ~up[c]
    /\ up' = [up EXCEPT ![c] = TRUE]
    /\ UNCHANGED <<store, task, strays, client, events>>

----------------------------------------------------------------------------
TaskStep(c) ==
    \/ Open(c) \/ ListResults(c) \/ Collect(c) \/ Measure(c) \/ Analyse(c)
    \/ CheckUpdate(c) \/ WriteUpdate(c) \/ MarkFailed(c) \/ Leave(c)
    \/ \E k \in Cases : BeginCase(c, k) \/ SaveResult(c, k)

Next ==
    \/ PrepareRun
    \/ \E r \in Runs : Retry(r) \/ ReadToCancel(r) \/ CheckCancel(r) \/ WriteCancel(r)
    \/ \E r \in Runs : Expire(r) \/ Stall(r)
    \/ \E c \in Coordinators, r \in Runs : Claim(c, r)
    \/ \E c \in Coordinators :
          \/ Renew(c) \/ LoseHeartbeat(c) \/ StoreRaises(c) \/ TaskStep(c)
          \/ Stop(c) \/ Crash(c) \/ Start(c)
          \/ \E s \in strays[c] : BeginStray(c, s) \/ SaveStray(c, s)

Spec == Init /\ [][Next]_vars

----------------------------------------------------------------------------
Rows == [status : Statuses, cancel : BOOLEAN]
Tokens == 0..(Cardinality(Coordinators) + 1)
PCs == {"none", "open", "list", "cases", "measure", "analyse", "check", "write", "raised", "leave"}

TypeOK ==
    /\ row \in [Runs -> Rows]
    /\ lease \in [Runs -> [owner : Coordinators \cup {"nobody"}, token : Tokens, live : BOOLEAN]]
    /\ results \in [Runs -> [Cases -> Outcomes \cup {"none"}]]
    /\ metrics \in [Runs -> [Cases -> Outcomes \cup {"none"}]]
    /\ task \in [Coordinators -> [pc : PCs, run : 0..Attempts, token : Tokens, beats : BOOLEAN,
                                  copy : Rows, goal : Statuses, known : [Cases -> Outcomes \cup {"none"}],
                                  waiting : SUBSET Cases, busy : SUBSET Cases]]
    /\ strays \in [Coordinators -> SUBSET [run : Runs, case : Cases, pc : {"waiting", "busy"}]]
    /\ up \in [Coordinators -> BOOLEAN]
    /\ client \in [Runs -> [pc : {"idle", "check", "write", "accepted"}, copy : Rows]]
    /\ events \in [stalls : 0..MaxEvents, others : 0..MaxEvents]

\* A completed run has a judged result for every case, and its metrics were computed from
\* all of them, also when a lease was lost and two tasks executed the run.
CompletedIsWhole ==
    \A r \in Runs : row[r].status = "completed" => Whole(results[r]) /\ metrics[r] = results[r]

\* Whoever still has a copy of the run to write, a verdict is final.
VerdictIsFinal == [][\A r \in Runs : Decided(r) => row'[r] = row[r]]_vars

\* An attempt follows the end of the one before it: two attempts are never alive together,
\* and a completed fingerprint is not executed again.
OneAttemptAtATime ==
    \A r, s \in Runs : r < s /\ row[s] # NoRow => row[r].status \in Terminal \ {"completed"}

\* The types, the attempts of a fingerprint and the results of what is completed.
RunsAreSound == TypeOK /\ OneAttemptAtATime /\ CompletedIsWhole

\* One task executes a run, as long as no heartbeat was lost and no process stood still.
OneExecutor ==
    events.stalls = 0 /\ (\A c \in Coordinators : Active(c) => task[c].beats) =>
        \A c, d \in Coordinators : Active(c) /\ Active(d) /\ task[c].run = task[d].run => c = d

\* What the rows say to one who asks only whether a run is there and how it ended.
Verdict(r) ==
    CASE row[r].status = "absent" -> "none"
      [] Decided(r) -> row[r].status
      [] OTHER -> "open"

Contract == INSTANCE EvaluationContract WITH verdict <- [r \in Runs |-> Verdict(r)]

\* However many tasks execute a run with whatever old copies of its row, cases outlive their task
\* and clients cancel in between: the attempts keep the contract of EvaluationContract.
KeepsContract == Contract!Spec

=============================================================================
