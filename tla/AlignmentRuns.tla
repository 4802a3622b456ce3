---------------------------- MODULE AlignmentRuns ----------------------------
(***************************************************************************)
(* Alignment runs: the store's rows, leases, stage outputs and reviews,    *)
(* the coordinators that claim runs, and                                   *)
(* AlignmentService.process_run, which takes a run through its stages      *)
(* (backend/app/persistence/alignment_store.py,                            *)
(* services/alignment_run_coordinator.py, alignment/alignment_service.py). *)
(*                                                                         *)
(* process_run is a thread.  It looks at its lease, then at the flag of a  *)
(* cancellation, then saves the stage: three transactions, and the save    *)
(* asks for nothing.  stop() lets go of the thread, not the thread of the  *)
(* run.                                                                    *)
(*                                                                         *)
(* Runs are of one repository, index, paper and model profile, for a few   *)
(* inputs: of these, one run is active.  A stage's output is a function of *)
(* the input, but for the verifier's, so it is there or not.               *)
(* "ready" is a status nothing writes.                                     *)
(***************************************************************************)
EXTENDS Naturals, FiniteSets, Sequences

CONSTANTS Coordinators,
          Extraction,  \* the stages before scoring: profiling, recalling and featurizing, all of one shape
          MaxRuns,     \* bound
          Touched,     \* bound: the runs clients cancel or review
          MaxReviews,  \* bound: reviews of a decision
          MaxEvents    \* bound: lapses (stalls, stops, lost heartbeats) and faults (retries, deaths, errors)

ASSUME AlignmentAssumption ==
    /\ IsFiniteSet(Coordinators)
    /\ Extraction \in Seq({"profiling", "recalling", "featurizing"}) /\ Extraction # <<>>
    /\ \A m, n \in 1..Len(Extraction) : Extraction[m] = Extraction[n] => m = n
    /\ MaxRuns \in Nat \ {0} /\ Touched \subseteq 1..MaxRuns
    /\ MaxReviews \in Nat /\ MaxEvents \in Nat

VARIABLES row,        \* alignment_runs
          lease,      \* alignment_run_leases
          saved,      \* the stages whose output is stored
          decisions,  \* alignment_decisions: none, the scorer's or the verifier's
          reviews,    \* effective_revision, and alignment_reviews with it
          thread,     \* process_run, of each coordinator
          up,         \* the processes that are running
          cancelling, \* runs a request_cancel has read
          events      \* so far

tables == <<row, lease, saved, decisions, reviews>>
vars == <<tables, thread, up, cancelling, events>>

Runs == 1..MaxRuns
Steps == Extraction \o <<"scoring", "deciding", "verifying", "activating">>
Extracted == {Extraction[n] : n \in 1..Len(Extraction)}
Stages == Extracted \cup {"scoring", "verifying"}
Claimable == Stages \cup {"queued"}
Terminal == {"active", "failed", "cancelled", "superseded"}
Statuses == Claimable \cup Terminal \cup {"absent"}

NoLease == [token |-> 0, live |-> FALSE]
NoThread == [pc |-> "none", run |-> 0, token |-> 0, beats |-> FALSE, watched |-> FALSE,
             step |-> 1, from |-> "absent"]

Init ==
    /\ row = [r \in Runs |-> [status |-> "absent", input |-> 0, cancel |-> FALSE, verify |-> FALSE]]
    /\ lease = [r \in Runs |-> NoLease]
    /\ saved = [r \in Runs |-> {}]
    /\ decisions = [r \in Runs |-> "none"]
    /\ reviews = [r \in Runs |-> 0]
    /\ thread = [c \in Coordinators |-> NoThread]
    /\ up = [c \in Coordinators |-> TRUE]
    /\ cancelling = {}
    /\ events = [lapses |-> 0, faults |-> 0]

Status(r) == row[r].status
Decided(r) == Status(r) \in Terminal
Published(r) == Status(r) \in {"active", "superseded"}
Lapse == events.lapses + events.faults < MaxEvents /\ events' = [events EXCEPT !.lapses = @ + 1]
Fault == events.lapses + events.faults < MaxEvents /\ events' = [events EXCEPT !.faults = @ + 1]

----------------------------------------------------------------------------
\* The clients.

\* Runs are made one after the other, the first attempt of a new input or one more of an old one.
New(r, input) ==
    /\ Status(r) = "absent" /\ \A s \in Runs : s < r => Status(s) # "absent"
    /\ \E v \in BOOLEAN :
          row' = [row EXCEPT ![r] = [status |-> "queued", input |-> input, cancel |-> FALSE, verify |-> v]]
    /\ UNCHANGED <<lease, saved, decisions, reviews, thread, up, cancelling>>

CreateRun(r) == New(r, r) /\ UNCHANGED events

\* Mutant: an input that has succeeded is aligned once more.
RetryAnything(r) ==
    \E p \in Runs : p < r /\ Status(p) \in Terminal /\ New(r, row[p].input) /\ Fault

\* A run of the input that is published is reused; else the parent must be the last attempt (their
\* numbers are part of their ids), and have ended without success.
Retry(r) ==
    \E p \in Runs :
       /\ p < r /\ Status(p) \in {"failed", "cancelled"}
       /\ \A s \in Runs : row[s].input = row[p].input => s <= p /\ ~Published(s)
       /\ New(r, row[p].input)
       /\ Fault

ReadToCancel(r) ==
    /\ r \in Touched
    /\ Status(r) \in Claimable /\ ~row[r].cancel
    /\ cancelling' = cancelling \cup {r}
    /\ UNCHANGED <<tables, thread, up, events>>

\* Whatever the run has become.
WriteCancel(r) ==
    /\ r \in cancelling
    /\ row' = [row EXCEPT ![r].cancel = TRUE]
    /\ cancelling' = cancelling \ {r}
    /\ UNCHANGED <<lease, saved, decisions, reviews, thread, up, events>>

\* add_review: for the decision there is, of whatever run, at its effective revision.
AddReview(r) ==
    /\ r \in Touched
    /\ decisions[r] # "none" /\ reviews[r] < MaxReviews
    /\ reviews' = [reviews EXCEPT ![r] = @ + 1]
    /\ UNCHANGED <<row, lease, saved, decisions, thread, up, cancelling, events>>

----------------------------------------------------------------------------
\* Leases.

Active(c) == thread[c].pc # "none"
Run(c) == thread[c].run
HoldsLease(c) == lease[Run(c)].token = thread[c].token
Held(r) == \E c \in Coordinators : Active(c) /\ Run(c) = r /\ thread[c].beats /\ HoldsLease(c)

FreshToken(r) ==
    CHOOSE t \in 1..(Cardinality(Coordinators) + 1) :
        t # lease[r].token /\ \A c \in Coordinators : t # thread[c].token

\* Mutant: a lease is no obstacle.
FreeAlways(r) == r \in Runs

Free(r) == ~lease[r].live

\* list_claimable_runs and acquire_lease.
Claim(c, r) ==
    /\ up[c] /\ ~Active(c)
    /\ Status(r) \in Claimable
    /\ Free(r)
    /\ lease' = [lease EXCEPT ![r] = [token |-> FreshToken(r), live |-> TRUE]]
    /\ thread' = [thread EXCEPT ![c] = [NoThread EXCEPT !.pc = "open", !.run = r, !.token = FreshToken(r),
                                                        !.beats = TRUE, !.watched = TRUE]]
    /\ UNCHANGED <<row, saved, decisions, reviews, up, cancelling, events>>

\* renew_lease does not ask whether the lease has expired.
Renew(c) ==
    /\ Active(c) /\ thread[c].beats
    /\ IF HoldsLease(c)
       THEN /\ ~lease[Run(c)].live
            /\ lease' = [lease EXCEPT ![Run(c)].live = TRUE]
            /\ UNCHANGED thread
       ELSE thread' = [thread EXCEPT ![c].beats = FALSE] /\ UNCHANGED lease
    /\ UNCHANGED <<row, saved, decisions, reviews, up, cancelling, events>>

LoseHeartbeat(c) ==
    /\ Active(c) /\ thread[c].beats
    /\ Lapse
    /\ thread' = [thread EXCEPT ![c].beats = FALSE]
    /\ UNCHANGED <<tables, up, cancelling>>

Expire(r) ==
    /\ lease[r].live
    /\ IF Held(r) THEN Lapse ELSE UNCHANGED events
    /\ lease' = [lease EXCEPT ![r].live = FALSE]
    /\ UNCHANGED <<row, saved, decisions, reviews, thread, up, cancelling>>

----------------------------------------------------------------------------
\* process_run.

Becomes(c, new) == thread' = [thread EXCEPT ![c] = new]
Goes(c, pc) == Becomes(c, [thread[c] EXCEPT !.pc = pc])
Step(c) == Steps[thread[c].step]

\* Where a run goes on.  One that is over by now is loaded as far as it came and taken to be
\* behind all stages but the last.
Position(s) ==
    CASE s = "queued"    -> 1
      [] s \in Terminal  -> Len(Steps) - 1
      [] OTHER           -> CHOOSE n \in 1..Len(Steps) : Steps[n] = s

\* The status of the run in a step: deciding is part of scoring.
StatusIn(c) ==
    CASE Step(c) = "deciding"   -> "scoring"
      [] Step(c) = "activating" -> IF row[Run(c)].verify THEN "verifying" ELSE thread[c].from
      [] OTHER                  -> Step(c)

Open(c) ==
    /\ thread[c].pc = "open"
    /\ LET s == Status(Run(c))
       IN  Becomes(c, [thread[c] EXCEPT
              !.from = s,
              !.pc   = IF row[Run(c)].cancel THEN "drop" ELSE "first",
              !.step = Position(s)])
    /\ UNCHANGED <<tables, up, cancelling, events>>

\* update_status, with the status the thread expects; a status that is there already is fine.
Moves(c, to, done) ==
    IF Status(Run(c)) \in {thread[c].from, to}
    THEN row' = [row EXCEPT ![Run(c)].status = to] /\ Goes(c, done)
    ELSE UNCHANGED row /\ Goes(c, "refused")

\* A cancellation that is found, at the start or at the end of a stage.
Drop(c) ==
    /\ thread[c].pc = "drop"
    /\ Moves(c, "cancelled", "leave")
    /\ UNCHANGED <<lease, saved, decisions, reviews, up, cancelling, events>>

KeepsLease(c) == HoldsLease(c) /\ lease[Run(c)].live

GuardLease(c) ==
    /\ thread[c].pc \in {"first", "guard"}
    /\ Goes(c, CASE ~KeepsLease(c)            -> "leave"
                 [] thread[c].pc = "first"    -> "enter"
                 [] OTHER                     -> "look")
    /\ UNCHANGED <<tables, up, cancelling, events>>

\* Deciding and activating do not write a status of their own before the guards.  The verifier
\* raises on profiles without decisions.
Enter(c) ==
    /\ thread[c].pc = "enter"
    /\ LET verifies == Step(c) = "verifying" /\ row[Run(c)].verify
           fails    == decisions[Run(c)] = "none" /\ saved[Run(c)] # {}
       IN  \/ Step(c) \in {"deciding", "activating"} /\ UNCHANGED row /\ Goes(c, "guard")
           \/ /\ Step(c) = "verifying" /\ ~verifies
              /\ UNCHANGED row /\ Becomes(c, [thread[c] EXCEPT !.step = @ + 1])
           \/ verifies /\ Moves(c, "verifying", IF fails THEN "raised" ELSE "guard")
           \/ Step(c) \in Stages \ {"verifying"} /\ Moves(c, Step(c), "guard")
    /\ UNCHANGED <<lease, saved, decisions, reviews, up, cancelling, events>>

Flagged(r) == row[r].cancel

GuardCancel(c) ==
    /\ thread[c].pc = "look"
    /\ Becomes(c, [thread[c] EXCEPT !.pc = IF Flagged(Run(c)) THEN "drop" ELSE "save", !.from = StatusIn(c)])
    /\ UNCHANGED <<tables, up, cancelling, events>>

Next1(c) == [thread[c] EXCEPT !.pc = "enter", !.step = @ + 1]

\* Candidates refer to profiles; features, scores and selections to candidates; decisions to profiles.
Before(c) == {Steps[m] : m \in 1..(thread[c].step - 1)}
RefersTo(c) == Before(c) \cap {"profiling", "recalling"}
Referred(c) == RefersTo(c) \subseteq saved[Run(c)]

\* What is replaced takes with it what refers to it: profiles and candidates all output of later
\* stages, profiles the decisions and their reviews too.
Outlasting(c) ==
    IF Step(c) \in {"profiling", "recalling"} THEN saved[Run(c)] \cap (Before(c) \cup {"verifying"})
    ELSE saved[Run(c)]

\* Whatever stage the run is in by now, and whoever executes it.
SaveStage(c) ==
    /\ thread[c].pc = "save" /\ Step(c) \in Stages \ {"verifying"}
    /\ Referred(c)
    /\ saved' = [saved EXCEPT ![Run(c)] = Outlasting(c) \cup {Step(c)}]
    /\ IF Step(c) = "profiling"
       THEN /\ decisions' = [decisions EXCEPT ![Run(c)] = "none"]
            /\ reviews' = [reviews EXCEPT ![Run(c)] = 0]
       ELSE UNCHANGED <<decisions, reviews>>
    /\ Becomes(c, Next1(c))
    /\ UNCHANGED <<row, lease, up, cancelling, events>>

\* A row that refers to one that is gone is an error of the database.
SaveRaises(c) ==
    /\ thread[c].pc = "save" /\ Step(c) # "activating"
    /\ ~Referred(c)
    /\ Goes(c, "raised")
    /\ UNCHANGED <<tables, up, cancelling, events>>

\* save_decisions replaces the decisions, and reviews go with the decision they are of.
SaveDecisions(c) ==
    /\ thread[c].pc = "save" /\ Step(c) \in {"deciding", "verifying"}
    /\ Referred(c)
    /\ decisions' = [decisions EXCEPT ![Run(c)] = IF Step(c) = "deciding" THEN "scored" ELSE "verified"]
    /\ reviews' = [reviews EXCEPT ![Run(c)] = 0]
    /\ IF Step(c) = "deciding" THEN Becomes(c, Next1(c)) ELSE Goes(c, "verdicts")
    /\ UNCHANGED <<row, lease, saved, up, cancelling, events>>

SaveVerifications(c) ==
    /\ thread[c].pc = "verdicts"
    /\ saved' = [saved EXCEPT ![Run(c)] = @ \cup {"verifying"}]
    /\ Becomes(c, Next1(c))
    /\ UNCHANGED <<row, lease, decisions, reviews, up, cancelling, events>>

\* Every profile has its decision.
Ready(r) ==
    /\ Status(r) \in {"scoring", "verifying"}
    /\ (Extraction[1] \in saved[r]) = (decisions[r] # "none")

\* uq_alignment_successful_request
Unpublished(r) == \A s \in Runs \ {r} : row[s].input = row[r].input => ~Published(s)

\* One transaction.  The other active run is superseded first, so uq_alignment_active_profile never
\* refuses; a second publication of an input violates the other index and is rolled back.
Activate(c) ==
    /\ thread[c].pc = "save" /\ Step(c) = "activating"
    /\ IF Ready(Run(c)) /\ Unpublished(Run(c))
       THEN /\ row' = [r \in Runs |-> CASE r = Run(c)           -> [row[r] EXCEPT !.status = "active"]
                                        [] Status(r) = "active" -> [row[r] EXCEPT !.status = "superseded"]
                                        [] OTHER                -> row[r]]
            /\ Goes(c, "leave")
       ELSE UNCHANGED row /\ Goes(c, IF Ready(Run(c)) THEN "raised" ELSE "refused")
    /\ UNCHANGED <<lease, saved, decisions, reviews, up, cancelling, events>>

\* An error of the store or of the stage itself.
Raise(c) ==
    /\ thread[c].pc \in {"open", "first", "enter", "guard", "look", "save", "verdicts", "drop"}
    /\ Fault
    /\ Goes(c, "raised")
    /\ UNCHANGED <<tables, up, cancelling>>

\* A refusal of the store is the coordinator's to note, if it still watches; other errors are noted
\* by process_run itself.
ReadToFail(c) ==
    /\ thread[c].pc \in {"raised", "refused"}
    /\ Becomes(c, [thread[c] EXCEPT
            !.pc   = IF Decided(Run(c)) \/ (@ = "refused" /\ ~thread[c].watched) THEN "leave"
                     ELSE IF @ = "refused" THEN "note" ELSE "fail",
            !.from = Status(Run(c))])
    /\ UNCHANGED <<tables, up, cancelling, events>>

\* process_run's own note is one more update the store may refuse.
Fail(c) ==
    /\ thread[c].pc \in {"fail", "note"}
    /\ IF Status(Run(c)) = thread[c].from
       THEN row' = [row EXCEPT ![Run(c)].status = "failed"]
       ELSE UNCHANGED row
    /\ Goes(c, IF thread[c].pc = "note" \/ Status(Run(c)) \in {thread[c].from, "failed"}
               THEN "leave" ELSE "refused")
    /\ UNCHANGED <<lease, saved, decisions, reviews, up, cancelling, events>>

\* release_lease, unless the heartbeat has raised.
Released(c) == IF thread[c].beats /\ HoldsLease(c) THEN [lease EXCEPT ![Run(c)] = NoLease] ELSE lease

Leave(c) ==
    /\ thread[c].pc = "leave"
    /\ lease' = Released(c)
    /\ Becomes(c, NoThread)
    /\ UNCHANGED <<row, saved, decisions, reviews, up, cancelling, events>>

----------------------------------------------------------------------------
\* The task is cancelled and gives the lease back; its thread goes on.
Stop(c) ==
    /\ up[c]
    /\ IF Active(c) THEN Lapse ELSE Fault
    /\ up' = [up EXCEPT ![c] = FALSE]
    /\ lease' = IF Active(c) THEN Released(c) ELSE lease
    /\ Becomes(c, IF Active(c) THEN [thread[c] EXCEPT !.beats = FALSE, !.watched = FALSE] ELSE NoThread)
    /\ UNCHANGED <<row, saved, decisions, reviews, cancelling>>

Crash(c) ==
    /\ up[c]
    /\ Fault
    /\ up' = [up EXCEPT ![c] = FALSE]
    /\ Becomes(c, NoThread)
    /\ UNCHANGED <<tables, cancelling>>

\* A process ends with its threads.
Start(c) ==
    /\ ~up[c] /\ ~Active(c)
    /\ up' = [up EXCEPT ![c] = TRUE]
    /\ UNCHANGED <<tables, thread, cancelling, events>>

----------------------------------------------------------------------------
ThreadStep(c) ==
    \/ Open(c) \/ Drop(c) \/ GuardLease(c) \/ Enter(c) \/ GuardCancel(c)
    \/ SaveStage(c) \/ SaveRaises(c) \/ SaveDecisions(c) \/ SaveVerifications(c) \/ Activate(c)
    \/ ReadToFail(c) \/ Fail(c) \/ Leave(c)

Next ==
    \/ \E r \in Runs : CreateRun(r) \/ Retry(r)
    \/ \E r \in Runs : ReadToCancel(r) \/ WriteCancel(r) \/ AddReview(r) \/ Expire(r)
    \/ \E c \in Coordinators, r \in Runs : Claim(c, r)
    \/ \E c \in Coordinators :
          Renew(c) \/ LoseHeartbeat(c) \/ Raise(c) \/ ThreadStep(c) \/ Stop(c) \/ Crash(c) \/ Start(c)

Spec == Init /\ [][Next]_vars

\* Managers poll, threads go on, heartbeats beat, leases nobody renews run out.
FairSpec ==
    /\ Spec
    /\ \A r \in Runs :
          /\ WF_vars(~Held(r) /\ Expire(r))
          /\ WF_vars(\E c \in Coordinators : Claim(c, r))
    /\ \A c \in Coordinators : WF_vars(ThreadStep(c)) /\ WF_vars(Renew(c)) /\ WF_vars(Start(c))

----------------------------------------------------------------------------
Tokens == 0..(Cardinality(Coordinators) + 1)
PCs == {"none", "open", "drop", "first", "enter", "guard", "look", "save", "verdicts",
        "raised", "refused", "fail", "note", "leave"}

TypeOK ==
    /\ row \in [Runs -> [status : Statuses, input : 0..MaxRuns, cancel : BOOLEAN, verify : BOOLEAN]]
    /\ lease \in [Runs -> [token : Tokens, live : BOOLEAN]]
    /\ saved \in [Runs -> SUBSET Stages]
    /\ decisions \in [Runs -> {"none", "scored", "verified"}]
    /\ reviews \in [Runs -> 0..MaxReviews]
    /\ thread \in [Coordinators -> [pc : PCs, run : 0..MaxRuns, token : Tokens, beats : BOOLEAN,
                                    watched : BOOLEAN, step : 1..Len(Steps), from : Statuses]]
    /\ up \in [Coordinators -> BOOLEAN]
    /\ cancelling \in SUBSET Runs
    /\ events \in [lapses : 0..MaxEvents, faults : 0..MaxEvents]

\* A run is over once: failed, cancelled and superseded runs stay so, and an active run can only
\* be superseded, as long as no executor has outlived its lease.  (One that has takes whatever
\* status it finds for one it may leave.)
VerdictIsFinal ==
    [][events.lapses = 0 => \A r \in Runs : Decided(r) =>
          row'[r].status \in {Status(r)} \cup (IF Status(r) = "active" THEN {"superseded"} ELSE {})]_vars

\* One run is active and one run of an input is published, whatever outlives its lease: an executor
\* that takes over may open a run the one before it still fails, take "failed" for a status it may
\* leave, and build what a retry publishes too; the index refuses the second.  As long as no executor
\* has outlived its lease, what is published was built in full, every stage and the verifier's
\* decisions when they were asked for, and nothing is built that the index will refuse.
PublishedIsWhole ==
    /\ \A r, s \in Runs : r # s /\ Published(r) /\ Published(s) =>
          /\ row[r].input # row[s].input
          /\ Status(r) = "active" => Status(s) # "active"
    /\ events.lapses = 0 => \A r \in Runs : Published(r) =>
          /\ Extracted \cup {"scoring"} \subseteq saved[r]
          /\ decisions[r] = IF row[r].verify THEN "verified" ELSE "scored"
          /\ \A s \in Runs : row[s].input = row[r].input => Status(s) \notin Claimable

\* The types, and what is published.
RunsAreSound == TypeOK /\ PublishedIsWhole

\* Nobody replaces the decisions of a published run, nor loses their reviews, as long as no
\* executor has outlived its lease.
PublishedIsStable ==
    [][events.lapses = 0 => \A r \in Runs : Published(r) =>
          decisions'[r] = decisions[r] /\ reviews'[r] >= reviews[r]]_vars

\* The plan of version 1.7 calls reviews append-only and the revision of a decision monotonic.
\* A decision can be reviewed while its run is being verified, and the verifier's decision then
\* takes the place of the scorer's.
ReviewsAreAppendOnly == [][\A r \in Runs : reviews'[r] >= reviews[r]]_vars
=============================================================================
