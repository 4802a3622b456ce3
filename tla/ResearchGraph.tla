---------------------------- MODULE ResearchGraph ----------------------------
(***************************************************************************)
(* The graph of one research run (backend/app/agents/research/graph.py     *)
(* with executor.py, budget.py, evidence_checker.py, planner.py and        *)
(* tool_registry.py) and the plan rows it keeps in the run store.          *)
(*                                                                         *)
(* A node is one action: it reads the state, returns an update, and an     *)
(* edge chooses the next node.  Only a tool call is several actions: the   *)
(* registry looks for a cancellation of its own, then starts the handler,  *)
(* and a cancellation or the death of the process may come in between.     *)
(* Checkpoints (langgraph, external): when a node has ended, the state     *)
(* before it is on disk, the state after it perhaps not yet; a new process *)
(* goes on from what is on disk.  Module ResearchRuns has the leases and   *)
(* the coordinators; here there is one process at a time.                  *)
(*                                                                         *)
(* Evidence is the set of criteria it satisfies; a call is a tool with its *)
(* resolved arguments; a step is a call that may be bound to what the step *)
(* before it returned.  All phases of a run in progress are "going".       *)
(* failed_tool_calls is left out: no decision of the code reads it.        *)
(***************************************************************************)
EXTENDS Naturals, Sequences, FiniteSets

CONSTANTS Criteria,          \* what the evidence must satisfy
          Calls,
          DirectCall,        \* the one call of the direct route
          RuleSteps,         \* the steps the rule-based planner gives
          ModelPlans,        \* step sequences a model may give; {} without a provider
          ModelIds,          \* plan ids a model may give
          MaxToolCalls, MaxReplans,
          AnswerEnabled,
          MaxCrashes         \* bound

Step == [call : Calls, bound : BOOLEAN]

ASSUME GraphAssumption ==
    /\ IsFiniteSet(Criteria)
    /\ DirectCall \in Calls
    /\ \A s \in ModelPlans \cup {RuleSteps} : s \in Seq(Step) /\ s # <<>> /\ ~s[1].bound
    /\ MaxToolCalls \in Nat \ {0}
    /\ MaxReplans \in Nat
    /\ AnswerEnabled \in BOOLEAN
    /\ MaxCrashes \in Nat

VARIABLES st,             \* the graph's state, with the node that is next
          disk,           \* the last checkpoint
          calling,        \* the registry has been asked for a call
          handler,        \* "cleared" by the registry's look at the cancellation, then "running"
          cancel,         \* research_runs.cancel_requested
          planRows, currentPlan,
          outcome,        \* the run's verdict, or "none"
          up, crashes,
          started, late,  \* history: handlers started, and those started after the cancellation
          wins            \* history: calls that succeeded, each time

plans == <<planRows, currentPlan>>
process == <<up, crashes>>
vars == <<st, disk, calling, handler, cancel, plans, outcome, process, started, late, wins>>

Versions == 1..(MaxReplans + 1)
Ids == {<<"rule", v>> : v \in Versions} \cup {<<"model", i>> : i \in ModelIds}
Plans == [id : Ids, version : Versions, steps : ModelPlans \cup {RuleSteps}]
NoPlan == [id |-> <<"none", 0>>, version |-> 0, steps |-> <<>>]

InitialState ==
    [node |-> "route_query", route |-> "direct", escalated |-> FALSE, status |-> "going",
     plan |-> NoPlan, pending |-> NoPlan, index |-> 1, runtime |-> <<>>,
     seen |-> {}, covered |-> {}, sufficient |-> FALSE, draft |-> FALSE,
     calls |-> 0, replans |-> 0]

Init ==
    /\ st = InitialState
    /\ disk = InitialState
    /\ calling = FALSE /\ handler = "none"
    /\ cancel = FALSE
    /\ planRows = {} /\ currentPlan = NoPlan.id
    /\ outcome = "none"
    /\ up = TRUE /\ crashes = 0
    /\ started = 0 /\ late = 0 /\ wins = 0

----------------------------------------------------------------------------
At(node) == up /\ outcome = "none" /\ ~calling /\ st.node = node

Saves(new) == st' = new /\ disk' \in {st, new}

\* A node that only changes the graph's state.
Becomes(new) ==
    /\ Saves(new)
    /\ UNCHANGED <<calling, handler, cancel, plans, outcome, process, started, late, wins>>

\* An exception that leaves the graph: the coordinator records a failure.
Raises ==
    /\ outcome' = "failed"
    /\ UNCHANGED <<st, disk, calling, handler, cancel, plans, process, started, late, wins>>

\* Where the edge leads from a node that has seen the cancellation.
AfterCancel ==
    [route_query |-> "end", direct_retrieve |-> "assess_evidence",
     create_plan |-> "validate_plan", validate_plan |-> "end",
     resolve_step_arguments |-> "end", mark_step_running |-> "execute_step",
     execute_step |-> "assess_evidence", assess_evidence |-> "end",
     build_context |-> "generate_answer", generate_answer |-> "validate_citations"]

\* Mutant: a cancellation is looked for in the state, which no node has marked yet.
CancelledByState == st.status = "cancelled"

\* The state knows of no cancellation that the store does not.
Cancelled == cancel

SeeCancel ==
    /\ Cancelled
    /\ \E node \in DOMAIN AfterCancel :
          At(node) /\ Becomes([st EXCEPT !.node = AfterCancel[node], !.status = "cancelled"])

\* The node is entered and does its work.
Runs(node) == At(node) /\ ~Cancelled

RouteQuery ==
    /\ Runs("route_query")
    /\ \/ Becomes([st EXCEPT !.node = "direct_retrieve", !.route = "direct"])
       \/ Becomes([st EXCEPT !.node = "create_plan", !.route = "planned"])

----------------------------------------------------------------------------
\* Plans.

\* Mutant: the id of a rule-based plan does not depend on the version.
RulePlanWithoutVersion(v) == [id |-> <<"rule", 1>>, version |-> v, steps |-> RuleSteps]

RulePlan(v) == [id |-> <<"rule", v>>, version |-> v, steps |-> RuleSteps]

\* A model's plan, or the rule-based one if no provider answers with a valid plan.
Planned(v) ==
    {RulePlan(v)} \cup [id : {<<"model", i>> : i \in ModelIds}, version : {v}, steps : ModelPlans]

Row(p, active) == [plan |-> p, active |-> active]
KnownId(p) == \E row \in planRows : row.plan.id = p.id
SameRow(p) == \E row \in planRows : row.plan = p
VersionTaken(p) == \E row \in planRows : row.plan.version = p.version

\* Mutant: the plan that was active stays so.
InsertedBesides(p) == planRows \cup {Row(p, TRUE)}

Inserted(p) == {Row(row.plan, FALSE) : row \in planRows} \cup {Row(p, TRUE)}

CreatePlan ==
    /\ Runs("create_plan")
    /\ \E p \in Planned(st.replans + 1) :
          \/ /\ SameRow(p) \/ ~(KnownId(p) \/ VersionTaken(p))
             /\ planRows' = IF SameRow(p) THEN planRows ELSE Inserted(p)
             /\ currentPlan' = p.id
             /\ Saves([st EXCEPT !.node = "validate_plan", !.pending = p, !.route = "planned"])
             /\ UNCHANGED <<calling, handler, cancel, outcome, process, started, late, wins>>
          \/ /\ ~SameRow(p)
             /\ KnownId(p) \/ VersionTaken(p)
             /\ Raises

ValidatePlan ==
    /\ Runs("validate_plan")
    /\ Becomes([st EXCEPT !.node = "resolve_step_arguments",
                          !.plan = st.pending, !.pending = NoPlan, !.index = 1,
                          !.runtime = [i \in 1..Len(st.pending.steps) |-> "pending"]])

----------------------------------------------------------------------------
\* Steps.

Current == st.plan.steps[st.index]
SourceSucceeded == st.index > 1 /\ st.runtime[st.index - 1] = "success"

ResolveStepArguments ==
    /\ Runs("resolve_step_arguments")
    /\ \/ /\ Current.bound => SourceSucceeded
          /\ Becomes([st EXCEPT !.node = "mark_step_running", !.runtime[st.index] = "resolving"])
       \/ /\ Current.bound
          /\ Becomes([st EXCEPT !.node = "assess_evidence", !.runtime[st.index] = "failed",
                                !.index = @ + 1])

MarkStepRunning ==
    /\ Runs("mark_step_running")
    /\ Becomes([st EXCEPT !.node = "execute_step", !.runtime[st.index] = "running"])

Tools == {"direct_retrieve", "execute_step"}
NextCall == IF st.node = "direct_retrieve" THEN DirectCall ELSE Current.call

\* Mutant: only what this plan's own steps have returned is used again.
ReusableInPlan(call) ==
    \E i \in 1..(st.index - 1) : st.plan.steps[i].call = call /\ st.runtime[i] = "success"

Reusable(call) == call \in st.seen

\* Mutant: the budget is compared with <=.
CanCallToolOneMore == st.calls <= MaxToolCalls

CanCallTool == st.calls < MaxToolCalls

\* Mutant: a step whose call gave nothing is tried again.
ObservedRetrying(result, gained) ==
    LET planned == st.node = "execute_step"
        succeeded == result = "success"
    IN  [st EXCEPT !.node = "assess_evidence",
                   !.index = IF planned /\ succeeded THEN @ + 1 ELSE @,
                   !.runtime = IF planned THEN [@ EXCEPT ![st.index] = result] ELSE @,
                   !.seen = IF succeeded THEN @ \cup {NextCall} ELSE @,
                   !.covered = @ \cup gained]

\* The state after the call of a step came back.
Observed(result, gained) ==
    LET planned == st.node = "execute_step"
        succeeded == result = "success"
    IN  [st EXCEPT !.node = "assess_evidence",
                   !.index = IF planned THEN @ + 1 ELSE 1,
                   !.runtime = IF planned THEN [@ EXCEPT ![st.index] = result] ELSE @,
                   !.seen = IF succeeded THEN @ \cup {NextCall} ELSE @,
                   !.covered = @ \cup gained]

ReuseResult ==
    /\ \E node \in Tools : Runs(node)
    /\ Reusable(NextCall)
    /\ Becomes(Observed("success", {}))

InvokeTool ==
    /\ \E node \in Tools : Runs(node)
    /\ ~Reusable(NextCall)
    /\ CanCallTool
    /\ calling' = TRUE
    /\ UNCHANGED <<st, disk, handler, cancel, plans, outcome, process, started, late, wins>>

\* The registry's look at the cancellation.
ClearTool ==
    /\ calling /\ handler = "none"
    /\ ~Cancelled
    /\ handler' = "cleared"
    /\ UNCHANGED <<st, disk, calling, cancel, plans, outcome, process, started, late, wins>>

StartTool ==
    /\ handler = "cleared"
    /\ handler' = "running"
    /\ started' = started + 1
    /\ late' = IF cancel THEN late + 1 ELSE late
    /\ UNCHANGED <<st, disk, calling, cancel, plans, outcome, process, wins>>

\* A call is counted, also one that was refused.
Counts(result, gained) ==
    /\ Saves([Observed(result, gained) EXCEPT !.calls = @ + 1])
    /\ wins' = IF result = "success" THEN wins + 1 ELSE wins
    /\ calling' = FALSE /\ handler' = "none"
    /\ UNCHANGED <<cancel, plans, outcome, process, started, late>>

RefuseTool ==
    /\ calling /\ handler = "none"
    /\ Cancelled
    /\ Counts("failed", {})

\* The handler returned, raised or timed out; after a cancellation its result is dropped.
FinishTool ==
    /\ handler = "running"
    /\ \E result \in {"success", "empty", "failed"}, gained \in SUBSET Criteria :
          /\ Cancelled => result = "failed"
          /\ result # "success" => gained = {}
          /\ Counts(result, gained)

\* AgentBudgetExceeded, caught in execute_step: the step stays where it is.
ExceedBudget ==
    /\ Runs("execute_step")
    /\ ~Reusable(NextCall) /\ ~CanCallTool
    /\ Becomes([st EXCEPT !.node = "assess_evidence", !.status = "failed"])

----------------------------------------------------------------------------
\* Assessment.

StepsRemain == st.index <= Len(st.plan.steps)

CanReplan == st.replans < MaxReplans

\* Mutant: some evidence is taken for all of it.
SufficientIfAny == st.covered # {}

Sufficient == st.covered = Criteria

AfterAssessment ==
    CASE Sufficient -> "mark_remaining_steps_skipped"
      [] ~Sufficient /\ StepsRemain -> "resolve_step_arguments"
      [] ~Sufficient /\ ~StepsRemain /\ st.route = "direct" /\ ~st.escalated -> "create_plan"
      [] ~Sufficient /\ ~StepsRemain /\ st.route = "planned" /\ CanReplan -> "replan"
      [] OTHER -> "finish_partial"

AssessEvidence ==
    /\ Runs("assess_evidence")
    /\ Becomes([st EXCEPT !.node = AfterAssessment, !.status = "going",
                          !.sufficient = Sufficient,
                          !.escalated = @ \/ AfterAssessment = "create_plan"])

Replan ==
    /\ At("replan")
    /\ Becomes([st EXCEPT !.node = "create_plan", !.replans = @ + 1])

Skipped == [i \in DOMAIN st.runtime |-> IF i >= st.index THEN "skipped" ELSE st.runtime[i]]

MarkRemainingStepsSkipped ==
    /\ At("mark_remaining_steps_skipped")
    /\ Becomes([st EXCEPT !.node = "build_context", !.runtime = Skipped])

----------------------------------------------------------------------------
\* The answer.

BuildContext ==
    /\ Runs("build_context")
    /\ Becomes([st EXCEPT !.node = "generate_answer"])

GenerateAnswer ==
    /\ Runs("generate_answer")
    /\ Becomes([st EXCEPT !.node = "validate_citations", !.draft = AnswerEnabled])

\* state["draft_answer"] raises a KeyError if there is none.
ValidateCitations ==
    /\ At("validate_citations")
    /\ IF AnswerEnabled /\ ~st.draft
       THEN Raises
       ELSE Becomes([st EXCEPT !.node = "verify_claims", !.status = "going"])

VerifyClaims ==
    /\ At("verify_claims")
    /\ Becomes([st EXCEPT !.node = "finalize_answer"])

\* An answer without a supported claim is only evidence, and partial.
FinalizeAnswer ==
    /\ At("finalize_answer")
    /\ \E evidenceOnly \in BOOLEAN :
          Becomes([st EXCEPT !.node = "end",
                             !.status = IF st.sufficient /\ ~(AnswerEnabled /\ evidenceOnly)
                                        THEN "completed" ELSE "partial"])

FinishPartial ==
    /\ At("finish_partial")
    /\ Becomes([st EXCEPT !.node = "end", !.status = "partial"])

\* The coordinator's _publish_terminal; the graph has waited for its last checkpoint.
Publish ==
    /\ At("end")
    /\ disk' = st
    /\ outcome' = CASE cancel -> "cancelled"
                    [] ~cancel /\ st.status \in {"completed", "partial"} -> st.status
                    [] OTHER -> "partial"
    /\ UNCHANGED <<st, calling, handler, cancel, plans, process, started, late, wins>>

----------------------------------------------------------------------------
\* What comes from outside.

RequestCancel ==
    /\ outcome = "none"
    /\ cancel' = TRUE
    /\ UNCHANGED <<st, disk, calling, handler, plans, outcome, process, started, late, wins>>

Crash ==
    /\ up /\ outcome = "none"
    /\ crashes < MaxCrashes
    /\ up' = FALSE
    /\ crashes' = crashes + 1
    /\ calling' = FALSE /\ handler' = "none"
    /\ UNCHANGED <<st, disk, cancel, plans, outcome, started, late, wins>>

\* A coordinator takes the run up again, if it has not been cancelled.
Resume ==
    /\ ~up
    /\ up' = TRUE
    /\ IF cancel
       THEN outcome' = "cancelled" /\ UNCHANGED st
       ELSE st' = disk /\ UNCHANGED outcome
    /\ UNCHANGED <<disk, calling, handler, cancel, plans, crashes, started, late, wins>>

----------------------------------------------------------------------------
Node ==
    \/ SeeCancel
    \/ RouteQuery \/ CreatePlan \/ ValidatePlan
    \/ ResolveStepArguments \/ MarkStepRunning
    \/ ReuseResult \/ InvokeTool \/ ClearTool \/ RefuseTool \/ StartTool \/ FinishTool \/ ExceedBudget
    \/ AssessEvidence \/ Replan \/ MarkRemainingStepsSkipped
    \/ BuildContext \/ GenerateAnswer \/ ValidateCitations \/ VerifyClaims
    \/ FinalizeAnswer \/ FinishPartial \/ Publish

Next == Node \/ RequestCancel \/ Crash \/ Resume

Spec == Init /\ [][Next]_vars

\* Nodes and tools end (tools have a time limit), and a dead process is replaced.
FairSpec == Spec /\ WF_vars(Node) /\ WF_vars(Resume)

----------------------------------------------------------------------------
Nodes == DOMAIN AfterCancel \cup
         {"replan", "mark_remaining_steps_skipped", "validate_citations", "verify_claims",
          "finalize_answer", "finish_partial", "end"}
StepStatuses == {"pending", "resolving", "running", "success", "empty", "failed", "skipped"}

StateType ==
    [node : Nodes, route : {"direct", "planned"}, escalated : BOOLEAN,
     status : {"going", "failed", "cancelled", "completed", "partial"},
     plan : Plans \cup {NoPlan}, pending : Plans \cup {NoPlan}, index : Nat \ {0},
     runtime : Seq(StepStatuses), seen : SUBSET Calls, covered : SUBSET Criteria,
     sufficient : BOOLEAN, draft : BOOLEAN,
     calls : 0..MaxToolCalls, replans : 0..MaxReplans]

\* The state and its checkpoint are well formed, and the counters stay within their budgets.
TypeOK ==
    /\ {st, disk} \subseteq StateType
    /\ \A s \in {st, disk} : Len(s.runtime) = Len(s.plan.steps) /\ s.index <= Len(s.runtime) + 1
    /\ {calling, cancel, up} \subseteq BOOLEAN /\ handler \in {"none", "cleared", "running"}
    /\ planRows \subseteq [plan : Plans, active : BOOLEAN]
    /\ currentPlan \in Ids \cup {NoPlan.id}
    /\ outcome \in {"none", "completed", "partial", "failed", "cancelled"}
    /\ crashes \in 0..MaxCrashes
    /\ {started, late, wins} \subseteq Nat

----------------------------------------------------------------------------
\* Tool handlers are started no more often than the budget says, but for one
\* call per crash whose result was not yet on disk.
CallsWithinBudget == started <= MaxToolCalls + crashes

\* A call that succeeded is not paid for again, by whatever plan, but for one per crash.
SuccessPaidOnce == wins <= Cardinality(st.seen) + crashes

\* When the cancellation is on record, at most one more tool is started, the one the registry had
\* cleared by then, whatever nodes, steps and processes come after it.
OneToolAfterCancel == late <= 1

\* A completed run has all its evidence, and nobody cancelled it.
CompletedHasEvidence == outcome = "completed" => st.covered = Criteria /\ ~cancel

\* A completed run shows no step of its plan as pending or running.
NoStepLeftOpen ==
    outcome = "completed" =>
        \A i \in DOMAIN st.runtime : st.runtime[i] \in {"success", "empty", "failed", "skipped"}

\* The store has one active plan, it is the newest and the one the run points to,
\* also when a node that saved it is run again after a crash.
CurrentPlanIsActive ==
    \A row \in planRows :
        /\ row.active <=> row.plan.id = currentPlan
        /\ row.active => \A other \in planRows : other.plan.version <= row.plan.version

\* The types, and the rows of plans and steps.
PlansAreSound == TypeOK /\ NoStepLeftOpen /\ CurrentPlanIsActive

\* With rule-based plans a run fails only if it was cancelled.
OnlyCancelledFails == outcome = "failed" => cancel

\* With rule-based plans every run ends.
RunEnds == <>(outcome # "none")

=============================================================================
