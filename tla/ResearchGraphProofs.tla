------------------------- MODULE ResearchGraphProofs -------------------------
(***************************************************************************)
(* What ResearchGraph keeps for all criteria, calls, planners and limits   *)
(* and any number of crashes: budgets, what is paid twice, the evidence of *)
(* a completed run, the plan rows, and why a run with rule-based plans     *)
(* fails only if it was cancelled.                                         *)
(***************************************************************************)
EXTENDS ResearchGraph, FiniteSetTheorems, TLAPS

Closed == {"success", "empty", "failed", "skipped"}

\* The nodes that work on the current step, and those behind the last step.
Stepping == {"resolve_step_arguments", "mark_step_running", "execute_step"}
Answering == {"build_context", "generate_answer", "validate_citations", "verify_claims", "finalize_answer"}

AllClosed(s) == \A i \in DOMAIN s.runtime : s.runtime[i] \in Closed

\* The lists of a state fit its plan: the steps before the current one are over, and a node that
\* works on a step has one.
StepsFit(s) ==
    /\ Len(s.runtime) = Len(s.plan.steps) /\ s.index <= Len(s.runtime) + 1
    /\ \A i \in DOMAIN s.runtime : i < s.index => s.runtime[i] \in Closed
    /\ s.node \in Stepping => s.index <= Len(s.runtime)
    /\ s.node \in Answering => AllClosed(s)

\* A state that is completed has come to its end with all evidence.
EvidenceFits(s) ==
    /\ s.sufficient => s.covered = Criteria
    /\ s.status = "completed" => s.node = "end" /\ s.sufficient /\ AllClosed(s)

\* A node finds what the one before it has left, unless that one has seen a cancellation.
NodeFits(s) ==
    /\ s.node = "replan" => s.replans < MaxReplans
    /\ s.node = "validate_plan" => cancel \/ s.pending \in Plans
    /\ s.node = "validate_citations" => cancel \/ s.draft = AnswerEnabled

StateFits(s) == s \in StateType /\ IsFiniteSet(s.seen) /\ StepsFit(s) /\ EvidenceFits(s) /\ NodeFits(s)

\* The checkpoint lags behind the state by one call, and only until the node after the call.
Lags ==
    /\ disk.calls <= st.calls /\ st.calls <= disk.calls + 1
    /\ disk.seen \subseteq st.seen /\ Cardinality(st.seen) <= Cardinality(disk.seen) + 1
    /\ st.node # "assess_evidence" => disk.calls = st.calls /\ disk.seen = st.seen

\* What a process would go on from: its state, or the checkpoint if there is none.
Basis == IF up THEN st ELSE disk

\* A call that runs is of a live process, within the budget, and for something new.
CallFits ==
    /\ calling => up /\ outcome = "none" /\ st.node \in Tools /\ st.calls < MaxToolCalls
    /\ calling => NextCall \notin st.seen
    /\ handler # "none" => calling
    /\ ~up => outcome = "none"

\* Calls started and won, against those the run knows of: one is lost per crash.
CallsCounted ==
    /\ started <= Basis.calls + (IF handler = "running" THEN 1 ELSE 0) + crashes
    /\ wins <= Cardinality(Basis.seen) + crashes

\* Plan rows are told apart by their ids and by their versions, one is active, and no version is ahead of
\* the state or of its checkpoint.
RowsFit ==
    /\ \A a, b \in planRows : a.plan.id = b.plan.id \/ a.plan.version = b.plan.version => a = b
    /\ planRows # {} => \E a \in planRows : a.active
    /\ \A a \in planRows : \A s \in {st, disk} : a.plan.version <= s.replans + 1

Completed == outcome = "completed" => st.status = "completed" /\ ~cancel

\* The inductive invariant.
IInv ==
    /\ TypeOK
    /\ StateFits(st) /\ StateFits(disk)
    /\ Lags /\ CallFits /\ CallsCounted
    /\ RowsFit /\ CurrentPlanIsActive
    /\ Completed

----------------------------------------------------------------------------
\* The parts of the types that are not about the state and its checkpoint.
RestTyped ==
    /\ {calling, cancel, up} \subseteq BOOLEAN /\ handler \in {"none", "cleared", "running"}
    /\ planRows \subseteq [plan : Plans, active : BOOLEAN]
    /\ currentPlan \in Ids \cup {NoPlan.id}
    /\ outcome \in {"none", "completed", "partial", "failed", "cancelled"}
    /\ crashes \in 0..MaxCrashes
    /\ {started, late, wins} \subseteq Nat

LEMMA TypeParts == StateFits(st) /\ StateFits(disk) => (TypeOK <=> RestTyped)
BY DEF TypeOK, RestTyped, StateFits, StepsFit

LEMMA NodeSet ==
    /\ DOMAIN AfterCancel = {"route_query", "direct_retrieve", "create_plan", "validate_plan",
           "resolve_step_arguments", "mark_step_running", "execute_step", "assess_evidence",
           "build_context", "generate_answer"}
    /\ Nodes = {"route_query", "direct_retrieve", "create_plan", "validate_plan",
           "resolve_step_arguments", "mark_step_running", "execute_step", "assess_evidence",
           "build_context", "generate_answer", "replan", "mark_remaining_steps_skipped",
           "validate_citations", "verify_claims", "finalize_answer", "finish_partial", "end"}
<1>1. DOMAIN AfterCancel = {"route_query", "direct_retrieve", "create_plan", "validate_plan",
           "resolve_step_arguments", "mark_step_running", "execute_step", "assess_evidence",
           "build_context", "generate_answer"}
  BY DEF AfterCancel
<1>. QED BY <1>1, Zenon DEF Nodes

LEMMA StateFields ==
    ASSUME NEW s \in StateType
    PROVE  /\ s.node \in Nodes /\ s.route \in {"direct", "planned"} /\ s.escalated \in BOOLEAN
           /\ s.status \in {"going", "failed", "cancelled", "completed", "partial"}
           /\ s.plan \in Plans \cup {NoPlan} /\ s.pending \in Plans \cup {NoPlan}
           /\ s.index \in Nat \ {0} /\ s.runtime \in Seq(StepStatuses)
           /\ s.seen \in SUBSET Calls /\ s.covered \in SUBSET Criteria
           /\ s.sufficient \in BOOLEAN /\ s.draft \in BOOLEAN
           /\ s.calls \in 0..MaxToolCalls /\ s.replans \in 0..MaxReplans
BY DEF StateType

\* The steps of a plan.
LEMMA PlanSteps ==
    ASSUME NEW p \in Plans \cup {NoPlan}
    PROVE  p.steps \in Seq(Step) /\ (p \in Plans => p.steps # <<>>)
<1>1. CASE p \in Plans
  <2>1. p.steps \in ModelPlans \cup {RuleSteps}
    BY <1>1 DEF Plans
  <2>. QED BY <2>1, GraphAssumption
<1>2. CASE p = NoPlan
  <2>1. p.steps = <<>>
    BY <1>2 DEF NoPlan
  <2>2. p \notin Plans
    <3>. SUFFICES ASSUME p \in Plans PROVE FALSE
      OBVIOUS
    <3>1. p.version = 0 /\ p.version \in Versions
      BY <1>2 DEF Plans, NoPlan
    <3>. QED BY <3>1, GraphAssumption DEF Versions
  <2>. QED BY <2>1, <2>2
<1>. QED BY <1>1, <1>2

----------------------------------------------------------------------------
LEMMA StatesKept ==
    ASSUME NEW old, StateFits(old), NEW new, StateFits(new), cancel' = cancel,
           st' \in {old, new}, disk' \in {old, new}
    PROVE  StateFits(st)' /\ StateFits(disk)'
<1>1. StepsFit(st)' /\ StepsFit(disk)'
  BY DEF StateFits, StepsFit, AllClosed
<1>2. EvidenceFits(st)' /\ EvidenceFits(disk)'
  BY DEF StateFits, EvidenceFits, AllClosed
<1>3. NodeFits(st)' /\ NodeFits(disk)'
  BY DEF StateFits, NodeFits
<1>4. (st \in StateType)' /\ (disk \in StateType)' /\ IsFiniteSet(st'.seen) /\ IsFiniteSet(disk'.seen)
  BY DEF StateFits
<1>. QED BY <1>1, <1>2, <1>3, <1>4 DEF StateFits

\* A node that ends without a call leaves the state and the checkpoint as they should be.
LEMMA NodeSaves ==
    ASSUME IInv, NEW new, Saves(new), StateFits(new), cancel' = cancel,
           new.calls = st.calls, new.seen = st.seen
    PROVE  StateFits(st)' /\ StateFits(disk)' /\ Lags'
<1>1. st' = new /\ disk' \in {st, new} /\ StateFits(st)
  BY DEF Saves, IInv
<1>2. StateFits(st)' /\ StateFits(disk)'
  BY <1>1, StatesKept
<1>3. st.calls \in Nat /\ IsFiniteSet(st.seen)
  BY <1>1, StateFields, GraphAssumption DEF StateFits
<1>4. Cardinality(st.seen) \in Nat
  BY <1>3, FS_CardinalityType
<1>5. Lags'
  BY <1>1, <1>3, <1>4 DEF Lags
<1>. QED BY <1>2, <1>5

LEMMA NodeBecomes ==
    ASSUME IInv, up, ~calling, outcome = "none", NEW new, Becomes(new), StateFits(new),
           new.calls = st.calls, new.seen = st.seen, new.replans >= st.replans
    PROVE  IInv'
<1>1. Saves(new) /\ UNCHANGED <<calling, handler, cancel, plans, outcome, process, started, late, wins>>
  BY DEF Becomes
<1>2. StateFits(st)' /\ StateFits(disk)' /\ Lags'
  BY <1>1, NodeSaves
<1>3. TypeOK'
  BY <1>1, <1>2, TypeParts DEF IInv, TypeOK, StateFits, StepsFit, plans, process
<1>4. CallFits' /\ CallsCounted' /\ Completed'
  BY <1>1 DEF IInv, CallFits, CallsCounted, Completed, Basis, process, Saves
<1>5. RowsFit'
  <2>1. \A a \in planRows : a.plan.version \in Nat
    BY DEF IInv, TypeOK, Plans, Versions
  <2>2. st.replans \in Nat /\ new.replans \in Nat
    BY StateFields DEF IInv, StateFits
  <2>. QED BY <1>1, <2>1, <2>2 DEF IInv, RowsFit, Saves, plans
<1>6. CurrentPlanIsActive'
  BY <1>1 DEF IInv, CurrentPlanIsActive, plans
<1>. QED BY <1>2, <1>3, <1>4, <1>5, <1>6 DEF IInv
----------------------------------------------------------------------------
\* The nodes that end without a call.  For each: the state it gives fits.

LEMMA Elsewhere ==
    ASSUME NEW s, StateFits(s), NEW node \in Nodes, NEW status \in {"going", "failed", "cancelled", "partial"},
           node \in Stepping => s.index <= Len(s.runtime),
           node \in Answering => AllClosed(s),
           node = "replan" => s.replans < MaxReplans,
           node = "validate_plan" => cancel \/ s.pending \in Plans,
           node = "validate_citations" => cancel \/ s.draft = AnswerEnabled
    PROVE  StateFits([s EXCEPT !.node = node, !.status = status])
<1>. DEFINE new == [s EXCEPT !.node = node, !.status = status]
<1>1. s \in StateType
  BY DEF StateFits
<1>2. /\ new \in StateType /\ new.node = node /\ new.status = status
      /\ new.seen = s.seen /\ new.runtime = s.runtime /\ new.plan = s.plan /\ new.index = s.index
      /\ new.sufficient = s.sufficient /\ new.covered = s.covered /\ new.replans = s.replans
      /\ new.pending = s.pending /\ new.draft = s.draft
  BY <1>1 DEF StateType
<1>. HIDE DEF new
<1>3. StepsFit(new) /\ EvidenceFits(new) /\ NodeFits(new)
  BY <1>2 DEF StateFits, StepsFit, EvidenceFits, NodeFits, AllClosed
<1>. QED BY <1>2, <1>3 DEF StateFits, new

\* A node that goes on to another one and changes at most the status.
LEMMA NodeMoves ==
    ASSUME IInv, up, ~calling, outcome = "none",
           NEW node \in Nodes, NEW status \in {"going", "failed", "cancelled", "partial"},
           Becomes([st EXCEPT !.node = node, !.status = status]),
           node \in Stepping => st.index <= Len(st.runtime),
           node \in Answering => AllClosed(st),
           node = "replan" => st.replans < MaxReplans,
           node = "validate_plan" => cancel \/ st.pending \in Plans,
           node = "validate_citations" => cancel \/ st.draft = AnswerEnabled
    PROVE  IInv'
<1>. DEFINE new == [st EXCEPT !.node = node, !.status = status]
<1>1. StateFits(st) /\ st \in StateType
  BY DEF IInv, StateFits
<1>2. StateFits(new)
  BY <1>1, Elsewhere
<1>3. new.calls = st.calls /\ new.seen = st.seen /\ new.replans >= st.replans
  BY <1>1, StateFields DEF StateType
<1>. QED BY <1>2, <1>3, NodeBecomes

LEMMA SeeCancelStep ==
    ASSUME IInv, SeeCancel
    PROVE  IInv'
<1>1. PICK node \in DOMAIN AfterCancel :
          At(node) /\ Becomes([st EXCEPT !.node = AfterCancel[node], !.status = "cancelled"])
  BY DEF SeeCancel
<1>2. cancel /\ up /\ ~calling /\ outcome = "none" /\ st.node = node
  BY <1>1 DEF SeeCancel, At, Cancelled
<1>3. /\ AfterCancel[node] \in Nodes \ {"replan"}
      /\ AfterCancel[node] \in Stepping => node \in Stepping
      /\ AfterCancel[node] \in Answering => node \in Answering
  <2>1. \/ node = "route_query" /\ AfterCancel[node] = "end"
        \/ node = "direct_retrieve" /\ AfterCancel[node] = "assess_evidence"
        \/ node = "create_plan" /\ AfterCancel[node] = "validate_plan"
        \/ node = "validate_plan" /\ AfterCancel[node] = "end"
        \/ node = "resolve_step_arguments" /\ AfterCancel[node] = "end"
        \/ node = "mark_step_running" /\ AfterCancel[node] = "execute_step"
        \/ node = "execute_step" /\ AfterCancel[node] = "assess_evidence"
        \/ node = "assess_evidence" /\ AfterCancel[node] = "end"
        \/ node = "build_context" /\ AfterCancel[node] = "generate_answer"
        \/ node = "generate_answer" /\ AfterCancel[node] = "validate_citations"
    BY NodeSet DEF AfterCancel
  <2>. QED BY <2>1, NodeSet DEF Stepping, Answering
<1>4. StepsFit(st)
  BY DEF IInv, StateFits
<1>. QED BY <1>1, <1>2, <1>3, <1>4, NodeMoves DEF StepsFit

LEMMA RouteQueryStep ==
    ASSUME IInv, RouteQuery
    PROVE  IInv'
<1>1. PICK node \in {"direct_retrieve", "create_plan"}, route \in {"direct", "planned"} :
          Becomes([st EXCEPT !.node = node, !.route = route])
  BY DEF RouteQuery
<1>2. up /\ ~calling /\ outcome = "none" /\ StateFits(st) /\ st \in StateType /\ st.node = "route_query"
  BY DEF RouteQuery, Runs, At, IInv, StateFits
<1>. DEFINE new == [st EXCEPT !.node = node, !.route = route]
<1>3. StateFits(new)
  <2>1. /\ new \in StateType /\ new.node = node /\ new.status = st.status
        /\ new.seen = st.seen /\ new.runtime = st.runtime /\ new.plan = st.plan /\ new.index = st.index
        /\ new.sufficient = st.sufficient /\ new.covered = st.covered
    BY <1>2, NodeSet DEF StateType
  <2>. HIDE DEF new
  <2>. QED BY <1>2, <2>1 DEF StateFits, StepsFit, EvidenceFits, NodeFits, AllClosed, Stepping, Answering
<1>4. new.calls = st.calls /\ new.seen = st.seen /\ new.replans >= st.replans
  BY <1>2, StateFields DEF StateType
<1>. QED BY <1>1, <1>2, <1>3, <1>4, NodeBecomes

LEMMA ValidatePlanStep ==
    ASSUME IInv, ValidatePlan
    PROVE  IInv'
<1>. DEFINE steps == st.pending.steps
            fresh == [i \in 1..Len(steps) |-> "pending"]
            new == [st EXCEPT !.node = "resolve_step_arguments",
                          !.plan = st.pending, !.pending = NoPlan, !.index = 1, !.runtime = fresh]
<1>1. /\ up /\ ~calling /\ outcome = "none" /\ ~cancel /\ StateFits(st) /\ st \in StateType
      /\ st.node = "validate_plan" /\ Becomes(new)
  BY DEF ValidatePlan, Runs, At, Cancelled, IInv, StateFits
<1>2. st.pending \in Plans
  BY <1>1 DEF StateFits, NodeFits
<1>3. steps \in Seq(Step) /\ steps # <<>> /\ Len(steps) \in Nat /\ Len(steps) >= 1
  BY <1>2, PlanSteps
<1>4. fresh \in Seq(StepStatuses)
  BY <1>3 DEF StepStatuses
<1>5. fresh \in Seq(StepStatuses) /\ Len(fresh) = Len(steps) /\ DOMAIN fresh = 1..Len(steps)
  BY <1>3, <1>4
<1>. HIDE DEF fresh
<1>. HIDE DEF fresh
<1>6. /\ new.node = "resolve_step_arguments" /\ new.status = st.status
      /\ new.seen = st.seen /\ new.runtime = fresh /\ new.plan = st.pending /\ new.index = 1
      /\ new.sufficient = st.sufficient /\ new.covered = st.covered
      /\ new.calls = st.calls /\ new.replans = st.replans
  BY <1>1 DEF StateType
<1>7. new \in StateType
  <2>1. st \in StateType /\ "resolve_step_arguments" \in Nodes /\ fresh \in Seq(StepStatuses)
        /\ st.pending \in Plans \cup {NoPlan} /\ NoPlan \in Plans \cup {NoPlan} /\ 1 \in Nat \ {0}
    BY <1>1, <1>2, <1>5, NodeSet
  <2>. QED BY ONLY <2>1 DEF StateType
<1>. HIDE DEF new
<1>8. StateFits(new)
  BY <1>1, <1>3, <1>5, <1>6, <1>7 DEF StateFits, StepsFit, EvidenceFits, NodeFits, Stepping, Answering
<1>9. new.replans >= st.replans
  BY <1>1, <1>6, StateFields
<1>. QED BY <1>1, <1>6, <1>8, <1>9, NodeBecomes

LEMMA StepUpdate ==
    ASSUME NEW r \in Seq(StepStatuses), NEW i \in 1..Len(r), NEW v \in StepStatuses
    PROVE  /\ [r EXCEPT ![i] = v] \in Seq(StepStatuses)
           /\ Len([r EXCEPT ![i] = v]) = Len(r) /\ DOMAIN [r EXCEPT ![i] = v] = DOMAIN r
           /\ DOMAIN r = 1..Len(r)
           /\ \A k \in 1..Len(r) : [r EXCEPT ![i] = v][k] = IF k = i THEN v ELSE r[k]
OBVIOUS

\* A node that notes how the current step stands, and perhaps goes on to the next.
LEMMA StepNoted ==
    ASSUME IInv, up, ~calling, outcome = "none", st.node \in Stepping, st.index <= Len(st.runtime),
           NEW node \in {"mark_step_running", "execute_step", "assess_evidence"},
           NEW v \in StepStatuses, NEW index \in {st.index, st.index + 1},
           index = st.index + 1 => v \in Closed /\ node = "assess_evidence",
           NEW new, Becomes(new),
           new = [st EXCEPT !.node = node, !.index = index, !.runtime = [st.runtime EXCEPT ![st.index] = v]]
    PROVE  IInv'
<1>1. StateFits(st) /\ st \in StateType /\ st.status # "completed"
  BY DEF IInv, StateFits, EvidenceFits, Stepping
<1>2. st.runtime \in Seq(StepStatuses) /\ st.index \in Nat \ {0} /\ st.replans \in Nat
  BY <1>1, StateFields
<1>3. Len(st.runtime) \in Nat /\ st.index \in 1..Len(st.runtime)
  BY <1>2
<1>. DEFINE r == [st.runtime EXCEPT ![st.index] = v]
<1>4. /\ r \in Seq(StepStatuses) /\ Len(r) = Len(st.runtime) /\ DOMAIN r = DOMAIN st.runtime
      /\ DOMAIN r = 1..Len(r)
      /\ \A k \in DOMAIN r : r[k] = IF k = st.index THEN v ELSE st.runtime[k]
  BY <1>2, <1>3, StepUpdate
<1>. HIDE DEF r
<1>5. new = [st EXCEPT !.node = node, !.index = index, !.runtime = r]
  BY DEF r
<1>6. new \in StateType
  <2>1. node \in Nodes /\ index \in Nat \ {0}
    BY <1>2, NodeSet
  <2>. QED BY ONLY <2>1, <1>1, <1>4, <1>5 DEF StateType
<1>7. /\ new.node = node /\ new.status = st.status /\ new.index = index /\ new.runtime = r
      /\ new.seen = st.seen /\ new.plan = st.plan /\ new.calls = st.calls /\ new.replans = st.replans
      /\ new.sufficient = st.sufficient /\ new.covered = st.covered
  BY ONLY <1>1, <1>5 DEF StateType
<1>8. StepsFit(new)
  <2>1. \A i \in DOMAIN st.runtime : i < st.index => st.runtime[i] \in Closed
    BY <1>1 DEF StateFits, StepsFit
  <2>2. \A i \in DOMAIN r : i < index => r[i] \in Closed
    BY <1>2, <1>3, <1>4, <2>1
  <2>3. node \notin Answering /\ (node \in Stepping => index = st.index) /\ index <= Len(r) + 1
    BY <1>2, <1>3, <1>4 DEF Answering, Stepping
  <2>4. Len(r) = Len(st.plan.steps)
    BY <1>1, <1>4 DEF StateFits, StepsFit
  <2>. QED BY <1>3, <1>4, <1>7, <2>2, <2>3, <2>4 DEF StepsFit
<1>9. StateFits(new)
  BY <1>1, <1>6, <1>7, <1>8 DEF StateFits, EvidenceFits, NodeFits
<1>10. new.replans >= st.replans
  BY <1>2, <1>7
<1>. QED BY <1>7, <1>9, <1>10, NodeBecomes

LEMMA ResolveStep ==
    ASSUME IInv, ResolveStepArguments
    PROVE  IInv'
<1>1. /\ up /\ ~calling /\ outcome = "none" /\ st.node = "resolve_step_arguments"
      /\ st \in StateType /\ st.index \in Nat /\ st.index <= Len(st.runtime)
  BY StateFields DEF ResolveStepArguments, Runs, At, IInv, StateFits, StepsFit, Stepping
<1>2. CASE Becomes([st EXCEPT !.node = "mark_step_running", !.runtime[st.index] = "resolving"])
  <2>. DEFINE new == [st EXCEPT !.node = "mark_step_running", !.runtime[st.index] = "resolving"]
  <2>1. new = [st EXCEPT !.node = "mark_step_running", !.index = st.index,
                         !.runtime = [st.runtime EXCEPT ![st.index] = "resolving"]]
    BY <1>1 DEF StateType
  <2>. QED BY <1>1, <1>2, <2>1, StepNoted DEF Stepping, StepStatuses
<1>3. CASE Becomes([st EXCEPT !.node = "assess_evidence", !.runtime[st.index] = "failed", !.index = @ + 1])
  <2>. DEFINE new == [st EXCEPT !.node = "assess_evidence", !.runtime[st.index] = "failed", !.index = @ + 1]
  <2>1. new = [st EXCEPT !.node = "assess_evidence", !.index = st.index + 1,
                         !.runtime = [st.runtime EXCEPT ![st.index] = "failed"]]
    BY <1>1 DEF StateType
  <2>. QED BY <1>1, <1>3, <2>1, StepNoted DEF Stepping, StepStatuses, Closed
<1>. QED BY <1>2, <1>3 DEF ResolveStepArguments

LEMMA MarkStep ==
    ASSUME IInv, MarkStepRunning
    PROVE  IInv'
<1>1. /\ up /\ ~calling /\ outcome = "none" /\ st.node = "mark_step_running"
      /\ st \in StateType /\ st.index \in Nat /\ st.index <= Len(st.runtime)
  BY StateFields DEF MarkStepRunning, Runs, At, IInv, StateFits, StepsFit, Stepping
<1>. DEFINE new == [st EXCEPT !.node = "execute_step", !.runtime[st.index] = "running"]
<1>2. new = [st EXCEPT !.node = "execute_step", !.index = st.index,
                       !.runtime = [st.runtime EXCEPT ![st.index] = "running"]]
  BY <1>1 DEF StateType
<1>. QED BY <1>1, <1>2, StepNoted DEF MarkStepRunning, Stepping, StepStatuses

LEMMA ExceedBudgetStep ==
    ASSUME IInv, ExceedBudget
    PROVE  IInv'
<1>1. up /\ ~calling /\ outcome = "none"
  BY DEF ExceedBudget, Runs, At
<1>. QED BY <1>1, NodeMoves, NodeSet DEF ExceedBudget, Stepping, Answering

----------------------------------------------------------------------------
\* Tool calls.

LEMMA NextCallType ==
    ASSUME StateFits(st), st.node \in Tools
    PROVE  NextCall \in Calls
<1>1. CASE st.node = "direct_retrieve"
  BY <1>1, GraphAssumption DEF NextCall
<1>2. CASE st.node = "execute_step"
  <2>1. st.plan \in Plans \cup {NoPlan} /\ st.index \in Nat \ {0}
    BY StateFields DEF StateFits
  <2>2. st.index <= Len(st.plan.steps)
    BY <1>2 DEF StateFits, StepsFit, Stepping
  <2>3. st.plan.steps \in Seq(Step)
    BY <2>1, PlanSteps
  <2>4. st.plan.steps[st.index] \in Step
    BY <2>1, <2>2, <2>3
  <2>. QED BY <1>2, <2>4 DEF NextCall, Current, Step
<1>. QED BY <1>1, <1>2 DEF Tools

\* The state after a call, with its count, fits.
LEMMA ObservedFits ==
    ASSUME StateFits(st), st.node \in Tools,
           NEW result \in {"success", "empty", "failed"}, NEW gained \in SUBSET Criteria,
           NEW n \in 0..MaxToolCalls
    PROVE  /\ StateFits([Observed(result, gained) EXCEPT !.calls = n])
           /\ Observed(result, gained).seen = IF result = "success" THEN st.seen \cup {NextCall} ELSE st.seen
           /\ Observed(result, gained).calls = st.calls
           /\ Observed(result, gained).replans = st.replans
           /\ Observed(result, gained) = [Observed(result, gained) EXCEPT !.calls = st.calls]
<1>. DEFINE planned == st.node = "execute_step"
            index == IF planned THEN st.index + 1 ELSE 1
            r == IF planned THEN [st.runtime EXCEPT ![st.index] = result] ELSE st.runtime
            seen == IF result = "success" THEN st.seen \cup {NextCall} ELSE st.seen
            covered == st.covered \cup gained
            observed == [st EXCEPT !.node = "assess_evidence", !.index = index, !.runtime = r, !.seen = seen,
                                   !.covered = covered]
<1>1. st \in StateType /\ IsFiniteSet(st.seen) /\ StepsFit(st) /\ EvidenceFits(st) /\ st.status # "completed"
  BY DEF StateFits, EvidenceFits, Tools
<1>2. /\ st.runtime \in Seq(StepStatuses) /\ st.index \in Nat \ {0} /\ st.seen \in SUBSET Calls
      /\ st.covered \in SUBSET Criteria /\ Len(st.runtime) \in Nat
  BY <1>1, StateFields
<1>3. /\ r \in Seq(StepStatuses) /\ Len(r) = Len(st.runtime) /\ DOMAIN r = 1..Len(r)
      /\ index \in Nat \ {0} /\ index <= Len(r) + 1
      /\ \A i \in DOMAIN r : i < index => r[i] \in Closed
  <2>1. CASE planned
    <3>1. st.index \in 1..Len(st.runtime)
      BY <1>1, <1>2, <2>1 DEF StepsFit, Stepping
    <3>2. result \in StepStatuses /\ result \in Closed
      BY DEF StepStatuses, Closed
    <3>3. /\ r \in Seq(StepStatuses) /\ Len(r) = Len(st.runtime) /\ DOMAIN r = 1..Len(r)
          /\ \A k \in 1..Len(r) : r[k] = IF k = st.index THEN result ELSE st.runtime[k]
      BY <1>2, <2>1, <3>1, <3>2, StepUpdate
    <3>4. \A i \in 1..Len(st.runtime) : i < st.index => st.runtime[i] \in Closed
      BY <1>1, <1>2 DEF StepsFit
    <3>. HIDE DEF r
    <3>. QED BY <1>2, <2>1, <3>1, <3>2, <3>3, <3>4
  <2>2. CASE ~planned
    BY <1>2, <2>2
  <2>. QED BY <2>1, <2>2
<1>4. seen \in SUBSET Calls /\ IsFiniteSet(seen)
  BY <1>1, <1>2, NextCallType, FS_AddElement
<1>5. covered \in SUBSET Criteria /\ (st.covered = Criteria => covered = Criteria)
  BY <1>2
<1>6. Observed(result, gained) = observed
  BY <1>1 DEF Observed, StateType
<1>. HIDE DEF index, r, seen, covered
<1>. DEFINE new == [observed EXCEPT !.calls = n]
<1>7. /\ new.node = "assess_evidence" /\ new.status = st.status /\ new.index = index /\ new.runtime = r
      /\ new.seen = seen /\ new.plan = st.plan /\ new.sufficient = st.sufficient /\ new.covered = covered
  BY ONLY <1>1 DEF StateType
<1>8. new \in StateType
  <2>1. "assess_evidence" \in Nodes
    BY NodeSet
  <2>. QED BY ONLY <1>1, <1>3, <1>4, <1>5, <2>1, n \in 0..MaxToolCalls DEF StateType
<1>9. /\ observed.seen = seen /\ observed.calls = st.calls /\ observed.replans = st.replans
      /\ observed = [observed EXCEPT !.calls = st.calls]
  BY ONLY <1>1 DEF StateType
<1>. HIDE DEF observed, new
<1>10. StateFits(new)
  <2>1. StepsFit(new)
    BY <1>1, <1>3, <1>7 DEF StepsFit, Stepping, Answering
  <2>2. EvidenceFits(new) /\ NodeFits(new)
    BY <1>1, <1>5, <1>7 DEF EvidenceFits, NodeFits
  <2>. QED BY <1>4, <1>7, <1>8, <2>1, <2>2 DEF StateFits
<1>. QED BY <1>6, <1>9, <1>10 DEF new, seen

LEMMA ReuseStep ==
    ASSUME IInv, ReuseResult
    PROVE  IInv'
<1>1. /\ up /\ ~calling /\ outcome = "none" /\ st.node \in Tools /\ StateFits(st)
      /\ NextCall \in st.seen /\ Becomes(Observed("success", {}))
  BY DEF ReuseResult, Runs, At, IInv, Reusable
<1>2. st.calls \in 0..MaxToolCalls /\ st.replans \in Nat
  BY <1>1, StateFields DEF StateFits
<1>. DEFINE new == Observed("success", {})
<1>3. StateFits(new) /\ new.seen = st.seen \cup {NextCall} /\ new.calls = st.calls /\ new.replans = st.replans
  <2>1. {} \in SUBSET Criteria
    OBVIOUS
  <2>2. /\ StateFits([new EXCEPT !.calls = st.calls]) /\ new = [new EXCEPT !.calls = st.calls]
        /\ new.seen = st.seen \cup {NextCall}
        /\ new.calls = st.calls /\ new.replans = st.replans
    BY <1>1, <1>2, <2>1, ObservedFits
  <2>3. StateFits(new)
    <3>. HIDE DEF new
    <3>. QED BY <2>2
  <2>. QED BY <2>2, <2>3
<1>4. new.seen = st.seen /\ new.replans >= st.replans
  BY <1>1, <1>2, <1>3
<1>. QED BY <1>1, <1>3, <1>4, NodeBecomes

\* A call goes on: the registry is asked, looks at the cancellation or starts the handler.
LEMMA CallStep ==
    ASSUME IInv, InvokeTool \/ ClearTool \/ StartTool
    PROVE  IInv'
<1>1. /\ up /\ outcome = "none" /\ st.node \in Tools /\ NextCall \notin st.seen
      /\ st.calls < MaxToolCalls /\ calling' = TRUE /\ calling' \in BOOLEAN
      /\ UNCHANGED <<st, disk, cancel, planRows, currentPlan, outcome, up, crashes, wins>>
      /\ handler' \in {"none", "cleared", "running"}
      /\ \/ handler' # "running" /\ handler # "running" /\ started' = started /\ late' = late
         \/ handler' = "running" /\ handler # "running" /\ started' = started + 1 /\ late' \in {late, late + 1}
  BY DEF InvokeTool, ClearTool, StartTool, Runs, At, Reusable, CanCallTool, plans, process, IInv, CallFits, TypeOK
<1>2. StateFits(st)' /\ StateFits(disk)' /\ Lags'
  <2>1. StateFits(st)' = StateFits(st) /\ StateFits(disk)' = StateFits(disk) /\ (Lags => Lags')
    BY <1>1 DEF StateFits, StepsFit, EvidenceFits, NodeFits, AllClosed, Lags
  <2>. QED BY <2>1 DEF IInv
<1>3. st.calls \in Nat /\ started \in Nat /\ late \in Nat /\ wins \in Nat /\ crashes \in Nat
  BY StateFields, GraphAssumption DEF IInv, StateFits, TypeOK
<1>4. TypeOK'
  <2>1. {started, late, wins}' \subseteq Nat
    BY <1>1, <1>3
  <2>2. RestTyped'
    BY <1>1, <2>1 DEF IInv, TypeOK, RestTyped
  <2>. QED BY <1>2, <2>2 DEF TypeOK, RestTyped, StateFits, StepsFit
<1>5. CallFits'
  BY <1>1 DEF CallFits, NextCall, Current
<1>6. CallsCounted'
  BY <1>1, <1>3 DEF IInv, CallsCounted, Basis
<1>7. RowsFit' /\ CurrentPlanIsActive' /\ Completed'
  BY <1>1 DEF IInv, RowsFit, CurrentPlanIsActive, Completed
<1>. QED BY <1>2, <1>4, <1>5, <1>6, <1>7 DEF IInv

\* A call is over, refused or with what the handler has given.
LEMMA CountedStep ==
    ASSUME IInv, RefuseTool \/ FinishTool
    PROVE  IInv'
<1>1. PICK result \in {"success", "empty", "failed"}, gained \in SUBSET Criteria :
          /\ Saves([Observed(result, gained) EXCEPT !.calls = @ + 1])
          /\ wins' = IF result = "success" THEN wins + 1 ELSE wins
          /\ calling' = FALSE /\ handler' = "none"
          /\ UNCHANGED <<cancel, plans, outcome, process, started, late>>
          /\ calling
  <2>1. CASE RefuseTool
    <3>1. {} \in SUBSET Criteria
      OBVIOUS
    <3>. QED BY <2>1, <3>1 DEF RefuseTool, Counts
  <2>2. CASE FinishTool
    BY <2>2 DEF FinishTool, Counts, IInv, CallFits
  <2>. QED BY <2>1, <2>2
<1>2. /\ up /\ calling /\ calling' = FALSE /\ handler' = "none"
      /\ UNCHANGED <<cancel, planRows, currentPlan, outcome, up, crashes, started, late>>
  BY <1>1 DEF plans, process, IInv, CallFits
<1>3. /\ outcome = "none" /\ st.node \in Tools /\ st.calls < MaxToolCalls /\ NextCall \notin st.seen
      /\ StateFits(st) /\ StateFits(disk) /\ IsFiniteSet(st.seen)
      /\ disk.calls = st.calls /\ disk.seen = st.seen
  BY <1>2 DEF IInv, CallFits, Lags, StateFits, Tools
<1>4. /\ st.calls \in Nat /\ st.calls + 1 \in 0..MaxToolCalls /\ started \in Nat /\ late \in Nat /\ wins \in Nat /\ crashes \in Nat
      /\ st.replans \in Nat
  <2>1. st.calls \in 0..MaxToolCalls /\ st.replans \in Nat
    BY <1>3, StateFields DEF StateFits
  <2>2. st.calls \in Nat /\ st.calls + 1 \in 0..MaxToolCalls
    BY <1>3, <2>1, GraphAssumption
  <2>3. {started, late, wins} \subseteq Nat /\ crashes \in 0..MaxCrashes
    BY DEF IInv, TypeOK
  <2>. QED BY <2>1, <2>2, <2>3
<1>. DEFINE new == [Observed(result, gained) EXCEPT !.calls = st.calls + 1]
            seen == IF result = "success" THEN st.seen \cup {NextCall} ELSE st.seen
<1>5. /\ StateFits(new) /\ Observed(result, gained).seen = seen /\ Observed(result, gained).calls = st.calls
      /\ Observed(result, gained).replans = st.replans
  BY <1>3, <1>4, ObservedFits
<1>6. Saves(new)
  BY <1>1, <1>5
<1>7. new.seen = seen /\ new.calls = st.calls + 1 /\ new.replans = st.replans /\ new.node = "assess_evidence" /\ new.status = st.status
  BY <1>3, <1>5 DEF Observed, StateFits, StateType
<1>. HIDE DEF new
<1>8. st' = new /\ disk' \in {st, new}
  BY <1>6 DEF Saves
<1>9. StateFits(st)' /\ StateFits(disk)'
  BY <1>2, <1>3, <1>5, <1>8, StatesKept
<1>10. /\ Cardinality(st.seen) \in Nat
       /\ Cardinality(seen) = Cardinality(st.seen) + (IF result = "success" THEN 1 ELSE 0)
  BY <1>3, FS_CardinalityType, FS_AddElement
<1>11. Lags'
  BY <1>3, <1>4, <1>7, <1>8, <1>10 DEF Lags
<1>12. CallFits' /\ Completed'
  BY <1>2, <1>3 DEF CallFits, Completed
<1>13. CallsCounted'
  BY <1>1, <1>2, <1>4, <1>7, <1>8, <1>10 DEF IInv, CallsCounted, Basis
<1>14. TypeOK'
  <2>1. {started, late, wins}' \subseteq Nat
    BY <1>1, <1>2, <1>4
  <2>2. RestTyped'
    BY <1>2, <2>1 DEF IInv, TypeOK, RestTyped
  <2>. QED BY <1>9, <2>2 DEF TypeOK, RestTyped, StateFits, StepsFit
<1>15. RowsFit' /\ CurrentPlanIsActive'
  BY <1>2, <1>7, <1>8 DEF IInv, RowsFit, CurrentPlanIsActive
<1>. QED BY <1>9, <1>11, <1>12, <1>13, <1>14, <1>15 DEF IInv

----------------------------------------------------------------------------
\* Assessment and the answer.

LEMMA AssessStep ==
    ASSUME IInv, AssessEvidence
    PROVE  IInv'
<1>. DEFINE goal == AfterAssessment
            enough == Sufficient
            escalated == st.escalated \/ goal = "create_plan"
            new == [st EXCEPT !.node = goal, !.status = "going", !.sufficient = enough, !.escalated = escalated]
<1>1. /\ up /\ ~calling /\ outcome = "none" /\ st \in StateType /\ StateFits(st) /\ StepsFit(st)
      /\ Becomes(new)
  BY DEF AssessEvidence, Runs, At, IInv, StateFits
<1>2. /\ st.replans \in 0..MaxReplans /\ st.index \in Nat /\ Len(st.runtime) \in Nat
      /\ st.runtime \in Seq(StepStatuses)
  BY <1>1, StateFields
<1>3. /\ goal \in {"mark_remaining_steps_skipped", "resolve_step_arguments", "create_plan", "replan", "finish_partial"}
      /\ goal = "resolve_step_arguments" => st.index <= Len(st.plan.steps)
      /\ goal = "replan" => st.replans < MaxReplans
  BY DEF AfterAssessment, StepsRemain, CanReplan
<1>4. enough \in BOOLEAN /\ (enough => st.covered = Criteria) /\ escalated \in BOOLEAN
  BY DEF Sufficient
<1>. HIDE DEF goal, enough, escalated
<1>5. new \in StateType
  <2>1. goal \in Nodes
    BY <1>3, NodeSet
  <2>. QED BY ONLY <1>1, <1>4, <2>1 DEF StateType
<1>6. /\ new.node = goal /\ new.status = "going" /\ new.sufficient = enough /\ new.covered = st.covered
      /\ new.runtime = st.runtime /\ new.plan = st.plan /\ new.index = st.index /\ new.seen = st.seen
      /\ new.calls = st.calls /\ new.replans = st.replans
  BY ONLY <1>1 DEF StateType
<1>. HIDE DEF new
<1>7. StepsFit(new)
  BY <1>1, <1>3, <1>6 DEF StepsFit, Stepping, Answering
<1>8. StateFits(new)
  BY <1>1, <1>3, <1>4, <1>5, <1>6, <1>7 DEF StateFits, EvidenceFits, NodeFits
<1>9. new.replans >= st.replans
  BY <1>2, <1>6
<1>. QED BY <1>1, <1>6, <1>8, <1>9, NodeBecomes

LEMMA ReplanStep ==
    ASSUME IInv, Replan
    PROVE  IInv'
<1>. DEFINE n == st.replans + 1
            new == [st EXCEPT !.node = "create_plan", !.replans = n]
<1>1. /\ up /\ ~calling /\ outcome = "none" /\ st \in StateType /\ StateFits(st) /\ Becomes(new)
      /\ st.node = "replan" /\ st.replans < MaxReplans
  BY DEF Replan, At, IInv, StateFits, NodeFits
<1>2. n \in 0..MaxReplans /\ n >= st.replans /\ "create_plan" \in Nodes
  BY <1>1, StateFields, GraphAssumption, NodeSet
<1>. HIDE DEF n
<1>3. new \in StateType
  BY ONLY <1>1, <1>2 DEF StateType
<1>4. /\ new.node = "create_plan" /\ new.status = st.status /\ new.sufficient = st.sufficient
      /\ new.covered = st.covered /\ new.runtime = st.runtime /\ new.plan = st.plan /\ new.index = st.index
      /\ new.seen = st.seen /\ new.calls = st.calls /\ new.replans = n
  BY ONLY <1>1 DEF StateType
<1>. HIDE DEF new
<1>5. StateFits(new)
  BY <1>1, <1>3, <1>4 DEF StateFits, StepsFit, EvidenceFits, NodeFits, Stepping, Answering
<1>. QED BY <1>1, <1>2, <1>4, <1>5, NodeBecomes

LEMMA SkipStep ==
    ASSUME IInv, MarkRemainingStepsSkipped
    PROVE  IInv'
<1>. DEFINE r == Skipped
            new == [st EXCEPT !.node = "build_context", !.runtime = r]
<1>1. /\ up /\ ~calling /\ outcome = "none" /\ st \in StateType /\ StateFits(st) /\ Becomes(new)
      /\ st.node = "mark_remaining_steps_skipped"
  BY DEF MarkRemainingStepsSkipped, At, IInv, StateFits
<1>2. /\ st.runtime \in Seq(StepStatuses) /\ st.index \in Nat /\ st.replans \in Nat
      /\ DOMAIN st.runtime = 1..Len(st.runtime) /\ Len(st.runtime) \in Nat
  BY <1>1, StateFields
<1>3. \A i \in 1..Len(st.runtime) : i < st.index => st.runtime[i] \in Closed
  BY <1>1, <1>2 DEF StateFits, StepsFit
<1>4. \A i \in 1..Len(st.runtime) : Skipped[i] \in Closed
  <2>. SUFFICES ASSUME NEW i \in 1..Len(st.runtime) PROVE Skipped[i] \in Closed
    OBVIOUS
  <2>1. CASE i >= st.index
    BY <1>2, <2>1 DEF Skipped, Closed
  <2>2. CASE i < st.index
    BY <1>2, <1>3, <2>2 DEF Skipped
  <2>. QED BY <1>2, <2>1, <2>2
<1>5. r \in Seq(StepStatuses) /\ Len(r) = Len(st.runtime) /\ DOMAIN r = DOMAIN st.runtime
  <2>1. \A i \in 1..Len(st.runtime) : Skipped[i] \in StepStatuses
    BY <1>4 DEF Closed, StepStatuses
  <2>2. DOMAIN Skipped = 1..Len(st.runtime) /\ Skipped = [i \in 1..Len(st.runtime) |-> Skipped[i]]
    BY <1>2 DEF Skipped
  <2>. QED BY <1>2, <2>1, <2>2
<1>6. \A i \in DOMAIN r : r[i] \in Closed
  BY <1>2, <1>4, <1>5
<1>. HIDE DEF r
<1>7. new \in StateType
  <2>1. "build_context" \in Nodes
    BY NodeSet
  <2>. QED BY ONLY <1>1, <1>5, <2>1 DEF StateType
<1>8. /\ new.node = "build_context" /\ new.status = st.status /\ new.sufficient = st.sufficient
      /\ new.covered = st.covered /\ new.runtime = r /\ new.plan = st.plan /\ new.index = st.index
      /\ new.seen = st.seen /\ new.calls = st.calls /\ new.replans = st.replans
  BY ONLY <1>1 DEF StateType
<1>. HIDE DEF new
<1>9. StepsFit(new)
  BY <1>1, <1>5, <1>6, <1>8 DEF StateFits, StepsFit, AllClosed, Stepping, Answering
<1>10. StateFits(new)
  BY <1>1, <1>7, <1>8, <1>9 DEF StateFits, EvidenceFits, NodeFits
<1>11. new.replans >= st.replans
  BY <1>2, <1>8
<1>. QED BY <1>1, <1>8, <1>10, <1>11, NodeBecomes

\* A change of the node only.
LEMMA OnlyNode ==
    ASSUME StateFits(st), NEW node
    PROVE  [st EXCEPT !.node = node] = [st EXCEPT !.node = node, !.status = st.status]
BY DEF StateFits, StateType

LEMMA BuildContextStep ==
    ASSUME IInv, BuildContext
    PROVE  IInv'
<1>1. /\ up /\ ~calling /\ outcome = "none" /\ StateFits(st) /\ st.node = "build_context" /\ AllClosed(st)
      /\ st.status \in {"going", "failed", "cancelled", "partial"}
  BY StateFields DEF BuildContext, Runs, At, IInv, StateFits, StepsFit, EvidenceFits, Answering
<1>2. Becomes([st EXCEPT !.node = "generate_answer", !.status = st.status])
  BY <1>1, OnlyNode DEF BuildContext
<1>. QED BY <1>1, <1>2, NodeMoves, NodeSet DEF Stepping

LEMMA VerifyClaimsStep ==
    ASSUME IInv, VerifyClaims
    PROVE  IInv'
<1>1. /\ up /\ ~calling /\ outcome = "none" /\ StateFits(st) /\ st.node = "verify_claims" /\ AllClosed(st)
      /\ st.status \in {"going", "failed", "cancelled", "partial"}
  BY StateFields DEF VerifyClaims, At, IInv, StateFits, StepsFit, EvidenceFits, Answering
<1>2. Becomes([st EXCEPT !.node = "finalize_answer", !.status = st.status])
  BY <1>1, OnlyNode DEF VerifyClaims
<1>. QED BY <1>1, <1>2, NodeMoves, NodeSet DEF Stepping

LEMMA FinishPartialStep ==
    ASSUME IInv, FinishPartial
    PROVE  IInv'
<1>1. up /\ ~calling /\ outcome = "none" /\ Becomes([st EXCEPT !.node = "end", !.status = "partial"])
  BY DEF FinishPartial, At
<1>. QED BY <1>1, NodeMoves, NodeSet DEF Stepping, Answering

LEMMA GenerateAnswerStep ==
    ASSUME IInv, GenerateAnswer
    PROVE  IInv'
<1>. DEFINE new == [st EXCEPT !.node = "validate_citations", !.draft = AnswerEnabled]
<1>1. /\ up /\ ~calling /\ outcome = "none" /\ st \in StateType /\ StateFits(st) /\ Becomes(new)
      /\ st.node = "generate_answer" /\ AllClosed(st) /\ st.replans \in Nat
  BY StateFields DEF GenerateAnswer, Runs, At, IInv, StateFits, StepsFit, Answering
<1>2. new \in StateType
  BY <1>1, NodeSet, GraphAssumption DEF StateType
<1>3. /\ new.node = "validate_citations" /\ new.status = st.status /\ new.sufficient = st.sufficient
      /\ new.covered = st.covered /\ new.runtime = st.runtime /\ new.plan = st.plan /\ new.index = st.index
      /\ new.seen = st.seen /\ new.calls = st.calls /\ new.replans = st.replans /\ new.draft = AnswerEnabled
  BY ONLY <1>1 DEF StateType
<1>. HIDE DEF new
<1>4. StateFits(new)
  BY <1>1, <1>2, <1>3 DEF StateFits, StepsFit, EvidenceFits, NodeFits, AllClosed, Stepping, Answering
<1>5. new.replans >= st.replans
  BY <1>1, <1>3
<1>. QED BY <1>1, <1>3, <1>4, <1>5, NodeBecomes

LEMMA FinalizeStep ==
    ASSUME IInv, FinalizeAnswer
    PROVE  IInv'
<1>1. /\ up /\ ~calling /\ outcome = "none" /\ st \in StateType /\ StateFits(st)
      /\ st.node = "finalize_answer" /\ AllClosed(st) /\ st.replans \in Nat
  BY StateFields DEF FinalizeAnswer, At, IInv, StateFits, StepsFit, Answering
<1>2. PICK status \in {"completed", "partial"} :
          /\ status = "completed" => st.sufficient
          /\ Becomes([st EXCEPT !.node = "end", !.status = status])
  BY DEF FinalizeAnswer
<1>. DEFINE new == [st EXCEPT !.node = "end", !.status = status]
<1>3. new \in StateType
  BY <1>1, NodeSet DEF StateType
<1>4. /\ new.node = "end" /\ new.status = status /\ new.sufficient = st.sufficient
      /\ new.covered = st.covered /\ new.runtime = st.runtime /\ new.plan = st.plan /\ new.index = st.index
      /\ new.seen = st.seen /\ new.calls = st.calls /\ new.replans = st.replans
  BY ONLY <1>1 DEF StateType
<1>. HIDE DEF new
<1>5. StateFits(new)
  BY <1>1, <1>2, <1>3, <1>4 DEF StateFits, StepsFit, EvidenceFits, NodeFits, AllClosed, Stepping, Answering
<1>6. new.replans >= st.replans
  BY <1>1, <1>4
<1>. QED BY <1>1, <1>2, <1>4, <1>5, <1>6, NodeBecomes DEF new

\* An exception ends the run and leaves everything as it was.
LEMMA RaisesStep ==
    ASSUME IInv, Raises, up, ~calling
    PROVE  IInv'
<1>1. /\ outcome' = "failed"
      /\ UNCHANGED <<st, disk, calling, handler, cancel, planRows, currentPlan, up, crashes, started, late, wins>>
  BY DEF Raises, plans, process
<1>2. StateFits(st)' /\ StateFits(disk)'
  BY <1>1, StatesKept DEF IInv
<1>3. RestTyped'
  BY <1>1 DEF IInv, TypeOK, RestTyped
<1>4. TypeOK'
  BY <1>2, <1>3 DEF TypeOK, RestTyped, StateFits, StepsFit
<1>5. Lags' /\ CallFits' /\ CallsCounted' /\ RowsFit' /\ CurrentPlanIsActive' /\ Completed'
  BY <1>1 DEF IInv, Lags, CallFits, CallsCounted, Basis, RowsFit, CurrentPlanIsActive, Completed
<1>. QED BY <1>2, <1>4, <1>5 DEF IInv

LEMMA ValidateCitationsStep ==
    ASSUME IInv, ValidateCitations
    PROVE  IInv'
<1>1. up /\ ~calling /\ outcome = "none" /\ st.node = "validate_citations" /\ AllClosed(st)
  BY DEF ValidateCitations, At, IInv, StateFits, StepsFit, Answering
<1>2. CASE Raises
  BY <1>1, <1>2, RaisesStep
<1>3. CASE Becomes([st EXCEPT !.node = "verify_claims", !.status = "going"])
  BY <1>1, <1>3, NodeMoves, NodeSet DEF Stepping
<1>. QED BY <1>2, <1>3 DEF ValidateCitations

----------------------------------------------------------------------------
\* Plan rows.

LEMMA PlannedType ==
    ASSUME NEW v \in Versions, NEW p \in Planned(v)
    PROVE  p \in Plans /\ p.version = v
<1>1. CASE p = RulePlan(v)
  BY <1>1 DEF RulePlan, Plans, Ids
<1>2. CASE p \in [id : {<<"model", i>> : i \in ModelIds}, version : {v}, steps : ModelPlans]
  <2>1. p.id \in Ids /\ p.version = v /\ p.steps \in ModelPlans /\ p = [id |-> p.id, version |-> v, steps |-> p.steps]
    BY <1>2 DEF Ids
  <2>. QED BY <2>1 DEF Plans
<1>. QED BY <1>1, <1>2 DEF Planned

\* A version is inserted as the newest, and the one before it is no longer active.
LEMMA InsertedFits ==
    ASSUME IInv, NEW p \in Plans, p.version = st.replans + 1, ~KnownId(p), ~VersionTaken(p),
           planRows' = Inserted(p), currentPlan' = p.id,
           st'.replans = st.replans, disk'.replans = st.replans
    PROVE  /\ planRows' \subseteq [plan : Plans, active : BOOLEAN] /\ currentPlan' \in Ids
           /\ RowsFit' /\ CurrentPlanIsActive'
<1>1. planRows \subseteq [plan : Plans, active : BOOLEAN] /\ RowsFit
  BY DEF IInv, TypeOK
<1>2. \A a \in planRows' :
          \/ a.plan = p /\ a.active = TRUE
          \/ a.active = FALSE /\ \E b \in planRows : a = Row(b.plan, FALSE) /\ a.plan = b.plan
  BY DEF Inserted, Row
<1>3. Row(p, TRUE) \in planRows' /\ Row(p, TRUE).active
  BY DEF Inserted, Row
<1>4. \A a \in planRows' : a.plan = p => a = Row(p, TRUE)
  <2>1. \A b \in planRows : b.plan # p
    BY DEF KnownId
  <2>. QED BY <2>1 DEF Inserted, Row
<1>5. planRows' \subseteq [plan : Plans, active : BOOLEAN] /\ currentPlan' \in Ids
  <2>1. \A b \in planRows : b.plan \in Plans
    BY <1>1
  <2>2. \A q \in Plans, active \in BOOLEAN : Row(q, active) \in [plan : Plans, active : BOOLEAN]
    BY DEF Row
  <2>3. planRows' \subseteq [plan : Plans, active : BOOLEAN]
    BY <2>1, <2>2 DEF Inserted
  <2>. QED BY <2>3 DEF Plans
<1>6. \A a, b \in planRows' : a.plan.id = b.plan.id \/ a.plan.version = b.plan.version => a = b
  <2>. SUFFICES ASSUME NEW a \in planRows', NEW b \in planRows',
                       a.plan.id = b.plan.id \/ a.plan.version = b.plan.version
                PROVE  a = b
    OBVIOUS
  <2>1. \A c \in planRows : c.plan.id # p.id /\ c.plan.version # p.version
    BY DEF KnownId, VersionTaken
  <2>2. CASE a.plan = p
    <3>1. b.plan = p
      BY <1>2, <2>1, <2>2
    <3>. QED BY <1>4, <2>2, <3>1
  <2>3. CASE a.plan # p
    <3>1. PICK c \in planRows : a = Row(c.plan, FALSE) /\ a.plan = c.plan
      BY <1>2, <2>3
    <3>2. b.plan # p
      BY <2>1, <3>1
    <3>3. PICK d \in planRows : b = Row(d.plan, FALSE) /\ b.plan = d.plan
      BY <1>2, <3>2
    <3>4. c.plan.id = d.plan.id \/ c.plan.version = d.plan.version
      BY <3>1, <3>3
    <3>5. c = d
      BY <1>1, <3>4 DEF RowsFit
    <3>. QED BY <3>1, <3>3, <3>5
  <2>. QED BY <2>2, <2>3
<1>7. \A a \in planRows' : a.plan.version <= p.version
  <2>1. \A b \in planRows : b.plan.version <= st.replans + 1
    BY <1>1 DEF RowsFit
  <2>2. p.version \in Nat
    BY GraphAssumption DEF Plans, Versions
  <2>. SUFFICES ASSUME NEW a \in planRows' PROVE a.plan.version <= p.version
    OBVIOUS
  <2>3. CASE a.plan = p
    BY <2>2, <2>3
  <2>4. CASE a.plan # p
    BY <1>2, <2>1, <2>4
  <2>. QED BY <2>3, <2>4
<1>8. RowsFit'
  BY <1>3, <1>6, <1>7 DEF RowsFit
<1>9. CurrentPlanIsActive'
  <2>. SUFFICES ASSUME NEW a \in planRows'
                PROVE  /\ a.active <=> a.plan.id = p.id
                       /\ a.active => \A b \in planRows' : b.plan.version <= a.plan.version
    BY DEF CurrentPlanIsActive
  <2>1. CASE a.plan = p
    <3>1. a.active
      BY <1>3, <1>4, <2>1
    <3>. QED BY <1>7, <2>1, <3>1
  <2>2. CASE a.plan # p
    BY <1>2, <2>2 DEF KnownId
  <2>. QED BY <2>1, <2>2
<1>. QED BY <1>5, <1>8, <1>9

\* The row of the newest version is the active one.
LEMMA SameRowIsCurrent ==
    ASSUME IInv, NEW p \in Plans, p.version = st.replans + 1, SameRow(p)
    PROVE  currentPlan = p.id
<1>1. planRows \subseteq [plan : Plans, active : BOOLEAN] /\ RowsFit /\ CurrentPlanIsActive
  BY DEF IInv, TypeOK
<1>2. PICK a \in planRows : a.plan = p
  BY DEF SameRow
<1>3. PICK b \in planRows : b.active
  BY <1>1, <1>2 DEF RowsFit
<1>4. /\ a.plan.version <= b.plan.version /\ b.plan.version <= st.replans + 1
      /\ a.plan.version \in Nat /\ b.plan.version \in Nat
  BY <1>1, <1>3, GraphAssumption DEF RowsFit, CurrentPlanIsActive, Plans, Versions
<1>5. a = b
  BY <1>1, <1>2, <1>4 DEF RowsFit
<1>. QED BY <1>1, <1>2, <1>3, <1>5 DEF CurrentPlanIsActive

LEMMA CreatePlanStep ==
    ASSUME IInv, CreatePlan
    PROVE  IInv'
<1>1. /\ up /\ ~calling /\ outcome = "none" /\ st.node = "create_plan" /\ st \in StateType /\ StateFits(st)
      /\ st.replans \in 0..MaxReplans
  BY StateFields DEF CreatePlan, Runs, At, IInv, StateFits
<1>2. st.replans + 1 \in Versions
  BY <1>1, GraphAssumption DEF Versions
<1>3. CASE Raises
  BY <1>1, <1>3, RaisesStep
<1>4. ASSUME NEW p \in Planned(st.replans + 1),
             SameRow(p) \/ ~(KnownId(p) \/ VersionTaken(p)),
             planRows' = IF SameRow(p) THEN planRows ELSE Inserted(p),
             currentPlan' = p.id,
             Saves([st EXCEPT !.node = "validate_plan", !.pending = p, !.route = "planned"]),
             UNCHANGED <<calling, handler, cancel, outcome, process, started, late, wins>>
      PROVE  IInv'
  <2>. DEFINE new == [st EXCEPT !.node = "validate_plan", !.pending = p, !.route = "planned"]
  <2>1. p \in Plans /\ p.version = st.replans + 1
    BY <1>2, PlannedType
  <2>2. new \in StateType
    <3>1. "validate_plan" \in Nodes /\ p \in Plans \cup {NoPlan}
      BY <2>1, NodeSet
    <3>. QED BY ONLY <1>1, <3>1 DEF StateType
  <2>3. /\ new.node = "validate_plan" /\ new.pending = p /\ new.status = st.status
        /\ new.sufficient = st.sufficient /\ new.covered = st.covered /\ new.runtime = st.runtime
        /\ new.plan = st.plan /\ new.index = st.index /\ new.seen = st.seen /\ new.calls = st.calls
        /\ new.replans = st.replans
    BY ONLY <1>1 DEF StateType
  <2>4. Saves(new) /\ cancel' = cancel
    BY <1>4
  <2>. HIDE DEF new
  <2>5. StateFits(new)
    BY <1>1, <2>1, <2>2, <2>3 DEF StateFits, StepsFit, EvidenceFits, NodeFits, Stepping, Answering
  <2>6. StateFits(st)' /\ StateFits(disk)' /\ Lags'
    BY <2>3, <2>4, <2>5, NodeSaves
  <2>7. st'.replans = st.replans /\ disk'.replans = st.replans /\ st'.calls = st.calls /\ st'.seen = st.seen
        /\ st'.status = st.status
    BY <2>3, <2>4 DEF Saves
  <2>8. UNCHANGED <<calling, handler, cancel, outcome, up, crashes, started, late, wins>>
    BY <1>4 DEF process
  <2>9. /\ planRows' \subseteq [plan : Plans, active : BOOLEAN] /\ currentPlan' \in Ids
        /\ RowsFit' /\ CurrentPlanIsActive'
    <3>1. CASE SameRow(p)
      <4>1. currentPlan' = currentPlan /\ planRows' = planRows
        BY <1>4, <2>1, <3>1, SameRowIsCurrent
      <4>2. p.id \in Ids
        BY <2>1 DEF Plans
      <4>3. RowsFit' /\ CurrentPlanIsActive'
        BY <2>7, <4>1 DEF IInv, RowsFit, CurrentPlanIsActive
      <4>. QED BY <1>4, <4>1, <4>2, <4>3 DEF IInv, TypeOK
    <3>2. CASE ~SameRow(p)
      BY <1>4, <2>1, <2>7, <3>2, InsertedFits
    <3>. QED BY <3>1, <3>2
  <2>10. RestTyped'
    BY <2>8, <2>9 DEF IInv, TypeOK, RestTyped
  <2>11. TypeOK'
    BY <2>6, <2>10 DEF TypeOK, RestTyped, StateFits, StepsFit
  <2>12. CallFits' /\ CallsCounted' /\ Completed'
    BY <1>1, <2>7, <2>8 DEF IInv, CallFits, CallsCounted, Basis, Completed
  <2>. QED BY <2>6, <2>9, <2>11, <2>12 DEF IInv
<1>. QED BY <1>3, <1>4 DEF CreatePlan

----------------------------------------------------------------------------
\* The coordinator, clients and deaths.

LEMMA PublishStep ==
    ASSUME IInv, Publish
    PROVE  IInv'
<1>1. /\ up /\ ~calling /\ outcome = "none" /\ st.node = "end" /\ disk' = st
      /\ UNCHANGED <<st, calling, handler, cancel, planRows, currentPlan, up, crashes, started, late, wins>>
      /\ outcome' \in {"cancelled", "completed", "partial"}
      /\ outcome' = "completed" => st.status = "completed" /\ ~cancel
  BY StateFields DEF Publish, At, plans, process, IInv, StateFits
<1>2. StateFits(st)' /\ StateFits(disk)'
  BY <1>1, StatesKept DEF IInv
<1>3. RestTyped'
  BY <1>1 DEF IInv, TypeOK, RestTyped
<1>4. TypeOK'
  BY <1>2, <1>3 DEF TypeOK, RestTyped, StateFits, StepsFit
<1>5. Lags'
  <2>1. st.calls \in Nat /\ Cardinality(st.seen) \in Nat
    BY StateFields, FS_CardinalityType, GraphAssumption DEF IInv, StateFits
  <2>. QED BY <1>1, <2>1 DEF Lags
<1>6. CallFits' /\ CallsCounted' /\ RowsFit' /\ CurrentPlanIsActive' /\ Completed'
  BY <1>1 DEF IInv, CallFits, CallsCounted, Basis, RowsFit, CurrentPlanIsActive, Completed
<1>. QED BY <1>2, <1>4, <1>5, <1>6 DEF IInv

LEMMA RequestCancelStep ==
    ASSUME IInv, RequestCancel
    PROVE  IInv'
<1>1. /\ outcome = "none" /\ cancel' = TRUE
      /\ UNCHANGED <<st, disk, calling, handler, planRows, currentPlan, outcome, up, crashes, started, late, wins>>
  BY DEF RequestCancel, plans, process
<1>2. StateFits(st)' /\ StateFits(disk)'
  BY <1>1 DEF IInv, StateFits, StepsFit, EvidenceFits, NodeFits, AllClosed
<1>3. RestTyped'
  BY <1>1 DEF IInv, TypeOK, RestTyped
<1>4. TypeOK'
  BY <1>2, <1>3 DEF TypeOK, RestTyped, StateFits, StepsFit
<1>5. Lags' /\ CallFits' /\ CallsCounted' /\ RowsFit' /\ CurrentPlanIsActive' /\ Completed'
  BY <1>1 DEF IInv, Lags, CallFits, NextCall, Current, CallsCounted, Basis, RowsFit, CurrentPlanIsActive, Completed
<1>. QED BY <1>2, <1>4, <1>5 DEF IInv

\* What is known of the numbers.
LEMMA Numbers ==
    ASSUME IInv
    PROVE  /\ st.calls \in Nat /\ disk.calls \in Nat
           /\ Cardinality(st.seen) \in Nat /\ Cardinality(disk.seen) \in Nat
           /\ started \in Nat /\ wins \in Nat /\ crashes \in Nat
BY StateFields, FS_CardinalityType, GraphAssumption DEF IInv, StateFits, TypeOK

\* The call that runs is lost, or the one whose result has not reached the disk: never both.
LEMMA CrashStep ==
    ASSUME IInv, Crash
    PROVE  IInv'
<1>1. /\ up /\ outcome = "none" /\ up' = FALSE /\ crashes' = crashes + 1 /\ calling' = FALSE /\ handler' = "none"
      /\ crashes < MaxCrashes
      /\ UNCHANGED <<st, disk, cancel, planRows, currentPlan, outcome, started, late, wins>>
  BY DEF Crash, plans
<1>2. StateFits(st)' /\ StateFits(disk)'
  BY <1>1, StatesKept DEF IInv
<1>3. RestTyped'
  <2>1. crashes' \in 0..MaxCrashes
    BY <1>1, GraphAssumption DEF IInv, TypeOK
  <2>. QED BY <1>1, <2>1 DEF IInv, TypeOK, RestTyped
<1>4. TypeOK'
  BY <1>2, <1>3 DEF TypeOK, RestTyped, StateFits, StepsFit
<1>5. CallsCounted'
  <2>1. handler = "running" => disk.calls = st.calls
    BY DEF IInv, CallFits, Lags, Tools
  <2>. QED BY <1>1, <2>1, Numbers DEF IInv, CallsCounted, Basis, Lags
<1>6. Lags' /\ CallFits' /\ RowsFit' /\ CurrentPlanIsActive' /\ Completed'
  BY <1>1 DEF IInv, Lags, CallFits, RowsFit, CurrentPlanIsActive, Completed
<1>. QED BY <1>2, <1>4, <1>5, <1>6 DEF IInv

LEMMA ResumeStep ==
    ASSUME IInv, Resume
    PROVE  IInv'
<1>1. /\ ~up /\ up' = TRUE /\ outcome = "none" /\ ~calling
      /\ UNCHANGED <<disk, calling, handler, cancel, planRows, currentPlan, crashes, started, late, wins>>
      /\ \/ cancel /\ outcome' = "cancelled" /\ st' = st
         \/ ~cancel /\ outcome' = outcome /\ st' = disk
  BY DEF Resume, plans, IInv, CallFits
<1>2. StateFits(st)' /\ StateFits(disk)'
  BY <1>1, StatesKept DEF IInv
<1>3. RestTyped'
  BY <1>1 DEF IInv, TypeOK, RestTyped
<1>4. TypeOK'
  BY <1>2, <1>3 DEF TypeOK, RestTyped, StateFits, StepsFit
<1>5. Lags'
  BY <1>1, Numbers DEF IInv, Lags
<1>6. CallsCounted'
  <2>1. Cardinality(disk.seen) <= Cardinality(st.seen)
    BY FS_Subset DEF IInv, Lags, StateFits
  <2>. QED BY <1>1, <2>1, Numbers DEF IInv, CallsCounted, Basis, Lags
<1>7. CallFits' /\ RowsFit' /\ CurrentPlanIsActive' /\ Completed'
  BY <1>1 DEF IInv, CallFits, RowsFit, CurrentPlanIsActive, Completed
<1>. QED BY <1>2, <1>4, <1>5, <1>6, <1>7 DEF IInv

----------------------------------------------------------------------------
LEMMA IInvInit == Init => IInv
<1>. SUFFICES ASSUME Init PROVE IInv
  OBVIOUS
<1>1. /\ st = InitialState /\ disk = InitialState /\ calling = FALSE /\ handler = "none" /\ cancel = FALSE
      /\ planRows = {} /\ currentPlan = NoPlan.id /\ outcome = "none" /\ up = TRUE
      /\ crashes = 0 /\ started = 0 /\ late = 0 /\ wins = 0
  BY DEF Init
<1>2. /\ InitialState.node = "route_query" /\ InitialState.status = "going" /\ InitialState.index = 1
      /\ InitialState.runtime = <<>> /\ InitialState.plan = NoPlan /\ InitialState.seen = {}
      /\ InitialState.sufficient = FALSE /\ InitialState.calls = 0
  BY DEF InitialState
<1>3. InitialState \in StateType
  <2>1. "route_query" \in Nodes
    BY NodeSet
  <2>. QED BY <2>1, GraphAssumption DEF InitialState, StateType
<1>4. NoPlan.steps = <<>>
  BY DEF NoPlan
<1>5. StepsFit(InitialState)
  BY <1>2, <1>4 DEF StepsFit, Stepping, Answering
<1>6. StateFits(st) /\ StateFits(disk)
  BY <1>1, <1>2, <1>3, <1>5, FS_EmptySet DEF StateFits, EvidenceFits, NodeFits
<1>7. RestTyped
  <2>1. crashes \in 0..MaxCrashes /\ {started, late, wins} \subseteq Nat
    BY <1>1, GraphAssumption
  <2>2. calling \in BOOLEAN /\ cancel \in BOOLEAN /\ up \in BOOLEAN
    BY <1>1
  <2>3. planRows \subseteq [plan : Plans, active : BOOLEAN] /\ currentPlan \in Ids \cup {NoPlan.id}
    BY ONLY <1>1
  <2>. QED BY <1>1, <2>1, <2>2, <2>3 DEF RestTyped
<1>8. TypeOK
  BY <1>6, <1>7, TypeParts
<1>9. Lags /\ CallFits /\ CallsCounted /\ RowsFit /\ CurrentPlanIsActive /\ Completed
  BY <1>1, <1>2, FS_EmptySet DEF Lags, CallFits, CallsCounted, Basis, RowsFit, CurrentPlanIsActive, Completed
<1>. QED BY <1>6, <1>8, <1>9 DEF IInv

LEMMA IInvStep == IInv /\ [Next]_vars => IInv'
<1>. SUFFICES ASSUME IInv, [Next]_vars PROVE IInv'
  OBVIOUS
<1>1. CASE UNCHANGED vars
  <2>1. UNCHANGED <<st, disk, calling, handler, cancel, planRows, currentPlan, outcome, up, crashes, started, late, wins>>
    BY <1>1 DEF vars, plans, process
  <2>2. StateFits(st)' /\ StateFits(disk)'
    BY <2>1, StatesKept DEF IInv
  <2>3. TypeOK'
    BY <2>1 DEF IInv, TypeOK
  <2>4. Lags' /\ CallFits' /\ CallsCounted' /\ RowsFit' /\ CurrentPlanIsActive' /\ Completed'
    BY <2>1 DEF IInv, Lags, CallFits, NextCall, Current, CallsCounted, Basis, RowsFit, CurrentPlanIsActive, Completed
  <2>. QED BY <2>2, <2>3, <2>4 DEF IInv
<1>2. CASE SeeCancel \/ RouteQuery \/ CreatePlan \/ ValidatePlan
  BY <1>2, SeeCancelStep, RouteQueryStep, CreatePlanStep, ValidatePlanStep
<1>3. CASE ResolveStepArguments \/ MarkStepRunning
  BY <1>3, ResolveStep, MarkStep
<1>4. CASE ReuseResult \/ InvokeTool \/ ClearTool \/ StartTool \/ RefuseTool \/ FinishTool \/ ExceedBudget
  BY <1>4, ReuseStep, CallStep, CountedStep, ExceedBudgetStep
<1>5. CASE AssessEvidence \/ Replan \/ MarkRemainingStepsSkipped
  BY <1>5, AssessStep, ReplanStep, SkipStep
<1>6. CASE BuildContext \/ GenerateAnswer \/ ValidateCitations \/ VerifyClaims \/ FinalizeAnswer \/ FinishPartial
  BY <1>6, BuildContextStep, GenerateAnswerStep, ValidateCitationsStep, VerifyClaimsStep, FinalizeStep,
     FinishPartialStep
<1>7. CASE Publish \/ RequestCancel \/ Crash \/ Resume
  BY <1>7, PublishStep, RequestCancelStep, CrashStep, ResumeStep
<1>. QED BY <1>1, <1>2, <1>3, <1>4, <1>5, <1>6, <1>7 DEF Next, Node

\* The state, its checkpoint, the counts and the plan rows fit together in every reachable state.
THEOREM Invariance == Spec => []IInv
BY IInvInit, IInvStep, PTL DEF Spec

\* Tool handlers are started no more often than the budget says, whatever plans a model gives, but
\* for one call per death of the process whose result was not yet on disk (AgentBudget,
\* ResearchExecutor.execute, the checkpoints).
THEOREM CallsWithinBudgetTheorem == Spec => []CallsWithinBudget
<1>1. IInv => CallsWithinBudget
  <2>. SUFFICES ASSUME IInv PROVE started <= MaxToolCalls + crashes
    BY DEF CallsWithinBudget
  <2>1. /\ Basis.calls \in Nat /\ Basis.calls <= MaxToolCalls
        /\ handler = "running" => Basis.calls < MaxToolCalls
    BY StateFields, GraphAssumption DEF IInv, StateFits, CallFits, Basis
  <2>. QED BY <2>1, Numbers, GraphAssumption DEF IInv, CallsCounted
<1>. QED BY <1>1, Invariance, PTL

\* A call that succeeded is reused and not paid for again, but for one per death of the process
\* (the observations of ResearchExecutor.execute).
THEOREM SuccessPaidOnceTheorem == Spec => []SuccessPaidOnce
<1>1. IInv => SuccessPaidOnce
  <2>. SUFFICES ASSUME IInv PROVE wins <= Cardinality(st.seen) + crashes
    BY DEF SuccessPaidOnce
  <2>1. Cardinality(disk.seen) <= Cardinality(st.seen)
    BY FS_Subset DEF IInv, Lags, StateFits
  <2>. QED BY <2>1, Numbers DEF IInv, CallsCounted, Basis
<1>. QED BY <1>1, Invariance, PTL

\* What is published as completed has all its evidence and nobody has cancelled it
\* (finalize_answer with _publish_terminal).
THEOREM CompletedHasEvidenceTheorem == Spec => []CompletedHasEvidence
<1>1. IInv => CompletedHasEvidence
  BY DEF IInv, Completed, StateFits, EvidenceFits, CompletedHasEvidence
<1>. QED BY <1>1, Invariance, PTL

\* The types; the plan the run points to is the one active row and the newest, through replans,
\* deaths and nodes that are run again; and a completed run shows no step as open
\* (save_plan_version, mark_remaining_steps_skipped).
THEOREM PlansAreSoundTheorem == Spec => []PlansAreSound
<1>1. IInv => PlansAreSound
  BY DEF IInv, Completed, StateFits, EvidenceFits, AllClosed, Closed, NoStepLeftOpen, PlansAreSound
<1>. QED BY <1>1, Invariance, PTL

\* Before the cancellation no handler is late, and none is while the registry has yet to start the one
\* it has cleared.
LateFits == late \in {0, 1} /\ (~cancel \/ handler = "cleared" => late = 0)

LEMMA LateStep == LateFits /\ [Next]_vars => LateFits'
<1>. SUFFICES ASSUME LateFits, [Next]_vars PROVE LateFits'
  OBVIOUS
<1>. USE DEF LateFits
<1>1. CASE UNCHANGED <<late, cancel, handler>>
  BY <1>1
<1>2. CASE UNCHANGED vars
  BY <1>1, <1>2 DEF vars
<1>3. CASE SeeCancel \/ RouteQuery \/ CreatePlan \/ ValidatePlan \/ ResolveStepArguments \/ MarkStepRunning
  BY <1>1, <1>3 DEF SeeCancel, RouteQuery, CreatePlan, ValidatePlan, ResolveStepArguments, MarkStepRunning, Becomes,
     Raises
<1>4. CASE ReuseResult \/ InvokeTool \/ ExceedBudget \/ AssessEvidence \/ Replan
  BY <1>1, <1>4 DEF ReuseResult, InvokeTool, ExceedBudget, AssessEvidence, Replan, Becomes
<1>5. CASE ClearTool
  BY <1>5 DEF ClearTool, Cancelled
<1>6. CASE StartTool
  BY <1>6 DEF StartTool
<1>7. CASE RefuseTool \/ FinishTool
  BY <1>7 DEF RefuseTool, FinishTool, Counts
<1>8. CASE \/ MarkRemainingStepsSkipped \/ BuildContext \/ GenerateAnswer \/ ValidateCitations
           \/ VerifyClaims \/ FinalizeAnswer \/ FinishPartial
  BY <1>1, <1>8 DEF MarkRemainingStepsSkipped, BuildContext, GenerateAnswer, ValidateCitations, VerifyClaims,
     FinalizeAnswer, FinishPartial, Becomes, Raises
<1>9. CASE Publish \/ RequestCancel \/ Crash \/ Resume
  BY <1>9 DEF Publish, RequestCancel, Crash, Resume
<1>. QED BY <1>2, <1>3, <1>4, <1>5, <1>6, <1>7, <1>8, <1>9 DEF Next, Node

\* When the cancellation is on record, at most one more tool is started, by whatever node, plan or
\* process: the registry looks at the record before every handler, and does not ask what the state
\* says (ToolRegistry._invoke_impl, ResearchGraphRuntime.cancelled).
THEOREM OneToolAfterCancelTheorem == Spec => []OneToolAfterCancel
<1>1. Init => LateFits
  BY DEF Init, LateFits
<1>2. LateFits => OneToolAfterCancel
  BY DEF LateFits, OneToolAfterCancel
<1>. QED BY <1>1, <1>2, LateStep, PTL DEF Spec

----------------------------------------------------------------------------
\* Rule-based plans.

RuleRows == \A a \in planRows : a.plan = RulePlan(a.plan.version)

\* The rows and the run of a planner that has no model.
RInv == RuleRows /\ OnlyCancelledFails

LEMMA RuleRowsStep ==
    ASSUME ModelPlans = {}, IInv, RInv, [Next]_vars
    PROVE  RInv'
<1>. USE DEF RInv, RuleRows, OnlyCancelledFails, plans, process
<1>1. CASE \/ planRows' = planRows /\ cancel' = cancel /\ outcome' = outcome
           \/ planRows' = planRows /\ outcome' \in {"completed", "partial", "cancelled"}
           \/ planRows' = planRows /\ outcome = "none" /\ outcome' = outcome
  BY <1>1
<1>2. CASE CreatePlan
  <2>. DEFINE p == RulePlan(st.replans + 1)
  <2>1. Planned(st.replans + 1) = {p}
    BY DEF Planned
  <2>2. p.version = st.replans + 1 /\ p.id = <<"rule", st.replans + 1>> /\ p.id[2] = p.version
    BY DEF RulePlan
  <2>3. \A a \in planRows : a.plan.id[2] = a.plan.version
    <3>1. \A v : RulePlan(v).id[2] = v
      BY DEF RulePlan
    <3>. QED BY <3>1
  <2>4. KnownId(p) \/ VersionTaken(p) => SameRow(p)
    BY <2>2, <2>3 DEF KnownId, VersionTaken, SameRow
  <2>. HIDE DEF p
  <2>5. /\ planRows' = IF SameRow(p) THEN planRows ELSE Inserted(p)
        /\ cancel' = cancel /\ outcome' = outcome
    BY <1>2, <2>1, <2>4 DEF CreatePlan
  <2>6. CASE ~SameRow(p)
    <3>1. p = RulePlan(p.version)
      BY <2>2 DEF p
    <3>2. \A a \in Inserted(p) : a.plan = p \/ \E b \in planRows : a.plan = b.plan
      BY DEF Inserted, Row
    <3>. QED BY <2>5, <2>6, <3>1, <3>2
  <2>. QED BY <2>5, <2>6
<1>3. CASE ValidateCitations
  <2>1. Raises => cancel
    BY <1>3, GraphAssumption DEF ValidateCitations, Becomes, Raises, IInv, StateFits, NodeFits, At
  <2>. QED BY <1>3, <2>1 DEF ValidateCitations, Becomes, Raises
<1>. USE DEF Becomes
<1>4. CASE UNCHANGED vars
  BY <1>1, <1>4 DEF vars
<1>5. CASE SeeCancel \/ RouteQuery \/ ValidatePlan \/ ResolveStepArguments \/ MarkStepRunning
  BY <1>1, <1>5 DEF SeeCancel, RouteQuery, ValidatePlan, ResolveStepArguments, MarkStepRunning
<1>6. CASE \/ ReuseResult \/ InvokeTool \/ ClearTool \/ StartTool \/ RefuseTool \/ FinishTool \/ ExceedBudget
           \/ AssessEvidence \/ Replan
  BY <1>1, <1>6 DEF ReuseResult, InvokeTool, ClearTool, StartTool, RefuseTool, FinishTool, Counts, ExceedBudget,
     AssessEvidence, Replan
<1>7. CASE \/ MarkRemainingStepsSkipped \/ BuildContext \/ GenerateAnswer
           \/ VerifyClaims \/ FinalizeAnswer \/ FinishPartial
  BY <1>1, <1>7 DEF MarkRemainingStepsSkipped, BuildContext, GenerateAnswer, VerifyClaims, FinalizeAnswer,
     FinishPartial
<1>8. CASE Publish
  <2>1. planRows' = planRows /\ outcome' \in {"completed", "partial", "cancelled"}
    BY <1>8 DEF Publish
  <2>. QED BY <1>1, <2>1
<1>9. CASE RequestCancel \/ Crash \/ Resume
  <2>1. \/ planRows' = planRows /\ cancel' = cancel /\ outcome' = outcome
        \/ planRows' = planRows /\ outcome' \in {"completed", "partial", "cancelled"}
        \/ planRows' = planRows /\ outcome = "none" /\ outcome' = outcome
    BY <1>9 DEF RequestCancel, Crash, Resume
  <2>. QED BY <1>1, <2>1
<1>. QED BY <1>2, <1>3, <1>4, <1>5, <1>6, <1>7, <1>8, <1>9 DEF Next, Node

\* Without a model no plan clashes with a row and no answer is missing but after a cancellation: a
\* run fails only if it was cancelled (save_plan_version, validate_citations).
THEOREM OnlyCancelledFailsTheorem ==
    ASSUME ModelPlans = {}
    PROVE  Spec => []OnlyCancelledFails
<1>1. Init => RInv
  BY DEF Init, RInv, RuleRows, OnlyCancelledFails
<1>2. IInv /\ RInv /\ [Next]_vars => RInv'
  BY RuleRowsStep
<1>3. RInv => OnlyCancelledFails
  BY DEF RInv
<1>. QED BY <1>1, <1>2, <1>3, Invariance, PTL DEF Spec
=============================================================================
