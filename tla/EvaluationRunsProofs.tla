------------------------ MODULE EvaluationRunsProofs ------------------------
(***************************************************************************)
(* Proofs about EvaluationRuns.                                            *)
(***************************************************************************)
EXTENDS EvaluationRuns, FiniteSetTheorems, TLAPS

Outcome == Outcomes \cup {"none"}
TaskType == [pc : PCs, run : 0..Attempts, token : Tokens, beats : BOOLEAN,
             copy : Rows, goal : Statuses, known : [Cases -> Outcome],
             waiting : SUBSET Cases, busy : SUBSET Cases]
LeaseTable == [Runs -> [owner : Coordinators \cup {"nobody"}, token : Tokens, live : BOOLEAN]]
ClientTable == [Runs -> [pc : {"idle", "check", "write", "accepted"}, copy : Rows]]
EventTable == [stalls : 0..MaxEvents, others : 0..MaxEvents]
Stray == [run : Runs, case : Cases, pc : {"waiting", "busy"}]

\* The types of everything but the strays.
Typed ==
    /\ row \in [Runs -> Rows] /\ lease \in LeaseTable
    /\ results \in [Runs -> [Cases -> Outcome]] /\ metrics \in [Runs -> [Cases -> Outcome]]
    /\ task \in [Coordinators -> TaskType] /\ up \in [Coordinators -> BOOLEAN]
    /\ client \in ClientTable /\ events \in EventTable

\* The run of a task is there, and the results the task knows are stored.
Knows(t) ==
    /\ t.run \in Runs /\ row[t.run].status # "absent"
    /\ \A k \in Cases : t.known[k] # "none" => results[t.run][k] = t.known[k]

\* No case of the task is left.
CasesOver(t) == t.waiting = {} /\ t.busy = {}

\* A task knows its run; it measures when its cases are over, and what it takes for the metrics
\* of a completed run is what is stored.
Fits(t) ==
    /\ t.pc = "none" => t.token = 0 /\ CasesOver(t)
    /\ t.pc # "none" => Knows(t)
    /\ t.pc \in {"measure", "analyse"} => CasesOver(t)
    /\ t.pc \in {"check", "write"} /\ t.goal = "aggregating" => CasesOver(t)
    /\ t.pc = "analyse" /\ Whole(t.known) => metrics[t.run] = t.known
    /\ t.pc \in {"check", "write"} => t.goal # "absent"
    /\ t.pc \in {"check", "write"} /\ t.goal = "completed" => Whole(t.known) /\ metrics[t.run] = t.known

TasksFit == \A c \in Coordinators : Fits(task[c])

\* A request_cancel that has read a row has one that was not terminal.
ClientsFit ==
    \A r \in Runs : client[r].pc # "idle" => row[r].status # "absent" /\ client[r].copy.status \in Claimable

RowsFit == \A r \in Runs : row[r].status = "absent" => row[r] = NoRow

\* Cases that go on after their task are of a run that is there.
StraysFit ==
    /\ strays \in [Coordinators -> SUBSET Stray]
    /\ \A c \in Coordinators : \A s \in strays[c] : row[s.run].status # "absent"

\* The inductive invariant of the rows, the results and the metrics; StraysFit goes with it.
IInv == Typed /\ OneAttemptAtATime /\ CompletedIsWhole /\ RowsFit /\ ClientsFit /\ TasksFit

LEMMA TypeParts ==
    ASSUME Typed
    PROVE  /\ row \in [Runs -> Rows] /\ lease \in LeaseTable
           /\ results \in [Runs -> [Cases -> Outcome]] /\ metrics \in [Runs -> [Cases -> Outcome]]
           /\ task \in [Coordinators -> TaskType] /\ up \in [Coordinators -> BOOLEAN]
           /\ client \in ClientTable /\ events \in EventTable
  BY DEF Typed

LEMMA TypeWhole ==
    ASSUME row' \in [Runs -> Rows], lease' \in LeaseTable,
           results' \in [Runs -> [Cases -> Outcome]], metrics' \in [Runs -> [Cases -> Outcome]],
           task' \in [Coordinators -> TaskType], up' \in [Coordinators -> BOOLEAN],
           client' \in ClientTable, events' \in EventTable
    PROVE  Typed'
  BY DEF Typed

LEMMA NothingType == NoTask \in TaskType /\ NoRow \in Rows /\ NoResults \in [Cases -> Outcome]
<1>1. NoRow \in Rows /\ NoResults \in [Cases -> Outcome]
  BY DEF NoRow, NoResults, Rows, Statuses, Outcome
<1>2. 0 \in 0..Attempts /\ 0 \in Tokens
  BY EvaluationAssumption, FS_CardinalityType DEF Tokens
<1>. QED BY <1>1, <1>2 DEF NoTask, TaskType, PCs, Statuses

LEMMA SpendType ==
    ASSUME Typed, NEW kind \in {"stalls", "others"}, Spend(kind)
    PROVE  events' \in EventTable
<1>1. events \in EventTable /\ MaxEvents \in Nat
  BY TypeParts, EvaluationAssumption
<1>2. events.stalls + events.others < MaxEvents /\ events' = [events EXCEPT ![kind] = @ + 1]
  BY DEF Spend
<1>. QED BY <1>1, <1>2 DEF EventTable

\* A step of the store takes nothing back: no row, no result, no metrics.
Grows ==
    \A r \in Runs :
        /\ row[r].status # "absent" => row'[r].status # "absent"
        /\ \A k \in Cases : results[r][k] # "none" => results'[r][k] = results[r][k]
        /\ metrics[r] # NoResults => metrics'[r] = metrics[r]

LEMMA WholeIsSomething ==
    ASSUME NEW known, Whole(known)
    PROVE  known # NoResults
  BY EvaluationAssumption DEF Whole, NoResults, Judged

LEMMA OthersFit ==
    ASSUME NEW t \in TaskType, Fits(t), Grows
    PROVE  Fits(t)'
<1>2. t.pc # "none" => Knows(t)'
  BY DEF Fits, Grows, Knows
<1>3. t.pc # "none" /\ Whole(t.known) /\ metrics[t.run] = t.known => metrics'[t.run] = t.known
  BY WholeIsSomething DEF Fits, Grows, Knows
<1>. QED BY <1>2, <1>3 DEF Fits, Whole, CasesOver

\* A step that changes neither rows nor results, and one task at most.
LEMMA TaskOnly ==
    ASSUME IInv, NEW c \in Coordinators, NEW t \in TaskType, Fits(t), task' = [task EXCEPT ![c] = t],
           UNCHANGED <<row, results, metrics, client>>,
           lease' \in LeaseTable, up' \in [Coordinators -> BOOLEAN], events' \in EventTable
    PROVE  IInv'
<1>1. task \in [Coordinators -> TaskType] /\ Typed
  BY TypeParts DEF IInv
<1>2. task' \in [Coordinators -> TaskType] /\ \A d \in Coordinators : task'[d] = IF d = c THEN t ELSE task[d]
  BY <1>1
<1>3. Typed'
  <2>1. /\ row' \in [Runs -> Rows] /\ results' \in [Runs -> [Cases -> Outcome]]
        /\ metrics' \in [Runs -> [Cases -> Outcome]] /\ client' \in ClientTable
    BY <1>1, TypeParts
  <2>. QED BY <1>2, <2>1, TypeWhole
<1>4. TasksFit'
  BY <1>2 DEF IInv, TasksFit, Fits, Knows
<1>. QED BY <1>3, <1>4 DEF IInv, OneAttemptAtATime, CompletedIsWhole, RowsFit, ClientsFit

\* What a step of task c may assume of itself.
LEMMA Mine ==
    ASSUME IInv, NEW c \in Coordinators
    PROVE  /\ Typed /\ task \in [Coordinators -> TaskType] /\ task[c] \in TaskType /\ Fits(task[c])
           /\ lease \in LeaseTable /\ up \in [Coordinators -> BOOLEAN] /\ events \in EventTable
  BY TypeParts DEF IInv, TasksFit

\* Aims: the next status a task writes.
LEMMA AimsFits ==
    ASSUME NEW t \in TaskType, Knows(t), NEW goal \in Statuses \ {"absent"},
           goal = "completed" => Whole(t.known) /\ metrics[t.run] = t.known,
           goal = "aggregating" => CasesOver(t)
    PROVE  Aims(t, goal) \in TaskType /\ Fits(Aims(t, goal))
<1>. DEFINE new == Aims(t, goal)
<1>1. new \in TaskType
  BY DEF Aims, TaskType, PCs
<1>2. /\ new.pc = "check" /\ new.goal = goal /\ new.run = t.run /\ new.known = t.known
      /\ new.waiting = t.waiting /\ new.busy = t.busy
  BY DEF Aims, TaskType
<1>. HIDE DEF new
<1>3. Fits(new)
  BY <1>2 DEF Fits, Knows, CasesOver
<1>. QED BY <1>1, <1>3 DEF new

\* A task that goes on with what it has, to a step that asks for nothing more.
LEMMA GoesFits ==
    ASSUME NEW t \in TaskType, Knows(t), NEW pc \in PCs \ {"none", "analyse", "check", "write"},
           pc = "measure" => CasesOver(t)
    PROVE  [t EXCEPT !.pc = pc] \in TaskType /\ Fits([t EXCEPT !.pc = pc])
<1>. DEFINE new == [t EXCEPT !.pc = pc]
<1>1. new \in TaskType
  BY DEF TaskType
<1>2. /\ new.pc = pc /\ new.run = t.run /\ new.known = t.known
      /\ new.waiting = t.waiting /\ new.busy = t.busy
  BY DEF TaskType
<1>. HIDE DEF new
<1>3. Fits(new)
  BY <1>2 DEF Fits, Knows, CasesOver
<1>. QED BY <1>1, <1>3 DEF new

LEMMA ProceedFits ==
    ASSUME NEW t \in TaskType, Knows(t)
    PROVE  Proceed(t) \in TaskType /\ Fits(Proceed(t))
<1>1. [t EXCEPT !.pc = "list"] \in TaskType /\ Fits([t EXCEPT !.pc = "list"])
  BY GoesFits DEF PCs
<1>2. \A goal \in {"preparing", "cancelled", "running"} : Aims(t, goal) \in TaskType /\ Fits(Aims(t, goal))
  BY AimsFits DEF Statuses, Claimable, Terminal
<1>3. Proceed(t) \in {Aims(t, "preparing"), Aims(t, "cancelled"), Aims(t, "running"), [t EXCEPT !.pc = "list"]}
  BY DEF Proceed
<1>. QED BY <1>1, <1>2, <1>3

\* A task without a copy of its own reads one.
LEMMA CopyFits ==
    ASSUME NEW t \in TaskType, Fits(t), NEW copy \in Rows
    PROVE  [t EXCEPT !.copy = copy] \in TaskType /\ Fits([t EXCEPT !.copy = copy])
           /\ [t EXCEPT !.copy = copy].pc = t.pc
           /\ [t EXCEPT !.copy = copy].waiting = t.waiting /\ [t EXCEPT !.copy = copy].busy = t.busy
<1>. DEFINE new == [t EXCEPT !.copy = copy]
<1>1. new \in TaskType
  BY DEF TaskType
<1>2. /\ new.pc = t.pc /\ new.run = t.run /\ new.known = t.known /\ new.goal = t.goal
      /\ new.waiting = t.waiting /\ new.busy = t.busy /\ new.token = t.token
  BY DEF TaskType
<1>. HIDE DEF new
<1>3. Fits(new)
  BY <1>2 DEF Fits, Knows, CasesOver
<1>. QED BY <1>1, <1>2, <1>3 DEF new

\* The steps of a task in which it only reads.
LEMMA ReadingSteps ==
    ASSUME IInv, NEW c \in Coordinators,
           Open(c) \/ Collect(c) \/ MarkFailed(c)
    PROVE  IInv'
<1>0. /\ Typed /\ task[c] \in TaskType /\ Fits(task[c]) /\ task[c].pc # "none"
      /\ lease' \in LeaseTable /\ up' \in [Coordinators -> BOOLEAN] /\ events' \in EventTable
      /\ UNCHANGED <<row, results, metrics, client>>
  BY Mine DEF Open, Collect, MarkFailed, Me, store
<1>1. row[Run(c)] \in Rows /\ Knows(task[c])
  BY <1>0, TypeParts DEF Fits, Knows, Run
<1>. DEFINE me == [task[c] EXCEPT !.copy = row[Run(c)]]
<1>2. me \in TaskType /\ Knows(me) /\ me.waiting = task[c].waiting /\ me.busy = task[c].busy
  BY <1>0, <1>1, CopyFits DEF Fits
<1>3. [task[c] EXCEPT !.pc = "raised"] \in TaskType /\ Fits([task[c] EXCEPT !.pc = "raised"])
  BY <1>0, <1>1, GoesFits DEF PCs
<1>4. [task[c] EXCEPT !.pc = "leave"] \in TaskType /\ Fits([task[c] EXCEPT !.pc = "leave"])
  BY <1>0, <1>1, GoesFits DEF PCs
<1>5. Proceed(me) \in TaskType /\ Fits(Proceed(me))
  BY <1>0, <1>2, ProceedFits
<1>6. \A goal \in {"cancelled", "failed"} : Aims(me, goal) \in TaskType /\ Fits(Aims(me, goal))
  BY <1>2, AimsFits DEF Statuses, Claimable, Terminal
<1>7. [me EXCEPT !.pc = "raised"] \in TaskType /\ Fits([me EXCEPT !.pc = "raised"])
  BY <1>2, GoesFits DEF PCs
<1>8. Collect(c) => /\ Aims(me, "aggregating") \in TaskType /\ Fits(Aims(me, "aggregating"))
                    /\ [me EXCEPT !.pc = "measure"] \in TaskType /\ Fits([me EXCEPT !.pc = "measure"])
  <2>. SUFFICES ASSUME Collect(c)
                PROVE  /\ Aims(me, "aggregating") \in TaskType /\ Fits(Aims(me, "aggregating"))
                       /\ [me EXCEPT !.pc = "measure"] \in TaskType /\ Fits([me EXCEPT !.pc = "measure"])
    OBVIOUS
  <2>1. CasesOver(me)
    BY <1>2 DEF Collect, Me, CasesOver
  <2>. HIDE DEF me
  <2>2. Aims(me, "aggregating") \in TaskType /\ Fits(Aims(me, "aggregating"))
    BY <1>2, <2>1, AimsFits DEF Statuses, Claimable
  <2>3. [me EXCEPT !.pc = "measure"] \in TaskType /\ Fits([me EXCEPT !.pc = "measure"])
    BY <1>2, <2>1, GoesFits DEF PCs
  <2>. QED BY <2>2, <2>3
<1>9. \/ \E t \in {[task[c] EXCEPT !.pc = "raised"], [task[c] EXCEPT !.pc = "leave"], Proceed(me),
                   Aims(me, "cancelled"), Aims(me, "failed"), [me EXCEPT !.pc = "raised"]} :
             task' = [task EXCEPT ![c] = t]
      \/ /\ Collect(c)
         /\ \E t \in {Aims(me, "aggregating"), [me EXCEPT !.pc = "measure"]} : task' = [task EXCEPT ![c] = t]
  <2>. HIDE DEF me
  <2>1. CASE Open(c)
    BY <2>1 DEF Open, Becomes, Me, me
  <2>2. CASE Collect(c)
    <3>. DEFINE t == CASE me.copy.cancel                 -> Aims(me, "cancelled")
                       [] me.copy.status = "running"     -> Aims(me, "aggregating")
                       [] me.copy.status = "aggregating" -> [me EXCEPT !.pc = "measure"]
                       [] OTHER                          -> [me EXCEPT !.pc = "raised"]
    <3>1. task' = [task EXCEPT ![c] = t]
      BY <2>2, Zenon DEF Collect, Becomes, Me, me
    <3>2. t \in {Aims(me, "cancelled"), Aims(me, "aggregating"), [me EXCEPT !.pc = "measure"],
                 [me EXCEPT !.pc = "raised"]}
      OBVIOUS
    <3>. HIDE DEF t
    <3>. QED BY <2>2, <3>1, <3>2
  <2>3. CASE MarkFailed(c)
    BY <2>3 DEF MarkFailed, Becomes, Me, me
  <2>. QED BY <1>0, <2>1, <2>2, <2>3
<1>. HIDE DEF me
<1>. QED BY <1>0, <1>3, <1>4, <1>5, <1>6, <1>7, <1>8, <1>9, TaskOnly

LEMMA CaseSteps ==
    ASSUME IInv, NEW c \in Coordinators,
           ListResults(c) \/ \E k \in Cases : BeginCase(c, k)
    PROVE  IInv'
<1>0. /\ Typed /\ task[c] \in TaskType /\ Fits(task[c])
      /\ lease' \in LeaseTable /\ up' \in [Coordinators -> BOOLEAN] /\ events' \in EventTable
      /\ UNCHANGED <<row, results, metrics, client>>
  BY Mine DEF ListResults, BeginCase, store
<1>1. CASE ListResults(c)
  <2>. DEFINE stored == results[Run(c)]
              waiting == IF Me(c).copy.status = "running" THEN {k \in Cases : stored[k] = "none"} ELSE {}
              t == [task[c] EXCEPT !.pc = "cases", !.known = stored, !.waiting = waiting]
  <2>1. task' = [task EXCEPT ![c] = t] /\ task[c].pc # "none"
    BY <1>1 DEF ListResults, Becomes, Me
  <2>2. Run(c) \in Runs /\ row[Run(c)].status # "absent" /\ stored \in [Cases -> Outcome]
    BY <1>0, <2>1, TypeParts DEF Fits, Knows, CasesOver, Run
  <2>3. waiting \in SUBSET Cases
    OBVIOUS
  <2>. HIDE DEF waiting
  <2>4. t \in TaskType
    BY <1>0, <2>2, <2>3 DEF TaskType, PCs
  <2>5. t.pc = "cases" /\ t.run = Run(c) /\ t.known = results[t.run]
    BY <1>0 DEF TaskType, Run
  <2>. HIDE DEF t
  <2>6. Fits(t)
    BY <2>2, <2>5 DEF Fits, Knows, CasesOver
  <2>. QED BY <1>0, <2>1, <2>4, <2>6, TaskOnly
<1>2. ASSUME NEW k \in Cases, BeginCase(c, k) PROVE IInv'
  <2>. DEFINE busy == IF row[Run(c)].cancel THEN task[c].busy ELSE task[c].busy \cup {k}
              t == [task[c] EXCEPT !.waiting = task[c].waiting \ {k}, !.busy = busy]
  <2>1. task' = [task EXCEPT ![c] = t] /\ k \in task[c].waiting
    BY <1>0, <1>2 DEF BeginCase, Becomes, Me, TaskType
  <2>2. busy \in SUBSET Cases /\ task[c].waiting \ {k} \in SUBSET Cases
    BY <1>0 DEF TaskType
  <2>. HIDE DEF busy
  <2>3. t \in TaskType
    BY <1>0, <2>2 DEF TaskType
  <2>4. t.pc = task[c].pc /\ t.run = task[c].run /\ t.known = task[c].known /\ t.goal = task[c].goal
        /\ t.token = task[c].token
    BY <1>0 DEF TaskType
  <2>. HIDE DEF t
  <2>5. Fits(t)
    BY <1>0, <2>1, <2>4 DEF Fits, Knows, CasesOver
  <2>. QED BY <1>0, <2>1, <2>3, <2>5, TaskOnly
<1>. QED BY <1>1, <1>2

LEMMA UpdateSteps ==
    ASSUME IInv, NEW c \in Coordinators, Analyse(c) \/ CheckUpdate(c) \/ StoreRaises(c)
    PROVE  IInv'
<1>0. /\ Typed /\ task[c] \in TaskType /\ Fits(task[c]) /\ task[c].pc # "none"
      /\ lease' \in LeaseTable /\ up' \in [Coordinators -> BOOLEAN] /\ events' \in EventTable
      /\ UNCHANGED <<row, results, metrics, client>>
  BY Mine, SpendType DEF Analyse, CheckUpdate, StoreRaises, Me, store
<1>. Knows(task[c])
  BY <1>0 DEF Fits
<1>1. \A pc \in {"raised", "leave"} : [task[c] EXCEPT !.pc = pc] \in TaskType /\ Fits([task[c] EXCEPT !.pc = pc])
  BY <1>0, GoesFits DEF PCs
<1>2. task[c].pc = "check" => [task[c] EXCEPT !.pc = "write"] \in TaskType /\ Fits([task[c] EXCEPT !.pc = "write"])
  <2>. SUFFICES ASSUME task[c].pc = "check"
                PROVE  [task[c] EXCEPT !.pc = "write"] \in TaskType /\ Fits([task[c] EXCEPT !.pc = "write"])
    OBVIOUS
  <2>. DEFINE t == [task[c] EXCEPT !.pc = "write"]
  <2>1. t \in TaskType
    BY <1>0 DEF TaskType, PCs
  <2>2. /\ t.pc = "write" /\ t.run = task[c].run /\ t.known = task[c].known /\ t.goal = task[c].goal
        /\ t.waiting = task[c].waiting /\ t.busy = task[c].busy
    BY <1>0 DEF TaskType
  <2>. HIDE DEF t
  <2>3. Fits(t)
    BY <1>0, <2>2 DEF Fits, Knows, CasesOver
  <2>. QED BY <2>1, <2>3 DEF t
<1>3. task[c].pc = "analyse" =>
         LET goal == IF Whole(task[c].known) THEN "completed" ELSE "partial"
         IN  Aims(task[c], goal) \in TaskType /\ Fits(Aims(task[c], goal))
  <2>1. CASE Whole(task[c].known)
    BY <1>0, <2>1, AimsFits DEF Statuses, Terminal, Fits, Knows, CasesOver
  <2>2. CASE ~Whole(task[c].known)
    BY <1>0, <2>2, AimsFits DEF Statuses, Terminal
  <2>. QED BY <2>1, <2>2
<1>4. CASE Analyse(c)
  BY <1>0, <1>1, <1>3, <1>4, TaskOnly DEF Analyse, Becomes, Goes, Me
<1>5. CASE CheckUpdate(c)
  <2>. DEFINE pc == CASE Passes(Run(c), Me(c).goal) -> "write"
                      [] Me(c).goal = "failed"      -> "leave"
                      [] OTHER                      -> "raised"
  <2>1. pc \in {"write", "leave", "raised"}
    OBVIOUS
  <2>2. Goes(c, pc) /\ task[c].pc = "check"
    BY <1>5, Zenon DEF CheckUpdate, Me
  <2>. HIDE DEF pc
  <2>3. task' = [task EXCEPT ![c] = [task[c] EXCEPT !.pc = pc]]
    BY <2>2, Zenon DEF Goes, Becomes, Me
  <2>4. [task[c] EXCEPT !.pc = pc] \in TaskType /\ Fits([task[c] EXCEPT !.pc = pc])
    BY <1>1, <1>2, <2>1, <2>2
  <2>. QED BY <1>0, <2>3, <2>4, TaskOnly
<1>6. CASE StoreRaises(c)
  <2>. DEFINE pc == IF Me(c).pc = "raised" \/ Me(c).goal = "failed" THEN "leave" ELSE "raised"
  <2>1. pc \in {"leave", "raised"}
    OBVIOUS
  <2>2. Goes(c, pc)
    BY <1>6, Zenon DEF StoreRaises
  <2>. HIDE DEF pc
  <2>3. task' = [task EXCEPT ![c] = [task[c] EXCEPT !.pc = pc]]
    BY <2>2, Zenon DEF Goes, Becomes, Me
  <2>4. [task[c] EXCEPT !.pc = pc] \in TaskType /\ Fits([task[c] EXCEPT !.pc = pc])
    BY <1>1, <2>1
  <2>. QED BY <1>0, <2>3, <2>4, TaskOnly
<1>. QED BY <1>4, <1>5, <1>6

\* There is a token that neither the lease of a run nor another task has (acquire_lease).
LEMMA FreshTokenExists ==
    ASSUME Typed, NEW c \in Coordinators, NEW r \in Runs, task[c].token = 0
    PROVE  /\ FreshToken(r) \in 1..(Cardinality(Coordinators) + 1)
           /\ FreshToken(r) # lease[r].token
           /\ \A d \in Coordinators : FreshToken(r) # task[d].token
<1>. DEFINE N == Cardinality(Coordinators)
            Drawn == 1..(N + 1)
            Unused(t) == t # lease[r].token /\ \A d \in Coordinators : t # task[d].token
            Holder(t) == CHOOSE d \in Coordinators : t = task[d].token
            user == [t \in Drawn |-> IF t = lease[r].token THEN c ELSE Holder(t)]
<1>1. IsFiniteSet(Coordinators) /\ N \in Nat
  BY EvaluationAssumption, FS_CardinalityType
<1>2. IsFiniteSet(Drawn) /\ Cardinality(Drawn) = N + 1
  BY <1>1, FS_Interval, N + 1 \in Int, ~(1 > N + 1), (N + 1) - 1 + 1 = N + 1
<1>3. SUFFICES ASSUME \A t \in Drawn : ~Unused(t)
               PROVE  FALSE
  BY DEF FreshToken
<1>4. \A t \in Drawn : t # lease[r].token =>
          Holder(t) \in Coordinators \ {c} /\ t = task[Holder(t)].token
  <2>. SUFFICES ASSUME NEW t \in Drawn, t # lease[r].token
                PROVE  Holder(t) \in Coordinators \ {c} /\ t = task[Holder(t)].token
    OBVIOUS
  <2>1. PICK d \in Coordinators : t = task[d].token
    BY <1>3
  <2>2. Holder(t) \in Coordinators /\ t = task[Holder(t)].token
    BY <2>1
  <2>3. t # 0
    BY <1>1
  <2>. QED BY <2>2, <2>3
<1>5. user \in [Drawn -> Coordinators]
  BY <1>4
<1>6. PICK x, y \in Drawn : x # y /\ user[x] = user[y]
  <2>1. Cardinality(Coordinators) < Cardinality(Drawn)
    BY <1>1, <1>2
  <2>. HIDE DEF user, N, Drawn
  <2>. QED BY <1>1, <1>2, <1>5, <2>1, FS_PigeonHole, Zenon
<1>7. user[x] = (IF x = lease[r].token THEN c ELSE Holder(x))
  OBVIOUS
<1>8. user[y] = (IF y = lease[r].token THEN c ELSE Holder(y))
  OBVIOUS
<1>. QED BY <1>4, <1>6, <1>7, <1>8

\* The task that Claim makes.
Fresh(r) == [NoTask EXCEPT !.pc = "open", !.run = r, !.token = FreshToken(r), !.beats = TRUE]

LEMMA ClaimStep ==
    ASSUME IInv, NEW c \in Coordinators, NEW r \in Runs, Claim(c, r)
    PROVE  /\ IInv'
           /\ lease' = [lease EXCEPT ![r] = [owner |-> c, token |-> FreshToken(r), live |-> TRUE]]
           /\ task' = [task EXCEPT ![c] = Fresh(r)]
           /\ Fresh(r).pc = "open" /\ Fresh(r).run = r /\ Fresh(r).token = FreshToken(r) /\ Fresh(r).beats
<1>1. /\ lease' = [lease EXCEPT ![r] = [owner |-> c, token |-> FreshToken(r), live |-> TRUE]]
      /\ task' = [task EXCEPT ![c] = Fresh(r)]
  BY DEF Claim, Fresh
<1>2. task[c].pc = "none" /\ task[c].token = 0
  BY Mine DEF Claim, Active, Fits, Knows, CasesOver
<1>3. FreshToken(r) \in Tokens
  <2>1. FreshToken(r) \in 1..(Cardinality(Coordinators) + 1)
    BY <1>2, Mine, FreshTokenExists
  <2>. QED BY <2>1, EvaluationAssumption, FS_CardinalityType DEF Tokens
<1>4. r \in 0..Attempts /\ row[r].status # "absent"
  BY EvaluationAssumption DEF Runs, Claim, Claimable
<1>. DEFINE t == Fresh(r)
<1>5. t \in TaskType
  BY <1>3, <1>4, NothingType DEF Fresh, TaskType, PCs
<1>6. t.pc = "open" /\ t.run = r /\ t.token = FreshToken(r) /\ t.beats /\ t.known = NoTask.known
  BY NothingType DEF Fresh, TaskType
<1>7. \A k \in Cases : t.known[k] = "none"
  BY <1>6 DEF NoTask, NoResults
<1>. HIDE DEF t
<1>8. Fits(t)
  BY <1>4, <1>6, <1>7 DEF Fits, Knows, CasesOver
<1>9. lease' \in LeaseTable
  BY <1>1, <1>3, Mine DEF LeaseTable
<1>10. UNCHANGED <<row, results, metrics, up, client, events>>
  BY DEF Claim
<1>11. IInv'
  BY <1>1, <1>5, <1>8, <1>9, <1>10, Mine, TaskOnly DEF t
<1>. QED BY <1>1, <1>6, <1>11 DEF t

Deaf(c) == [task[c] EXCEPT !.beats = FALSE]

LEMMA DeafFits ==
    ASSUME NEW c \in Coordinators, task[c] \in TaskType, Fits(task[c])
    PROVE  /\ Deaf(c) \in TaskType /\ Fits(Deaf(c)) /\ ~Deaf(c).beats
           /\ Deaf(c).pc = task[c].pc /\ Deaf(c).run = task[c].run /\ Deaf(c).token = task[c].token
<1>. DEFINE t == [task[c] EXCEPT !.beats = FALSE]
<1>1. t \in TaskType
  BY DEF TaskType
<1>2. /\ t.pc = task[c].pc /\ t.run = task[c].run /\ t.known = task[c].known /\ t.goal = task[c].goal
      /\ t.waiting = task[c].waiting /\ t.busy = task[c].busy /\ t.token = task[c].token /\ ~t.beats
  BY DEF TaskType
<1>. HIDE DEF t
<1>3. Fits(t)
  BY <1>2 DEF Fits, Knows, CasesOver
<1>. QED BY <1>1, <1>2, <1>3 DEF t, Deaf

LEMMA NoTaskFits == NoTask \in TaskType /\ Fits(NoTask) /\ NoTask.pc = "none"
  BY NothingType DEF Fits, Knows, CasesOver, NoTask

LEMMA LeaseRewritten ==
    ASSUME Typed, NEW r \in Runs, NEW b \in BOOLEAN
    PROVE  [lease EXCEPT ![r].live = b] \in LeaseTable /\ [lease EXCEPT ![r] = NoLease] \in LeaseTable
<1>1. lease \in LeaseTable /\ 0 \in Tokens
  BY TypeParts, EvaluationAssumption, FS_CardinalityType DEF Tokens
<1>2. NoLease \in [owner : Coordinators \cup {"nobody"}, token : Tokens, live : BOOLEAN]
  BY <1>1 DEF NoLease
<1>. QED BY <1>1, <1>2 DEF LeaseTable

LEMMA ReleasedType ==
    ASSUME IInv, NEW c \in Coordinators, Active(c)
    PROVE  Released(c) \in LeaseTable /\ Run(c) \in Runs
<1>1. Run(c) \in Runs
  BY Mine DEF Fits, Knows, CasesOver, Run, Active
<1>. QED BY <1>1, Mine, LeaseRewritten DEF Released

LEMMA LeaseSteps ==
    ASSUME IInv, NEW c \in Coordinators,
           Renew(c) \/ LoseHeartbeat(c) \/ Leave(c) \/ Stop(c) \/ Crash(c) \/ Start(c)
    PROVE  IInv'
<1>0. /\ Typed /\ task \in [Coordinators -> TaskType] /\ task[c] \in TaskType /\ Fits(task[c])
      /\ lease \in LeaseTable /\ up \in [Coordinators -> BOOLEAN] /\ events \in EventTable
      /\ UNCHANGED <<row, results, metrics, client>>
  BY Mine DEF Renew, LoseHeartbeat, Leave, Stop, Crash, Start, store
<1>1. task' = task => task' = [task EXCEPT ![c] = task[c]]
  BY <1>0
<1>2. CASE Renew(c)
  <2>1. Run(c) \in Runs /\ [lease EXCEPT ![Run(c)].live = TRUE] \in LeaseTable
    BY <1>0, <1>2, LeaseRewritten DEF Renew, Active, Fits, Knows, CasesOver, Run
  <2>2. task' = task \/ task' = [task EXCEPT ![c] = Deaf(c)]
    BY <1>0, <1>2 DEF Renew, Deaf
  <2>3. lease' \in LeaseTable /\ up' = up /\ events' = events
    BY <1>0, <1>2, <2>1 DEF Renew, Run
  <2>. QED BY <1>0, <1>1, <2>2, <2>3, DeafFits, TaskOnly
<1>3. CASE LoseHeartbeat(c)
  <2>1. task' = [task EXCEPT ![c] = Deaf(c)] /\ lease' = lease /\ up' = up /\ events' \in EventTable
    BY <1>0, <1>3, SpendType DEF LoseHeartbeat, Deaf, store
  <2>. QED BY <1>0, <2>1, DeafFits, TaskOnly
<1>4. CASE Leave(c)
  <2>1. Active(c) /\ lease' = Released(c) /\ up' = up /\ events' = events
    BY <1>4 DEF Leave, Me, Active
  <2>2. task' = [task EXCEPT ![c] = NoTask]
    BY <1>4 DEF Leave, Becomes
  <2>. QED BY <1>0, <2>1, <2>2, NoTaskFits, ReleasedType, TaskOnly
<1>5. CASE Stop(c)
  <2>1. task' = [task EXCEPT ![c] = NoTask] /\ events' \in EventTable
    BY <1>0, <1>5, SpendType DEF Stop, Becomes
  <2>2. lease' \in LeaseTable /\ up' \in [Coordinators -> BOOLEAN]
    BY <1>0, <1>5, ReleasedType DEF Stop
  <2>. QED BY <1>0, <2>1, <2>2, NoTaskFits, TaskOnly
<1>6. CASE Crash(c)
  <2>1. task' = [task EXCEPT ![c] = NoTask] /\ lease' = lease /\ events' \in EventTable
    BY <1>0, <1>6, SpendType DEF Crash, Becomes, store
  <2>2. up' \in [Coordinators -> BOOLEAN]
    BY <1>0, <1>6 DEF Crash
  <2>. QED BY <1>0, <2>1, <2>2, NoTaskFits, TaskOnly
<1>7. CASE Start(c)
  <2>1. task' = task /\ lease' = lease /\ events' = events /\ up' \in [Coordinators -> BOOLEAN]
    BY <1>0, <1>7 DEF Start, store
  <2>. QED BY <1>0, <1>1, <2>1, TaskOnly
<1>. QED BY <1>2, <1>3, <1>4, <1>5, <1>6, <1>7

\* What a write of one row has to bring for the rows to stay sound.
LEMMA RowWritten ==
    ASSUME IInv, NEW r \in Runs, NEW new \in Rows, new.status # "absent",
           row' = [row EXCEPT ![r] = new], UNCHANGED <<results, metrics>>,
           ~Decided(r),
           row[r].status = "absent" => r = 1 \/ row[r - 1].status \in Terminal \ {"completed"},
           new.status = "completed" => Whole(results[r]) /\ metrics[r] = results[r]
    PROVE  Grows /\ row' \in [Runs -> Rows] /\ OneAttemptAtATime' /\ CompletedIsWhole' /\ RowsFit'
<1>1. row \in [Runs -> Rows] /\ Runs \subseteq Nat
  BY TypeParts DEF IInv, Runs
<1>2. row' \in [Runs -> Rows] /\ row'[r] = new /\ \A s \in Runs \ {r} : row'[s] = row[s]
  BY <1>1
<1>3. OneAttemptAtATime'
  <2>. SUFFICES ASSUME NEW q \in Runs, NEW s \in Runs, q < s, row'[s] # NoRow
                PROVE  row'[q].status \in Terminal \ {"completed"}
    BY DEF OneAttemptAtATime
  <2>1. CASE s # r \/ row[s] # NoRow
    <3>1. row[q].status \in Terminal \ {"completed"}
      BY <1>2, <2>1 DEF IInv, OneAttemptAtATime
    <3>2. q # r
      BY <3>1 DEF Decided
    <3>. QED BY <1>2, <3>1, <3>2
  <2>2. CASE s = r /\ row[s] = NoRow
    <3>1. row[r - 1].status \in Terminal \ {"completed"} /\ r \in 1..Attempts /\ q \in 1..Attempts
      BY <2>2, EvaluationAssumption DEF NoRow, Runs
    <3>2. CASE q = r - 1
      BY <1>1, <1>2, <2>2, <3>1, <3>2
    <3>3. CASE q # r - 1
      <4>1. q < r - 1 /\ r - 1 \in Runs
        BY <1>1, <2>2, <3>1, <3>3, EvaluationAssumption DEF Runs
      <4>2. row[r - 1] # NoRow
        BY <3>1 DEF NoRow, Terminal
      <4>3. row[q].status \in Terminal \ {"completed"}
        BY <4>1, <4>2 DEF IInv, OneAttemptAtATime
      <4>. QED BY <1>1, <1>2, <2>2, <4>3
    <3>. QED BY <3>2, <3>3
  <2>. QED BY <2>1, <2>2
<1>4. CompletedIsWhole'
  BY <1>2 DEF IInv, CompletedIsWhole, Whole
<1>5. RowsFit' /\ Grows
  BY <1>2 DEF IInv, RowsFit, Grows
<1>. QED BY <1>2, <1>3, <1>4, <1>5

\* The parts together, when a step takes nothing back.
LEMMA PartsTogether ==
    ASSUME IInv, Grows, Typed', OneAttemptAtATime', CompletedIsWhole', RowsFit', ClientsFit',
           \A d \in Coordinators : task'[d] = task[d] \/ Fits(task[d])'
    PROVE  IInv'
<1>1. ASSUME NEW d \in Coordinators, task'[d] = task[d]
      PROVE  Fits(task[d])'
  <2>1. PICK t \in TaskType : t = task[d] /\ Fits(t)
    BY Mine
  <2>2. Fits(t)'
    BY <2>1, OthersFit
  <2>. QED BY <1>1, <2>1, <2>2 DEF Fits, Knows, CasesOver
<1>2. TasksFit'
  BY <1>1 DEF TasksFit
<1>. QED BY <1>2 DEF IInv

\* The steps of the clients and of the clock.
LEMMA ClientSteps ==
    ASSUME IInv,
           PrepareRun \/ \E r \in Runs : Retry(r) \/ ReadToCancel(r) \/ CheckCancel(r) \/ WriteCancel(r)
                                       \/ Expire(r) \/ Stall(r)
    PROVE  IInv'
<1>0. /\ row \in [Runs -> Rows] /\ lease \in LeaseTable /\ client \in ClientTable /\ events \in EventTable
      /\ results \in [Runs -> [Cases -> Outcome]] /\ metrics \in [Runs -> [Cases -> Outcome]]
      /\ task \in [Coordinators -> TaskType] /\ up \in [Coordinators -> BOOLEAN] /\ Typed
  BY TypeParts DEF IInv
<1>1. ASSUME NEW r \in Runs, row[r] = NoRow, row' = [row EXCEPT ![r].status = "queued"],
             r = 1 \/ row[r - 1].status \in Terminal \ {"completed"},
             UNCHANGED <<lease, results, metrics, task, up, client>>, events' \in EventTable
      PROVE  IInv'
  <2>. DEFINE new == [row[r] EXCEPT !.status = "queued"]
  <2>1. new \in Rows /\ new.status = "queued" /\ row' = [row EXCEPT ![r] = new]
    BY <1>0, <1>1 DEF Rows, Statuses, Claimable
  <2>2. row[r].status = "absent"
    BY <1>1 DEF NoRow
  <2>. HIDE DEF new
  <2>3. ~Decided(r)
    BY <2>2 DEF Decided, Terminal
  <2>4. Grows /\ row' \in [Runs -> Rows] /\ OneAttemptAtATime' /\ CompletedIsWhole' /\ RowsFit'
    BY <1>1, <2>1, <2>2, <2>3, RowWritten
  <2>5. ClientsFit'
    BY <1>1, <2>4 DEF IInv, ClientsFit, Grows
  <2>6. Typed'
    BY <1>0, <1>1, <2>4, TypeWhole
  <2>. QED BY <1>1, <2>4, <2>5, <2>6, PartsTogether
<1>2. CASE PrepareRun
  <2>1. 1 \in Runs
    BY EvaluationAssumption DEF Runs
  <2>. QED BY <1>0, <1>1, <1>2, <2>1 DEF PrepareRun
<1>3. ASSUME NEW r \in Runs, Retry(r)
      PROVE  IInv'
  <2>1. events' \in EventTable
    BY <1>0, <1>3, SpendType DEF Retry
  <2>2. row[r - 1].status \in Terminal \ {"completed"}
    BY <1>3 DEF Retry, Terminal
  <2>. QED BY <1>1, <1>3, <2>1, <2>2 DEF Retry
<1>4. ASSUME NEW r \in Runs, ReadToCancel(r) \/ CheckCancel(r)
      PROVE  IInv'
  <2>1. UNCHANGED <<row, lease, results, metrics, task, up, events>>
    BY <1>4 DEF ReadToCancel, CheckCancel, store
  <2>2. client' \in ClientTable /\ ClientsFit'
    <3>1. CASE ReadToCancel(r)
      <4>. DEFINE copy == [row[r] EXCEPT !.cancel = TRUE]
      <4>1. copy \in Rows /\ copy.status = row[r].status
        BY <1>0 DEF Rows
      <4>2. client' = [client EXCEPT ![r] = [pc |-> "check", copy |-> copy]]
        BY <3>1 DEF ReadToCancel
      <4>3. row[r].status \in Claimable
        BY <1>0, <3>1 DEF ReadToCancel, IInv, RowsFit, Decided, Rows, Statuses
      <4>. HIDE DEF copy
      <4>4. row[r].status # "absent"
        BY <4>3 DEF Claimable
      <4>. DEFINE request == [pc |-> "check", copy |-> copy]
      <4>5. /\ request \in [pc : {"idle", "check", "write", "accepted"}, copy : Rows]
            /\ request.copy.status \in Claimable
        BY <4>1, <4>3
      <4>. HIDE DEF request
      <4>6. client' \in ClientTable /\ \A s \in Runs : client'[s] = IF s = r THEN request ELSE client[s]
        BY <1>0, <4>2, <4>5 DEF ClientTable, request
      <4>. QED BY <2>1, <4>4, <4>5, <4>6 DEF IInv, ClientsFit
    <3>2. CASE CheckCancel(r)
      <4>. DEFINE on == [client[r] EXCEPT !.pc = "write"]
      <4>1. /\ on \in [pc : {"idle", "check", "write", "accepted"}, copy : Rows]
            /\ on.copy = client[r].copy /\ client[r].pc = "check"
        BY <1>0, <3>2 DEF ClientTable, CheckCancel
      <4>2. NoRequest.pc = "idle" /\ NoRequest \in [pc : {"idle", "check", "write", "accepted"}, copy : Rows]
        BY NothingType DEF NoRequest
      <4>3. PICK new \in {on, NoRequest} : client' = [client EXCEPT ![r] = new]
        BY <3>2 DEF CheckCancel
      <4>4. /\ new \in [pc : {"idle", "check", "write", "accepted"}, copy : Rows]
            /\ new.pc # "idle" => new.copy = client[r].copy
        BY <4>1, <4>2, <4>3
      <4>. HIDE DEF on
      <4>5. client' \in ClientTable /\ \A s \in Runs : client'[s] = IF s = r THEN new ELSE client[s]
        BY <1>0, <4>3, <4>4 DEF ClientTable
      <4>. QED BY <2>1, <4>1, <4>4, <4>5 DEF IInv, ClientsFit
    <3>. QED BY <1>4, <3>1, <3>2
  <2>3. Typed'
    BY <1>0, <2>1, <2>2, TypeWhole
  <2>4. OneAttemptAtATime' /\ CompletedIsWhole' /\ RowsFit' /\ Grows
    BY <2>1 DEF IInv, OneAttemptAtATime, CompletedIsWhole, RowsFit, Grows
  <2>. QED BY <2>1, <2>2, <2>3, <2>4, PartsTogether
<1>5. ASSUME NEW r \in Runs, WriteCancel(r)
      PROVE  IInv'
  <2>0. client[r].pc = "write" /\ UNCHANGED <<lease, results, metrics, task, up, events>>
    BY <1>5 DEF WriteCancel
  <2>1. CASE Decided(r)
    <3>1. row' = row /\ client' = [client EXCEPT ![r] = NoRequest]
      BY <1>5, <2>1 DEF WriteCancel
    <3>2. NoRequest.pc = "idle" /\ NoRequest \in [pc : {"idle", "check", "write", "accepted"}, copy : Rows]
      BY NothingType DEF NoRequest
    <3>3. client' \in ClientTable /\ ClientsFit'
      BY <1>0, <3>1, <3>2 DEF IInv, ClientsFit, ClientTable
    <3>4. Typed'
      BY <1>0, <2>0, <3>1, <3>3, TypeWhole
    <3>5. OneAttemptAtATime' /\ CompletedIsWhole' /\ RowsFit' /\ Grows
      BY <2>0, <3>1 DEF IInv, OneAttemptAtATime, CompletedIsWhole, RowsFit, Grows
    <3>. QED BY <2>0, <3>3, <3>4, <3>5, PartsTogether
  <2>2. CASE ~Decided(r)
    <3>. DEFINE new == client[r].copy
    <3>1. row' = [row EXCEPT ![r] = new] /\ client' = [client EXCEPT ![r].pc = "accepted"]
      BY <1>5, <2>2 DEF WriteCancel
    <3>2. new \in Rows /\ new.status \in Claimable /\ row[r].status # "absent"
      BY <1>0, <2>0 DEF IInv, ClientsFit, ClientTable
    <3>. HIDE DEF new
    <3>3. new.status # "absent" /\ new.status # "completed"
      BY <3>2 DEF Claimable
    <3>4. Grows /\ row' \in [Runs -> Rows] /\ OneAttemptAtATime' /\ CompletedIsWhole' /\ RowsFit'
      BY <2>0, <2>2, <3>1, <3>2, <3>3, RowWritten
    <3>5. client' \in ClientTable
      BY <1>0, <3>1 DEF ClientTable
    <3>6. ClientsFit'
      <4>1. \A s \in Runs : client'[s].pc # "idle" => client[s].pc # "idle" /\ client'[s].copy = client[s].copy
        BY <1>0, <2>0, <3>1 DEF ClientTable
      <4>. QED BY <3>4, <4>1 DEF IInv, ClientsFit, Grows
    <3>7. Typed'
      BY <1>0, <2>0, <3>4, <3>5, TypeWhole
    <3>. QED BY <2>0, <3>4, <3>6, <3>7, PartsTogether
  <2>. QED BY <2>1, <2>2
<1>6. ASSUME NEW r \in Runs, Expire(r) \/ Stall(r)
      PROVE  IInv'
  <2>1. lease' = [lease EXCEPT ![r].live = FALSE] /\ UNCHANGED <<row, results, metrics, task, up, client>>
    BY <1>6 DEF Expire, Stall
  <2>2. lease' \in LeaseTable
    BY <1>0, <2>1, LeaseRewritten
  <2>3. events' \in EventTable
    BY <1>0, <1>6, SpendType DEF Expire, Stall
  <2>4. Typed'
    BY <1>0, <2>1, <2>2, <2>3, TypeWhole
  <2>5. OneAttemptAtATime' /\ CompletedIsWhole' /\ RowsFit' /\ Grows /\ ClientsFit'
    BY <2>1 DEF IInv, OneAttemptAtATime, CompletedIsWhole, RowsFit, Grows, ClientsFit
  <2>. QED BY <2>1, <2>4, <2>5, PartsTogether
<1>. QED BY <1>2, <1>3, <1>4, <1>5, <1>6

\* The steps of a task that write to the store: a result, the metrics, the row.
LEMMA SaveStep ==
    ASSUME IInv, NEW c \in Coordinators, NEW k \in Cases, SaveResult(c, k)
    PROVE  IInv'
<1>0. /\ Typed /\ task \in [Coordinators -> TaskType] /\ task[c] \in TaskType /\ Fits(task[c])
      /\ row \in [Runs -> Rows] /\ lease \in LeaseTable /\ client \in ClientTable /\ events \in EventTable
      /\ results \in [Runs -> [Cases -> Outcome]] /\ metrics \in [Runs -> [Cases -> Outcome]]
      /\ up \in [Coordinators -> BOOLEAN] /\ UNCHANGED <<row, lease, metrics, up, client, events>>
  BY Mine, TypeParts DEF SaveResult
<1>. DEFINE r == Run(c)
            rest == task[c].busy \ {k}
<1>1. /\ k \in task[c].busy /\ r \in Runs /\ row[r].status # "absent" /\ rest \in SUBSET Cases
      /\ task[c].pc # "none"
  BY <1>0 DEF SaveResult, Me, Fits, Knows, CasesOver, Run, TaskType
<1>2. task[c].pc \notin {"measure", "analyse"} /\ (task[c].pc \in {"check", "write"} => task[c].goal # "aggregating")
  BY <1>0, <1>1 DEF Fits, CasesOver
<1>3. CASE results[r][k] = "none"
  <2>1. PICK o \in Outcomes :
           /\ results' = [results EXCEPT ![r][k] = o]
           /\ task' = [task EXCEPT ![c] = [task[c] EXCEPT !.busy = @ \ {k}, !.known[k] = o]]
    BY <1>3 DEF SaveResult, Becomes, Me
  <2>2. PICK known \in [Cases -> Outcome] :
           known = [task[c].known EXCEPT ![k] = o] /\ \A q \in Cases : known[q] = IF q = k THEN o ELSE task[c].known[q]
    <3>1. task[c].known \in [Cases -> Outcome] /\ o \in Outcome
      BY <1>0, <2>1 DEF TaskType, Outcome
    <3>2. [task[c].known EXCEPT ![k] = o] \in [Cases -> Outcome]
      BY <3>1
    <3>. QED BY <3>1, <3>2
  <2>. HIDE DEF rest
  <2>3. PICK t \in TaskType : t = [task[c] EXCEPT !.busy = rest, !.known = known]
    BY <1>0, <1>1, <2>2 DEF TaskType
  <2>4. task' = [task EXCEPT ![c] = t]
    BY <1>0, <2>1, <2>2, <2>3 DEF TaskType, rest
  <2>5. /\ t.pc = task[c].pc /\ t.run = r /\ t.known = known /\ t.goal = task[c].goal
        /\ t.token = task[c].token /\ t.waiting = task[c].waiting
    BY <1>0, <2>3 DEF TaskType, Run
  <2>6. t.run \in Runs /\ row[t.run].status # "absent"
    BY <1>1, <2>5
  <2>7. /\ results' \in [Runs -> [Cases -> Outcome]]
        /\ results'[r][k] = o
        /\ \A s \in Runs, q \in Cases : s # r \/ q # k => results'[s][q] = results[s][q]
    BY <1>0, <1>1, <2>1 DEF Outcome
  <2>8. Grows
    BY <1>0, <1>3, <2>7 DEF Grows
  <2>9. CompletedIsWhole'
    <3>. SUFFICES ASSUME NEW s \in Runs, row[s].status = "completed"
                  PROVE  Whole(results'[s]) /\ metrics[s] = results'[s]
      BY <1>0 DEF CompletedIsWhole, Whole
    <3>1. Whole(results[s]) /\ metrics[s] = results[s]
      BY DEF IInv, CompletedIsWhole
    <3>2. s # r
      BY <1>3, <3>1 DEF Whole, Judged
    <3>3. results'[s] = results[s]
      BY <1>0, <2>1, <3>2
    <3>. QED BY <3>1, <3>3
  <2>10. Fits(t)'
    <3>1. task[c].pc # "none" => \A q \in Cases : t.known[q] # "none" => results'[t.run][q] = t.known[q]
      BY <1>0, <1>1, <2>2, <2>5, <2>7 DEF Fits, Knows, Run
    <3>2. ~(task[c].pc \in {"check", "write"} /\ task[c].goal = "completed")
      BY <1>0, <1>3 DEF Fits, Knows, Whole, Judged, Run
    <3>3. task[c].pc \in {"check", "write"} => task[c].goal # "absent"
      BY <1>0 DEF Fits
    <3>4. t.pc # "none"
      BY <1>1, <2>5
    <3>5. t.pc # "none" => Knows(t)'
      BY <1>0, <2>5, <2>6, <3>1 DEF Knows
    <3>. QED BY <1>0, <1>2, <2>5, <2>6, <3>2, <3>3, <3>4, <3>5 DEF Fits
  <2>11. task' \in [Coordinators -> TaskType] /\ \A d \in Coordinators : task'[d] = IF d = c THEN t ELSE task[d]
    BY <1>0, <2>4
  <2>12. \A d \in Coordinators : task'[d] = task[d] \/ Fits(task[d])'
    BY <2>10, <2>11 DEF Fits, Knows, CasesOver
  <2>13. Typed'
    BY <1>0, <2>7, <2>11, TypeWhole
  <2>14. OneAttemptAtATime' /\ RowsFit' /\ ClientsFit'
    BY <1>0 DEF IInv, OneAttemptAtATime, RowsFit, ClientsFit
  <2>. QED BY <2>8, <2>9, <2>12, <2>13, <2>14, PartsTogether
<1>4. CASE results[r][k] # "none"
  <2>. DEFINE pc == IF task[c].pc = "cases" THEN "raised" ELSE task[c].pc
              t == [task[c] EXCEPT !.busy = rest, !.pc = pc]
  <2>1. task' = [task EXCEPT ![c] = t] /\ results' = results
    BY <1>4 DEF SaveResult, Becomes, Me
  <2>2. pc \in PCs
    BY <1>0 DEF TaskType, PCs
  <2>. HIDE DEF rest, pc
  <2>3. t \in TaskType
    BY <1>0, <1>1, <2>2 DEF TaskType
  <2>4. /\ t.pc = pc /\ t.run = r /\ t.known = task[c].known /\ t.goal = task[c].goal
        /\ t.token = task[c].token /\ t.waiting = task[c].waiting
    BY <1>0 DEF TaskType, Run
  <2>. HIDE DEF t
  <2>5. Fits(t)
    BY <1>0, <1>1, <1>2, <2>4 DEF Fits, Knows, Run, pc, CasesOver
  <2>. QED BY <1>0, <2>1, <2>3, <2>5, TaskOnly
<1>. QED BY <1>3, <1>4

LEMMA MeasureStep ==
    ASSUME IInv, NEW c \in Coordinators, Measure(c)
    PROVE  IInv'
<1>0. /\ Typed /\ task \in [Coordinators -> TaskType] /\ task[c] \in TaskType /\ Fits(task[c])
      /\ row \in [Runs -> Rows] /\ lease \in LeaseTable /\ client \in ClientTable /\ events \in EventTable
      /\ results \in [Runs -> [Cases -> Outcome]] /\ metrics \in [Runs -> [Cases -> Outcome]]
      /\ up \in [Coordinators -> BOOLEAN] /\ UNCHANGED <<row, lease, results, up, client, events>>
  BY Mine, TypeParts DEF Measure
<1>1. Knows(task[c]) /\ CasesOver(task[c]) /\ task[c].known \in [Cases -> Outcome]
  BY <1>0 DEF Measure, Me, Fits, TaskType
<1>2. CASE metrics[Run(c)] \notin {NoResults, task[c].known}
  <2>1. task' = [task EXCEPT ![c] = [task[c] EXCEPT !.pc = "raised"]] /\ metrics' = metrics
    BY <1>2 DEF Measure, Goes, Becomes, Me
  <2>2. [task[c] EXCEPT !.pc = "raised"] \in TaskType /\ Fits([task[c] EXCEPT !.pc = "raised"])
    BY <1>0, <1>1, GoesFits DEF PCs
  <2>. QED BY <1>0, <2>1, <2>2, TaskOnly
<1>3. CASE metrics[Run(c)] \in {NoResults, task[c].known}
  <2>1. /\ task' = [task EXCEPT ![c] = [task[c] EXCEPT !.pc = "analyse"]]
        /\ metrics' = [metrics EXCEPT ![Run(c)] = task[c].known]
    BY <1>3 DEF Measure, Goes, Becomes, Me
  <2>2. PICK t \in TaskType : t = [task[c] EXCEPT !.pc = "analyse"]
    BY <1>0 DEF TaskType, PCs
  <2>3. /\ t.pc = "analyse" /\ t.run = task[c].run /\ t.known = task[c].known
        /\ t.waiting = task[c].waiting /\ t.busy = task[c].busy
    BY <1>0, <2>2 DEF TaskType
  <2>4. t.run \in Runs /\ row[t.run].status # "absent" /\ Run(c) = t.run
    BY <1>1, <2>3 DEF Knows, Run
  <2>5. /\ metrics' \in [Runs -> [Cases -> Outcome]] /\ metrics'[t.run] = t.known
        /\ \A s \in Runs \ {t.run} : metrics'[s] = metrics[s]
    BY <1>0, <1>1, <2>1, <2>3, <2>4
  <2>6. Grows
    BY <1>0, <1>3, <2>3, <2>4, <2>5 DEF Grows
  <2>7. CompletedIsWhole'
    <3>. SUFFICES ASSUME NEW s \in Runs, row[s].status = "completed"
                  PROVE  Whole(results[s]) /\ metrics'[s] = results[s]
      BY <1>0 DEF CompletedIsWhole, Whole
    <3>1. Whole(results[s]) /\ metrics[s] = results[s]
      BY DEF IInv, CompletedIsWhole
    <3>. QED BY <2>6, <3>1, WholeIsSomething DEF Grows
  <2>8. Fits(t)'
    <3>1. Knows(t)'
      BY <1>0, <1>1, <2>3, <2>4 DEF Knows
    <3>2. CasesOver(t)
      BY <1>1, <2>3 DEF CasesOver
    <3>. QED BY <2>3, <2>5, <3>1, <3>2 DEF Fits, CasesOver
  <2>9. task' \in [Coordinators -> TaskType] /\ \A d \in Coordinators : task'[d] = IF d = c THEN t ELSE task[d]
    BY <1>0, <2>1, <2>2
  <2>10. \A d \in Coordinators : task'[d] = task[d] \/ Fits(task[d])'
    BY <2>8, <2>9 DEF Fits, Knows, CasesOver
  <2>11. Typed'
    BY <1>0, <2>5, <2>9, TypeWhole
  <2>12. OneAttemptAtATime' /\ RowsFit' /\ ClientsFit'
    BY <1>0 DEF IInv, OneAttemptAtATime, RowsFit, ClientsFit
  <2>. QED BY <2>6, <2>7, <2>10, <2>11, <2>12, PartsTogether
<1>. QED BY <1>2, <1>3

\* What a task has when its update is refused, or written.
LEMMA WriteStep ==
    ASSUME IInv, NEW c \in Coordinators, WriteUpdate(c)
    PROVE  IInv'
<1>0. /\ Typed /\ task \in [Coordinators -> TaskType] /\ task[c] \in TaskType /\ Fits(task[c])
      /\ row \in [Runs -> Rows] /\ lease \in LeaseTable /\ client \in ClientTable /\ events \in EventTable
      /\ results \in [Runs -> [Cases -> Outcome]] /\ metrics \in [Runs -> [Cases -> Outcome]]
      /\ up \in [Coordinators -> BOOLEAN] /\ UNCHANGED <<lease, results, metrics, up, client, events>>
  BY Mine, TypeParts DEF WriteUpdate
<1>1. /\ task[c].pc = "write" /\ Knows(task[c]) /\ task[c].goal \in Statuses \ {"absent"}
      /\ task[c].known \in [Cases -> Outcome] /\ task[c].copy \in Rows
  BY <1>0 DEF WriteUpdate, Me, Fits, TaskType
<1>2. CASE ~Writable(Run(c))
  <2>1. PICK pc \in {"leave", "raised"} : task' = [task EXCEPT ![c] = [task[c] EXCEPT !.pc = pc]] /\ row' = row
    BY <1>2 DEF WriteUpdate, Goes, Becomes, Me
  <2>2. [task[c] EXCEPT !.pc = pc] \in TaskType /\ Fits([task[c] EXCEPT !.pc = pc])
    BY <1>0, <1>1, <2>1, GoesFits DEF PCs
  <2>. QED BY <1>0, <2>1, <2>2, TaskOnly
<1>3. CASE Writable(Run(c))
  <2>1. PICK r \in Runs : r = Run(c) /\ row[r].status # "absent" /\ ~Decided(r)
    BY <1>1, <1>3 DEF Knows, Run, Writable
  <2>2. PICK new \in Rows : new = [task[c].copy EXCEPT !.status = task[c].goal] /\ new.status = task[c].goal
    <3>. DEFINE n == [task[c].copy EXCEPT !.status = task[c].goal]
    <3>1. n \in Rows /\ n.status = task[c].goal
      BY <1>1 DEF Rows
    <3>. HIDE DEF n
    <3>. QED BY <3>1 DEF n
  <2>3. row' = [row EXCEPT ![r] = new]
    BY <1>3, <2>1, <2>2 DEF WriteUpdate, Me
  <2>4. new.status = "completed" => Whole(results[r]) /\ metrics[r] = results[r]
    <3>. SUFFICES ASSUME new.status = "completed" PROVE Whole(results[r]) /\ metrics[r] = results[r]
      OBVIOUS
    <3>1. Whole(task[c].known) /\ metrics[r] = task[c].known
      BY <1>0, <1>1, <2>1, <2>2 DEF Fits, Run
    <3>2. \A k \in Cases : results[r][k] = task[c].known[k]
      BY <1>1, <2>1, <3>1 DEF Knows, Run, Whole, Judged
    <3>3. results[r] = task[c].known
      BY <1>0, <1>1, <2>1, <3>2
    <3>. QED BY <3>1, <3>3
  <2>5. Grows /\ row' \in [Runs -> Rows] /\ OneAttemptAtATime' /\ CompletedIsWhole' /\ RowsFit'
    BY <1>0, <1>1, <2>1, <2>2, <2>3, <2>4, RowWritten
  <2>6. PICK me \in TaskType : me = [task[c] EXCEPT !.copy = new, !.goal = "absent"]
    BY <1>0, <2>2 DEF TaskType, Statuses
  <2>7. /\ me.run = task[c].run /\ me.known = task[c].known
        /\ me.waiting = task[c].waiting /\ me.busy = task[c].busy
    BY <1>0, <2>6 DEF TaskType
  <2>8. Knows(me)
    BY <1>1, <2>7 DEF Knows
  <2>9. PICK t \in {[me EXCEPT !.pc = "leave"], [me EXCEPT !.pc = "measure"], Proceed(me)} :
           task' = [task EXCEPT ![c] = t] /\ (t = [me EXCEPT !.pc = "measure"] => new.status = "aggregating")
    <3>. DEFINE t == CASE new.status \in Terminal    -> [me EXCEPT !.pc = "leave"]
                       [] new.status = "aggregating" -> [me EXCEPT !.pc = "measure"]
                       [] OTHER                      -> Proceed(me)
    <3>1. task' = [task EXCEPT ![c] = t]
      BY <1>3, <2>2, <2>6, Zenon DEF WriteUpdate, Becomes, Me
    <3>2. new.status \in Terminal => t = [me EXCEPT !.pc = "leave"]
      BY DEF Terminal
    <3>3. new.status \notin Terminal /\ new.status # "aggregating" => t = Proceed(me)
      BY DEF Terminal
    <3>4. new.status = "aggregating" => t = [me EXCEPT !.pc = "measure"]
      BY DEF Terminal
    <3>. HIDE DEF t
    <3>5. [me EXCEPT !.pc = "leave"] # [me EXCEPT !.pc = "measure"]
      <4>1. [me EXCEPT !.pc = "leave"].pc = "leave" /\ [me EXCEPT !.pc = "measure"].pc = "measure"
        BY DEF TaskType
      <4>. QED BY <4>1
    <3>6. Proceed(me) # [me EXCEPT !.pc = "measure"]
      <4>1. Proceed(me) \in {Aims(me, "preparing"), Aims(me, "cancelled"), Aims(me, "running"), [me EXCEPT !.pc = "list"]}
        BY DEF Proceed
      <4>2. \A goal : Aims(me, goal).pc = "check"
        BY DEF Aims, TaskType
      <4>3. [me EXCEPT !.pc = "list"].pc = "list" /\ [me EXCEPT !.pc = "measure"].pc = "measure"
        BY DEF TaskType
      <4>. QED BY <4>1, <4>2, <4>3
    <3>. QED BY <3>1, <3>2, <3>3, <3>4, <3>5, <3>6
  <2>10. t \in TaskType /\ Fits(t)
    <3>1. [me EXCEPT !.pc = "leave"] \in TaskType /\ Fits([me EXCEPT !.pc = "leave"])
      BY <2>8, GoesFits DEF PCs
    <3>2. new.status = "aggregating" => [me EXCEPT !.pc = "measure"] \in TaskType /\ Fits([me EXCEPT !.pc = "measure"])
      <4>1. new.status = "aggregating" => CasesOver(me)
        BY <1>0, <1>1, <2>2, <2>7 DEF Fits, CasesOver
      <4>. QED BY <2>8, <4>1, GoesFits DEF PCs
    <3>3. Proceed(me) \in TaskType /\ Fits(Proceed(me))
      BY <2>8, ProceedFits
    <3>. QED BY <2>9, <3>1, <3>2, <3>3
  <2>11. PICK u \in TaskType : u = t /\ Fits(u)
    BY <2>10
  <2>12. Fits(u)'
    BY <2>5, <2>11, OthersFit
  <2>13. task' \in [Coordinators -> TaskType] /\ \A d \in Coordinators : task'[d] = IF d = c THEN u ELSE task[d]
    BY <1>0, <2>9, <2>11
  <2>14. \A d \in Coordinators : task'[d] = task[d] \/ Fits(task[d])'
    BY <2>12, <2>13 DEF Fits, Knows, CasesOver
  <2>15. Typed'
    BY <1>0, <2>5, <2>13, TypeWhole
  <2>16. ClientsFit'
    BY <1>0, <2>5 DEF IInv, ClientsFit, Grows
  <2>. QED BY <2>5, <2>14, <2>15, <2>16, PartsTogether
<1>. QED BY <1>2, <1>3

LEMMA IInvInit == Init => IInv
<1>. SUFFICES ASSUME Init PROVE IInv
  OBVIOUS
<1>1. 0 \in Tokens /\ 0 \in 0..MaxEvents
  BY EvaluationAssumption, FS_CardinalityType DEF Tokens
<1>2. Typed
  <2>1. row \in [Runs -> Rows] /\ results \in [Runs -> [Cases -> Outcome]] /\ metrics \in [Runs -> [Cases -> Outcome]]
    BY NothingType DEF Init
  <2>2. lease \in LeaseTable
    BY <1>1 DEF Init, NoLease, LeaseTable
  <2>3. task \in [Coordinators -> TaskType] /\ up \in [Coordinators -> BOOLEAN]
    BY NothingType DEF Init
  <2>4. NoRequest \in [pc : {"idle", "check", "write", "accepted"}, copy : Rows]
    BY NothingType DEF NoRequest
  <2>5. client \in ClientTable
    BY <2>4 DEF Init, ClientTable
  <2>6. events \in EventTable
    BY <1>1 DEF Init, EventTable
  <2>. QED BY <2>1, <2>2, <2>3, <2>5, <2>6 DEF Typed
<1>3. \A r \in Runs : row[r] = NoRow /\ NoRow.status = "absent" /\ client[r].pc = "idle"
  BY DEF Init, NoRow, NoRequest
<1>4. TasksFit
  BY NoTaskFits DEF Init, TasksFit
<1>. QED BY <1>2, <1>3, <1>4 DEF IInv, OneAttemptAtATime, CompletedIsWhole, RowsFit, ClientsFit

\* The steps of cases whose task is gone: a result is written where there was none.
LEMMA StraySteps ==
    ASSUME IInv, StraysFit, NEW c \in Coordinators, NEW s \in strays[c], BeginStray(c, s) \/ SaveStray(c, s)
    PROVE  IInv'
<1>0. /\ row \in [Runs -> Rows] /\ lease \in LeaseTable /\ client \in ClientTable /\ events \in EventTable
      /\ results \in [Runs -> [Cases -> Outcome]] /\ metrics \in [Runs -> [Cases -> Outcome]]
      /\ task \in [Coordinators -> TaskType] /\ up \in [Coordinators -> BOOLEAN]
      /\ UNCHANGED <<row, lease, metrics, task, up, client, events>>
  BY TypeParts DEF IInv, BeginStray, SaveStray, store
<1>1. PICK r \in Runs, k \in Cases : r = s.run /\ k = s.case
  BY DEF StraysFit, Stray
<1>2. results' = results \/ (results[r][k] = "none" /\ \E o \in Outcomes : results' = [results EXCEPT ![r][k] = o])
  BY <1>1 DEF BeginStray, SaveStray, store
<1>3. /\ results' \in [Runs -> [Cases -> Outcome]]
      /\ \A q \in Runs, j \in Cases : results[q][j] # "none" => results'[q][j] = results[q][j]
      /\ \A q \in Runs : results'[q] = results[q] \/ (\E j \in Cases : results[q][j] = "none")
  <2>1. CASE results' = results
    BY <1>0, <2>1
  <2>2. CASE results[r][k] = "none" /\ \E o \in Outcomes : results' = [results EXCEPT ![r][k] = o]
    <3>1. PICK o \in Outcome : results' = [results EXCEPT ![r][k] = o]
      BY <2>2 DEF Outcome
    <3>2. results' \in [Runs -> [Cases -> Outcome]]
      BY <1>0, <3>1
    <3>3. \A q \in Runs : q # r => results'[q] = results[q]
      BY <1>0, <3>1
    <3>4. \A j \in Cases : j # k => results'[r][j] = results[r][j]
      BY <1>0, <3>1
    <3>. QED BY <2>2, <3>2, <3>3, <3>4
  <2>. QED BY <1>2, <2>1, <2>2
<1>4. Typed'
  BY <1>0, <1>3, TypeWhole
<1>5. Grows
  BY <1>0, <1>3 DEF Grows
<1>6. CompletedIsWhole'
  <2>. SUFFICES ASSUME NEW q \in Runs, row[q].status = "completed"
                PROVE  Whole(results'[q]) /\ metrics[q] = results'[q]
    BY <1>0 DEF CompletedIsWhole, Whole
  <2>1. Whole(results[q]) /\ metrics[q] = results[q]
    BY DEF IInv, CompletedIsWhole
  <2>2. results'[q] = results[q]
    BY <1>3, <2>1 DEF Whole, Judged
  <2>. QED BY <2>1, <2>2
<1>7. OneAttemptAtATime' /\ RowsFit' /\ ClientsFit'
  BY <1>0 DEF IInv, OneAttemptAtATime, RowsFit, ClientsFit
<1>. QED BY <1>0, <1>4, <1>5, <1>6, <1>7, PartsTogether

LEMMA IInvStep == IInv /\ StraysFit /\ [Next]_vars => IInv'
<1>. SUFFICES ASSUME IInv, StraysFit, [Next]_vars PROVE IInv'
  OBVIOUS
<1>1. CASE PrepareRun \/ \E r \in Runs : Retry(r) \/ ReadToCancel(r) \/ CheckCancel(r) \/ WriteCancel(r)
                                        \/ Expire(r) \/ Stall(r)
  BY <1>1, ClientSteps
<1>2. CASE \E c \in Coordinators, r \in Runs : Claim(c, r)
  BY <1>2, ClaimStep
<1>3. CASE \E c \in Coordinators : Renew(c) \/ LoseHeartbeat(c) \/ Leave(c) \/ Stop(c) \/ Crash(c) \/ Start(c)
  BY <1>3, LeaseSteps
<1>4. CASE \E c \in Coordinators : Open(c) \/ Collect(c) \/ MarkFailed(c)
  BY <1>4, ReadingSteps
<1>5. CASE \E c \in Coordinators : ListResults(c) \/ \E k \in Cases : BeginCase(c, k)
  BY <1>5, CaseSteps
<1>6. CASE \E c \in Coordinators : Analyse(c) \/ CheckUpdate(c) \/ StoreRaises(c)
  BY <1>6, UpdateSteps
<1>7. CASE \E c \in Coordinators : Measure(c) \/ WriteUpdate(c) \/ \E k \in Cases : SaveResult(c, k)
  BY <1>7, MeasureStep, WriteStep, SaveStep
<1>8. CASE UNCHANGED vars
  BY <1>8 DEF vars, store, IInv, Typed, OneAttemptAtATime, CompletedIsWhole, RowsFit, ClientsFit, TasksFit,
     Fits, Knows
<1>9. CASE \E c \in Coordinators : \E s \in strays[c] : BeginStray(c, s) \/ SaveStray(c, s)
  BY <1>9, StraySteps
<1>. QED BY <1>1, <1>2, <1>3, <1>4, <1>5, <1>6, <1>7, <1>8, <1>9 DEF Next, TaskStep

\* No row goes away.
LEMMA RowsStay ==
    ASSUME IInv, [Next]_vars, NEW r \in Runs, row[r].status # "absent"
    PROVE  row'[r].status # "absent"
<1>0. row \in [Runs -> Rows]
  BY TypeParts DEF IInv
<1>1. CASE PrepareRun \/ \E s \in Runs : Retry(s)
  BY <1>0, <1>1 DEF PrepareRun, Retry, NoRow
<1>2. ASSUME NEW s \in Runs, WriteCancel(s)
      PROVE  row'[r].status # "absent"
  <2>1. row' = row \/ row' = [row EXCEPT ![s] = client[s].copy]
    BY <1>2 DEF WriteCancel
  <2>2. client[s].copy.status \in Claimable
    BY <1>2 DEF WriteCancel, IInv, ClientsFit
  <2>. QED BY <1>0, <2>1, <2>2 DEF Claimable
<1>3. ASSUME NEW c \in Coordinators, WriteUpdate(c)
      PROVE  row'[r].status # "absent"
  <2>1. task[c] \in TaskType /\ task[c].goal # "absent"
    BY <1>3, Mine DEF WriteUpdate, Me, Fits
  <2>2. task[c].copy \in Rows
    BY <2>1 DEF TaskType
  <2>3. row' = row \/ row' = [row EXCEPT ![Run(c)] = [task[c].copy EXCEPT !.status = task[c].goal]]
    BY <1>3 DEF WriteUpdate, Me
  <2>4. [task[c].copy EXCEPT !.status = task[c].goal].status = task[c].goal
    BY <2>2 DEF Rows
  <2>. QED BY <1>0, <2>1, <2>3, <2>4
<1>4. CASE row' = row
  BY <1>4
<1>5. CASE \E s \in Runs : ReadToCancel(s) \/ CheckCancel(s) \/ Expire(s) \/ Stall(s)
  BY <1>4, <1>5 DEF ReadToCancel, CheckCancel, Expire, Stall, store
<1>6. CASE \E c \in Coordinators :
              Renew(c) \/ LoseHeartbeat(c) \/ Leave(c) \/ Stop(c) \/ Crash(c) \/ Start(c)
              \/ (\E s \in Runs : Claim(c, s)) \/ \E s \in strays[c] : BeginStray(c, s) \/ SaveStray(c, s)
  BY <1>4, <1>6 DEF Renew, LoseHeartbeat, Leave, Stop, Crash, Start, Claim, BeginStray, SaveStray, store
<1>7. CASE \E c \in Coordinators :
              Open(c) \/ ListResults(c) \/ Collect(c) \/ MarkFailed(c) \/ Analyse(c) \/ CheckUpdate(c)
              \/ StoreRaises(c) \/ Measure(c) \/ \E k \in Cases : BeginCase(c, k) \/ SaveResult(c, k)
  BY <1>4, <1>7 DEF Open, ListResults, Collect, MarkFailed, Analyse, CheckUpdate, StoreRaises, Measure, BeginCase,
     SaveResult, store
<1>8. CASE UNCHANGED vars
  BY <1>4, <1>8 DEF vars, store
<1>. QED BY <1>1, <1>2, <1>3, <1>5, <1>6, <1>7, <1>8 DEF Next, TaskStep

\* Only a coordinator's own steps change what its tasks have left.
LEMMA StraysStep == IInv /\ StraysFit /\ [Next]_vars => StraysFit'
<1>. SUFFICES ASSUME IInv, StraysFit, [Next]_vars PROVE StraysFit'
  OBVIOUS
<1>1. ASSUME NEW c \in Coordinators, NEW new \in SUBSET Stray, strays' = [strays EXCEPT ![c] = new],
             \A s \in new : row[s.run].status # "absent"
      PROVE  StraysFit'
  <2>1. strays' \in [Coordinators -> SUBSET Stray] /\ \A d \in Coordinators : strays'[d] = IF d = c THEN new ELSE strays[d]
    BY <1>1 DEF StraysFit
  <2>2. ASSUME NEW d \in Coordinators, NEW s \in strays'[d] PROVE row'[s.run].status # "absent"
    <3>1. s \in Stray /\ row[s.run].status # "absent"
      BY <1>1, <2>1, <2>2 DEF StraysFit
    <3>2. s.run \in Runs
      BY <3>1 DEF Stray
    <3>. QED BY <3>1, <3>2, RowsStay
  <2>. QED BY <2>1, <2>2 DEF StraysFit
<1>2. ASSUME strays' = strays PROVE StraysFit'
  <2>1. ASSUME NEW d \in Coordinators, NEW s \in strays[d] PROVE row'[s.run].status # "absent"
    <3>1. s.run \in Runs /\ row[s.run].status # "absent"
      BY DEF StraysFit, Stray
    <3>. QED BY <3>1, RowsStay
  <2>. QED BY <1>2, <2>1 DEF StraysFit
<1>3. ASSUME NEW c \in Coordinators, Leave(c) PROVE StraysFit'
  <2>1. task[c] \in TaskType /\ Run(c) \in Runs /\ row[Run(c)].status # "absent"
    BY <1>3, Mine DEF Leave, Me, Fits, Knows, Run
  <2>2. Left(c) \in SUBSET Stray /\ \A s \in Left(c) : s.run = Run(c)
    BY <2>1 DEF Left, Stray, Me, TaskType
  <2>3. strays' = [strays EXCEPT ![c] = strays[c] \cup Left(c)]
    BY <1>3 DEF Leave
  <2>4. strays[c] \in SUBSET Stray /\ \A s \in strays[c] : row[s.run].status # "absent"
    BY DEF StraysFit
  <2>. HIDE DEF Stray, Left
  <2>5. (strays[c] \cup Left(c)) \in SUBSET Stray
    BY <2>2, <2>4
  <2>. QED BY <1>1, <2>1, <2>2, <2>3, <2>4, <2>5
<1>4. ASSUME NEW c \in Coordinators, Stop(c) \/ Crash(c) PROVE StraysFit'
  <2>1. strays' = [strays EXCEPT ![c] = {}]
    BY <1>4 DEF Stop, Crash
  <2>. QED BY <1>1, <2>1
<1>5. ASSUME NEW c \in Coordinators, NEW s \in strays[c], BeginStray(c, s) \/ SaveStray(c, s) PROVE StraysFit'
  <2>1. s \in Stray /\ strays[c] \in SUBSET Stray /\ \A q \in strays[c] : row[q.run].status # "absent"
    BY DEF StraysFit
  <2>2. PICK begun : begun = [s EXCEPT !.pc = "busy"]
    OBVIOUS
  <2>3. begun \in Stray /\ begun.run = s.run
    BY <2>1, <2>2 DEF Stray
  <2>4. PICK more \in {{}, {begun}} : strays' = [strays EXCEPT ![c] = (strays[c] \ {s}) \cup more]
    <3>1. CASE SaveStray(c, s)
      BY <3>1, (strays[c] \ {s}) \cup {} = strays[c] \ {s} DEF SaveStray
    <3>2. CASE BeginStray(c, s)
      BY <2>2, <3>2 DEF BeginStray
    <3>. QED BY <1>5, <3>1, <3>2
  <2>5. PICK new : new = (strays[c] \ {s}) \cup more
    OBVIOUS
  <2>6. new \in SUBSET Stray /\ \A q \in new : row[q.run].status # "absent"
    BY <2>1, <2>3, <2>4, <2>5
  <2>. QED BY <1>1, <2>4, <2>5, <2>6
<1>6. CASE PrepareRun \/ \E s \in Runs : Retry(s) \/ WriteCancel(s) \/ ReadToCancel(s) \/ CheckCancel(s)
                                        \/ Expire(s) \/ Stall(s)
  BY <1>2, <1>6 DEF PrepareRun, Retry, WriteCancel, ReadToCancel, CheckCancel, Expire, Stall
<1>7. CASE \E c \in Coordinators : Renew(c) \/ LoseHeartbeat(c) \/ Start(c) \/ \E s \in Runs : Claim(c, s)
  BY <1>2, <1>7 DEF Renew, LoseHeartbeat, Start, Claim
<1>8. CASE \E c \in Coordinators :
              Open(c) \/ ListResults(c) \/ Collect(c) \/ MarkFailed(c) \/ Analyse(c) \/ CheckUpdate(c)
              \/ WriteUpdate(c) \/ StoreRaises(c) \/ Measure(c) \/ \E k \in Cases : BeginCase(c, k) \/ SaveResult(c, k)
  BY <1>2, <1>8 DEF Open, ListResults, Collect, MarkFailed, Analyse, CheckUpdate, WriteUpdate, StoreRaises, Measure,
     BeginCase, SaveResult
<1>9. CASE UNCHANGED vars
  BY <1>2, <1>9 DEF vars
<1>. QED BY <1>3, <1>4, <1>5, <1>6, <1>7, <1>8, <1>9 DEF Next, TaskStep

LEMMA StraysInit == Init => StraysFit
  BY DEF Init, StraysFit


THEOREM Invariance == Spec => [](IInv /\ StraysFit)
  BY IInvInit, IInvStep, StraysInit, StraysStep, PTL DEF Spec

\* The types; attempts of a fingerprint follow each other, and a completed run has a judged
\* result for every case and the metrics of just these, whatever was lost or stood still
\* (update_run, upsert_case_result, replace_metrics, create_run).
THEOREM RunsAreSoundTheorem == Spec => []RunsAreSound
<1>1. IInv /\ StraysFit => RunsAreSound
  BY DEF IInv, StraysFit, Stray, RunsAreSound, TypeOK, Typed, TaskType, LeaseTable, ClientTable, EventTable, Outcome
<1>. QED BY <1>1, Invariance, PTL

\* Whoever still has a copy of the run to write, a verdict is final (update_run's WHERE clause).
THEOREM VerdictIsFinalTheorem == Spec => VerdictIsFinal
<1>. DEFINE Final == \A r \in Runs : Decided(r) => row'[r] = row[r]
<1>1. IInv /\ [Next]_vars => [Final]_vars
  <2>. SUFFICES ASSUME IInv, Next, NEW r \in Runs, Decided(r)
                PROVE  row'[r] = row[r]
    OBVIOUS
  <2>0. row \in [Runs -> Rows] /\ row[r].status # "absent"
    BY TypeParts DEF IInv, Decided, Terminal
  <2>1. CASE PrepareRun \/ \E s \in Runs : Retry(s) \/ WriteCancel(s)
    BY <2>0, <2>1 DEF PrepareRun, Retry, WriteCancel, NoRow
  <2>2. CASE \E c \in Coordinators : WriteUpdate(c)
    BY <2>0, <2>2 DEF WriteUpdate, Writable
  <2>3. CASE \E s \in Runs : ReadToCancel(s) \/ CheckCancel(s) \/ Expire(s) \/ Stall(s)
    BY <2>3 DEF ReadToCancel, CheckCancel, Expire, Stall, store
  <2>4. CASE \E c \in Coordinators :
                Renew(c) \/ LoseHeartbeat(c) \/ Leave(c) \/ Stop(c) \/ Crash(c) \/ Start(c)
                \/ (\E s \in Runs : Claim(c, s)) \/ \E s \in strays[c] : BeginStray(c, s) \/ SaveStray(c, s)
    BY <2>4 DEF Renew, LoseHeartbeat, Leave, Stop, Crash, Start, Claim, BeginStray, SaveStray, store
  <2>5. CASE \E c \in Coordinators :
                Open(c) \/ ListResults(c) \/ Collect(c) \/ MarkFailed(c) \/ Analyse(c) \/ CheckUpdate(c)
                \/ StoreRaises(c) \/ Measure(c) \/ \E k \in Cases : BeginCase(c, k) \/ SaveResult(c, k)
    BY <2>5 DEF Open, ListResults, Collect, MarkFailed, Analyse, CheckUpdate, StoreRaises, Measure, BeginCase,
       SaveResult, store
  <2>. QED BY <2>1, <2>2, <2>3, <2>4, <2>5 DEF Next, TaskStep
<1>. QED BY <1>1, Invariance, PTL DEF Spec, VerdictIsFinal

-----------------------------------------------------------------------------
\* Leases.

\* No two tasks have one token; and until a process stands still past its lease, a task that
\* still beats holds the lease of its run.
LInv ==
    /\ \A c, d \in Coordinators : Active(c) /\ Active(d) /\ c # d => task[c].token # task[d].token
    /\ events.stalls = 0 => \A c \in Coordinators :
          Active(c) /\ task[c].beats => HoldsLease(c) /\ lease[task[c].run].live

\* Two records of one task under one lease.
Same(t, u) == u.run = t.run /\ u.token = t.token /\ u.beats = t.beats

LEMMA SameStays ==
    ASSUME NEW t \in TaskType
    PROVE  /\ \A goal : Same(t, Aims(t, goal))
           /\ \A pc : Same(t, [t EXCEPT !.pc = pc])
           /\ Same(t, Proceed(t))
<1>1. \A goal : Same(t, Aims(t, goal))
  BY DEF Aims, Same, TaskType
<1>2. \A pc : Same(t, [t EXCEPT !.pc = pc])
  BY DEF Same, TaskType
<1>3. Proceed(t) \in {Aims(t, "preparing"), Aims(t, "cancelled"), Aims(t, "running"), [t EXCEPT !.pc = "list"]}
  BY DEF Proceed
<1>. QED BY <1>1, <1>2, <1>3

\* A step of a task leaves its lease alone.
LEMMA TaskStaysSame ==
    ASSUME IInv, NEW c \in Coordinators, Active(c),
           \/ Open(c) \/ ListResults(c) \/ Collect(c) \/ Measure(c) \/ Analyse(c)
           \/ CheckUpdate(c) \/ WriteUpdate(c) \/ MarkFailed(c) \/ StoreRaises(c)
           \/ \E k \in Cases : BeginCase(c, k) \/ SaveResult(c, k)
    PROVE  \E new : Becomes(c, new) /\ Same(task[c], new)
<1>0. task[c] \in TaskType
  BY Mine
<1>1. ASSUME NEW copy, NEW goal
      PROVE  /\ Same(task[c], [task[c] EXCEPT !.copy = copy])
             /\ Same(task[c], [task[c] EXCEPT !.copy = copy, !.goal = goal])
  BY <1>0 DEF Same, TaskType
<1>2. ASSUME NEW copy \in Rows
      PROVE  [task[c] EXCEPT !.copy = copy] \in TaskType
  BY <1>0 DEF TaskType
<1>3. CASE Open(c) \/ MarkFailed(c) \/ Collect(c)
  <2>. DEFINE me == [task[c] EXCEPT !.copy = row[Run(c)]]
  <2>1. row[Run(c)] \in Rows
    BY Mine, TypeParts DEF Fits, Knows, Run, Active
  <2>2. me \in TaskType /\ Same(task[c], me)
    BY <1>1, <1>2, <2>1
  <2>3. /\ \A goal : Same(task[c], Aims(me, goal))
        /\ \A pc : Same(task[c], [me EXCEPT !.pc = pc]) /\ Same(task[c], [task[c] EXCEPT !.pc = pc])
        /\ Same(task[c], Proceed(me))
    BY <1>0, <2>2, SameStays DEF Same
  <2>. HIDE DEF me
  <2>4. CASE Open(c)
    BY <2>3, <2>4 DEF Open, Me, me
  <2>5. CASE MarkFailed(c)
    BY <2>3, <2>5 DEF MarkFailed, Me, me
  <2>6. CASE Collect(c)
    <3>. DEFINE t == CASE me.copy.cancel                 -> Aims(me, "cancelled")
                       [] me.copy.status = "running"     -> Aims(me, "aggregating")
                       [] me.copy.status = "aggregating" -> [me EXCEPT !.pc = "measure"]
                       [] OTHER                          -> [me EXCEPT !.pc = "raised"]
    <3>1. Becomes(c, t)
      BY <2>6, Zenon DEF Collect, Me, me
    <3>2. t \in {Aims(me, "cancelled"), Aims(me, "aggregating"), [me EXCEPT !.pc = "measure"],
                 [me EXCEPT !.pc = "raised"]}
      OBVIOUS
    <3>. HIDE DEF t
    <3>. QED BY <2>3, <3>1, <3>2
  <2>. QED BY <1>3, <2>4, <2>5, <2>6
<1>4. CASE CheckUpdate(c) \/ StoreRaises(c) \/ Measure(c)
  <2>1. \E pc : Goes(c, pc)
    BY <1>4, Zenon DEF CheckUpdate, StoreRaises, Measure
  <2>. QED BY <1>0, <2>1, SameStays DEF Goes, Me
<1>5. CASE Analyse(c)
  BY <1>0, <1>5, SameStays DEF Analyse, Goes, Me
<1>6. CASE ListResults(c)
  <2>1. PICK known, waiting : Becomes(c, [task[c] EXCEPT !.pc = "cases", !.known = known, !.waiting = waiting])
    BY <1>6 DEF ListResults, Me
  <2>2. Same(task[c], [task[c] EXCEPT !.pc = "cases", !.known = known, !.waiting = waiting])
    BY <1>0 DEF Same, TaskType
  <2>. QED BY <2>1, <2>2
<1>7. ASSUME NEW k \in Cases, BeginCase(c, k) PROVE \E new : Becomes(c, new) /\ Same(task[c], new)
  <2>1. PICK waiting, busy : Becomes(c, [task[c] EXCEPT !.waiting = waiting, !.busy = busy])
    BY <1>0, <1>7 DEF BeginCase, Me, TaskType
  <2>2. Same(task[c], [task[c] EXCEPT !.waiting = waiting, !.busy = busy])
    BY <1>0 DEF Same, TaskType
  <2>. QED BY <2>1, <2>2
<1>8. ASSUME NEW k \in Cases, SaveResult(c, k) PROVE \E new : Becomes(c, new) /\ Same(task[c], new)
  <2>1. \/ \E o \in Outcomes : Becomes(c, [task[c] EXCEPT !.busy = @ \ {k}, !.known[k] = o])
        \/ \E pc : Becomes(c, [task[c] EXCEPT !.busy = task[c].busy \ {k}, !.pc = pc])
    BY <1>8 DEF SaveResult, Me
  <2>2. \A o : Same(task[c], [task[c] EXCEPT !.busy = @ \ {k}, !.known[k] = o])
    BY <1>0 DEF Same, TaskType
  <2>3. \A pc : Same(task[c], [task[c] EXCEPT !.busy = task[c].busy \ {k}, !.pc = pc])
    BY <1>0 DEF Same, TaskType
  <2>. QED BY <2>1, <2>2, <2>3
<1>9. CASE WriteUpdate(c)
  <2>1. CASE ~Writable(Run(c))
    BY <1>0, <1>9, <2>1, SameStays DEF WriteUpdate, Goes, Me
  <2>2. CASE Writable(Run(c))
    <3>1. PICK new : new = [task[c].copy EXCEPT !.status = task[c].goal]
      OBVIOUS
    <3>2. new \in Rows
      BY <1>0, <3>1 DEF TaskType, Rows
    <3>3. PICK me \in TaskType : me = [task[c] EXCEPT !.copy = new, !.goal = "absent"]
      BY <1>0, <3>2 DEF TaskType, Statuses
    <3>4. Same(task[c], me)
      BY <1>1, <3>3
    <3>. DEFINE t == CASE new.status \in Terminal    -> [me EXCEPT !.pc = "leave"]
                       [] new.status = "aggregating" -> [me EXCEPT !.pc = "measure"]
                       [] OTHER                      -> Proceed(me)
    <3>5. Becomes(c, t)
      BY <1>9, <2>2, <3>1, <3>3, Zenon DEF WriteUpdate, Me
    <3>6. t \in {[me EXCEPT !.pc = "leave"], [me EXCEPT !.pc = "measure"], Proceed(me)}
      OBVIOUS
    <3>. HIDE DEF t
    <3>7. Same(me, t)
      BY <3>6, SameStays
    <3>. QED BY <3>4, <3>5, <3>7 DEF Same
  <2>. QED BY <2>1, <2>2
<1>. QED BY <1>3, <1>4, <1>5, <1>6, <1>7, <1>8, <1>9

\* Steps after which every task has the lease it had, or no task is left.
LEMMA LeasesStay ==
    ASSUME IInv, LInv, lease' = lease, events'.stalls = events.stalls,
           \A d \in Coordinators : task'[d].pc = "none" \/ (Active(d) /\ Same(task[d], task'[d]))
    PROVE  LInv'
  BY DEF LInv, Same, Active, HoldsLease

\* A task is gone, and perhaps its lease with it: nobody else holds that one.
LEMMA TaskLeaves ==
    ASSUME IInv, LInv, NEW c \in Coordinators, lease' \in {lease, Released(c)}, Active(c),
           events'.stalls = events.stalls, NEW t, t.pc = "none", task' = [task EXCEPT ![c] = t]
    PROVE  LInv'
<1>0. task \in [Coordinators -> TaskType] /\ lease \in LeaseTable /\ Run(c) \in Runs
  BY Mine, ReleasedType
<1>1. task'[c] = t /\ \A d \in Coordinators \ {c} : task'[d] = task[d]
  BY <1>0
<1>2. \A d \in Coordinators \ {c} : Active(d) /\ HoldsLease(d) => lease'[task[d].run] = lease[task[d].run]
  <2>. SUFFICES ASSUME NEW d \in Coordinators \ {c}, Active(d), HoldsLease(d), lease' = Released(c), lease' # lease
                PROVE  lease'[task[d].run] = lease[task[d].run]
    BY Zenon
  <2>1. lease' = [lease EXCEPT ![Run(c)] = NoLease] /\ HoldsLease(c)
    BY DEF Released
  <2>2. task[d].run # Run(c)
    BY <2>1 DEF LInv, HoldsLease, Run
  <2>3. task[d].run \in Runs
    BY Mine DEF Fits, Knows, Active
  <2>. QED BY <1>0, <2>1, <2>2, <2>3 DEF LeaseTable
<1>. QED BY <1>1, <1>2 DEF LInv, Active, HoldsLease

LEMMA LInvStep == IInv /\ LInv /\ [Next]_vars => LInv'
<1>. SUFFICES ASSUME IInv, LInv, [Next]_vars PROVE LInv'
  OBVIOUS
<1>0. task \in [Coordinators -> TaskType] /\ lease \in LeaseTable /\ events \in EventTable /\ Typed
  BY TypeParts DEF IInv
<1>1. task' = task => \A d \in Coordinators : task'[d].pc = "none" \/ (Active(d) /\ Same(task[d], task'[d]))
  BY DEF Active, Same
<1>2. ASSUME NEW n, events' = [events EXCEPT !.others = n] PROVE events'.stalls = events.stalls
  BY <1>0, <1>2 DEF EventTable
<1>3. CASE PrepareRun \/ \E r \in Runs : Retry(r) \/ ReadToCancel(r) \/ CheckCancel(r) \/ WriteCancel(r)
  <2>1. task' = task /\ lease' = lease
    BY <1>3 DEF PrepareRun, Retry, ReadToCancel, CheckCancel, WriteCancel, store
  <2>2. events'.stalls = events.stalls
    BY <1>2, <1>3 DEF PrepareRun, Retry, ReadToCancel, CheckCancel, WriteCancel, Spend
  <2>. QED BY <1>1, <2>1, <2>2, LeasesStay
<1>4. ASSUME NEW r \in Runs, Expire(r) PROVE LInv'
  <2>1. lease' = [lease EXCEPT ![r].live = FALSE] /\ ~Held(r) /\ task' = task /\ events' = events
    BY <1>4 DEF Expire
  <2>2. \A s \in Runs : lease'[s].token = lease[s].token /\ (s # r => lease'[s] = lease[s])
    BY <1>0, <2>1 DEF LeaseTable
  <2>3. \A c \in Coordinators : Active(c) => task[c].run \in Runs
    BY Mine DEF Fits, Knows, Active
  <2>. QED BY <2>1, <2>2, <2>3 DEF LInv, Active, HoldsLease, Held
<1>5. ASSUME NEW r \in Runs, Stall(r) PROVE LInv'
  <2>1. task' = task /\ events' = [events EXCEPT !.stalls = @ + 1]
    BY <1>5 DEF Stall, Spend
  <2>2. events'.stalls # 0
    BY <1>0, <2>1, EvaluationAssumption DEF EventTable
  <2>. QED BY <2>1, <2>2 DEF LInv, Active
<1>6. ASSUME NEW c \in Coordinators, NEW r \in Runs, Claim(c, r) PROVE LInv'
  <2>1. /\ lease' = [lease EXCEPT ![r] = [owner |-> c, token |-> FreshToken(r), live |-> TRUE]]
        /\ task' = [task EXCEPT ![c] = Fresh(r)]
        /\ Fresh(r).pc = "open" /\ Fresh(r).run = r /\ Fresh(r).token = FreshToken(r) /\ Fresh(r).beats
    BY <1>6, ClaimStep
  <2>2. events' = events /\ ~lease[r].live /\ ~Active(c)
    BY <1>6 DEF Claim, Free
  <2>3. \A d \in Coordinators : FreshToken(r) # task[d].token
    BY <1>0, <2>2, Mine, FreshTokenExists DEF Active, Fits
  <2>4. /\ lease'[r] = [owner |-> c, token |-> FreshToken(r), live |-> TRUE]
        /\ \A s \in Runs \ {r} : lease'[s] = lease[s]
        /\ task'[c] = Fresh(r) /\ \A d \in Coordinators \ {c} : task'[d] = task[d]
    BY <1>0, <2>1 DEF LeaseTable
  <2>5. \A d \in Coordinators : Active(d) => task[d].run \in Runs
    BY Mine DEF Fits, Knows, Active
  <2>. QED BY <2>1, <2>2, <2>3, <2>4, <2>5 DEF LInv, Active, HoldsLease
<1>7. ASSUME NEW c \in Coordinators, Renew(c) PROVE LInv'
  <2>1. task[c].run \in Runs /\ Active(c) /\ events' = events
    BY <1>7, Mine DEF Renew, Fits, Knows, Active
  <2>2. CASE HoldsLease(c)
    <3>1. lease' = [lease EXCEPT ![task[c].run].live = TRUE] /\ task' = task
      BY <1>7, <2>2 DEF Renew
    <3>2. \A s \in Runs : lease'[s].token = lease[s].token /\ (lease[s].live => lease'[s].live)
      BY <1>0, <2>1, <3>1 DEF LeaseTable
    <3>3. \A d \in Coordinators : Active(d) => task[d].run \in Runs
      BY Mine DEF Fits, Knows, Active
    <3>. QED BY <2>1, <3>1, <3>2, <3>3 DEF LInv, Active, HoldsLease
  <2>3. CASE ~HoldsLease(c)
    <3>1. task' = [task EXCEPT ![c] = Deaf(c)] /\ lease' = lease
      BY <1>7, <2>3 DEF Renew, Deaf
    <3>2. task'[c] = Deaf(c) /\ \A d \in Coordinators \ {c} : task'[d] = task[d]
      BY <1>0, <3>1
    <3>. QED BY <2>1, <3>1, <3>2, Mine, DeafFits DEF LInv, Active, HoldsLease
  <2>. QED BY <2>2, <2>3
<1>8. ASSUME NEW c \in Coordinators, LoseHeartbeat(c) PROVE LInv'
  <2>1. task' = [task EXCEPT ![c] = Deaf(c)] /\ lease' = lease /\ Active(c)
    BY <1>8 DEF LoseHeartbeat, Deaf, store
  <2>2. task'[c] = Deaf(c) /\ \A d \in Coordinators \ {c} : task'[d] = task[d]
    BY <1>0, <2>1
  <2>3. events'.stalls = events.stalls
    BY <1>2, <1>8 DEF LoseHeartbeat, Spend
  <2>. QED BY <2>1, <2>2, <2>3, Mine, DeafFits DEF LInv, Active, HoldsLease
<1>9. ASSUME NEW c \in Coordinators, Leave(c) \/ Stop(c) \/ Crash(c) PROVE LInv'
  <2>1. events'.stalls = events.stalls
    BY <1>2, <1>9 DEF Leave, Stop, Crash, Spend
  <2>2. CASE Active(c)
    <3>1. lease' \in {lease, Released(c)}
      BY <1>9, <2>2 DEF Leave, Stop, Crash, store
    <3>2. PICK t : t.pc = "none" /\ task' = [task EXCEPT ![c] = t]
      BY <1>9, NoTaskFits DEF Leave, Stop, Crash, Becomes
    <3>. QED BY <2>1, <2>2, <3>1, <3>2, TaskLeaves
  <2>3. CASE ~Active(c)
    <3>1. task' = [task EXCEPT ![c] = NoTask] /\ lease' = lease
      BY <1>9, <2>3 DEF Leave, Stop, Crash, Becomes, Active, Me, store
    <3>2. task'[c] = NoTask /\ \A d \in Coordinators \ {c} : task'[d] = task[d]
      BY <1>0, <3>1
    <3>. QED BY <2>1, <3>1, <3>2, NoTaskFits, LeasesStay DEF Active, Same
  <2>. QED BY <2>2, <2>3
<1>10. ASSUME NEW c \in Coordinators, Start(c) PROVE LInv'
  <2>1. task' = task /\ lease' = lease /\ events' = events
    BY <1>10 DEF Start, store
  <2>. QED BY <1>1, <2>1, LeasesStay
<1>11. ASSUME NEW c \in Coordinators,
              \/ Open(c) \/ ListResults(c) \/ Collect(c) \/ Measure(c) \/ Analyse(c)
              \/ CheckUpdate(c) \/ WriteUpdate(c) \/ MarkFailed(c) \/ StoreRaises(c)
              \/ \E k \in Cases : BeginCase(c, k) \/ SaveResult(c, k)
       PROVE  LInv'
  <2>1. lease' = lease
    BY <1>11 DEF Open, ListResults, Collect, Measure, Analyse, CheckUpdate, WriteUpdate, MarkFailed, StoreRaises,
       BeginCase, SaveResult, store
  <2>2. events'.stalls = events.stalls
    BY <1>2, <1>11 DEF Open, ListResults, Collect, Measure, Analyse, CheckUpdate, WriteUpdate, MarkFailed,
       StoreRaises, BeginCase, SaveResult, Spend
  <2>3. Active(c)
    <3>1. task[c].pc = "none" => task[c].waiting = {} /\ task[c].busy = {}
      BY Mine DEF Fits, CasesOver
    <3>. QED BY <1>11, <3>1 DEF Open, ListResults, Collect, Measure, Analyse, CheckUpdate, WriteUpdate, MarkFailed,
         StoreRaises, BeginCase, SaveResult, Active, Me
  <2>4. PICK new : task' = [task EXCEPT ![c] = new] /\ Same(task[c], new)
    BY <1>11, <2>3, TaskStaysSame DEF Becomes
  <2>5. task'[c] = new /\ \A d \in Coordinators \ {c} : task'[d] = task[d]
    BY <1>0, <2>4
  <2>6. \A d \in Coordinators : task'[d].pc = "none" \/ (Active(d) /\ Same(task[d], task'[d]))
    BY <2>3, <2>4, <2>5 DEF Active, Same
  <2>. QED BY <2>1, <2>2, <2>6, LeasesStay
<1>13. ASSUME NEW c \in Coordinators, NEW s \in strays[c], BeginStray(c, s) \/ SaveStray(c, s) PROVE LInv'
  <2>1. task' = task /\ lease' = lease /\ events' = events
    BY <1>13 DEF BeginStray, SaveStray, store
  <2>. QED BY <1>1, <2>1, LeasesStay
<1>12. CASE UNCHANGED vars
  BY <1>1, <1>12, LeasesStay DEF vars, store
<1>. QED BY <1>3, <1>4, <1>5, <1>6, <1>7, <1>8, <1>9, <1>10, <1>11, <1>12, <1>13 DEF Next, TaskStep

\* However many processes claim, stop, die or lose heartbeats: while all tasks beat, no two of
\* them execute one run, until a process stands still past its lease (acquire_lease).
THEOREM OneExecutorTheorem == Spec => []OneExecutor
<1>1. Init => LInv
  BY DEF Init, LInv, Active, NoTask
<1>2. LInv => OneExecutor
  BY DEF LInv, OneExecutor, HoldsLease
<1>. QED BY <1>1, <1>2, LInvStep, Invariance, PTL DEF Spec

----------------------------------------------------------------------------
\* The runs keep EvaluationContract.

LEMMA VerdictOf ==
    ASSUME NEW r \in Runs, row[r] \in Rows
    PROVE  /\ Verdict(r) = "none" <=> row[r].status = "absent"
           /\ Verdict(r) = "open" <=> row[r].status \in Claimable
           /\ row[r].status \in Terminal => Verdict(r) = row[r].status
  BY DEF Verdict, Decided, Rows, Statuses, Claimable, Terminal

LEMMA VerdictWritten ==
    ASSUME NEW r \in Runs, NEW new, row \in [Runs -> Rows], row' = [row EXCEPT ![r] = new],
           NEW v, Verdict(r)' = v
    PROVE  [s \in Runs |-> Verdict(s)]' = [[s \in Runs |-> Verdict(s)] EXCEPT ![r] = v]
<1>1. ASSUME NEW s \in Runs, s # r PROVE Verdict(s)' = Verdict(s)
  <2>1. row'[s] = row[s]
    BY <1>1
  <2>. QED BY <2>1 DEF Verdict, Decided
<1>. QED BY <1>1

\* Nothing the contract knows of has changed.
LEMMA NothingToSee ==
    ASSUME UNCHANGED <<row, results, metrics>>
    PROVE  UNCHANGED Contract!contract
<1>1. \A r \in Runs : Verdict(r)' = Verdict(r)
  BY DEF Verdict, Decided
<1>. QED BY <1>1 DEF Contract!contract

\* A new attempt: prepare_run.
LEMMA AttemptRefines ==
    ASSUME IInv, NEW r \in Runs, row[r] = NoRow, row' = [row EXCEPT ![r].status = "queued"],
           r = 1 \/ row[r - 1].status \in Terminal \ {"completed"}, UNCHANGED <<results, metrics>>
    PROVE  Contract!Next
<1>1. row \in [Runs -> Rows]
  BY TypeParts DEF IInv
<1>2. Verdict(r) = "none" /\ Verdict(r)' = "open"
  <2>1. row[r].status = "absent" /\ row'[r].status = "queued"
    BY <1>1 DEF NoRow, Rows
  <2>. QED BY <2>1 DEF Verdict, Decided, Terminal
<1>3. [s \in Runs |-> Verdict(s)]' = [[s \in Runs |-> Verdict(s)] EXCEPT ![r] = "open"]
  <2>1. PICK new : new = [row[r] EXCEPT !.status = "queued"]
    OBVIOUS
  <2>2. row' = [row EXCEPT ![r] = new]
    BY <2>1
  <2>. QED BY <1>1, <1>2, <2>2, VerdictWritten
<1>4. r > 1 => r - 1 \in Runs /\ Verdict(r - 1) \in Contract!Ended
  <2>. SUFFICES ASSUME r > 1 PROVE r - 1 \in Runs /\ Verdict(r - 1) \in Contract!Ended
    OBVIOUS
  <2>1. r - 1 \in Runs
    BY EvaluationAssumption DEF Runs
  <2>2. row[r - 1].status \in Terminal \ {"completed"}
    OBVIOUS
  <2>. QED BY <2>1, <2>2 DEF Verdict, Decided, Terminal, Contract!Ended
<1>5. Contract!Attempt(r)
  BY <1>2, <1>3, <1>4 DEF Contract!Attempt
<1>. QED BY <1>5 DEF Contract!Next, Runs

\* The row of an open run is written again: it stays open, or is decided.
LEMMA WriteRefines ==
    ASSUME IInv, NEW r \in Runs, row[r].status \in Claimable,
           NEW new \in Rows, new.status # "absent", row' = [row EXCEPT ![r] = new],
           new.status = "completed" => Whole(results[r]) /\ metrics[r] = results[r],
           UNCHANGED <<results, metrics>>
    PROVE  [Contract!Next]_(Contract!contract)
<1>1. row \in [Runs -> Rows] /\ row'[r] = new
  BY TypeParts DEF IInv
<1>2. Verdict(r) = "open"
  BY <1>1, VerdictOf
<1>3. CASE new.status \in Claimable
  <2>1. Verdict(r)' = "open"
    BY <1>1, <1>3 DEF Verdict, Decided, Claimable, Terminal
  <2>2. [s \in Runs |-> Verdict(s)]' = [[s \in Runs |-> Verdict(s)] EXCEPT ![r] = "open"]
    BY <1>1, <2>1, VerdictWritten
  <2>3. [s \in Runs |-> Verdict(s)]' = [s \in Runs |-> Verdict(s)]
    BY <1>2, <2>2
  <2>. QED BY <2>3 DEF Contract!contract
<1>4. CASE new.status \in Terminal
  <2>1. Verdict(r)' = new.status
    BY <1>1, <1>4 DEF Verdict, Decided, Terminal
  <2>2. [s \in Runs |-> Verdict(s)]' = [[s \in Runs |-> Verdict(s)] EXCEPT ![r] = new.status]
    BY <1>1, <2>1, VerdictWritten
  <2>3. CASE new.status = "completed"
    <3>1. \A k \in Cases : results[r][k] \in {"passed", "failed"}
      BY <2>3 DEF Whole, Judged
    <3>2. Contract!Complete(r)
      BY <1>2, <2>2, <2>3, <3>1 DEF Contract!Complete
    <3>. QED BY <3>2 DEF Contract!Next, Runs
  <2>4. CASE new.status # "completed"
    <3>1. Contract!End(r)
      BY <1>2, <1>4, <2>2, <2>4 DEF Contract!End, Contract!Ended, Terminal
    <3>. QED BY <3>1 DEF Contract!Next, Runs
  <2>. QED BY <2>3, <2>4
<1>. QED BY <1>3, <1>4 DEF Rows, Statuses

LEMMA SaveRefines ==
    ASSUME IInv, NEW c \in Coordinators, NEW k \in Cases, SaveResult(c, k)
    PROVE  [Contract!Next]_(Contract!contract)
<1>1. /\ row \in [Runs -> Rows] /\ UNCHANGED <<row, metrics>>
      /\ task[c] \in TaskType /\ Fits(task[c]) /\ k \in task[c].busy
  BY Mine, TypeParts DEF IInv, SaveResult, Me
<1>2. PICK r \in Runs : r = Run(c) /\ row[r].status # "absent"
  BY <1>1 DEF Fits, Knows, CasesOver, Run
<1>3. CASE results[r][k] = "none"
  <2>1. PICK o \in Outcomes : results' = [results EXCEPT ![r][k] = o]
    BY <1>2, <1>3 DEF SaveResult
  <2>2. \A s \in Runs : Verdict(s)' = Verdict(s)
    BY <1>1 DEF Verdict, Decided
  <2>3. Verdict(r) # "none"
    BY <1>1, <1>2, VerdictOf
  <2>4. Contract!Record(r, k)
    BY <1>1, <1>3, <2>1, <2>2, <2>3 DEF Contract!Record, Contract!Outcomes, Outcomes
  <2>. QED BY <2>4 DEF Contract!Next, Runs
<1>4. CASE results[r][k] # "none"
  BY <1>1, <1>2, <1>4, NothingToSee DEF SaveResult
<1>. QED BY <1>3, <1>4

LEMMA StrayRefines ==
    ASSUME IInv, StraysFit, NEW c \in Coordinators, NEW s \in strays[c], BeginStray(c, s) \/ SaveStray(c, s)
    PROVE  [Contract!Next]_(Contract!contract)
<1>1. row \in [Runs -> Rows] /\ UNCHANGED <<row, metrics>>
  BY TypeParts DEF IInv, BeginStray, SaveStray, store
<1>2. PICK r \in Runs, k \in Cases : r = s.run /\ k = s.case /\ row[r].status # "absent"
  BY DEF StraysFit, Stray
<1>3. CASE results' = results
  BY <1>1, <1>3, NothingToSee
<1>4. CASE results[r][k] = "none" /\ \E o \in Outcomes : results' = [results EXCEPT ![r][k] = o]
  <2>1. PICK o \in Outcomes : results' = [results EXCEPT ![r][k] = o]
    BY <1>4
  <2>2. \A q \in Runs : Verdict(q)' = Verdict(q)
    BY <1>1 DEF Verdict, Decided
  <2>3. Verdict(r) # "none"
    BY <1>1, <1>2, VerdictOf
  <2>4. Contract!Record(r, k)
    BY <1>1, <1>4, <2>1, <2>2, <2>3 DEF Contract!Record, Contract!Outcomes, Outcomes
  <2>. QED BY <2>4 DEF Contract!Next, Runs
<1>5. results' = results \/ (results[r][k] = "none" /\ \E o \in Outcomes : results' = [results EXCEPT ![r][k] = o])
  BY <1>2 DEF BeginStray, SaveStray, store
<1>. QED BY <1>3, <1>4, <1>5

LEMMA MeasureRefines ==
    ASSUME IInv, NEW c \in Coordinators, Measure(c)
    PROVE  [Contract!Next]_(Contract!contract)
<1>1. /\ row \in [Runs -> Rows] /\ UNCHANGED <<row, results>>
      /\ results \in [Runs -> [Cases -> Outcome]] /\ metrics \in [Runs -> [Cases -> Outcome]]
      /\ task[c].known \in [Cases -> Outcome] /\ Knows(task[c])
  BY Mine, TypeParts DEF IInv, Measure, Me, Fits, TaskType
<1>2. PICK r \in Runs : r = Run(c) /\ r = task[c].run /\ row[r].status # "absent"
  BY <1>1 DEF Knows, Run
<1>3. PICK known \in [Cases -> Outcome] :
          known = task[c].known /\ \A k \in Cases : known[k] # "none" => results[r][k] = known[k]
  BY <1>1, <1>2 DEF Knows
<1>4. metrics' = metrics \/ (metrics[r] \in {NoResults, known} /\ metrics' = [metrics EXCEPT ![r] = known])
  BY <1>2, <1>3 DEF Measure, Me
<1>5. CASE metrics' = metrics
  BY <1>1, <1>5, NothingToSee
<1>6. CASE metrics[r] = known /\ metrics' = [metrics EXCEPT ![r] = known]
  <2>1. metrics' = metrics
    BY <1>1, <1>6
  <2>. QED BY <1>1, <2>1, NothingToSee
<1>7. CASE metrics[r] = NoResults /\ metrics' = [metrics EXCEPT ![r] = known]
  <2>1. PICK K \in SUBSET Cases : K = {k \in Cases : known[k] # "none"}
    OBVIOUS
  <2>2. known = [k \in Cases |-> IF k \in K THEN results[r][k] ELSE "none"]
    BY <1>1, <1>3, <2>1
  <2>3. \A s \in Runs : Verdict(s)' = Verdict(s)
    BY <1>1 DEF Verdict, Decided
  <2>4. Verdict(r) # "none"
    BY <1>1, <1>2, VerdictOf
  <2>5. Contract!Measure(r)
    <3>1. known \in {[k \in Cases |-> IF k \in L THEN results[r][k] ELSE "none"] : L \in SUBSET Cases}
      BY <2>2
    <3>2. [s \in Runs |-> Verdict(s)]' = [s \in Runs |-> Verdict(s)]
      BY <2>3
    <3>3. metrics[r] = Contract!Nothing
      BY <1>7 DEF Contract!Nothing, NoResults
    <3>. QED BY <1>1, <1>7, <2>4, <3>1, <3>2, <3>3 DEF Contract!Measure
  <2>. QED BY <2>5 DEF Contract!Next, Runs
<1>. QED BY <1>4, <1>5, <1>6, <1>7

LEMMA UpdateRefines ==
    ASSUME IInv, NEW c \in Coordinators, WriteUpdate(c)
    PROVE  [Contract!Next]_(Contract!contract)
<1>0. /\ row \in [Runs -> Rows] /\ results \in [Runs -> [Cases -> Outcome]]
      /\ task[c] \in TaskType /\ Fits(task[c]) /\ UNCHANGED <<results, metrics>>
  BY Mine, TypeParts DEF IInv, WriteUpdate
<1>1. /\ task[c].pc = "write" /\ Knows(task[c]) /\ task[c].goal \in Statuses \ {"absent"}
      /\ task[c].known \in [Cases -> Outcome] /\ task[c].copy \in Rows
  BY <1>0 DEF WriteUpdate, Me, Fits, TaskType
<1>2. CASE ~Writable(Run(c))
  BY <1>0, <1>2, NothingToSee DEF WriteUpdate
<1>3. CASE Writable(Run(c))
  <2>1. PICK r \in Runs : r = Run(c) /\ row[r].status \in Claimable
    BY <1>0, <1>1, <1>3 DEF Knows, Run, Writable, Decided, Rows, Statuses
  <2>2. PICK new \in Rows : new = [task[c].copy EXCEPT !.status = task[c].goal] /\ new.status = task[c].goal
    <3>. DEFINE n == [task[c].copy EXCEPT !.status = task[c].goal]
    <3>1. n \in Rows /\ n.status = task[c].goal
      BY <1>1 DEF Rows
    <3>. HIDE DEF n
    <3>. QED BY <3>1 DEF n
  <2>3. row' = [row EXCEPT ![r] = new]
    BY <1>3, <2>1, <2>2 DEF WriteUpdate, Me
  <2>4. new.status = "completed" => Whole(results[r]) /\ metrics[r] = results[r]
    <3>. SUFFICES ASSUME new.status = "completed" PROVE Whole(results[r]) /\ metrics[r] = results[r]
      OBVIOUS
    <3>1. Whole(task[c].known) /\ metrics[r] = task[c].known
      BY <1>0, <1>1, <2>1, <2>2 DEF Fits, Run
    <3>2. \A k \in Cases : results[r][k] = task[c].known[k]
      BY <1>1, <2>1, <3>1 DEF Knows, Run, Whole, Judged
    <3>3. results[r] = task[c].known
      BY <1>0, <1>1, <2>1, <3>2
    <3>. QED BY <3>1, <3>3
  <2>. QED BY <1>0, <1>1, <2>1, <2>2, <2>3, <2>4, WriteRefines
<1>. QED BY <1>2, <1>3

\* A client's cancellation writes a copy of the row that was not decided.
LEMMA CancelRefines ==
    ASSUME IInv, NEW r \in Runs, WriteCancel(r)
    PROVE  [Contract!Next]_(Contract!contract)
<1>1. /\ row \in [Runs -> Rows] /\ client \in ClientTable /\ UNCHANGED <<results, metrics>>
      /\ client[r].pc = "write"
  BY TypeParts DEF IInv, WriteCancel
<1>2. CASE Decided(r)
  BY <1>1, <1>2, NothingToSee DEF WriteCancel
<1>3. CASE ~Decided(r)
  <2>1. PICK new \in Rows : new = client[r].copy /\ new.status \in Claimable /\ row[r].status # "absent"
    BY <1>1 DEF IInv, ClientsFit, ClientTable
  <2>2. row' = [row EXCEPT ![r] = new] /\ row[r].status \in Claimable
    BY <1>1, <1>3, <2>1 DEF WriteCancel, Decided, Rows, Statuses
  <2>3. new.status # "absent" /\ new.status # "completed"
    BY <2>1 DEF Claimable
  <2>. QED BY <1>1, <2>2, <2>3, WriteRefines
<1>. QED BY <1>2, <1>3

LEMMA NextRefines == IInv /\ StraysFit /\ [Next]_vars => [Contract!Next]_(Contract!contract)
<1>. SUFFICES ASSUME IInv, StraysFit, [Next]_vars PROVE [Contract!Next]_(Contract!contract)
  OBVIOUS
<1>1. CASE PrepareRun
  <2>1. 1 \in Runs
    BY EvaluationAssumption DEF Runs
  <2>. QED BY <1>1, <2>1, AttemptRefines DEF PrepareRun
<1>2. ASSUME NEW r \in Runs, Retry(r) PROVE [Contract!Next]_(Contract!contract)
  <2>1. row[r - 1].status \in Terminal \ {"completed"}
    BY <1>2 DEF Retry, Terminal
  <2>. QED BY <1>2, <2>1, AttemptRefines DEF Retry
<1>3. ASSUME NEW r \in Runs, ReadToCancel(r) \/ CheckCancel(r) \/ Expire(r) \/ Stall(r)
      PROVE  [Contract!Next]_(Contract!contract)
  BY <1>3, NothingToSee DEF ReadToCancel, CheckCancel, Expire, Stall, store
<1>4. ASSUME NEW c \in Coordinators, NEW r \in Runs, Claim(c, r)
      PROVE  [Contract!Next]_(Contract!contract)
  BY <1>4, NothingToSee DEF Claim
<1>5. ASSUME NEW c \in Coordinators,
             \/ Renew(c) \/ LoseHeartbeat(c) \/ StoreRaises(c) \/ Stop(c) \/ Crash(c) \/ Start(c)
      PROVE  [Contract!Next]_(Contract!contract)
  BY <1>5, NothingToSee DEF Renew, LoseHeartbeat, StoreRaises, Stop, Crash, Start, store
<1>6. ASSUME NEW c \in Coordinators,
             \/ Open(c) \/ ListResults(c) \/ Collect(c) \/ Analyse(c) \/ CheckUpdate(c) \/ MarkFailed(c)
             \/ Leave(c) \/ \E k \in Cases : BeginCase(c, k)
      PROVE  [Contract!Next]_(Contract!contract)
  BY <1>6, NothingToSee DEF Open, ListResults, Collect, Analyse, CheckUpdate, MarkFailed, Leave,
     BeginCase, store
<1>7. ASSUME NEW c \in Coordinators, TaskStep(c) PROVE [Contract!Next]_(Contract!contract)
  BY <1>6, <1>7, SaveRefines, MeasureRefines, UpdateRefines DEF TaskStep
<1>8. CASE UNCHANGED vars
  BY <1>8, NothingToSee DEF vars, store
<1>. QED BY <1>1, <1>2, <1>3, <1>4, <1>5, <1>7, <1>8, CancelRefines, StrayRefines DEF Next

\* Whoever executes a run, and whatever copies of its row are written back (update_run,
\* request_cancel, save_case_result, save_metrics): attempts follow one another, results and
\* metrics are written once, and the verdict is given once and says what the results are.
THEOREM KeepsContractTheorem == Spec => KeepsContract
<1>1. Init => Contract!Init
  <2>. SUFFICES ASSUME Init PROVE Contract!Init
    OBVIOUS
  <2>1. \A r \in Runs : Verdict(r) = "none"
    <3>1. \A r \in Runs : row[r].status = "absent"
      BY DEF Init, NoRow
    <3>. QED BY <3>1 DEF Verdict, Decided, Terminal
  <2>. QED BY <2>1 DEF Init, Contract!Init, Contract!Nothing, NoResults, Runs
<1>. QED BY <1>1, NextRefines, Invariance, PTL DEF Spec, KeepsContract, Contract!Spec
=============================================================================
