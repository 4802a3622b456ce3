------------------------- MODULE ResearchRunsProofs -------------------------
(***************************************************************************)
(* Proofs about ResearchRuns.                                              *)
(***************************************************************************)
EXTENDS ResearchRuns, FiniteSetTheorems, TLAPS

\* The status column has a row for each run, and only for those.
Shape == status = [r \in Runs |-> status[r]]

\* A step writes the status of one run at most, and not of a decided one
\* (request_cancel, and update_status after its read of the status).
LEMMA OneOpenStatus ==
    ASSUME Shape, [Next]_vars
    PROVE  status' = status \/ \E r \in Runs : ~Decided(r) /\ \E s : status' = [status EXCEPT ![r] = s]
<1>1. CASE \E r \in Runs : CreateRun(r)
  BY <1>1 DEF CreateRun, Decided, Terminal
<1>2. CASE \E r \in Runs : RequestCancel(r)
  BY <1>2 DEF RequestCancel
<1>3. CASE \E c \in Coordinators, r \in Runs : WriteStatus(c, r)
  <2>1. PICK c \in Coordinators, r \in Runs : WriteStatus(c, r)
    BY <1>3
  <2>2. CASE Updates(c, r)
    BY <2>1, <2>2 DEF WriteStatus, Updates, Decided
  <2>3. CASE ~Updates(c, r)
    BY <2>1, <2>3 DEF WriteStatus
  <2>. QED BY <2>2, <2>3
<1>4. CASE \E r \in Runs : Expire(r) \/ Stall(r)
  BY <1>4 DEF Expire, Stall, rows
<1>5. CASE \E c \in Coordinators, r \in Runs :
              Renew(c, r) \/ LoseLease(c, r) \/ FailHeartbeat(c, r)
              \/ ClaimRun(c, r) \/ Resume(c, r) \/ RefuseResume(c, r)
  BY <1>5 DEF Renew, LoseLease, FailHeartbeat, ClaimRun, Resume, RefuseResume, rows
<1>6. CASE \E c \in Coordinators, r \in Runs :
              Open(c, r) \/ Load(c, r) \/ MissCheckpoint(c, r) \/ RunNode(c, r)
              \/ EndGraph(c, r) \/ GraphRaises(c, r) \/ ReadStatus(c, r) \/ Release(c, r)
  BY <1>6 DEF Open, Load, MissCheckpoint, RunNode, EndGraph, GraphRaises, ReadStatus, Release, rows
<1>7. CASE \E c \in Coordinators :
              ListClaimable(c) \/ BeginStop(c) \/ CancelTasks(c) \/ Exit(c) \/ Crash(c) \/ Start(c)
  BY <1>7 DEF ListClaimable, BeginStop, CancelTasks, Exit, Crash, Start, rows
<1>8. CASE UNCHANGED vars
  BY <1>8 DEF vars, rows
<1>. QED BY <1>1, <1>2, <1>3, <1>4, <1>5, <1>6, <1>7, <1>8 DEF Next, TaskStep

LEMMA ShapeKept == Spec => []Shape
<1>1. Init => Shape
  BY DEF Init, Shape
<1>2. Shape /\ [Next]_vars => Shape'
  <2>. SUFFICES ASSUME Shape, [Next]_vars PROVE Shape'
    OBVIOUS
  <2>. QED BY OneOpenStatus DEF Shape
<1>. QED BY <1>1, <1>2, PTL DEF Spec

\* A verdict is final, whoever still has something to write: a stale task, stop(), a cancel.
THEOREM VerdictIsFinalTheorem == Spec => VerdictIsFinal
<1>1. Shape /\ [Next]_vars => [\A r \in Runs : Decided(r) => status'[r] = status[r]]_vars
  <2>. SUFFICES ASSUME Shape, [Next]_vars, NEW r \in Runs, Decided(r)
                PROVE  status'[r] = status[r]
    OBVIOUS
  <2>. QED BY OneOpenStatus DEF Shape
<1>. QED BY <1>1, ShapeKept, PTL DEF Spec, VerdictIsFinal

-----------------------------------------------------------------------------
\* Any run has a token that neither its lease nor one of its tasks has, if one coordinator
\* has none: there is one token more than there are coordinators (acquire_lease).
LEMMA FreshTokenExists ==
    ASSUME TypeOK, NEW c \in Coordinators, NEW r \in Runs, task[c][r].token = 0
    PROVE  FreshToken(r) \in Tokens
<1>. DEFINE N == Cardinality(Coordinators)
            Free(t) == t # lease[r].token /\ \A d \in Coordinators : t # task[d][r].token
            Holder(t) == CHOOSE d \in Coordinators : t = task[d][r].token
            user == [t \in Tokens |-> IF t = lease[r].token THEN c ELSE Holder(t)]
<1>1. IsFiniteSet(Coordinators) /\ N \in Nat
  BY RunsAssumption, FS_CardinalityType
<1>2. IsFiniteSet(Tokens) /\ Cardinality(Tokens) = N + 1
  BY <1>1, FS_Interval, N + 1 \in Int, ~(1 > N + 1), (N + 1) - 1 + 1 = N + 1 DEF Tokens
<1>3. SUFFICES ASSUME \A t \in Tokens : ~Free(t)
               PROVE  FALSE
  BY DEF FreshToken
<1>4. \A t \in Tokens : t # lease[r].token =>
          Holder(t) \in Coordinators \ {c} /\ t = task[Holder(t)][r].token
  <2>. SUFFICES ASSUME NEW t \in Tokens, t # lease[r].token
                PROVE  Holder(t) \in Coordinators \ {c} /\ t = task[Holder(t)][r].token
    OBVIOUS
  <2>1. PICK d \in Coordinators : t = task[d][r].token
    BY <1>3
  <2>2. Holder(t) \in Coordinators /\ t = task[Holder(t)][r].token
    BY <2>1
  <2>3. t # 0
    BY <1>1 DEF Tokens
  <2>. QED BY <2>2, <2>3
<1>5. user \in [Tokens -> Coordinators]
  BY <1>4
<1>6. PICK x, y \in Tokens : x # y /\ user[x] = user[y]
  <2>1. Cardinality(Coordinators) < Cardinality(Tokens)
    BY <1>1, <1>2
  <2>. HIDE DEF user, N
  <2>. QED BY <1>1, <1>2, <1>5, <2>1, FS_PigeonHole, Zenon
<1>7. user[x] = (IF x = lease[r].token THEN c ELSE Holder(x))
  OBVIOUS
<1>8. user[y] = (IF y = lease[r].token THEN c ELSE Holder(y))
  OBVIOUS
<1>. QED BY <1>4, <1>6, <1>7, <1>8

-----------------------------------------------------------------------------
\* What becomes of the tasks when one of them goes on, is over or begins.

TaskTable == [Coordinators -> [Runs -> TaskType]]

\* A task that goes on keeps its lease; one that is over keeps no token.
LEMMA TaskGoesOn ==
    ASSUME IInv, NEW c \in Coordinators, NEW r \in Runs, NEW t \in TaskType,
           HasTask(c, r),
           task' = [task EXCEPT ![c][r] = t],
           lease' = lease, stalls' = stalls,
           t.token = (IF t.pc = "none" THEN 0 ELSE task[c][r].token),
           t.pc = "finalize" => t.result # "none"
    PROVE  task' \in TaskTable /\ TasksFit'
<1>1. task \in TaskTable
  BY DEF IInv, TypeOK, TaskTable
<1>2. /\ task' \in TaskTable
      /\ task'[c][r] = t
      /\ \A d \in Coordinators, s \in Runs : d # c \/ s # r => task'[d][s] = task[d][s]
  BY <1>1 DEF TaskTable
<1>. QED BY <1>2 DEF IInv, TasksFit, HasTask

\* Goes changes the next thing a task does, and makes it read the status anew.
Gone(c, r, pc) == [task[c][r] EXCEPT !.pc = pc, !.seen = Unread]

LEMMA GoesChanges ==
    ASSUME TypeOK, NEW c \in Coordinators, NEW r \in Runs, NEW pc \in PCs, Goes(c, r, pc)
    PROVE  /\ Gone(c, r, pc) \in TaskType
           /\ Gone(c, r, pc).pc = pc
           /\ Gone(c, r, pc).token = task[c][r].token
           /\ Gone(c, r, pc).result = task[c][r].result
           /\ task' = [task EXCEPT ![c][r] = Gone(c, r, pc)]
<1>1. task[c][r] \in TaskType
  BY DEF TypeOK
<1>2. Gone(c, r, pc) \in TaskType
  BY <1>1 DEF TaskType, Gone
<1>3. Gone(c, r, pc).pc = pc /\ Gone(c, r, pc).token = task[c][r].token
      /\ Gone(c, r, pc).result = task[c][r].result
  BY <1>1 DEF TaskType, Gone
<1>4. task' = [task EXCEPT ![c][r] = Gone(c, r, pc)]
  BY DEF Goes, Gone
<1>. QED BY <1>2, <1>3, <1>4

LEMMA TaskGoes ==
    ASSUME IInv, NEW c \in Coordinators, NEW r \in Runs, NEW pc \in PCs, Goes(c, r, pc),
           HasTask(c, r), pc # "none", pc = "finalize" => task[c][r].result # "none",
           lease' = lease, stalls' = stalls
    PROVE  task' \in TaskTable /\ TasksFit'
<1>1. TypeOK
  BY DEF IInv
<1>2. /\ Gone(c, r, pc) \in TaskType
      /\ Gone(c, r, pc).pc = pc
      /\ Gone(c, r, pc).token = task[c][r].token
      /\ Gone(c, r, pc).result = task[c][r].result
      /\ task' = [task EXCEPT ![c][r] = Gone(c, r, pc)]
  BY <1>1, GoesChanges
<1>. QED BY <1>2, TaskGoesOn

LEMMA NoTaskType == NoTask \in TaskType
BY RunsAssumption DEF NoTask, TaskType, PCs, Results

LEMMA TaskEnds ==
    ASSUME IInv, NEW c \in Coordinators, NEW r \in Runs, HasTask(c, r),
           task' = [task EXCEPT ![c][r] = NoTask],
           lease' = lease, stalls' = stalls
    PROVE  task' \in TaskTable /\ TasksFit'
BY NoTaskType, TaskGoesOn DEF NoTask

\* A task begins with a lease that nobody else's task holds.
LeaseType == [owner : Coordinators \cup {"nobody", "gone"}, token : Tokens \cup {0}, live : BOOLEAN]

LEMMA TaskBegins ==
    ASSUME IInv, NEW c \in Coordinators, NEW r \in Runs, ~HasTask(c, r), Begin(c, r),
           stalls' = stalls
    PROVE  lease' \in [Runs -> LeaseType] /\ task' \in TaskTable /\ TasksFit'
<1>. DEFINE tk == FreshToken(r)
            t == [NoTask EXCEPT !.pc = "starting", !.token = tk]
<1>1. tk \in Tokens
  BY FreshTokenExists DEF IInv, TasksFit
<1>2. lease' = [lease EXCEPT ![r] = [owner |-> c, token |-> tk, live |-> TRUE]]
  BY DEF Begin
<1>3. task' = [task EXCEPT ![c][r] = t]
  BY DEF Begin
<1>4. t \in TaskType /\ t.pc = "starting" /\ t.token = tk
  BY <1>1, NoTaskType DEF NoTask, TaskType, PCs
<1>5. lease \in [Runs -> LeaseType] /\ task \in TaskTable
  BY DEF IInv, TypeOK, LeaseType, TaskTable
<1>. HIDE DEF t, tk
<1>6. lease' \in [Runs -> LeaseType]
  BY <1>1, <1>2, <1>5 DEF LeaseType
<1>7. /\ task' \in TaskTable
      /\ task'[c][r] = t
      /\ \A d \in Coordinators, s \in Runs : d # c \/ s # r => task'[d][s] = task[d][s]
  BY <1>3, <1>4, <1>5 DEF TaskTable
<1>8. stalls = 0 => \A d \in Coordinators : d # c => ~HasTask(d, r)
  <2>1. Acquirable(c, r)
    BY DEF Begin
  <2>. SUFFICES ASSUME stalls = 0, NEW d \in Coordinators, d # c, HasTask(d, r)
                PROVE  FALSE
    OBVIOUS
  <2>2. lease[r] = [owner |-> d, token |-> task[d][r].token, live |-> TRUE]
    BY DEF IInv, TasksFit
  <2>. QED BY <2>1, <2>2 DEF Acquirable
<1>9. /\ lease'[r] = [owner |-> c, token |-> tk, live |-> TRUE]
      /\ \A s \in Runs : s # r => lease'[s] = lease[s]
  BY <1>2, <1>5
<1>10. TasksFit'
  <2>. SUFFICES ASSUME NEW d \in Coordinators, NEW s \in Runs
                PROVE  /\ ~HasTask(d, s)' => task'[d][s].token = 0
                       /\ task'[d][s].pc = "finalize" => task'[d][s].result # "none"
                       /\ stalls' = 0 /\ HasTask(d, s)' =>
                             lease'[s] = [owner |-> d, token |-> task'[d][s].token, live |-> TRUE]
    BY DEF TasksFit
  <2>1. CASE d = c /\ s = r
    BY <2>1, <1>4, <1>7, <1>9 DEF HasTask
  <2>2. CASE d # c /\ s = r
    <3>1. task'[d][s] = task[d][s]
      BY <2>2, <1>7
    <3>. QED BY <2>2, <3>1, <1>8 DEF IInv, TasksFit, HasTask
  <2>3. CASE s # r
    <3>1. task'[d][s] = task[d][s] /\ lease'[s] = lease[s]
      BY <2>3, <1>7, <1>9
    <3>. QED BY <3>1 DEF IInv, TasksFit, HasTask
  <2>. QED BY <2>1, <2>2, <2>3
<1>. QED BY <1>6, <1>7, <1>10

-----------------------------------------------------------------------------
\* What becomes of the leases.

LEMMA TaskHoldsLease ==
    ASSUME IInv, stalls = 0, NEW c \in Coordinators, NEW r \in Runs, HasTask(c, r)
    PROVE  HoldsLease(c, r) /\ lease[r].owner = c /\ lease[r].live
<1>1. lease[r] = [owner |-> c, token |-> task[c][r].token, live |-> TRUE]
  BY DEF IInv, TasksFit
<1>. QED BY <1>1 DEF HoldsLease

LEMMA LeaseRunsOut ==
    ASSUME IInv, NEW r \in Runs, NEW b \in BOOLEAN,
           lease' = [lease EXCEPT ![r].live = b],
           stalls = 0 => \A c \in Coordinators : ~HasTask(c, r) \/ (stalls' # 0 \/ lease[r].live = b),
           task' = task, stalls' = 0 => stalls = 0
    PROVE  lease' \in [Runs -> LeaseType] /\ TasksFit'
<1>1. lease \in [Runs -> LeaseType]
  BY DEF IInv, TypeOK, LeaseType
<1>2. lease' \in [Runs -> LeaseType] /\ \A s \in Runs : s # r => lease'[s] = lease[s]
  BY <1>1 DEF LeaseType
<1>3. lease[r].live = b => lease'[r] = lease[r]
  BY <1>1 DEF LeaseType
<1>4. TasksFit'
  <2>. SUFFICES ASSUME NEW d \in Coordinators, NEW s \in Runs, stalls' = 0, HasTask(d, s)
                PROVE  lease'[s] = [owner |-> d, token |-> task[d][s].token, live |-> TRUE]
    BY DEF IInv, TasksFit, HasTask
  <2>1. lease[s] = [owner |-> d, token |-> task[d][s].token, live |-> TRUE]
    BY DEF IInv, TasksFit
  <2>2. lease'[s] = lease[s]
    BY <1>2, <1>3
  <2>. QED BY <2>1, <2>2
<1>. QED BY <1>2, <1>4

LEMMA NoLeaseType == NoLease \in LeaseType
BY DEF NoLease, LeaseType

\* A lease is given back: nobody has a task for the run, or only the one that ends now.
LEMMA LeaseGivenBack ==
    ASSUME IInv, NEW r \in Runs,
           lease' = [lease EXCEPT ![r] = NoLease],
           task' \in TaskTable,
           stalls = 0 => \A c \in Coordinators : task'[c][r].pc = "none",
           \A c \in Coordinators : task'[c][r] = NoTask \/ task'[c][r] = task[c][r],
           \A c \in Coordinators, s \in Runs : s # r => task'[c][s] = task[c][s],
           stalls' = stalls
    PROVE  lease' \in [Runs -> LeaseType] /\ TasksFit'
<1>1. lease \in [Runs -> LeaseType]
  BY DEF IInv, TypeOK, LeaseType
<1>2. lease' \in [Runs -> LeaseType] /\ \A s \in Runs : s # r => lease'[s] = lease[s]
  BY <1>1, NoLeaseType
<1>3. TasksFit'
  <2>. SUFFICES ASSUME NEW d \in Coordinators, NEW s \in Runs
                PROVE  /\ ~HasTask(d, s)' => task'[d][s].token = 0
                       /\ task'[d][s].pc = "finalize" => task'[d][s].result # "none"
                       /\ stalls' = 0 /\ HasTask(d, s)' =>
                             lease'[s] = [owner |-> d, token |-> task'[d][s].token, live |-> TRUE]
    BY DEF TasksFit
  <2>1. CASE s = r
    BY <2>1 DEF IInv, TasksFit, HasTask, NoTask
  <2>2. CASE s # r
    BY <2>2, <1>2 DEF IInv, TasksFit, HasTask
  <2>. QED BY <2>1, <2>2
<1>. QED BY <1>2, <1>3

\* A process goes down: it has no tasks, and its leases have no owner any more.
LEMMA ProcessGone ==
    ASSUME IInv, NEW c \in Coordinators, lease' = Disown(c),
           task' \in TaskTable,
           \A r \in Runs : task'[c][r] = NoTask \/ (task'[c][r] = task[c][r] /\ ~HasTask(c, r)),
           \A d \in Coordinators, r \in Runs : d # c => task'[d][r] = task[d][r],
           stalls' = stalls
    PROVE  lease' \in [Runs -> LeaseType] /\ TasksFit'
<1>1. lease \in [Runs -> LeaseType]
  BY DEF IInv, TypeOK, LeaseType
<1>2. lease' \in [Runs -> LeaseType]
  <2>. SUFFICES ASSUME NEW r \in Runs
                PROVE  (IF lease[r].owner = c THEN [lease[r] EXCEPT !.owner = "gone"]
                                              ELSE lease[r]) \in LeaseType
    BY DEF Disown
  <2>. QED BY <1>1 DEF LeaseType
<1>3. \A r \in Runs : lease[r].owner # c => lease'[r] = lease[r]
  BY DEF Disown
<1>4. TasksFit'
  <2>. SUFFICES ASSUME NEW d \in Coordinators, NEW s \in Runs
                PROVE  /\ ~HasTask(d, s)' => task'[d][s].token = 0
                       /\ task'[d][s].pc = "finalize" => task'[d][s].result # "none"
                       /\ stalls' = 0 /\ HasTask(d, s)' =>
                             lease'[s] = [owner |-> d, token |-> task'[d][s].token, live |-> TRUE]
    BY DEF TasksFit
  <2>1. CASE d = c
    BY <2>1 DEF IInv, TasksFit, HasTask, NoTask
  <2>2. CASE d # c
    <3>1. task'[d][s] = task[d][s]
      BY <2>2
    <3>2. ASSUME stalls = 0, HasTask(d, s)
          PROVE  /\ lease[s] = [owner |-> d, token |-> task[d][s].token, live |-> TRUE]
                 /\ lease'[s] = lease[s]
      <4>1. lease[s] = [owner |-> d, token |-> task[d][s].token, live |-> TRUE]
        BY <3>2 DEF IInv, TasksFit
      <4>2. lease[s].owner = d
        BY <4>1
      <4>. QED BY <2>2, <4>1, <4>2, <1>3
    <3>. QED BY <3>1, <3>2 DEF IInv, TasksFit, HasTask
  <2>. QED BY <2>1, <2>2
<1>. QED BY <1>2, <1>4

-----------------------------------------------------------------------------
\* Every step keeps the inductive invariant.

TypeOKOthers ==
    /\ status \in [Runs -> Statuses]
    /\ cancelRequested \in [Runs -> BOOLEAN]
    /\ thread \in [Runs -> [saved : 0..Nodes, result : Results]]
    /\ scan \in [Coordinators -> SUBSET Runs]
    /\ mode \in [Coordinators -> {"up", "stopping", "closing", "down"}]
    /\ faults \in 0..MaxFaults
    /\ stalls \in 0..MaxStalls
    /\ \A c \in Coordinators : mode[c] # "up" => scan[c] = {}

LEMMA TypeParts ==
    TypeOK <=> TypeOKOthers /\ lease \in [Runs -> LeaseType] /\ task \in TaskTable
BY DEF TypeOK, TypeOKOthers, LeaseType, TaskTable

\* The steps of the clients, and the leases that run out.
LEMMA RunSteps ==
    ASSUME IInv, NEW r \in Runs,
           CreateRun(r) \/ RequestCancel(r) \/ Expire(r) \/ Stall(r)
    PROVE  IInv'
<1>0. TypeOKOthers /\ lease \in [Runs -> LeaseType] /\ task \in TaskTable
  BY TypeParts DEF IInv
<1>. SUFFICES TypeOKOthers' /\ lease' \in [Runs -> LeaseType] /\ task' \in TaskTable /\ TasksFit'
  BY DEF IInv, TypeOK, TypeOKOthers, LeaseType, TaskTable
<1>1. CASE CreateRun(r)
  BY <1>0, <1>1 DEF CreateRun, TypeOKOthers, Statuses, counts, IInv, TasksFit, HasTask
<1>2. CASE RequestCancel(r)
  BY <1>0, <1>2 DEF RequestCancel, TypeOKOthers, Statuses, counts, IInv, TasksFit, HasTask
<1>3. CASE Expire(r)
  <2>1. TypeOKOthers' /\ task' = task /\ stalls' = stalls
    BY <1>0, <1>3 DEF Expire, TypeOKOthers, rows, counts
  <2>2. stalls = 0 => \A d \in Coordinators : ~HasTask(d, r)
    BY <1>3, TaskHoldsLease DEF Expire, Held
  <2>3. lease' = [lease EXCEPT ![r].live = FALSE]
    BY <1>3 DEF Expire
  <2>. QED BY <1>0, <2>1, <2>2, <2>3, LeaseRunsOut
<1>4. CASE Stall(r)
  <2>1. TypeOKOthers' /\ task' = task /\ stalls' # 0
    BY <1>0, <1>4, RunsAssumption DEF Stall, TypeOKOthers, rows
  <2>2. lease' = [lease EXCEPT ![r].live = FALSE]
    BY <1>4 DEF Stall
  <2>. QED BY <1>0, <2>1, <2>2, LeaseRunsOut
<1>. QED BY <1>1, <1>2, <1>3, <1>4

\* The leases that a coordinator takes, renews and gives back at once.
LEMMA LeaseSteps ==
    ASSUME IInv, NEW c \in Coordinators, NEW r \in Runs,
           Renew(c, r) \/ ClaimRun(c, r) \/ Resume(c, r) \/ RefuseResume(c, r)
    PROVE  IInv'
<1>0. TypeOKOthers /\ lease \in [Runs -> LeaseType] /\ task \in TaskTable
  BY TypeParts DEF IInv
<1>. SUFFICES TypeOKOthers' /\ lease' \in [Runs -> LeaseType] /\ task' \in TaskTable /\ TasksFit'
  BY DEF IInv, TypeOK, TypeOKOthers, LeaseType, TaskTable
<1>1. CASE Renew(c, r)
  <2>1. TypeOKOthers' /\ task' = task /\ stalls' = stalls
    BY <1>0, <1>1 DEF Renew, TypeOKOthers, rows, counts
  <2>2. stalls # 0
    BY <1>1, TaskHoldsLease DEF Renew
  <2>3. lease' = [lease EXCEPT ![r].live = TRUE]
    BY <1>1 DEF Renew
  <2>. QED BY <1>0, <2>1, <2>2, <2>3, LeaseRunsOut
<1>2. CASE ClaimRun(c, r)
  <2>1. TypeOKOthers' /\ stalls' = stalls
    BY <1>0, <1>2 DEF ClaimRun, TypeOKOthers, rows, counts
  <2>2. CASE MayTake(c, r)
    BY <1>2, <2>1, <2>2, TaskBegins DEF ClaimRun, MayTake
  <2>3. CASE ~MayTake(c, r)
    BY <1>0, <1>2, <2>1, <2>3 DEF ClaimRun, IInv, TasksFit, HasTask
  <2>. QED BY <2>2, <2>3
<1>3. CASE Resume(c, r)
  <2>1. TypeOKOthers' /\ stalls' = stalls
    BY <1>0, <1>3 DEF Resume, TypeOKOthers, rows, counts
  <2>. QED BY <1>3, <2>1, TaskBegins DEF Resume
<1>4. CASE RefuseResume(c, r)
  <2>1. TypeOKOthers' /\ task' = task /\ stalls' = stalls
    BY <1>0, <1>4 DEF RefuseResume, TypeOKOthers, rows, counts
  <2>2. lease' = [lease EXCEPT ![r] = NoLease]
    BY <1>4 DEF RefuseResume
  <2>3. ASSUME stalls = 0, NEW d \in Coordinators, HasTask(d, r)
        PROVE  FALSE
    <3>1. lease[r].owner = d /\ lease[r].live
      BY <2>3, TaskHoldsLease
    <3>2. ~HasTask(c, r) /\ Acquirable(c, r)
      BY <1>4 DEF RefuseResume
    <3>. QED BY <2>3, <3>1, <3>2 DEF Acquirable
  <2>4. stalls = 0 => \A d \in Coordinators : task'[d][r].pc = "none"
    BY <2>1, <2>3 DEF HasTask
  <2>. QED BY <1>0, <2>1, <2>2, <2>4, LeaseGivenBack
<1>. QED BY <1>1, <1>2, <1>3, <1>4

\* The steps of a task.
LEMMA TaskSteps ==
    ASSUME IInv, NEW c \in Coordinators, NEW r \in Runs,
           TaskStep(c, r) \/ LoseLease(c, r) \/ FailHeartbeat(c, r)
    PROVE  IInv'
<1>0. /\ TypeOKOthers /\ lease \in [Runs -> LeaseType] /\ task \in TaskTable
      /\ task[c][r] \in TaskType /\ TypeOK
  BY TypeParts DEF IInv, TaskTable
<1>. SUFFICES TypeOKOthers' /\ lease' \in [Runs -> LeaseType] /\ task' \in TaskTable /\ TasksFit'
  BY DEF IInv, TypeOK, TypeOKOthers, LeaseType, TaskTable
<1>1. CASE Open(c, r)
  <2>. DEFINE next == IF status[r] = "cancelling" \/ cancelRequested[r] THEN "dismiss" ELSE "loading"
              t == [task[c][r] EXCEPT !.pc = next, !.seen = status[r]]
  <2>1. task' = [task EXCEPT ![c][r] = t]
    BY <1>1 DEF Open
  <2>2. t \in TaskType /\ t.pc \in {"dismiss", "loading"} /\ t.token = task[c][r].token
    BY <1>0 DEF TaskType, PCs, Writing, TypeOKOthers
  <2>3. TypeOKOthers' /\ lease' = lease /\ stalls' = stalls /\ HasTask(c, r)
    BY <1>0, <1>1 DEF Open, TypeOKOthers, rows, counts, HasTask
  <2>. HIDE DEF t
  <2>. QED BY <1>0, <2>1, <2>2, <2>3, TaskGoesOn
<1>2. CASE Load(c, r)
  <2>. DEFINE from == IF Fresh(c, r) THEN [saved |-> 1, result |-> "none"] ELSE thread[r]
              t == [task[c][r] EXCEPT !.pc = IF from.result = "none" THEN "publish" ELSE "finalize",
                                      !.seen = Unread, !.saved = from.saved, !.result = from.result]
  <2>1. task' = [task EXCEPT ![c][r] = t] /\ thread' = [thread EXCEPT ![r] = from]
    BY <1>2 DEF Load
  <2>2. from \in [saved : 0..Nodes, result : Results]
    BY <1>0, RunsAssumption DEF TypeOKOthers, Results
  <2>3. /\ t \in TaskType
        /\ t.pc \in {"publish", "finalize"}
        /\ t.pc = "finalize" => t.result # "none"
        /\ t.token = task[c][r].token
    BY <1>0, <2>2 DEF TaskType, PCs, Writing
  <2>. HIDE DEF t, from
  <2>4. lease' = lease /\ stalls' = stalls /\ HasTask(c, r)
    BY <1>2 DEF Load, counts, HasTask
  <2>5. TypeOKOthers'
    BY <1>0, <1>2, <2>1, <2>2 DEF Load, TypeOKOthers, rows, counts
  <2>. QED BY <1>0, <2>1, <2>3, <2>4, <2>5, TaskGoesOn
<1>3. CASE MissCheckpoint(c, r) \/ GraphRaises(c, r)
  <2>1. Goes(c, r, "fail") /\ TypeOKOthers' /\ lease' = lease /\ stalls' = stalls /\ HasTask(c, r)
    BY <1>0, <1>3 DEF MissCheckpoint, GraphRaises, TypeOKOthers, rows, counts, HasTask
  <2>2. "fail" \in PCs
    BY DEF PCs, Writing
  <2>. QED BY <1>0, <2>1, <2>2, TaskGoes
<1>4. CASE RunNode(c, r)
  <2>. DEFINE t == [task[c][r] EXCEPT !.pc = "publish", !.saved = task[c][r].saved + 1]
              new == [saved |-> task[c][r].saved + 1, result |-> "none"]
  <2>1. task' = [task EXCEPT ![c][r] = t] /\ thread' = [thread EXCEPT ![r] = new]
    BY <1>4 DEF RunNode
  <2>2. task[c][r].saved + 1 \in 0..Nodes
    BY <1>0, <1>4, RunsAssumption DEF RunNode, TaskType
  <2>3. new \in [saved : 0..Nodes, result : Results]
    BY <2>2 DEF Results
  <2>4. t \in TaskType /\ t.pc = "publish" /\ t.token = task[c][r].token
    BY <1>0, <2>2 DEF TaskType, PCs, Writing
  <2>. HIDE DEF t, new
  <2>5. lease' = lease /\ stalls' = stalls /\ HasTask(c, r)
    BY <1>4 DEF RunNode, counts, HasTask
  <2>6. TypeOKOthers'
    BY <1>0, <1>4, <2>1, <2>3 DEF RunNode, TypeOKOthers, rows, counts
  <2>. QED BY <1>0, <2>1, <2>4, <2>5, <2>6, TaskGoesOn
<1>5. CASE EndGraph(c, r)
  <2>0. PICK result \in Results \ {"none"} :
          /\ thread' = [thread EXCEPT ![r] = [saved |-> task[c][r].saved, result |-> result]]
          /\ task' = [task EXCEPT ![c][r].pc = "finalize", ![c][r].result = result]
    BY <1>5 DEF EndGraph
  <2>. DEFINE t == [task[c][r] EXCEPT !.pc = "finalize", !.result = result]
              new == [saved |-> task[c][r].saved, result |-> result]
  <2>1. task' = [task EXCEPT ![c][r] = t] /\ thread' = [thread EXCEPT ![r] = new]
    BY <2>0
  <2>2. new \in [saved : 0..Nodes, result : Results]
    BY <1>0 DEF TaskType
  <2>3. /\ t \in TaskType /\ t.pc = "finalize"
        /\ t.result # "none" /\ t.token = task[c][r].token
    BY <1>0 DEF TaskType, PCs, Writing
  <2>. HIDE DEF t, new
  <2>4. lease' = lease /\ stalls' = stalls /\ HasTask(c, r)
    BY <1>5 DEF EndGraph, counts, HasTask
  <2>5. TypeOKOthers'
    BY <1>0, <1>5, <2>1, <2>2 DEF EndGraph, TypeOKOthers, rows, counts
  <2>. QED BY <1>0, <2>1, <2>3, <2>4, <2>5, TaskGoesOn
<1>6. CASE ReadStatus(c, r)
  <2>. DEFINE t == [task[c][r] EXCEPT !.seen = status[r]]
  <2>1. task' = [task EXCEPT ![c][r] = t]
    BY <1>6 DEF ReadStatus
  <2>2. /\ t \in TaskType
        /\ t.pc = task[c][r].pc /\ t.result = task[c][r].result /\ t.token = task[c][r].token
    BY <1>0 DEF TaskType, TypeOKOthers
  <2>3. TypeOKOthers' /\ lease' = lease /\ stalls' = stalls /\ HasTask(c, r)
    BY <1>0, <1>6 DEF ReadStatus, TypeOKOthers, rows, counts, HasTask, Writing
  <2>4. t.pc = "finalize" => t.result # "none"
    BY <2>2 DEF IInv, TasksFit
  <2>5. t.pc # "none"
    BY <2>2, <2>3 DEF HasTask
  <2>. HIDE DEF t
  <2>. QED BY <1>0, <2>1, <2>2, <2>3, <2>4, <2>5, TaskGoesOn
<1>7. CASE WriteStatus(c, r)
  <2>1. lease' = lease /\ stalls' = stalls /\ HasTask(c, r)
    BY <1>7 DEF WriteStatus, counts, HasTask, Writing
  <2>2. Target(c, r) \in Statuses
    BY <1>0, <1>7 DEF WriteStatus, Target, Statuses, Terminal, TaskType, Results, Writing, IInv, TasksFit
  <2>3. TypeOKOthers'
    BY <1>0, <1>7, <2>2 DEF WriteStatus, TypeOKOthers, counts
  <2>4. Then(c, r) \in {"running", "none", "releasing", "fail"}
    BY DEF Then
  <2>5. CASE Then(c, r) = "none"
    BY <1>0, <1>7, <2>1, <2>3, <2>5, TaskEnds DEF WriteStatus
  <2>6. CASE Then(c, r) # "none"
    <3>1. Goes(c, r, Then(c, r))
      BY <1>7, <2>6 DEF WriteStatus
    <3>2. Then(c, r) \in PCs /\ Then(c, r) # "finalize"
      BY <2>4 DEF PCs, Writing
    <3>. QED BY <1>0, <2>1, <2>3, <2>6, <3>1, <3>2, TaskGoes
  <2>. QED BY <2>5, <2>6
<1>8. CASE Release(c, r)
  <2>1. TypeOKOthers' /\ stalls' = stalls /\ HasTask(c, r)
    BY <1>0, <1>8 DEF Release, TypeOKOthers, rows, counts, HasTask
  <2>2. task' = [task EXCEPT ![c][r] = NoTask]
    BY <1>8 DEF Release
  <2>3. CASE HoldsLease(c, r)
    <3>1. lease' = [lease EXCEPT ![r] = NoLease]
      BY <1>8, <2>3 DEF Release
    <3>2. /\ task' \in TaskTable
          /\ task'[c][r] = NoTask
          /\ \A d \in Coordinators, s \in Runs : d # c \/ s # r => task'[d][s] = task[d][s]
      BY <1>0, <2>2, NoTaskType DEF TaskTable
    <3>3. ASSUME stalls = 0, NEW d \in Coordinators
          PROVE  task'[d][r].pc = "none"
      <4>1. CASE d = c
        BY <4>1, <3>2 DEF NoTask
      <4>2. CASE d # c
        <5>1. ~HasTask(d, r)
          BY <2>1, <3>3, <4>2, TaskHoldsLease
        <5>. QED BY <3>2, <4>2, <5>1 DEF HasTask
      <4>. QED BY <4>1, <4>2
    <3>4. /\ \A d \in Coordinators : task'[d][r] = NoTask \/ task'[d][r] = task[d][r]
          /\ \A d \in Coordinators, s \in Runs : s # r => task'[d][s] = task[d][s]
      BY <3>2
    <3>. QED BY <2>1, <3>1, <3>2, <3>3, <3>4, LeaseGivenBack
  <2>4. CASE ~HoldsLease(c, r)
    BY <1>0, <1>8, <2>1, <2>2, <2>4, TaskEnds DEF Release
  <2>. QED BY <2>3, <2>4
<1>9. CASE LoseLease(c, r)
  <2>. DEFINE pc == IF mode[c] = "up" THEN "interrupt" ELSE "releasing"
  <2>1. Goes(c, r, pc) /\ TypeOKOthers' /\ lease' = lease /\ stalls' = stalls /\ HasTask(c, r)
    BY <1>0, <1>9 DEF LoseLease, TypeOKOthers, rows, counts, HasTask
  <2>2. pc \in PCs /\ pc # "none" /\ pc # "finalize"
    BY DEF PCs, Writing
  <2>. HIDE DEF pc
  <2>. QED BY <1>0, <2>1, <2>2, TaskGoes
<1>10. CASE FailHeartbeat(c, r)
  <2>1. TypeOKOthers' /\ lease' = lease /\ stalls' = stalls /\ HasTask(c, r)
    BY <1>0, <1>10, RunsAssumption DEF FailHeartbeat, TypeOKOthers, rows, counts, HasTask
  <2>2. "abandon" \in PCs
    BY DEF PCs, Writing
  <2>3. Goes(c, r, "abandon") \/ task' = [task EXCEPT ![c][r] = NoTask]
    BY <1>10 DEF FailHeartbeat
  <2>. QED BY <1>0, <2>1, <2>2, <2>3, TaskGoes, TaskEnds
<1>. QED BY <1>1, <1>2, <1>3, <1>4, <1>5, <1>6, <1>7, <1>8, <1>9, <1>10 DEF TaskStep

\* The steps of a process.
LEMMA ProcessSteps ==
    ASSUME IInv, NEW c \in Coordinators,
           \/ ListClaimable(c)
           \/ BeginStop(c) \/ CancelTasks(c) \/ Exit(c) \/ Crash(c) \/ Start(c)
    PROVE  IInv'
<1>0. /\ TypeOKOthers /\ lease \in [Runs -> LeaseType] /\ task \in TaskTable
      /\ TasksFit /\ \A r \in Runs : task[c][r] \in TaskType
  BY TypeParts DEF IInv, TaskTable
<1>. SUFFICES TypeOKOthers' /\ lease' \in [Runs -> LeaseType] /\ task' \in TaskTable /\ TasksFit'
  BY DEF IInv, TypeOK, TypeOKOthers, LeaseType, TaskTable
<1>1. CASE BeginStop(c)
  BY <1>0, <1>1, RunsAssumption DEF BeginStop, TypeOKOthers, rows, TasksFit, HasTask
<1>2. CASE CancelTasks(c)
  <2>. DEFINE new(r) == IF HasTask(c, r)
                        THEN [task[c][r] EXCEPT !.pc = Cut(task[c][r].pc), !.seen = Unread]
                        ELSE NoTask
  <2>1. task' = [task EXCEPT ![c] = [r \in Runs |-> new(r)]]
    BY <1>2 DEF CancelTasks
  <2>2. ASSUME NEW r \in Runs
        PROVE  /\ new(r) \in TaskType
               /\ new(r).pc \in {"abandon", "interrupt", "none"}
               /\ new(r).pc # "none" => HasTask(c, r) /\ new(r).token = task[c][r].token
               /\ new(r).pc = "none" => new(r).token = 0
    <3>1. CASE HasTask(c, r)
      BY <1>0, <3>1 DEF TaskType, Cut, PCs, Writing
    <3>2. CASE ~HasTask(c, r)
      BY <3>2, NoTaskType DEF NoTask
    <3>. QED BY <3>1, <3>2
  <2>. HIDE DEF new
  <2>3. /\ task' \in TaskTable
        /\ \A r \in Runs : task'[c][r] = new(r)
        /\ \A d \in Coordinators, r \in Runs : d # c => task'[d][r] = task[d][r]
    BY <1>0, <2>1, <2>2 DEF TaskTable
  <2>4. TypeOKOthers' /\ lease' = lease /\ stalls' = stalls
    BY <1>0, <1>2 DEF CancelTasks, TypeOKOthers, rows, counts
  <2>5. TasksFit'
    <3>. SUFFICES ASSUME NEW d \in Coordinators, NEW s \in Runs
                  PROVE  /\ ~HasTask(d, s)' => task'[d][s].token = 0
                         /\ task'[d][s].pc = "finalize" => task'[d][s].result # "none"
                         /\ stalls' = 0 /\ HasTask(d, s)' =>
                               lease'[s] = [owner |-> d, token |-> task'[d][s].token, live |-> TRUE]
      BY DEF TasksFit
    <3>1. CASE d = c
      BY <1>0, <2>2, <2>3, <2>4, <3>1 DEF TasksFit, HasTask
    <3>2. CASE d # c
      BY <1>0, <2>3, <2>4, <3>2 DEF TasksFit, HasTask
    <3>. QED BY <3>1, <3>2
  <2>. QED BY <1>0, <2>3, <2>4, <2>5
<1>3. CASE Exit(c)
  <2>1. TypeOKOthers' /\ task' = task /\ lease' = Disown(c) /\ stalls' = stalls
    BY <1>0, <1>3 DEF Exit, TypeOKOthers, rows, counts
  <2>2. \A r \in Runs : ~HasTask(c, r)
    BY <1>3 DEF Exit, Busy
  <2>. QED BY <1>0, <2>1, <2>2, ProcessGone
<1>4. CASE Crash(c)
  <2>1. TypeOKOthers' /\ lease' = Disown(c) /\ stalls' = stalls
    BY <1>0, <1>4, RunsAssumption DEF Crash, TypeOKOthers, rows
  <2>2. task' = [task EXCEPT ![c] = [r \in Runs |-> NoTask]]
    BY <1>4 DEF Crash
  <2>3. /\ task' \in TaskTable
        /\ \A r \in Runs : task'[c][r] = NoTask
        /\ \A d \in Coordinators, r \in Runs : d # c => task'[d][r] = task[d][r]
    BY <1>0, <2>2, NoTaskType DEF TaskTable
  <2>. QED BY <2>1, <2>3, ProcessGone
<1>5. CASE Start(c)
  BY <1>0, <1>5 DEF Start, TypeOKOthers, rows, counts, TasksFit, HasTask
<1>6. CASE ListClaimable(c)
  BY <1>0, <1>6 DEF ListClaimable, TypeOKOthers, rows, counts, TasksFit, HasTask
<1>. QED BY <1>1, <1>2, <1>3, <1>4, <1>5, <1>6

LEMMA IInvInit == Init => IInv
<1>. SUFFICES ASSUME Init PROVE IInv
  OBVIOUS
<1>1. TypeOKOthers
  BY RunsAssumption DEF Init, TypeOKOthers, Statuses, NoCheckpoint, Results
<1>2. lease \in [Runs -> LeaseType] /\ task \in TaskTable
  BY NoLeaseType, NoTaskType DEF Init, TaskTable
<1>3. TasksFit
  BY DEF Init, TasksFit, HasTask, NoTask
<1>. QED BY <1>1, <1>2, <1>3, TypeParts DEF IInv

LEMMA IInvStep == IInv /\ [Next]_vars => IInv'
<1>. SUFFICES ASSUME IInv, [Next]_vars PROVE IInv'
  OBVIOUS
<1>1. CASE \E r \in Runs : CreateRun(r) \/ RequestCancel(r) \/ Expire(r) \/ Stall(r)
  BY <1>1, RunSteps
<1>2. CASE \E c \in Coordinators, r \in Runs :
              Renew(c, r) \/ ClaimRun(c, r) \/ Resume(c, r) \/ RefuseResume(c, r)
  BY <1>2, LeaseSteps
<1>3. CASE \E c \in Coordinators, r \in Runs :
              TaskStep(c, r) \/ LoseLease(c, r) \/ FailHeartbeat(c, r)
  BY <1>3, TaskSteps
<1>4. CASE \E c \in Coordinators :
              ListClaimable(c) \/ BeginStop(c) \/ CancelTasks(c) \/ Exit(c) \/ Crash(c) \/ Start(c)
  BY <1>4, ProcessSteps
<1>5. CASE UNCHANGED vars
  BY <1>5 DEF IInv, TypeOK, TasksFit, HasTask, vars, rows, counts
<1>. QED BY <1>1, <1>2, <1>3, <1>4, <1>5 DEF Next

\* The types and the fit of tasks and leases hold in every reachable state.
THEOREM Invariance == Spec => []IInv
BY IInvInit, IInvStep, PTL DEF Spec

\* The columns keep to their types, and a process that is not up has no list of runs.
THEOREM TypeCorrect == Spec => []TypeOK
<1>1. IInv => TypeOK
  BY DEF IInv
<1>. QED BY <1>1, Invariance, PTL

\* Two processes never execute one run, as long as none stands still past its lease
\* (acquire_lease with renew_lease, through stops, deaths and failed renewals).
THEOREM OneExecutorTheorem == Spec => []OneExecutor
<1>1. IInv => OneExecutor
  <2>. SUFFICES ASSUME IInv, stalls = 0, NEW r \in Runs, NEW c \in Coordinators,
                       NEW d \in Coordinators, HasTask(c, r), HasTask(d, r)
                PROVE  c = d
    BY DEF OneExecutor
  <2>. QED BY TaskHoldsLease
<1>. QED BY <1>1, Invariance, PTL

-----------------------------------------------------------------------------
\* What a task has of its thread and of the flag, until a process stands still past its lease.

Onward == {"loading", "publish", "running", "finalize"}

\* A task never lags behind the checkpoint, and one that still works for an answer has the
\* flag of a cancellation only beside a status that will keep the answer away.
Progress(c, r) ==
    /\ task[c][r].pc \in {"publish", "running"} => thread[r].saved <= task[c][r].saved
    /\ task[c][r].pc \in Onward /\ cancelRequested[r] => status[r] \in Terminal \cup {"cancelling"}

PInv == stalls = 0 => \A c \in Coordinators, r \in Runs : Progress(c, r)

\* Steps that leave rows and threads alone and at most stop a task.
LEMMA QuietStep ==
    ASSUME PInv, thread' = thread, status' = status, cancelRequested' = cancelRequested,
           stalls' = 0 => stalls = 0,
           \A c \in Coordinators, r \in Runs :
              \/ task'[c][r].pc \notin Onward
              \/ task'[c][r].pc = task[c][r].pc /\ task'[c][r].saved = task[c][r].saved
    PROVE  PInv'
BY DEF PInv, Progress, Onward

\* A step of the one task of a run.
LEMMA TaskMoves ==
    ASSUME IInv, PInv, NEW c \in Coordinators, NEW r \in Runs, HasTask(c, r),
           NEW t, task' = [task EXCEPT ![c][r] = t], stalls' = stalls,
           cancelRequested' = cancelRequested,
           \A s \in Runs \ {r} : thread'[s] = thread[s] /\ status'[s] = status[s],
           stalls = 0 => Progress(c, r)'
    PROVE  PInv' /\ (stalls = 0 => \A d \in Coordinators, s \in Runs : d # c \/ s # r => task'[d][s] = task[d][s])
<1>1. task \in TaskTable
  BY DEF IInv, TypeOK, TaskTable
<1>2. \A d \in Coordinators, s \in Runs : d # c \/ s # r => task'[d][s] = task[d][s]
  BY <1>1 DEF TaskTable
<1>3. ASSUME stalls = 0, NEW d \in Coordinators, NEW s \in Runs PROVE Progress(d, s)'
  <2>1. CASE d = c /\ s = r
    BY <1>3, <2>1
  <2>2. CASE s # r
    BY <1>2, <1>3, <2>2 DEF PInv, Progress
  <2>3. CASE d # c /\ s = r
    <3>1. ~HasTask(d, r)
      BY <1>3, <2>3, TaskHoldsLease
    <3>. QED BY <1>2, <2>3, <3>1 DEF Progress, Onward, HasTask
  <2>. QED BY <2>1, <2>2, <2>3
<1>. QED BY <1>2, <1>3 DEF PInv

\* A task that goes on to pc has saved what it had.
LEMMA GoneSaved ==
    ASSUME TypeOK, NEW c \in Coordinators, NEW r \in Runs, NEW pc \in PCs, Goes(c, r, pc)
    PROVE  /\ task'[c][r].pc = pc /\ task'[c][r].saved = task[c][r].saved
           /\ \A d \in Coordinators, s \in Runs : d # c \/ s # r => task'[d][s] = task[d][s]
<1>1. task \in TaskTable
  BY DEF TypeOK, TaskTable
<1>2. Gone(c, r, pc).saved = task[c][r].saved
  BY <1>1 DEF Gone, TaskTable, TaskType
<1>3. task' = [task EXCEPT ![c][r] = Gone(c, r, pc)] /\ Gone(c, r, pc).pc = pc
  BY GoesChanges
<1>. HIDE DEF Gone
<1>. QED BY <1>1, <1>2, <1>3 DEF TaskTable

LEMMA QuietTasks ==
    ASSUME IInv, PInv, NEW c \in Coordinators, NEW r \in Runs,
           \/ LoseLease(c, r) \/ FailHeartbeat(c, r) \/ MissCheckpoint(c, r) \/ GraphRaises(c, r)
           \/ ReadStatus(c, r) \/ Release(c, r) \/ ClaimRun(c, r) \/ Resume(c, r)
           \/ RefuseResume(c, r) \/ Renew(c, r)
    PROVE  PInv'
<1>1. TypeOK /\ task \in TaskTable
  BY DEF IInv, TypeOK, TaskTable
<1>2. thread' = thread /\ status' = status /\ cancelRequested' = cancelRequested /\ stalls' = stalls
  BY DEF LoseLease, FailHeartbeat, MissCheckpoint, GraphRaises, ReadStatus, Release, ClaimRun, Resume,
     RefuseResume, Renew, rows, counts
<1>3. SUFFICES \A d \in Coordinators, s \in Runs :
              \/ task'[d][s].pc \notin Onward
              \/ task'[d][s].pc = task[d][s].pc /\ task'[d][s].saved = task[d][s].saved
  BY <1>2, QuietStep
<1>4. CASE \E pc \in PCs \ Onward : Goes(c, r, pc)
  BY <1>1, <1>4, GoneSaved
<1>5. CASE \E t : task' = [task EXCEPT ![c][r] = t] /\ t.pc \notin Onward
  <2>1. PICK t : task' = [task EXCEPT ![c][r] = t] /\ t.pc \notin Onward
    BY <1>5
  <2>. QED BY <1>1, <2>1 DEF TaskTable
<1>6. NoTask.pc \notin Onward
  BY DEF NoTask, Onward
<1>7. CASE LoseLease(c, r) \/ MissCheckpoint(c, r) \/ GraphRaises(c, r)
  <2>1. \E pc \in PCs \ Onward : Goes(c, r, pc)
    BY <1>7 DEF LoseLease, MissCheckpoint, GraphRaises, PCs, Writing, Onward
  <2>. QED BY <1>4, <2>1
<1>8. CASE FailHeartbeat(c, r)
  <2>1. (\E pc \in PCs \ Onward : Goes(c, r, pc)) \/ task' = [task EXCEPT ![c][r] = NoTask]
    BY <1>8 DEF FailHeartbeat, PCs, Writing, Onward
  <2>. QED BY <1>4, <1>5, <1>6, <2>1
<1>9. CASE ReadStatus(c, r)
  <2>. DEFINE t == [task[c][r] EXCEPT !.seen = status[r]]
  <2>1. task' = [task EXCEPT ![c][r] = t]
    BY <1>1, <1>9 DEF ReadStatus, TaskTable
  <2>2. t.pc = task[c][r].pc /\ t.saved = task[c][r].saved
    BY <1>1 DEF TaskTable, TaskType
  <2>. HIDE DEF t
  <2>. QED BY <1>1, <2>1, <2>2 DEF TaskTable
<1>10. CASE Release(c, r)
  <2>1. task' = [task EXCEPT ![c][r] = NoTask]
    BY <1>10 DEF Release
  <2>. QED BY <1>5, <1>6, <2>1
<1>11. ASSUME Begin(c, r) PROVE \E t : task' = [task EXCEPT ![c][r] = t] /\ t.pc \notin Onward
  <2>1. [NoTask EXCEPT !.pc = "starting", !.token = FreshToken(r)].pc = "starting"
    BY DEF NoTask
  <2>. QED BY <1>11, <2>1 DEF Begin, Onward
<1>12. CASE ClaimRun(c, r)
  <2>1. Begin(c, r) \/ task' = task
    BY <1>12 DEF ClaimRun
  <2>. QED BY <1>5, <1>11, <2>1
<1>13. CASE Resume(c, r)
  BY <1>5, <1>11, <1>13 DEF Resume
<1>14. CASE RefuseResume(c, r) \/ Renew(c, r)
  BY <1>14 DEF RefuseResume, Renew
<1>. QED BY <1>7, <1>8, <1>9, <1>10, <1>12, <1>13, <1>14

LEMMA ProcessProgress ==
    ASSUME IInv, PInv, NEW c \in Coordinators,
           ListClaimable(c) \/ BeginStop(c) \/ CancelTasks(c) \/ Exit(c) \/ Crash(c) \/ Start(c)
    PROVE  PInv'
<1>1. TypeOK /\ task \in TaskTable
  BY DEF IInv, TypeOK, TaskTable
<1>2. thread' = thread /\ status' = status /\ cancelRequested' = cancelRequested /\ stalls' = stalls
  BY DEF ListClaimable, BeginStop, CancelTasks, Exit, Crash, Start, rows, counts
<1>3. SUFFICES \A d \in Coordinators, s \in Runs :
              \/ task'[d][s].pc \notin Onward
              \/ task'[d][s].pc = task[d][s].pc /\ task'[d][s].saved = task[d][s].saved
  BY <1>2, QuietStep
<1>4. NoTask.pc \notin Onward
  BY DEF NoTask, Onward
<1>5. CASE CancelTasks(c)
  <2>1. ASSUME NEW s \in Runs PROVE task'[c][s].pc \notin Onward
    <3>. DEFINE t == [task[c][s] EXCEPT !.pc = Cut(task[c][s].pc), !.seen = Unread]
    <3>1. task'[c][s] = IF HasTask(c, s) THEN t ELSE NoTask
      BY <1>1, <1>5 DEF CancelTasks, TaskTable
    <3>2. t.pc \in {"abandon", "interrupt"}
      BY <1>1 DEF TaskTable, TaskType, Cut
    <3>. HIDE DEF t
    <3>. QED BY <1>4, <3>1, <3>2 DEF Onward
  <2>2. \A d \in Coordinators, s \in Runs : d # c => task'[d][s] = task[d][s]
    BY <1>1, <1>5 DEF CancelTasks, TaskTable
  <2>. QED BY <2>1, <2>2
<1>6. CASE Crash(c)
  <2>1. \A d \in Coordinators, s \in Runs : task'[d][s] = IF d = c THEN NoTask ELSE task[d][s]
    BY <1>1, <1>6 DEF Crash, TaskTable
  <2>. QED BY <1>4, <2>1
<1>7. CASE ListClaimable(c) \/ BeginStop(c) \/ Exit(c) \/ Start(c)
  BY <1>7 DEF ListClaimable, BeginStop, Exit, Start
<1>. QED BY <1>5, <1>6, <1>7

LEMMA RunProgress ==
    ASSUME IInv, PInv, NEW r \in Runs, CreateRun(r) \/ RequestCancel(r) \/ Expire(r) \/ Stall(r)
    PROVE  PInv'
<1>1. TypeOK
  BY DEF IInv
<1>2. CASE CreateRun(r)
  <2>1. /\ status[r] = "absent" /\ status' = [status EXCEPT ![r] = "queued"]
        /\ cancelRequested' = cancelRequested /\ thread' = thread /\ task' = task /\ stalls' = stalls
    BY <1>2 DEF CreateRun, counts
  <2>. QED BY <1>1, <2>1 DEF PInv, Progress, Terminal, TypeOK
<1>3. CASE RequestCancel(r)
  <2>1. /\ status' = [status EXCEPT ![r] = "cancelling"] /\ thread' = thread /\ task' = task
        /\ cancelRequested' = [cancelRequested EXCEPT ![r] = TRUE] /\ stalls' = stalls
    BY <1>3 DEF RequestCancel, counts
  <2>. QED BY <1>1, <2>1 DEF PInv, Progress, TypeOK
<1>4. CASE Expire(r) \/ Stall(r)
  <2>1. thread' = thread /\ status' = status /\ cancelRequested' = cancelRequested /\ task' = task
    BY <1>4 DEF Expire, Stall, rows
  <2>2. stalls' = 0 => stalls = 0
    BY <1>1, <1>4, RunsAssumption DEF Expire, Stall, counts, TypeOK
  <2>. QED BY <2>1, <2>2, QuietStep
<1>. QED BY <1>2, <1>3, <1>4

LEMMA TaskProgress ==
    ASSUME IInv, PInv, NEW c \in Coordinators, NEW r \in Runs,
           Open(c, r) \/ Load(c, r) \/ RunNode(c, r) \/ EndGraph(c, r) \/ WriteStatus(c, r)
    PROVE  PInv'
<1>0. /\ task \in TaskTable /\ task[c][r] \in TaskType /\ TypeOK /\ cancelRequested' = cancelRequested
      /\ thread \in [Runs -> [saved : 0..Nodes, result : Results]]
      /\ status \in [Runs -> Statuses] /\ HasTask(c, r) /\ stalls' = stalls
  BY DEF IInv, TypeOK, TaskTable, Open, Load, RunNode, EndGraph, WriteStatus, rows, counts, HasTask, Writing
<1>1. task[c][r].saved \in Int /\ thread[r].saved \in Int /\ Nodes \in Int
  BY <1>0, RunsAssumption DEF TaskType
<1>2. stalls = 0 => Progress(c, r)
  BY DEF PInv
<1>3. CASE Open(c, r)
  <2>. DEFINE next == IF status[r] = "cancelling" \/ cancelRequested[r] THEN "dismiss" ELSE "loading"
              t == [task[c][r] EXCEPT !.pc = next, !.seen = status[r]]
  <2>1. task' = [task EXCEPT ![c][r] = t] /\ status' = status /\ thread' = thread
    BY <1>3 DEF Open, rows
  <2>2. t.pc = next
    BY <1>0 DEF TaskType
  <2>. HIDE DEF t
  <2>3. task'[c][r] = t
    BY <1>0, <2>1 DEF TaskTable
  <2>4. Progress(c, r)'
    BY <1>0, <2>1, <2>2, <2>3 DEF Progress, Onward
  <2>. QED BY <1>0, <2>1, <2>4, TaskMoves
<1>4. CASE Load(c, r)
  <2>. DEFINE from == IF Fresh(c, r) THEN [saved |-> 1, result |-> "none"] ELSE thread[r]
              t == [task[c][r] EXCEPT !.pc = IF from.result = "none" THEN "publish" ELSE "finalize",
                                      !.seen = Unread, !.saved = from.saved, !.result = from.result]
  <2>1. task' = [task EXCEPT ![c][r] = t] /\ thread' = [thread EXCEPT ![r] = from]
    BY <1>4 DEF Load
  <2>2. t.saved = from.saved
    BY <1>0 DEF TaskType
  <2>3. from.saved \in Int
    BY <1>1
  <2>4. status' = status /\ task[c][r].pc = "loading"
    BY <1>4 DEF Load, rows
  <2>. HIDE DEF t, from
  <2>5. task'[c][r] = t /\ thread'[r] = from /\ \A s \in Runs \ {r} : thread'[s] = thread[s]
    BY <1>0, <2>1 DEF TaskTable
  <2>6. stalls = 0 => Progress(c, r)'
    BY <1>0, <1>2, <2>2, <2>3, <2>4, <2>5 DEF Progress, Onward
  <2>. QED BY <1>0, <2>1, <2>4, <2>5, <2>6, TaskMoves
<1>5. CASE RunNode(c, r)
  <2>. DEFINE t == [task[c][r] EXCEPT !.pc = "publish", !.saved = @ + 1]
              from == [saved |-> task[c][r].saved + 1, result |-> "none"]
  <2>1. task' = [task EXCEPT ![c][r] = t] /\ thread' = [thread EXCEPT ![r] = from]
    BY <1>0, <1>5 DEF RunNode, TaskTable
  <2>2. t.saved = task[c][r].saved + 1 /\ from.saved = task[c][r].saved + 1
    BY <1>0 DEF TaskType
  <2>3. status' = status /\ task[c][r].pc = "running"
    BY <1>5 DEF RunNode, rows
  <2>. HIDE DEF t, from
  <2>4. task'[c][r] = t /\ thread'[r] = from /\ \A s \in Runs \ {r} : thread'[s] = thread[s]
    BY <1>0, <2>1 DEF TaskTable
  <2>5. stalls = 0 => Progress(c, r)'
    BY <1>0, <1>1, <1>2, <2>2, <2>3, <2>4 DEF Progress, Onward
  <2>. QED BY <1>0, <2>1, <2>3, <2>4, <2>5, TaskMoves
<1>6. CASE EndGraph(c, r)
  <2>1. PICK result \in Results :
           /\ thread' = [thread EXCEPT ![r] = [saved |-> task[c][r].saved, result |-> result]]
           /\ task' = [task EXCEPT ![c][r].pc = "finalize", ![c][r].result = result]
    BY <1>6 DEF EndGraph
  <2>. DEFINE t == [task[c][r] EXCEPT !.pc = "finalize", !.result = result]
  <2>2. task' = [task EXCEPT ![c][r] = t]
    BY <1>0, <2>1 DEF TaskTable
  <2>3. t.pc = "finalize"
    BY <1>0 DEF TaskType
  <2>4. status' = status /\ task[c][r].pc = "running"
    BY <1>6 DEF EndGraph, rows
  <2>. HIDE DEF t
  <2>5. task'[c][r] = t /\ \A s \in Runs \ {r} : thread'[s] = thread[s]
    BY <1>0, <2>1, <2>2 DEF TaskTable
  <2>6. stalls = 0 => Progress(c, r)'
    BY <1>0, <1>2, <2>3, <2>4, <2>5 DEF Progress, Onward
  <2>. QED BY <1>0, <2>2, <2>4, <2>5, <2>6, TaskMoves
<1>7. CASE WriteStatus(c, r)
  <2>1. /\ status' = IF Updates(c, r) THEN [status EXCEPT ![r] = Target(c, r)] ELSE status
        /\ task[c][r].pc \in Writing /\ thread' = thread
    BY <1>7 DEF WriteStatus
  <2>2. \A s \in Runs \ {r} : thread'[s] = thread[s] /\ status'[s] = status[s]
    BY <1>0, <2>1
  <2>3. CASE task[c][r].pc = "publish"
    <3>1. Then(c, r) = "running"
      BY <2>3 DEF Then
    <3>2. Goes(c, r, "running")
      BY <1>7, <3>1 DEF WriteStatus
    <3>3. "running" \in PCs
      BY DEF PCs
    <3>4. task' = [task EXCEPT ![c][r] = Gone(c, r, "running")]
      BY <1>0, <3>2, <3>3, GoesChanges
    <3>5. task'[c][r].pc = "running" /\ task'[c][r].saved = task[c][r].saved
      BY <1>0, <3>2, <3>3, GoneSaved
    <3>6. stalls = 0 /\ cancelRequested[r] => status'[r] = status[r]
      <4>1. stalls = 0 /\ cancelRequested[r] => status[r] \in Terminal \cup {"cancelling"}
        BY <1>2, <2>3 DEF Progress, Onward
      <4>2. Updates(c, r) => status[r] \notin Terminal /\ status[r] # "cancelling"
        BY <2>3 DEF Updates
      <4>. QED BY <2>1, <4>1, <4>2
    <3>7. stalls = 0 => Progress(c, r)'
      BY <1>0, <1>2, <2>1, <2>3, <3>5, <3>6 DEF Progress, Onward
    <3>. QED BY <1>0, <2>2, <3>4, <3>7, TaskMoves
  <2>4. CASE task[c][r].pc # "publish"
    <3>1. Then(c, r) \in {"none", "releasing", "fail"}
      BY <2>4 DEF Then
    <3>2. PICK t : task' = [task EXCEPT ![c][r] = t] /\ t.pc \notin Onward
      <4>1. CASE Then(c, r) = "none"
        <5>1. task' = [task EXCEPT ![c][r] = NoTask]
          BY <1>7, <4>1 DEF WriteStatus
        <5>2. NoTask.pc \notin Onward
          BY DEF NoTask, Onward
        <5>. QED BY <5>1, <5>2
      <4>2. CASE Then(c, r) \in {"releasing", "fail"}
        <5>1. Goes(c, r, Then(c, r)) /\ Then(c, r) \in PCs
          BY <1>7, <4>2 DEF WriteStatus, PCs, Writing
        <5>2. task' = [task EXCEPT ![c][r] = Gone(c, r, Then(c, r))] /\ Gone(c, r, Then(c, r)).pc = Then(c, r)
          BY <1>0, <5>1, GoesChanges
        <5>. QED BY <4>2, <5>2 DEF Onward
      <4>. QED BY <3>1, <4>1, <4>2
    <3>3. task'[c][r] = t
      BY <1>0, <3>2 DEF TaskTable
    <3>4. Progress(c, r)'
      BY <3>2, <3>3 DEF Progress, Onward
    <3>. QED BY <1>0, <2>2, <3>2, <3>4, TaskMoves
  <2>. QED BY <2>3, <2>4
<1>. QED BY <1>3, <1>4, <1>5, <1>6, <1>7

LEMMA PInvStep == IInv /\ PInv /\ [Next]_vars => PInv'
<1>. SUFFICES ASSUME IInv, PInv, [Next]_vars PROVE PInv'
  OBVIOUS
<1>1. CASE \E r \in Runs : CreateRun(r) \/ RequestCancel(r) \/ Expire(r) \/ Stall(r)
  BY <1>1, RunProgress
<1>2. CASE \E c \in Coordinators, r \in Runs :
              \/ LoseLease(c, r) \/ FailHeartbeat(c, r) \/ MissCheckpoint(c, r) \/ GraphRaises(c, r)
              \/ ReadStatus(c, r) \/ Release(c, r) \/ ClaimRun(c, r) \/ Resume(c, r)
              \/ RefuseResume(c, r) \/ Renew(c, r)
  BY <1>2, QuietTasks
<1>3. CASE \E c \in Coordinators, r \in Runs :
              Open(c, r) \/ Load(c, r) \/ RunNode(c, r) \/ EndGraph(c, r) \/ WriteStatus(c, r)
  BY <1>3, TaskProgress
<1>4. CASE \E c \in Coordinators :
              ListClaimable(c) \/ BeginStop(c) \/ CancelTasks(c) \/ Exit(c) \/ Crash(c) \/ Start(c)
  BY <1>4, ProcessProgress
<1>5. CASE UNCHANGED vars
  BY <1>5, QuietStep DEF vars, rows, counts
<1>. QED BY <1>1, <1>2, <1>3, <1>4, <1>5 DEF Next, TaskStep

LEMMA PInvAlways == Spec => []PInv
<1>1. Init => PInv
  BY DEF Init, PInv, Progress, NoTask, Onward
<1>. QED BY <1>1, PInvStep, Invariance, PTL DEF Spec

\* Only three steps of a task move a checkpoint, and only clients and WriteStatus a status.
LEMMA WhoSaves ==
    ASSUME Next
    PROVE  \/ thread' = thread
           \/ \E c \in Coordinators, s \in Runs : Load(c, s) \/ RunNode(c, s) \/ EndGraph(c, s)
<1>1. CASE \E s \in Runs : CreateRun(s) \/ RequestCancel(s) \/ Expire(s) \/ Stall(s)
  BY <1>1 DEF CreateRun, RequestCancel, Expire, Stall
<1>2. CASE \E c \in Coordinators, s \in Runs :
              Renew(c, s) \/ LoseLease(c, s) \/ FailHeartbeat(c, s)
              \/ ClaimRun(c, s) \/ Resume(c, s) \/ RefuseResume(c, s)
  BY <1>2 DEF Renew, LoseLease, FailHeartbeat, ClaimRun, Resume, RefuseResume
<1>3. CASE \E c \in Coordinators, s \in Runs :
              Open(c, s) \/ MissCheckpoint(c, s) \/ GraphRaises(c, s)
              \/ ReadStatus(c, s) \/ WriteStatus(c, s) \/ Release(c, s)
  BY <1>3 DEF Open, MissCheckpoint, GraphRaises, ReadStatus, WriteStatus, Release
<1>4. CASE \E c \in Coordinators :
              ListClaimable(c) \/ BeginStop(c) \/ CancelTasks(c) \/ Exit(c) \/ Crash(c) \/ Start(c)
  BY <1>4 DEF ListClaimable, BeginStop, CancelTasks, Exit, Crash, Start
<1>. QED BY <1>1, <1>2, <1>3, <1>4 DEF Next, TaskStep

LEMMA WhoWrites ==
    ASSUME Next
    PROVE  \/ status' = status
           \/ \E s \in Runs : CreateRun(s) \/ RequestCancel(s)
           \/ \E c \in Coordinators, s \in Runs : WriteStatus(c, s)
<1>1. CASE \E s \in Runs : Expire(s) \/ Stall(s)
  BY <1>1 DEF Expire, Stall, rows
<1>2. CASE \E c \in Coordinators, s \in Runs :
              Renew(c, s) \/ LoseLease(c, s) \/ FailHeartbeat(c, s)
              \/ ClaimRun(c, s) \/ Resume(c, s) \/ RefuseResume(c, s)
  BY <1>2 DEF Renew, LoseLease, FailHeartbeat, ClaimRun, Resume, RefuseResume, rows
<1>3. CASE \E c \in Coordinators, s \in Runs :
              Open(c, s) \/ Load(c, s) \/ RunNode(c, s) \/ EndGraph(c, s) \/ MissCheckpoint(c, s)
              \/ GraphRaises(c, s) \/ ReadStatus(c, s) \/ Release(c, s)
  BY <1>3 DEF Open, Load, RunNode, EndGraph, MissCheckpoint, GraphRaises, ReadStatus, Release, rows
<1>4. CASE \E c \in Coordinators :
              ListClaimable(c) \/ BeginStop(c) \/ CancelTasks(c) \/ Exit(c) \/ Crash(c) \/ Start(c)
  BY <1>4 DEF ListClaimable, BeginStop, CancelTasks, Exit, Crash, Start, rows
<1>. QED BY <1>1, <1>2, <1>3, <1>4 DEF Next, TaskStep

\* A run goes on from its last checkpoint and is never replayed from the start, as long as no
\* process stands still past its lease (the graph's checkpointer with acquire_lease).
THEOREM NeverReplayedTheorem == Spec => NeverReplayed
<1>. DEFINE Kept == stalls = 0 => \A r \in Runs : thread'[r].saved >= thread[r].saved
<1>1. IInv /\ PInv /\ [Next]_vars => [Kept]_vars
  <2>. SUFFICES ASSUME IInv, PInv, Next, stalls = 0, NEW r \in Runs
                PROVE  thread'[r].saved >= thread[r].saved
    OBVIOUS
  <2>0. thread \in [Runs -> [saved : 0..Nodes, result : Results]] /\ thread[r].saved \in 0..Nodes
    BY DEF IInv, TypeOK
  <2>1. CASE thread' = thread
    BY <2>0, <2>1, RunsAssumption
  <2>2. ASSUME NEW c \in Coordinators, NEW s \in Runs, Load(c, s) \/ RunNode(c, s) \/ EndGraph(c, s)
        PROVE  thread'[r].saved >= thread[r].saved
    <3>0. task[c][s] \in TaskType /\ Progress(c, s)
      BY DEF IInv, TypeOK, PInv
    <3>1. CASE Load(c, s)
      <4>. DEFINE from == IF Fresh(c, s) THEN [saved |-> 1, result |-> "none"] ELSE thread[s]
      <4>1. thread' = [thread EXCEPT ![s] = from]
        BY <3>1 DEF Load
      <4>2. from.saved >= thread[s].saved
        <5>1. CASE Fresh(c, s)
          BY <5>1 DEF Fresh, NoCheckpoint
        <5>2. CASE ~Fresh(c, s)
          BY <2>0, <5>2 DEF IInv, TypeOK
        <5>. QED BY <5>1, <5>2
      <4>. HIDE DEF from
      <4>. QED BY <2>0, <4>1, <4>2
    <3>2. CASE RunNode(c, s) \/ EndGraph(c, s)
      <4>1. PICK n \in {task[c][s].saved, task[c][s].saved + 1}, result \in Results :
                 thread' = [thread EXCEPT ![s] = [saved |-> n, result |-> result]]
        BY <3>2 DEF RunNode, EndGraph, Results
      <4>2. n >= thread[s].saved
        BY <2>0, <3>0, <3>2, RunsAssumption DEF RunNode, EndGraph, Progress, TaskType, IInv, TypeOK
      <4>. QED BY <2>0, <4>1, <4>2
    <3>. QED BY <2>2, <3>1, <3>2
  <2>3. thread' = thread \/ \E c \in Coordinators, s \in Runs : Load(c, s) \/ RunNode(c, s) \/ EndGraph(c, s)
    BY WhoSaves
  <2>. QED BY <2>1, <2>2, <2>3
<1>. QED BY <1>1, PInvAlways, Invariance, PTL DEF Spec, NeverReplayed

\* A run whose cancellation request_cancel has accepted does not end with an answer, as long
\* as no process stands still past its lease (_publish_state, _finalize and _run_one).
THEOREM CancelNeverAnswersTheorem == Spec => CancelNeverAnswers
<1>. DEFINE Silent == stalls = 0 => \A r \in Runs : cancelRequested[r] => ~Answers(r)
<1>1. IInv /\ PInv /\ [Next]_vars => [Silent]_vars
  <2>. SUFFICES ASSUME IInv, PInv, Next, stalls = 0, NEW r \in Runs, cancelRequested[r], Answers(r)
                PROVE  FALSE
    OBVIOUS
  <2>0. status \in [Runs -> Statuses]
    BY DEF IInv, TypeOK
  <2>1. PICK c \in Coordinators, s \in Runs : WriteStatus(c, s) /\ Updates(c, s)
    <3>1. CASE \E s \in Runs : CreateRun(s) \/ RequestCancel(s)
      BY <2>0, <3>1 DEF CreateRun, RequestCancel, Answers
    <3>2. CASE \E c \in Coordinators, s \in Runs : WriteStatus(c, s) /\ ~Updates(c, s)
      BY <3>2 DEF WriteStatus, Answers
    <3>3. status' = status \/ (\E s \in Runs : CreateRun(s) \/ RequestCancel(s))
          \/ \E c \in Coordinators, s \in Runs : WriteStatus(c, s)
      BY WhoWrites
    <3>. QED BY <3>1, <3>2, <3>3 DEF Answers
  <2>2. status' = [status EXCEPT ![s] = Target(c, s)]
    BY <2>1 DEF WriteStatus
  <2>3. s = r /\ Target(c, r) \in {"completed", "partial"}
    BY <2>0, <2>2 DEF Answers
  <2>4. task[c][r].pc = "finalize" /\ task[c][r].seen # "cancelling"
    BY <2>3 DEF Target
  <2>5. status[r] \notin Terminal /\ status[r] # "cancelling"
    BY <2>1, <2>3, <2>4 DEF Updates
  <2>6. Progress(c, r)
    BY DEF PInv
  <2>. QED BY <2>4, <2>5, <2>6 DEF Progress, Onward
<1>. QED BY <1>1, PInvAlways, Invariance, PTL DEF Spec, CancelNeverAnswers
=============================================================================
