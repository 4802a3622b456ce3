-------------------------- MODULE JobBackendProofs --------------------------
(***************************************************************************)
(* Proofs about JobBackend for every set of jobs, every number of attempts *)
(* and every bound on starts and faults.                                   *)
(*                                                                         *)
(* Almost every action belongs to one job and leaves the others alone      *)
(* (Elsewhere, OtherJobs), so the proof that an action keeps IInv is about *)
(* the invariant JobInv(j) of that job.  Recovery is the exception.        *)
(*                                                                         *)
(* The last part shows that the backend implements JobContract, and that   *)
(* what is terminal stays so: every action but recovery moves one job      *)
(* (Alone), and a job that has a task is open (BusyIsOpen), so a terminal  *)
(* job is out of every task's reach.                                       *)
(***************************************************************************)
EXTENDS JobBackend, TLAPS

LEMMA InitInv == Init => IInv
<1> SUFFICES ASSUME Init PROVE IInv
  OBVIOUS
<1> USE MaxAttemptsAssumption, BackendAssumption
    DEF Init, StoreInit, Absent, AttemptNumbers
<1>1. TypeOK
  BY DEF TypeOK, StoreTypeOK, Phases, PCs, SyncPC, DispatchPC, Outcomes
<1>2. \A j \in Jobs : JobInv(j)
  BY DEF JobInv, AttemptFits, TaskFits, CurrentAttempt, ProcessFits
<1> QED
  BY <1>1, <1>2 DEF IInv

\* What an action of job j leaves alone.
Elsewhere(j) ==
    /\ phase' = phase
    /\ faults' \in {faults, faults + 1}
    /\ \A k \in Jobs \ {j} :
        /\ status'[k] = status[k]
        /\ current'[k] = current[k]
        /\ attempt'[k] = attempt[k]
        /\ pc'[k] = pc[k]
        /\ held'[k] = held[k]
        /\ outcome'[k] = outcome[k]

LEMMA OtherJobs ==
    ASSUME TypeOK, NEW j \in Jobs, NEW k \in Jobs \ {j}, Elsewhere(j), JobInv(k)
    PROVE  JobInv(k)'
<1> faults \in Nat
  BY BackendAssumption DEF TypeOK
<1> QED
  BY DEF Elsewhere, JobInv, CurrentAttempt, ProcessFits, Open

\* So such an action has to be looked at for its own job only.
LEMMA LocalStep ==
    ASSUME IInv, NEW j \in Jobs, TypeOK', Elsewhere(j), JobInv(j)'
    PROVE  IInv'
BY OtherJobs DEF IInv

Results == {"succeeded", "failed_retryable", "failed_terminal", "cancelled", "lost"}

\* What complete_attempt does, when the task of the job calls it.
LEMMA CompleteLemma ==
    ASSUME TypeOK, NEW j \in Jobs, JobInv(j), pc[j] # "none",
           NEW r \in Results, CompleteAttempt(j, held[j], r)
    PROVE  /\ StoreTypeOK'
           /\ current' = current
           /\ status'[j] = JobAfter(r)
           /\ CurrentAttempt(j)' = r
           /\ AttemptFits(JobAfter(r), r)
           /\ \A n \in AttemptNumbers \ {current[j]} : attempt'[j][n] = attempt[j][n]
           /\ \A k \in Jobs \ {j} : status'[k] = status[k] /\ attempt'[k] = attempt[k]
<1> USE DEF Results, Absent, AttemptNumbers
<1>1. /\ JobAfter(r) \in {"completed", "retry_wait", "failed", "cancelled"}
      /\ AttemptFits(JobAfter(r), r)
  BY DEF JobAfter, AttemptFits
<1>2. held[j] = current[j] /\ current[j] \in 1 .. MaxAttempts
  BY MaxAttemptsAssumption DEF JobInv, TypeOK, StoreTypeOK
<1>3. StoreTypeOK'
  BY <1>1, <1>2 DEF CompleteAttempt, TypeOK, StoreTypeOK, TerminalJobs, OpenJobs, FinishedAttempts
<1> QED
  BY <1>1, <1>2, <1>3 DEF CompleteAttempt, TypeOK, StoreTypeOK, CurrentAttempt

\* A task records a result and ends: the end of every road but retry and a refusal.
LEMMA CompleteAndEnd ==
    ASSUME IInv, NEW j \in Jobs, pc[j] # "none",
           NEW r \in Results \ {"failed_retryable"},
           CompleteAttempt(j, held[j], r), EndTask(j),
           phase = "up" => r # "lost"
    PROVE  IInv'
<1>1. TypeOK /\ JobInv(j)
  BY DEF IInv
<1>2. /\ StoreTypeOK'
      /\ current' = current
      /\ status'[j] = JobAfter(r)
      /\ CurrentAttempt(j)' = r
      /\ AttemptFits(JobAfter(r), r)
      /\ \A n \in AttemptNumbers \ {current[j]} : attempt'[j][n] = attempt[j][n]
      /\ \A k \in Jobs \ {j} : status'[k] = status[k] /\ attempt'[k] = attempt[k]
  BY <1>1, CompleteLemma
<1>3. TypeOK' /\ Elsewhere(j)
  BY <1>1, <1>2, MaxAttemptsAssumption DEF TypeOK, EndTask, Elsewhere, PCs, Outcomes
<1>4. phase = "up" => JobAfter(r) \notin OpenJobs
  BY DEF JobAfter, Results, OpenJobs
<1>5. JobAfter(r) # Absent
  BY DEF JobAfter, Results, Absent
<1>6. JobInv(j)'
  BY <1>1, <1>2, <1>4, <1>5 DEF TypeOK, EndTask, JobInv, TaskFits, ProcessFits, Open, SyncPC, DispatchPC,
     AttemptNumbers
<1> QED
  BY <1>3, <1>6, LocalStep

\* A step of the dispatch sequence moves the job or its attempt and the program counter.
LEMMA DispatchInv ==
    ASSUME IInv, NEW j \in Jobs, Dispatch(j)
    PROVE  IInv'
<1>0. TypeOK /\ JobInv(j)
  BY DEF IInv
<1>a. pc[j] # "none" => held[j] = current[j] /\ current[j] \in AttemptNumbers
  BY <1>0, MaxAttemptsAssumption DEF JobInv, TypeOK, StoreTypeOK, AttemptNumbers
<1>1. CASE DropCancelled(j)
  <2>1. pc[j] # "none" /\ CompleteAttempt(j, held[j], "cancelled") /\ EndTask(j)
    BY <1>1 DEF DropCancelled, HasTurn
  <2> QED
    BY <2>1, CompleteAndEnd DEF Results
<1>2. CASE RejectUnhandled(j)
  <2>1. pc[j] # "none" /\ CompleteAttempt(j, held[j], "failed_terminal") /\ EndTask(j)
    BY <1>2 DEF RejectUnhandled
  <2> QED
    BY <2>1, CompleteAndEnd DEF Results
<1>3. CASE Acquire(j) \/ DispatchJob(j) \/ RunJob(j)
  <2>1. PICK s \in {"dispatching", "dispatched", "running"},
             l \in {"consume", "announce", "unhandled", "running"} :
             TransitionJob(j, s) /\ Goto(j, l) /\ TaskFits(l, s, CurrentAttempt(j))
                /\ AttemptFits(s, CurrentAttempt(j))
    <3>1. CASE Acquire(j)
      BY <1>0, <3>1 DEF Acquire, HasTurn, JobInv, TaskFits, AttemptFits, LiveAttempts, Absent
    <3>2. CASE DispatchJob(j)
      BY <1>0, <3>2 DEF DispatchJob, JobInv, TaskFits, AttemptFits, LiveAttempts, Absent
    <3>3. CASE RunJob(j)
      BY <1>0, <3>3 DEF RunJob, JobInv, TaskFits, AttemptFits, LiveAttempts, Absent
    <3> QED
      BY <1>3, <3>1, <3>2, <3>3
  <2>2. pc[j] # "none" /\ phase # "killing" /\ phase # "down"
    BY <1>0, <1>3 DEF Acquire, DispatchJob, RunJob, HasTurn, LoopFree, JobInv, ProcessFits, SyncPC,
                      DispatchPC
  <2>3. TypeOK' /\ Elsewhere(j)
    BY <1>0, <2>1 DEF TransitionJob, Goto, TypeOK, StoreTypeOK, Elsewhere, OpenJobs, PCs, SyncPC,
       DispatchPC
  <2>4. JobInv(j)'
    BY <1>0, <2>1, <2>2 DEF TransitionJob, Goto, TypeOK, StoreTypeOK, JobInv, CurrentAttempt,
       ProcessFits, Open, Absent
  <2> QED
    BY <2>3, <2>4, LocalStep
<1>4. CASE ConsumeOutbox(j)
  <2>1. TypeOK' /\ Elsewhere(j)
    BY <1>0, <1>a, <1>4 DEF ConsumeOutbox, MarkOutboxConsumedLocal, Goto, TypeOK, StoreTypeOK, Elsewhere,
       PCs, SyncPC, DispatchPC
  <2>2. JobInv(j)'
    BY <1>0, <1>4 DEF ConsumeOutbox, MarkOutboxConsumedLocal, Goto, TypeOK, StoreTypeOK, JobInv,
       CurrentAttempt, TaskFits, ProcessFits, Open, SyncPC, DispatchPC
  <2> QED
    BY <2>1, <2>2, LocalStep
<1>5. CASE AnnounceAttempt(j) \/ ClaimAttempt(j) \/ BeginAttempt(j)
  <2>1. PICK a \in {"dispatched", "claimed", "running"}, l \in {"claim", "begin", "run"} :
             TransitionAttempt(j, held[j], a) /\ Goto(j, l) /\ TaskFits(l, "dispatched", a)
                /\ pc[j] # "none"
    BY <1>5 DEF AnnounceAttempt, ClaimAttempt, BeginAttempt, TaskFits
  <2>2. status[j] = "dispatched" /\ phase # "killing" /\ phase # "down"
    BY <1>0, <1>5 DEF AnnounceAttempt, ClaimAttempt, BeginAttempt, JobInv, TaskFits, ProcessFits,
                      SyncPC, DispatchPC
  <2>3. TypeOK' /\ Elsewhere(j)
    BY <1>0, <1>a, <2>1 DEF TransitionAttempt, Goto, TypeOK, StoreTypeOK, Elsewhere, LiveAttempts, PCs,
       SyncPC, DispatchPC
  <2>4. JobInv(j)'
    BY <1>0, <1>a, <2>1, <2>2 DEF TransitionAttempt, Goto, TypeOK, StoreTypeOK, JobInv, CurrentAttempt,
       AttemptFits, LiveAttempts, ProcessFits, Open, Absent
  <2> QED
    BY <2>3, <2>4, LocalStep
<1> QED
  BY <1>1, <1>2, <1>3, <1>4, <1>5 DEF Dispatch

\* The end of a task, and of a task that shutdown kills.
LEMMA SettleInv ==
    ASSUME IInv, NEW j \in Jobs, Settle(j) \/ KillTask(j)
    PROVE  IInv'
<1>0. TypeOK /\ JobInv(j)
  BY DEF IInv
<1>1. ASSUME NEW r \in Outcomes, Settling(j, r) PROVE pc[j] # "none"
  BY <1>1 DEF Settling
<1>2. CASE SettleOk(j)
  BY <1>1, <1>2, CompleteAndEnd DEF SettleOk, Results, Outcomes
<1>3. CASE SettleCancelled(j)
  BY <1>1, <1>3, CompleteAndEnd DEF SettleCancelled, Results, Outcomes, ShutdownRequested
<1>4. CASE SettleShutdown(j)
  <2>1. phase # "up"
    BY <1>0, <1>4 DEF SettleShutdown, Settling, JobInv, ProcessFits
  <2> QED
    BY <1>1, <1>4, <2>1, CompleteAndEnd DEF SettleShutdown, Results, Outcomes
<1>5. CASE SettleTerminal(j)
  BY <1>1, <1>5, CompleteAndEnd DEF SettleTerminal, Results, Outcomes
<1>6. CASE KillTask(j)
  BY <1>6, CompleteAndEnd DEF KillTask, Results
<1>7. CASE SettleRetryable(j)
  <2>1. pc[j] # "none" /\ CompleteAttempt(j, held[j], "failed_retryable") /\ Goto(j, "retry")
    BY <1>1, <1>7 DEF SettleRetryable, Outcomes
  <2>2. /\ StoreTypeOK'
        /\ current' = current
        /\ status'[j] = "retry_wait"
        /\ CurrentAttempt(j)' = "failed_retryable"
        /\ \A n \in AttemptNumbers \ {current[j]} : attempt'[j][n] = attempt[j][n]
        /\ \A k \in Jobs \ {j} : status'[k] = status[k] /\ attempt'[k] = attempt[k]
    BY <1>0, <2>1, CompleteLemma DEF Results, JobAfter
  <2>3. phase # "killing" /\ phase # "down"
    BY <1>0, <1>7 DEF SettleRetryable, Settling, LoopFree, JobInv, ProcessFits, SyncPC
  <2>4. TypeOK' /\ Elsewhere(j)
    BY <1>0, <2>1, <2>2 DEF TypeOK, Goto, Elsewhere, PCs, SyncPC
  <2>5. JobInv(j)'
    BY <1>0, <2>1, <2>2, <2>3 DEF TypeOK, Goto, JobInv, TaskFits, AttemptFits, ProcessFits, Open,
       AttemptNumbers, Absent
  <2> QED
    BY <2>4, <2>5, LocalStep
<1>8. CASE SettleRefused(j)
  <2>1. faults # 0
    BY <1>0, <1>8 DEF SettleRefused, JobInv, ProcessFits
  <2>2. TypeOK' /\ Elsewhere(j)
    BY <1>0, <1>8, MaxAttemptsAssumption DEF SettleRefused, EndTask, store, TypeOK, StoreTypeOK,
       Elsewhere, PCs, Outcomes
  <2>3. JobInv(j)'
    BY <1>0, <1>8, <2>1 DEF SettleRefused, EndTask, store, TypeOK, JobInv, CurrentAttempt,
       TaskFits, ProcessFits, Open, SyncPC, DispatchPC
  <2> QED
    BY <2>2, <2>3, LocalStep
<1>9. CASE RetryNow(j)
  <2>1. PICK l \in {"none", "waiting"} :
             /\ pc' = [pc EXCEPT ![j] = l]
             /\ l = "none" => ShutdownRequested
             /\ held' = [held EXCEPT ![j] = IF l = "none" THEN 0 ELSE current[j] + 1]
             /\ outcome' = [outcome EXCEPT ![j] = "none"]
             /\ UNCHANGED <<phase, starts, faults>>
    BY <1>0, <1>9 DEF RetryNow, EndTask, Schedule, JobInv
  <2>2. /\ pc[j] = "retry" /\ CurrentAttempt(j) = "failed_retryable"
        /\ current[j] \in AttemptNumbers /\ current[j] + 1 \in AttemptNumbers
    BY <1>0, <1>9, MaxAttemptsAssumption DEF RetryNow, CreateRetryAttempt, JobInv, TaskFits, TypeOK,
       StoreTypeOK, AttemptNumbers
  <2>3. TypeOK' /\ Elsewhere(j)
    BY <1>0, <1>9, <2>1, <2>2, MaxAttemptsAssumption DEF RetryNow, CreateRetryAttempt, TypeOK,
       StoreTypeOK, OpenJobs, LiveAttempts, AttemptNumbers, Elsewhere, PCs, Outcomes
  <2>4. /\ status'[j] = "queued" /\ current'[j] = current[j] + 1
        /\ attempt'[j] = [attempt[j] EXCEPT ![current[j] + 1] = "created"]
    BY <1>0, <1>9 DEF RetryNow, CreateRetryAttempt, TypeOK, StoreTypeOK
  <2>5. CurrentAttempt(j)' = "created"
    BY <1>0, <2>2, <2>4, MaxAttemptsAssumption DEF CurrentAttempt, TypeOK, StoreTypeOK, AttemptNumbers
  <2>6. \A n \in AttemptNumbers : /\ n < current'[j] => attempt'[j][n] \in FinishedAttempts
                                  /\ n > current'[j] => attempt'[j][n] = Absent
    <3>1. attempt[j][current[j]] = "failed_retryable" /\ current[j] \in Nat
      BY <2>2, MaxAttemptsAssumption DEF CurrentAttempt, AttemptNumbers
    <3>2. ASSUME NEW n \in AttemptNumbers, n # current[j] + 1 PROVE attempt'[j][n] = attempt[j][n]
      BY <1>0, <2>4, <3>2 DEF TypeOK, StoreTypeOK
    <3>3. \A n \in AttemptNumbers : n \in Nat
      BY MaxAttemptsAssumption DEF AttemptNumbers
    <3> QED
      BY <1>0, <2>4, <3>1, <3>2, <3>3 DEF JobInv, FinishedAttempts
  <2>7. pc'[j] \in {"none", "waiting"} /\ (pc'[j] = "none" => ShutdownRequested)
    BY <1>0, <2>1 DEF TypeOK
  <2>8. /\ AttemptFits(status[j], CurrentAttempt(j))'
        /\ TaskFits(pc[j], status[j], CurrentAttempt(j))'
    BY <2>4, <2>5, <2>7 DEF AttemptFits, TaskFits, Absent
  <2>9. ProcessFits(j)'
    BY <1>0, <2>1, <2>2, <2>7 DEF TypeOK, JobInv, ProcessFits, ShutdownRequested, SyncPC, DispatchPC
  <2>10. pc'[j] # "none" => current'[j] > 0 /\ held'[j] = current'[j]
    BY <1>0, <2>1, <2>2, <2>4 DEF TypeOK, AttemptNumbers
  <2>11. JobInv(j)'
    BY <2>4, <2>6, <2>8, <2>9, <2>10 DEF JobInv, Absent
  <2> QED
    BY <2>3, <2>11, LocalStep
<1>10. CASE GiveUp(j)
  <2>1. TypeOK' /\ Elsewhere(j)
    BY <1>0, <1>10, MaxAttemptsAssumption DEF GiveUp, ExhaustAttempts, EndTask, TypeOK, StoreTypeOK,
       TerminalJobs, Elsewhere, PCs, Outcomes
  <2>2. JobInv(j)'
    BY <1>0, <1>10 DEF GiveUp, ExhaustAttempts, EndTask, TypeOK, StoreTypeOK, JobInv, CurrentAttempt,
       AttemptFits, TaskFits, ProcessFits, Open, OpenJobs, SyncPC, DispatchPC, Absent
  <2> QED
    BY <2>1, <2>2, LocalStep
<1> QED
  BY <1>2, <1>3, <1>4, <1>5, <1>6, <1>7, <1>8, <1>9, <1>10 DEF Settle

\* Handlers and faults touch no record of the store.
LEMMA HandlerInv ==
    ASSUME IInv, NEW j \in Jobs, HandlerReturns(j) \/ Observe(j) \/ FaultInHeartbeat(j)
    PROVE  IInv'
<1>0. TypeOK /\ JobInv(j)
  BY DEF IInv
<1>1. PICK r \in Outcomes :
         /\ LoopFree /\ pc[j] = "running"
         /\ pc' = [pc EXCEPT ![j] = "returning"]
         /\ outcome' = [outcome EXCEPT ![j] = r]
         /\ r = "shutdown" => ShutdownRequested
         /\ faults' \in 0 .. MaxFaults /\ faults' \in {faults, faults + 1}
         /\ UNCHANGED <<store, phase, held, starts>>
  <2>1. CASE HandlerReturns(j)
    BY <1>0, <2>1 DEF HandlerReturns, HandlerEnds, Outcomes, TypeOK
  <2>2. CASE Observe(j)
    BY <1>0, <2>2 DEF Observe, ObserveShutdown, ObserveCancel, HandlerEnds, Outcomes, TypeOK
  <2>3. CASE FaultInHeartbeat(j)
    BY <1>0, <2>3, BackendAssumption DEF FaultInHeartbeat, Outcomes, TypeOK
  <2> QED
    BY <2>1, <2>2, <2>3
<1>2. TypeOK' /\ Elsewhere(j)
  BY <1>0, <1>1 DEF store, TypeOK, StoreTypeOK, Elsewhere, PCs
<1>3. JobInv(j)'
  BY <1>0, <1>1 DEF store, TypeOK, JobInv, CurrentAttempt, TaskFits, ProcessFits, Open, LoopFree,
     ShutdownRequested, SyncPC, DispatchPC
<1> QED
  BY <1>2, <1>3, LocalStep

LEMMA FaultInv ==
    ASSUME IInv, NEW j \in Jobs, FaultIsClassified(j) \/ FaultEscapes(j)
    PROVE  IInv'
<1>0. TypeOK /\ JobInv(j)
  BY DEF IInv
<1>1. faults' \in 1 .. MaxFaults /\ faults' = faults + 1
  BY <1>0, BackendAssumption DEF FaultIsClassified, FaultEscapes, TypeOK
<1>2. CASE FaultIsClassified(j)
  <2>1. PICK kind \in {"retryable", "terminal"} : outcome' = [outcome EXCEPT ![j] = kind]
    BY <1>2 DEF FaultIsClassified
  <2>2. TypeOK' /\ Elsewhere(j)
    BY <1>0, <1>1, <1>2, <2>1 DEF FaultIsClassified, store, TypeOK, StoreTypeOK, Elsewhere, PCs, SyncPC,
       Outcomes
  <2>3. /\ pc[j] \in {"waiting", "unhandled", "returning"} \cup DispatchPC
        /\ phase \notin {"down", "killing"}
    BY <1>0, <1>2 DEF FaultIsClassified, HasTurn, Settling, LoopFree, JobInv, ProcessFits, SyncPC,
                      DispatchPC
  <2>4. CurrentAttempt(j) \in LiveAttempts /\ status[j] # "retry_wait"
    BY <1>0, <2>3 DEF JobInv, TaskFits, DispatchPC, LiveAttempts
  <2>5. JobInv(j)'
    BY <1>0, <1>1, <1>2, <2>1, <2>3, <2>4 DEF FaultIsClassified, store, TypeOK, JobInv, CurrentAttempt,
       TaskFits, ProcessFits, DispatchPC
  <2> QED
    BY <2>2, <2>5, LocalStep
<1>3. CASE FaultEscapes(j)
  <2>1. TypeOK' /\ Elsewhere(j)
    BY <1>0, <1>1, <1>3, MaxAttemptsAssumption DEF FaultEscapes, store, TypeOK, StoreTypeOK, Elsewhere,
       PCs, Outcomes
  <2>2. JobInv(j)'
    BY <1>0, <1>1, <1>3 DEF FaultEscapes, store, TypeOK, JobInv, CurrentAttempt, TaskFits, ProcessFits,
       SyncPC, DispatchPC
  <2> QED
    BY <2>1, <2>2, LocalStep
<1> QED
  BY <1>2, <1>3

\* The clients' calls.  A job made while the backend is stopping gets no task.
LEMMA CreateLemma ==
    ASSUME TypeOK, NEW j \in Jobs, JobInv(j), CreateJob(j)
    PROVE  /\ StoreTypeOK'
           /\ status'[j] = "queued" /\ current'[j] = 1 /\ CurrentAttempt(j)' = "created"
           /\ \A n \in AttemptNumbers : n > 1 => attempt'[j][n] = Absent
           /\ pc[j] = "none"
           /\ \A k \in Jobs \ {j} : /\ status'[k] = status[k] /\ current'[k] = current[k]
                                    /\ attempt'[k] = attempt[k]
<1>1. current[j] = 0 /\ 1 \in AttemptNumbers
  BY MaxAttemptsAssumption DEF CreateJob, JobInv, AttemptNumbers
<1>2. StoreTypeOK'
  BY <1>1, MaxAttemptsAssumption DEF CreateJob, TypeOK, StoreTypeOK, OpenJobs, LiveAttempts
<1>3. status'[j] = "queued" /\ current'[j] = 1 /\ attempt'[j] = [attempt[j] EXCEPT ![1] = "created"]
  BY <1>1 DEF CreateJob, TypeOK, StoreTypeOK
<1>4. CurrentAttempt(j)' = "created"
  BY <1>1, <1>3 DEF CurrentAttempt, TypeOK, StoreTypeOK
<1>5. ASSUME NEW n \in AttemptNumbers, n > 1
      PROVE  attempt'[j][n] = Absent
  <2>1. n \in Nat /\ n # 1 /\ n > current[j]
    BY <1>1, <1>5, MaxAttemptsAssumption DEF AttemptNumbers
  <2>2. attempt[j][n] = Absent
    BY <2>1 DEF JobInv
  <2>3. n \in DOMAIN attempt[j]
    BY DEF TypeOK, StoreTypeOK
  <2> QED
    BY <1>3, <2>1, <2>2, <2>3
<1>6. pc[j] = "none"
  BY <1>1 DEF JobInv
<1> QED
  BY <1>2, <1>3, <1>4, <1>5, <1>6 DEF CreateJob, TypeOK, StoreTypeOK

LEMMA NewJobInv ==
    ASSUME IInv, NEW j \in Jobs, LoopFree, CreateJob(j),
           IF Accepting THEN Schedule(j, 1) ELSE UNCHANGED backend
    PROVE  IInv'
<1>0. TypeOK /\ JobInv(j)
  BY DEF IInv
<1>1. /\ StoreTypeOK'
      /\ status'[j] = "queued" /\ current'[j] = 1 /\ CurrentAttempt(j)' = "created"
      /\ \A n \in AttemptNumbers : n > 1 => attempt'[j][n] = Absent
      /\ pc[j] = "none"
      /\ \A k \in Jobs \ {j} : /\ status'[k] = status[k] /\ current'[k] = current[k]
                               /\ attempt'[k] = attempt[k]
  BY <1>0, CreateLemma
<1>2. \A n \in AttemptNumbers : ~(n < 1)
  BY MaxAttemptsAssumption DEF AttemptNumbers
<1>3. CASE Accepting
  <2>1. TypeOK' /\ Elsewhere(j)
    BY <1>0, <1>1, <1>3, MaxAttemptsAssumption DEF Schedule, TypeOK, Elsewhere, PCs, Outcomes
  <2>2. JobInv(j)'
    BY <1>0, <1>1, <1>2, <1>3 DEF Schedule, Accepting, TypeOK, JobInv, AttemptFits, TaskFits,
       ProcessFits, Absent, SyncPC, DispatchPC
  <2> QED
    BY <2>1, <2>2, LocalStep
<1>4. CASE ~Accepting
  <2>1. TypeOK' /\ Elsewhere(j)
    BY <1>0, <1>1, <1>4 DEF backend, TypeOK, Elsewhere
  <2>2. JobInv(j)'
    BY <1>0, <1>1, <1>2, <1>4 DEF backend, Accepting, TypeOK, JobInv, AttemptFits, TaskFits,
       ProcessFits, Absent
  <2> QED
    BY <2>1, <2>2, LocalStep
<1> QED
  BY <1>3, <1>4

LEMMA ClientInv ==
    ASSUME IInv, NEW j \in Jobs, ClientCall(j)
    PROVE  IInv'
<1>0. TypeOK /\ JobInv(j)
  BY DEF IInv
<1>1. CASE Submit(j)
  BY <1>1, NewJobInv DEF Submit
<1>2. CASE \E new \in Jobs : Retry(j, new)
  BY <1>2, NewJobInv DEF Retry
<1>3. CASE Cancel(j)
  <2>1. TypeOK' /\ Elsewhere(j)
    BY <1>0, <1>3 DEF Cancel, RequestCancel, backend, TypeOK, StoreTypeOK, OpenJobs, Elsewhere
  <2>2. status[j] \in {"queued", "dispatched", "running", "retry_wait"}
    BY <1>3 DEF Cancel, RequestCancel, JobTransitions
  <2>3. pc[j] \in {"none", "waiting", "running", "returning"}
    BY <1>0, <1>3 DEF Cancel, LoopFree, TypeOK, PCs
  <2>4. JobInv(j)'
    BY <1>0, <1>3, <2>2, <2>3 DEF Cancel, RequestCancel, backend, TypeOK, StoreTypeOK, JobInv,
       CurrentAttempt, AttemptFits, TaskFits, ProcessFits, Open, OpenJobs, LiveAttempts, Absent
  <2> QED
    BY <2>1, <2>4, LocalStep
<1> QED
  BY <1>1, <1>2, <1>3 DEF ClientCall

\* Shutdown moves the process from phase to phase; a crash takes the tasks with it.
LEMMA StopInv ==
    ASSUME IInv, BeginShutdown \/ ShutdownStep \/ Crash
    PROVE  IInv'
<1>0. TypeOK /\ \A j \in Jobs : JobInv(j)
  BY DEF IInv
<1>1. CASE BeginShutdown \/ GraceOver \/ StopWaiting \/ Halt
  <2>1. TypeOK'
    BY <1>0, <1>1 DEF BeginShutdown, GraceOver, StopWaiting, Halt, store, TypeOK, StoreTypeOK, Phases
  <2>2. ASSUME NEW j \in Jobs PROVE JobInv(j)'
    BY <1>0, <1>1, <2>2 DEF BeginShutdown, GraceOver, StopWaiting, Halt, LoopFree, store, TypeOK, JobInv,
       CurrentAttempt, ProcessFits, Open
  <2> QED
    BY <2>1, <2>2 DEF IInv
<1>2. CASE Crash
  <2>1. TypeOK'
    BY <1>0, <1>2, MaxAttemptsAssumption DEF Crash, store, TypeOK, StoreTypeOK, Phases, PCs, Outcomes
  <2>2. ASSUME NEW j \in Jobs PROVE JobInv(j)'
    BY <1>0, <1>2, <2>2 DEF Crash, store, TypeOK, JobInv, CurrentAttempt, TaskFits, ProcessFits, Open
  <2> QED
    BY <2>1, <2>2 DEF IInv
<1> QED
  BY <1>1, <1>2 DEF ShutdownStep

\* Recovery leaves a job that is not open alone.
LEMMA FinalInStart ==
    ASSUME TypeOK, Start, NEW j \in Jobs, ~Open(j)
    PROVE  status'[j] = status[j] /\ current'[j] = current[j] /\ attempt'[j] = attempt[j]
<1>1. /\ status'[j] = RecoveredStatus(j)
      /\ current'[j] = IF Requeued(j) THEN current[j] + 1 ELSE current[j]
      /\ attempt'[j] = [n \in AttemptNumbers |-> RecoveredAttempt(j, n)]
  BY DEF Start, RecoverIncompleteJobs
<1>2. ~Requeued(j)
  BY DEF Requeued
<1>3. status'[j] = status[j]
  BY <1>1, <1>2 DEF RecoveredStatus, Open, OpenJobs
<1>4. \A n \in AttemptNumbers : RecoveredAttempt(j, n) = attempt[j][n]
  BY <1>2 DEF RecoveredAttempt
<1>5. attempt[j] \in [AttemptNumbers -> LiveAttempts \cup FinishedAttempts \cup {Absent}]
  BY DEF TypeOK, StoreTypeOK
<1> QED
  BY <1>1, <1>2, <1>3, <1>4, <1>5

\* Recovery rewrites every open job at once and gives each queued one a task.
LEMMA StartInv ==
    ASSUME IInv, Start
    PROVE  IInv'
<1>0. TypeOK /\ \A j \in Jobs : JobInv(j)
  BY DEF IInv
<1>1. TypeOK'
  <2>1. /\ status' \in [Jobs -> TerminalJobs \cup OpenJobs \cup {Absent}]
        /\ cancelRequested' \in [Jobs -> BOOLEAN]
    BY <1>0 DEF Start, RecoverIncompleteJobs, RecoveredStatus, Open, TypeOK, StoreTypeOK, OpenJobs,
                TerminalJobs
  <2>2. current' \in [Jobs -> 0 .. MaxAttempts] /\ held' \in [Jobs -> 0 .. MaxAttempts]
    BY <1>0, MaxAttemptsAssumption DEF Start, RecoverIncompleteJobs, Requeued, TypeOK, StoreTypeOK
  <2>3. /\ attempt' \in [Jobs -> [AttemptNumbers -> LiveAttempts \cup FinishedAttempts \cup {Absent}]]
        /\ outbox' \in [Jobs -> [AttemptNumbers -> {"pending", "published", "failed", Absent}]]
    BY <1>0 DEF Start, RecoverIncompleteJobs, RecoveredAttempt, RecoveredOutbox, Abandoned, TypeOK,
                StoreTypeOK, LiveAttempts, FinishedAttempts
  <2> QED
    BY <1>0, <2>1, <2>2, <2>3, BackendAssumption DEF Start, TypeOK, StoreTypeOK, Phases, PCs, Outcomes
<1>2. ASSUME NEW j \in Jobs PROVE JobInv(j)'
  <2>0. /\ status'[j] = RecoveredStatus(j)
        /\ current'[j] = IF Requeued(j) THEN current[j] + 1 ELSE current[j]
        /\ \A n \in AttemptNumbers : attempt'[j][n] = RecoveredAttempt(j, n)
        /\ pc'[j] = IF Requeued(j) THEN "waiting" ELSE "none"
        /\ held'[j] = IF Requeued(j) THEN current[j] + 1 ELSE 0
        /\ outcome'[j] = "none" /\ phase' = "up"
    BY <1>2 DEF Start, RecoverIncompleteJobs
  <2>1. current[j] \in 0 .. MaxAttempts /\ JobInv(j)
    BY <1>0 DEF TypeOK, StoreTypeOK
  <2>2. CASE ~Open(j)
    <3>1. /\ ~Requeued(j) /\ status'[j] = status[j]
          /\ \A n \in AttemptNumbers : attempt'[j][n] = attempt[j][n]
      BY <1>0, <2>2, FinalInStart DEF Requeued
    <3>2. CurrentAttempt(j)' = CurrentAttempt(j)
      BY <2>0, <2>1, <3>1, MaxAttemptsAssumption DEF CurrentAttempt, AttemptNumbers
    <3> QED
      BY <2>0, <2>1, <2>2, <3>1, <3>2 DEF JobInv, TaskFits, ProcessFits, Open, SyncPC, DispatchPC
  <2>3. CASE Open(j)
    <3> DEFINE c == current[j]
    <3>1. c \in AttemptNumbers /\ CurrentAttempt(j) = attempt[j][c]
      BY <2>1, <2>3, MaxAttemptsAssumption DEF JobInv, AttemptFits, CurrentAttempt, Open, OpenJobs,
         LiveAttempts, Absent, AttemptNumbers
    <3>2. attempt[j][c] \in LiveAttempts \cup {"failed_retryable", "lost"}
      BY <2>1, <2>3, <3>1 DEF JobInv, AttemptFits, Open, OpenJobs, LiveAttempts, Absent
    <3>3. /\ attempt'[j][c] \in {"superseded", "lost", "failed_retryable"}
          /\ \A n \in AttemptNumbers : n < c => attempt'[j][n] \in FinishedAttempts
      <4>1. attempt'[j][c] = Abandoned(attempt[j][c])
        <5>1. c # c + 1
          BY <2>1
        <5>2. RecoveredAttempt(j, c) = Abandoned(attempt[j][c])
          BY <2>3, <5>1 DEF RecoveredAttempt
        <5> QED
          BY <2>0, <3>1, <5>2
      <4>2. \A n \in AttemptNumbers : n < c => attempt'[j][n] = attempt[j][n]
        BY <2>0, <2>1, <2>3, MaxAttemptsAssumption DEF RecoveredAttempt, AttemptNumbers
      <4> QED
        BY <2>1, <3>2, <4>1, <4>2 DEF Abandoned, LiveAttempts, JobInv
    <3>4. CASE Requeued(j)
      <4>1. /\ status'[j] = "queued" /\ current'[j] = c + 1 /\ c + 1 \in AttemptNumbers
            /\ pc'[j] = "waiting" /\ held'[j] = c + 1
        BY <2>0, <2>1, <2>3, <3>4, MaxAttemptsAssumption DEF RecoveredStatus, Requeued, AttemptNumbers
      <4>2. attempt'[j][c + 1] = "created"
        BY <2>0, <2>1, <2>3, <3>4, <4>1 DEF RecoveredAttempt
      <4>3. \A n \in AttemptNumbers : n > c + 1 => attempt'[j][n] = Absent
        BY <2>0, <2>1, <2>3, MaxAttemptsAssumption DEF RecoveredAttempt, JobInv, AttemptNumbers
      <4>4. \A n \in AttemptNumbers : n < c + 1 => n < c \/ n = c
        BY <2>1, MaxAttemptsAssumption DEF AttemptNumbers
      <4>5. CurrentAttempt(j)' = "created"
        BY <2>1, <4>1, <4>2 DEF CurrentAttempt
      <4> QED
        BY <2>0, <2>1, <3>3, <4>1, <4>2, <4>3, <4>4, <4>5
           DEF JobInv, AttemptFits, TaskFits, ProcessFits, FinishedAttempts, Absent, SyncPC, DispatchPC
    <3>5. CASE ~Requeued(j)
      <4>1. /\ status'[j] \in {"cancelled", "dead"} /\ current'[j] = c
            /\ pc'[j] = "none"
        BY <2>0, <2>3, <3>5 DEF RecoveredStatus
      <4>2. \A n \in AttemptNumbers : n > c => attempt'[j][n] = Absent
        BY <2>0, <2>1, <2>3, <3>5, MaxAttemptsAssumption DEF RecoveredAttempt, JobInv, AttemptNumbers
      <4>3. CurrentAttempt(j)' = attempt'[j][c]
        BY <3>1, <4>1, MaxAttemptsAssumption DEF CurrentAttempt, AttemptNumbers
      <4> QED
        BY <2>0, <3>3, <4>1, <4>2, <4>3
           DEF JobInv, AttemptFits, TaskFits, ProcessFits, Open, OpenJobs, Absent, SyncPC, DispatchPC
    <3> QED
      BY <3>4, <3>5
  <2> QED
    BY <2>2, <2>3
<1> QED
  BY <1>1, <1>2 DEF IInv

\* The inductive invariant: IInv holds in every state the backend reaches, through any
\* interleaving of tasks, clients, store faults, shutdowns, crashes and recoveries.
THEOREM Invariance == Spec => []IInv
<1>1. IInv /\ [Next]_vars => IInv'
  <2> SUFFICES ASSUME IInv, [Next]_vars PROVE IInv'
    OBVIOUS
  <2>1. CASE UNCHANGED vars
    BY <2>1 DEF vars, store, backend, IInv, TypeOK, StoreTypeOK, JobInv, CurrentAttempt, ProcessFits,
       Open
  <2>2. CASE Process
    BY <2>2, StopInv, StartInv DEF Process
  <2>3. ASSUME NEW j \in Jobs, TaskStep(j) \/ Observe(j) \/ Fault(j) \/ ClientCall(j)
        PROVE  IInv'
    BY <2>3, DispatchInv, SettleInv, HandlerInv, FaultInv, ClientInv DEF TaskStep, Fault
  <2> QED
    BY <2>1, <2>2, <2>3 DEF Next
<1> QED
  BY InitInv, <1>1, PTL DEF Spec

\* Every variable keeps its type: statuses, attempt numbers up to MaxAttempts, program counters.
THEOREM TypeCorrect == Spec => []TypeOK
<1>1. IInv => TypeOK
  BY DEF IInv
<1> QED
  BY <1>1, Invariance, PTL

\* At most one attempt of a job is alive and it is the current one, although
\* create_retry_attempt, recover_incomplete_jobs, shutdown and the tasks all write attempts.
THEOREM OneLiveAttemptTheorem == Spec => []OneLiveAttempt
<1>1. IInv => OneLiveAttempt
  BY DEF IInv, JobInv, OneLiveAttempt
<1> QED
  BY <1>1, Invariance, PTL

\* The job and its current attempt agree between any two store calls of _execute,
\* shutdown and recovery: a crash at any point leaves one of the pairs AttemptFits lists.
THEOREM StatusMatchesAttemptTheorem == Spec => []StatusMatchesAttempt
<1>1. IInv => StatusMatchesAttempt
  BY DEF IInv, JobInv, StatusMatchesAttempt
<1> QED
  BY <1>1, Invariance, PTL

\* While the backend accepts jobs and the store has not failed, every open job has a task
\* (_schedule was called for it by submit, retry, start or its own previous attempt).
THEOREM NoStrandedJobTheorem == Spec => []NoStrandedJob
<1>1. IInv => NoStrandedJob
  BY DEF IInv, JobInv, ProcessFits, NoStrandedJob
<1> QED
  BY <1>1, Invariance, PTL

-----------------------------------------------------------------------------
\* What the store keeps of requests and dispatch records while it has not failed.

\* Only a request makes a job cancelling, or its handler end as cancelled.
RequestFits(j) ==
    status[j] \in {"cancelling", "cancelled"} \/ outcome[j] = "cancelled" => cancelRequested[j]

\* A pending record is the current attempt's, and its task has not consumed it yet.
OutboxFits(j) ==
    \A n \in AttemptNumbers : outbox[j][n] = "pending" =>
        /\ n = current[j]
        /\ status[j] \notin {"dispatched", "running", "completed", "failed"}
        /\ pc[j] \in {"none", "waiting", "consume"}

RecordsFit == faults = 0 => \A j \in Jobs : RequestFits(j) /\ OutboxFits(j)

\* What an action of job j leaves alone, beside what Elsewhere lists.
LEMMA OwnRecords ==
    ASSUME RecordsFit, NEW j \in Jobs, Elsewhere(j), faults \in Nat,
           \A k \in Jobs \ {j} : cancelRequested'[k] = cancelRequested[k] /\ outbox'[k] = outbox[k],
           faults = 0 /\ faults' = 0 => RequestFits(j)' /\ OutboxFits(j)'
    PROVE  RecordsFit'
<1> SUFFICES ASSUME faults' = 0, NEW k \in Jobs PROVE RequestFits(k)' /\ OutboxFits(k)'
  BY DEF RecordsFit
<1>1. faults = 0
  BY DEF Elsewhere
<1>2. CASE k = j
  BY <1>1, <1>2
<1>3. CASE k # j
  BY <1>1, <1>3 DEF RecordsFit, Elsewhere, RequestFits, OutboxFits
<1> QED
  BY <1>2, <1>3

\* A task that records its result and goes on to l.
LEMMA CompleteRecords ==
    ASSUME IInv, RecordsFit, NEW j \in Jobs, pc[j] # "none",
           NEW r \in Results, CompleteAttempt(j, held[j], r), NEW l \in {"none", "retry"},
           EndTask(j) \/ Goto(j, "retry"), pc' = [pc EXCEPT ![j] = l],
           outcome'[j] \in {"none", outcome[j]},
           faults = 0 /\ r = "cancelled" => cancelRequested[j],
           faults = 0 /\ pc[j] \in {"waiting", "consume"} =>
              l = "none" /\ r \notin {"succeeded", "failed_terminal"}
    PROVE  RecordsFit'
<1>1. TypeOK /\ JobInv(j)
  BY DEF IInv
<1>2. /\ status'[j] = JobAfter(r) /\ current' = current
      /\ \A k \in Jobs \ {j} : status'[k] = status[k] /\ attempt'[k] = attempt[k]
  BY <1>1, CompleteLemma
<1>3. cancelRequested' = cancelRequested /\ outbox' = outbox
  BY DEF CompleteAttempt
<1>4. Elsewhere(j) /\ faults \in Nat /\ pc'[j] = l
  BY <1>1, <1>2, BackendAssumption DEF Elsewhere, EndTask, Goto, TypeOK
<1>5. JobAfter(r) \in {"completed", "retry_wait", "failed", "cancelled"}
      /\ (JobAfter(r) = "cancelled" => r = "cancelled")
      /\ (JobAfter(r) \in {"completed", "failed"} => r \in {"succeeded", "failed_terminal"})
  BY DEF JobAfter, Results
<1>6. ASSUME faults = 0 PROVE RequestFits(j)' /\ OutboxFits(j)'
  <2>1. RequestFits(j) /\ OutboxFits(j)
    BY <1>6 DEF RecordsFit
  <2>2. RequestFits(j)'
    BY <1>2, <1>3, <1>5, <1>6, <2>1 DEF RequestFits
  <2>3. OutboxFits(j)'
    BY <1>2, <1>3, <1>4, <1>5, <1>6, <2>1 DEF OutboxFits
  <2> QED
    BY <2>2, <2>3
<1> QED
  BY <1>3, <1>4, <1>6, OwnRecords

LEMMA DispatchRecords ==
    ASSUME IInv, RecordsFit, NEW j \in Jobs, Dispatch(j)
    PROVE  RecordsFit'
<1>1. TypeOK /\ JobInv(j) /\ faults \in Nat
  BY BackendAssumption DEF IInv, TypeOK
<1>2. faults = 0 => RequestFits(j) /\ OutboxFits(j)
  BY DEF RecordsFit
<1>3. CASE DropCancelled(j)
  <2>1. /\ pc[j] = "waiting" /\ status[j] = "cancelling"
        /\ CompleteAttempt(j, held[j], "cancelled") /\ EndTask(j)
    BY <1>3 DEF DropCancelled, HasTurn
  <2>2. pc' = [pc EXCEPT ![j] = "none"] /\ outcome'[j] = "none"
    BY <1>1, <2>1 DEF EndTask, TypeOK
  <2> QED
    BY <1>2, <2>1, <2>2, CompleteRecords DEF Results, RequestFits
<1>4. CASE RejectUnhandled(j)
  <2>1. pc[j] = "unhandled" /\ CompleteAttempt(j, held[j], "failed_terminal") /\ EndTask(j)
    BY <1>4 DEF RejectUnhandled
  <2>2. pc' = [pc EXCEPT ![j] = "none"] /\ outcome'[j] = "none"
    BY <1>1, <2>1 DEF EndTask, TypeOK
  <2> QED
    BY <2>1, <2>2, CompleteRecords DEF Results
<1>5. CASE ConsumeOutbox(j)
  <2>1. /\ Elsewhere(j) /\ status' = status /\ current' = current /\ cancelRequested' = cancelRequested
        /\ outcome' = outcome /\ held[j] = current[j]
        /\ outbox' = [outbox EXCEPT ![j][held[j]] = "published"]
    BY <1>1, <1>5 DEF ConsumeOutbox, MarkOutboxConsumedLocal, Goto, Elsewhere, JobInv
  <2>2. RequestFits(j) => RequestFits(j)'
    BY <2>1 DEF RequestFits
  <2>3. OutboxFits(j) => OutboxFits(j)'
    <3> SUFFICES ASSUME OutboxFits(j), NEW n \in AttemptNumbers PROVE outbox'[j][n] # "pending"
      BY DEF OutboxFits
    <3>1. outbox'[j] = [outbox[j] EXCEPT ![current[j]] = "published"]
      BY <1>1, <2>1 DEF TypeOK, StoreTypeOK
    <3>2. n \in DOMAIN outbox[j]
      BY <1>1 DEF TypeOK, StoreTypeOK
    <3>3. n # current[j] => outbox[j][n] # "pending"
      BY DEF OutboxFits
    <3> QED
      BY <3>1, <3>2, <3>3
  <2>4. \A k \in Jobs \ {j} : cancelRequested'[k] = cancelRequested[k] /\ outbox'[k] = outbox[k]
    BY <1>1, <2>1 DEF TypeOK, StoreTypeOK
  <2> QED
    BY <1>1, <1>2, <2>1, <2>2, <2>3, <2>4, OwnRecords
<1>6. CASE Acquire(j) \/ DispatchJob(j) \/ AnnounceAttempt(j) \/ ClaimAttempt(j) \/ BeginAttempt(j) \/ RunJob(j)
  <2>1. /\ cancelRequested' = cancelRequested /\ outbox' = outbox /\ current' = current
        /\ outcome' = outcome
        /\ status'[j] \in {"dispatching", "dispatched", "running", status[j]}
    BY <1>1, <1>6 DEF Acquire, DispatchJob, AnnounceAttempt, ClaimAttempt, BeginAttempt, RunJob, Goto,
       TransitionJob, TransitionAttempt, TypeOK, StoreTypeOK
  <2>2. Elsewhere(j)
    BY <1>1, <1>6 DEF Acquire, DispatchJob, AnnounceAttempt, ClaimAttempt, BeginAttempt, RunJob, Goto,
       TransitionJob, TransitionAttempt, TypeOK, StoreTypeOK, Elsewhere
  <2>3. RequestFits(j) => RequestFits(j)'
    BY <2>1 DEF RequestFits
  <2>4. OutboxFits(j) => OutboxFits(j)'
    <3>1. CASE Acquire(j)
      <4>1. status'[j] = "dispatching" /\ pc'[j] = "consume"
        BY <1>1, <3>1 DEF Acquire, Goto, TransitionJob, TypeOK, StoreTypeOK
      <4> QED
        BY <2>1, <4>1 DEF OutboxFits
    <3>2. CASE ~Acquire(j)
      <4>1. pc[j] \notin {"none", "waiting", "consume"}
        BY <1>6, <3>2 DEF DispatchJob, AnnounceAttempt, ClaimAttempt, BeginAttempt, RunJob
      <4> QED
        BY <2>1, <4>1 DEF OutboxFits
    <3> QED
      BY <3>1, <3>2
  <2> QED
    BY <1>1, <1>2, <2>1, <2>2, <2>3, <2>4, OwnRecords
<1> QED
  BY <1>3, <1>4, <1>5, <1>6 DEF Dispatch

LEMMA SettleRecords ==
    ASSUME IInv, RecordsFit, NEW j \in Jobs, Settle(j) \/ KillTask(j)
    PROVE  RecordsFit'
<1>1. TypeOK /\ JobInv(j) /\ faults \in Nat
  BY BackendAssumption DEF IInv, TypeOK
<1>2. faults = 0 => RequestFits(j) /\ OutboxFits(j)
  BY DEF RecordsFit
<1>3. ASSUME NEW r \in Outcomes, Settling(j, r)
      PROVE  pc[j] \in {"returning", "failing"} /\ outcome[j] = r
  BY <1>3 DEF Settling
<1>4. EndTask(j) => pc' = [pc EXCEPT ![j] = "none"] /\ outcome'[j] = "none"
  BY <1>1 DEF EndTask, TypeOK
<1>5. CASE SettleOk(j)
  <2>1. PICK r \in {"cancelled", "succeeded"} :
             /\ CompleteAttempt(j, held[j], r) /\ EndTask(j)
             /\ r = "cancelled" => status[j] = "cancelling"
    BY <1>5 DEF SettleOk
  <2>2. pc[j] \in {"returning", "failing"}
    BY <1>3, <1>5 DEF SettleOk, Outcomes
  <2> QED
    BY <1>2, <1>4, <2>1, <2>2, CompleteRecords DEF Results, RequestFits
<1>6. CASE SettleCancelled(j)
  <2>1. PICK r \in {"cancelled", "lost"} : CompleteAttempt(j, held[j], r) /\ EndTask(j)
    BY <1>6 DEF SettleCancelled
  <2>2. pc[j] \in {"returning", "failing"} /\ outcome[j] = "cancelled"
    BY <1>3, <1>6 DEF SettleCancelled, Outcomes
  <2> QED
    BY <1>2, <1>4, <2>1, <2>2, CompleteRecords DEF Results, RequestFits
<1>7. CASE SettleShutdown(j) \/ SettleTerminal(j)
  <2>1. PICK r \in {"lost", "failed_terminal"} : CompleteAttempt(j, held[j], r) /\ EndTask(j)
    BY <1>7 DEF SettleShutdown, SettleTerminal
  <2>2. pc[j] \in {"returning", "failing"}
    BY <1>3, <1>7 DEF SettleShutdown, SettleTerminal, Outcomes
  <2> QED
    BY <1>4, <2>1, <2>2, CompleteRecords DEF Results
<1>8. CASE SettleRetryable(j)
  <2>1. /\ CompleteAttempt(j, held[j], "failed_retryable") /\ Goto(j, "retry")
        /\ pc' = [pc EXCEPT ![j] = "retry"] /\ outcome' = outcome
    BY <1>8 DEF SettleRetryable, Goto
  <2>2. pc[j] \in {"returning", "failing"}
    BY <1>3, <1>8 DEF SettleRetryable, Outcomes
  <2> QED
    BY <2>1, <2>2, CompleteRecords DEF Results
<1>9. CASE KillTask(j)
  BY <1>4, <1>9, CompleteRecords DEF KillTask, Results
<1>10. CASE SettleRefused(j)
  <2>1. faults # 0 /\ faults' = faults
    BY <1>1, <1>10 DEF SettleRefused, JobInv, ProcessFits, EndTask
  <2> QED
    BY <2>1 DEF RecordsFit
<1>11. CASE RetryNow(j)
  <2>1. /\ pc[j] = "retry" /\ current[j] + 1 \in AttemptNumbers
        /\ status' = [status EXCEPT ![j] = "queued"] /\ current' = [current EXCEPT ![j] = @ + 1]
        /\ outbox' = [outbox EXCEPT ![j][current[j] + 1] = "pending"]
        /\ attempt' = [attempt EXCEPT ![j][current[j] + 1] = "created"]
        /\ cancelRequested' = cancelRequested
    BY <1>1, <1>11, MaxAttemptsAssumption
       DEF RetryNow, CreateRetryAttempt, TypeOK, StoreTypeOK, AttemptNumbers
  <2>2. PICK l \in {"none", "waiting"}, h \in {0, held[j] + 1} :
             /\ pc' = [pc EXCEPT ![j] = l] /\ held' = [held EXCEPT ![j] = h]
             /\ outcome' = [outcome EXCEPT ![j] = "none"]
             /\ UNCHANGED <<phase, starts, faults>>
    BY <1>11 DEF RetryNow, EndTask, Schedule
  <2>3. Elsewhere(j)
    BY <1>1, <2>1, <2>2 DEF Elsewhere, TypeOK, StoreTypeOK
  <2>4. RequestFits(j)'
    BY <1>1, <2>1, <2>2 DEF RequestFits, TypeOK, StoreTypeOK
  <2>5. OutboxFits(j) => OutboxFits(j)'
    <3> SUFFICES ASSUME OutboxFits(j), NEW n \in AttemptNumbers, outbox'[j][n] = "pending"
                 PROVE  n = current'[j] /\ status'[j] = "queued" /\ pc'[j] \in {"none", "waiting"}
      BY DEF OutboxFits
    <3>1. outbox'[j] = [outbox[j] EXCEPT ![current[j] + 1] = "pending"]
      BY <1>1, <2>1 DEF TypeOK, StoreTypeOK
    <3>2. n \in DOMAIN outbox[j]
      BY <1>1 DEF TypeOK, StoreTypeOK
    <3>3. outbox[j][n] # "pending"
      BY <2>1 DEF OutboxFits
    <3>4. n = current[j] + 1
      BY <3>1, <3>2, <3>3
    <3> QED
      BY <1>1, <2>1, <2>2, <3>4 DEF TypeOK, StoreTypeOK
  <2>6. \A k \in Jobs \ {j} : cancelRequested'[k] = cancelRequested[k] /\ outbox'[k] = outbox[k]
    BY <1>1, <2>1 DEF TypeOK, StoreTypeOK
  <2> QED
    BY <1>1, <1>2, <2>3, <2>4, <2>5, <2>6, OwnRecords
<1>12. CASE GiveUp(j)
  <2>1. /\ Elsewhere(j) /\ cancelRequested' = cancelRequested /\ outbox' = outbox /\ current' = current
        /\ status'[j] = "dead" /\ pc'[j] = "none" /\ outcome'[j] = "none"
    BY <1>1, <1>12 DEF GiveUp, ExhaustAttempts, EndTask, TypeOK, StoreTypeOK, Elsewhere
  <2>2. RequestFits(j)' /\ (OutboxFits(j) => OutboxFits(j)')
    BY <2>1 DEF RequestFits, OutboxFits
  <2> QED
    BY <1>1, <1>2, <2>1, <2>2, OwnRecords
<1> QED
  BY <1>5, <1>6, <1>7, <1>8, <1>9, <1>10, <1>11, <1>12 DEF Settle

\* Handlers end, and end cancelled only when the request is there.
LEMMA HandlerRecords ==
    ASSUME IInv, RecordsFit, NEW j \in Jobs, HandlerReturns(j) \/ Observe(j)
    PROVE  RecordsFit'
<1>1. TypeOK /\ faults \in Nat
  BY BackendAssumption DEF IInv, TypeOK
<1>2. PICK r \in {"ok", "retryable", "terminal", "shutdown", "cancelled"} :
         /\ pc[j] = "running" /\ pc' = [pc EXCEPT ![j] = "returning"]
         /\ outcome' = [outcome EXCEPT ![j] = r]
         /\ r = "cancelled" => cancelRequested[j]
         /\ UNCHANGED <<store, phase, held, starts, faults>>
  BY DEF HandlerReturns, Observe, ObserveShutdown, ObserveCancel, HandlerEnds
<1>3. Elsewhere(j)
  BY <1>1, <1>2 DEF Elsewhere, store, TypeOK
<1>4. faults = 0 => RequestFits(j) /\ OutboxFits(j)
  BY DEF RecordsFit
<1>5. faults = 0 => RequestFits(j)' /\ OutboxFits(j)'
  <2>1. outcome'[j] = r /\ UNCHANGED <<status, current, cancelRequested, outbox>>
    BY <1>1, <1>2 DEF store, TypeOK
  <2> QED
    BY <1>2, <1>4, <2>1 DEF RequestFits, OutboxFits
<1> QED
  BY <1>1, <1>2, <1>3, <1>5, OwnRecords DEF store

LEMMA ClientRecords ==
    ASSUME IInv, RecordsFit, NEW j \in Jobs, ClientCall(j)
    PROVE  RecordsFit'
<1>1. TypeOK /\ faults \in Nat
  BY BackendAssumption DEF IInv, TypeOK
<1>2. ASSUME NEW i \in Jobs, CreateJob(i), Schedule(i, 1) \/ UNCHANGED backend
      PROVE  RecordsFit'
  <2>1. JobInv(i) /\ current[i] = 0 /\ pc[i] = "none" /\ 1 \in AttemptNumbers
    BY <1>2, MaxAttemptsAssumption DEF IInv, JobInv, CreateJob, AttemptNumbers
  <2>2. /\ status'[i] = "queued" /\ current'[i] = 1 /\ cancelRequested' = cancelRequested
        /\ outbox'[i] = [outbox[i] EXCEPT ![1] = "pending"]
        /\ \A k \in Jobs \ {i} : /\ status'[k] = status[k] /\ current'[k] = current[k]
                                 /\ attempt'[k] = attempt[k] /\ outbox'[k] = outbox[k]
    BY <1>1, <1>2 DEF CreateJob, TypeOK, StoreTypeOK
  <2>3. /\ pc'[i] \in {"none", "waiting"} /\ outcome'[i] \in {"none", outcome[i]}
        /\ phase' = phase /\ faults' = faults
        /\ \A k \in Jobs \ {i} : pc'[k] = pc[k] /\ held'[k] = held[k] /\ outcome'[k] = outcome[k]
    BY <1>1, <1>2, <2>1 DEF Schedule, backend, TypeOK
  <2>4. Elsewhere(i)
    BY <2>2, <2>3 DEF Elsewhere
  <2>5. ASSUME faults = 0 PROVE RequestFits(i)' /\ OutboxFits(i)'
    <3>1. RequestFits(i) /\ OutboxFits(i)
      BY <2>5 DEF RecordsFit
    <3>2. RequestFits(i)'
      BY <2>2, <2>3, <3>1 DEF RequestFits
    <3>3. ASSUME NEW n \in AttemptNumbers, outbox'[i][n] = "pending" PROVE n = 1
      <4>1. outbox[i][n] # "pending"
        BY <2>1, <3>1, MaxAttemptsAssumption DEF OutboxFits, AttemptNumbers
      <4>2. n \in DOMAIN outbox[i]
        BY <1>1 DEF TypeOK, StoreTypeOK
      <4> QED
        BY <2>2, <3>3, <4>1, <4>2
    <3> QED
      BY <2>2, <2>3, <3>2, <3>3 DEF OutboxFits
  <2> QED
    BY <1>1, <2>2, <2>4, <2>5, OwnRecords
<1>3. CASE Submit(j)
  BY <1>2, <1>3 DEF Submit
<1>4. CASE \E new \in Jobs : Retry(j, new)
  BY <1>2, <1>4 DEF Retry
<1>5. CASE Cancel(j)
  <2>1. /\ status'[j] = "cancelling" /\ cancelRequested'[j] /\ UNCHANGED <<current, attempt, outbox, pc, held, outcome, phase, faults>>
        /\ \A k \in Jobs \ {j} : status'[k] = status[k] /\ cancelRequested'[k] = cancelRequested[k]
    BY <1>1, <1>5 DEF Cancel, RequestCancel, backend, TypeOK, StoreTypeOK
  <2>2. Elsewhere(j) /\ RequestFits(j)' /\ (OutboxFits(j) => OutboxFits(j)')
    BY <2>1 DEF Elsewhere, RequestFits, OutboxFits
  <2> QED
    BY <1>1, <2>1, <2>2, OwnRecords DEF RecordsFit
<1> QED
  BY <1>3, <1>4, <1>5 DEF ClientCall

\* Recovery withdraws the records of the attempts it abandons.
LEMMA StartRecords ==
    ASSUME IInv, RecordsFit, Start
    PROVE  RecordsFit'
<1>1. TypeOK /\ faults' = faults
  BY DEF IInv, Start
<1> SUFFICES ASSUME faults = 0, NEW j \in Jobs PROVE RequestFits(j)' /\ OutboxFits(j)'
  BY <1>1 DEF RecordsFit
<1>2. /\ status'[j] = RecoveredStatus(j)
      /\ current'[j] = IF Requeued(j) THEN current[j] + 1 ELSE current[j]
      /\ cancelRequested'[j] = IF Requeued(j) THEN FALSE ELSE cancelRequested[j]
      /\ \A n \in AttemptNumbers : outbox'[j][n] = RecoveredOutbox(j, n)
      /\ pc'[j] \in {"none", "waiting"} /\ outcome'[j] = "none"
  BY DEF Start, RecoverIncompleteJobs
<1>3. RequestFits(j) /\ OutboxFits(j) /\ current[j] \in Nat
  BY <1>1, MaxAttemptsAssumption DEF RecordsFit, TypeOK, StoreTypeOK
<1>4. RequestFits(j)'
  <2>1. CASE Requeued(j)
    <3>1. status'[j] = "queued"
      BY <1>2, <2>1 DEF RecoveredStatus, Requeued
    <3> QED
      BY <1>2, <3>1 DEF RequestFits
  <2>2. CASE ~Requeued(j)
    <3>1. status'[j] \in {"cancelling", "cancelled"} => status[j] \in {"cancelling", "cancelled"}
      BY <1>2, <2>2 DEF RecoveredStatus
    <3> QED
      BY <1>2, <1>3, <2>2, <3>1 DEF RequestFits
  <2> QED
    BY <2>1, <2>2
<1>5. OutboxFits(j)'
  <2> SUFFICES ASSUME NEW n \in AttemptNumbers, RecoveredOutbox(j, n) = "pending"
               PROVE  n = current'[j] /\ status'[j] \notin {"dispatched", "running", "completed", "failed"}
    BY <1>2 DEF OutboxFits
  <2>1. CASE Open(j)
    <3>1. n # current[j]
      BY <1>3, <2>1 DEF RecoveredOutbox
    <3>2. outbox[j][n] # "pending"
      BY <1>3, <3>1 DEF OutboxFits
    <3>3. Requeued(j) /\ n = current[j] + 1
      BY <2>1, <3>1, <3>2 DEF RecoveredOutbox
    <3>4. status'[j] = "queued"
      BY <1>2, <3>3 DEF RecoveredStatus, Requeued
    <3> QED
      BY <1>2, <3>3, <3>4
  <2>2. CASE ~Open(j)
    <3>1. ~Requeued(j)
      BY <2>2 DEF Requeued
    <3>2. outbox[j][n] = "pending"
      BY <2>2, <3>1 DEF RecoveredOutbox
    <3>3. status'[j] = status[j]
      BY <1>2, <2>2, <3>1 DEF RecoveredStatus, Open, OpenJobs
    <3> QED
      BY <1>2, <1>3, <3>1, <3>2, <3>3 DEF OutboxFits
  <2> QED
    BY <2>1, <2>2
<1> QED
  BY <1>4, <1>5

\* Shutdown and crashes touch no record, and leave no task at a place it was not.
LEMMA StopRecords ==
    ASSUME IInv, RecordsFit, BeginShutdown \/ ShutdownStep \/ Crash
    PROVE  RecordsFit'
<1>1. UNCHANGED <<status, current, cancelRequested, outbox, faults>>
  BY DEF BeginShutdown, ShutdownStep, GraceOver, StopWaiting, Halt, Crash, store
<1>2. \A j \in Jobs : pc'[j] \in {"none", pc[j]} /\ outcome'[j] \in {"none", outcome[j]}
  BY DEF BeginShutdown, ShutdownStep, GraceOver, StopWaiting, Halt, Crash
<1>3. ASSUME NEW j \in Jobs, RequestFits(j), OutboxFits(j) PROVE RequestFits(j)' /\ OutboxFits(j)'
  BY <1>1, <1>2, <1>3 DEF RequestFits, OutboxFits
<1> QED
  BY <1>1, <1>3 DEF RecordsFit

LEMMA RecordsKept == IInv /\ RecordsFit /\ [Next]_vars => RecordsFit'
<1> SUFFICES ASSUME IInv, RecordsFit, [Next]_vars PROVE RecordsFit'
  OBVIOUS
<1>1. CASE UNCHANGED vars
  BY <1>1 DEF vars, store, backend, RecordsFit, RequestFits, OutboxFits
<1>2. CASE Process
  BY <1>2, StopRecords, StartRecords DEF Process
<1>3. ASSUME NEW j \in Jobs, TaskStep(j) \/ Observe(j) \/ ClientCall(j) PROVE RecordsFit'
  BY <1>3, DispatchRecords, SettleRecords, HandlerRecords, ClientRecords DEF TaskStep
<1>4. ASSUME NEW j \in Jobs, Fault(j) PROVE RecordsFit'
  <2>1. faults' = faults + 1 /\ faults \in Nat
    BY <1>4, BackendAssumption DEF Fault, FaultIsClassified, FaultEscapes, FaultInHeartbeat, IInv, TypeOK
  <2> QED
    BY <2>1 DEF RecordsFit
<1> QED
  BY <1>1, <1>2, <1>3, <1>4 DEF Next

LEMMA RecordsAlwaysFit == Spec => []RecordsFit
<1>1. Init => RecordsFit
  BY DEF Init, StoreInit, RecordsFit, RequestFits, OutboxFits, Absent
<1> QED
  BY <1>1, RecordsKept, Invariance, PTL DEF Spec

\* Without a store fault, a job that complete_attempt or recovery makes cancelled was asked
\* to be: neither a shutdown nor a crash is taken for a cancellation.
THEOREM CancelledOnlyOnRequestTheorem == Spec => []CancelledOnlyOnRequest
<1>1. RecordsFit => CancelledOnlyOnRequest
  BY DEF RecordsFit, RequestFits, CancelledOnlyOnRequest
<1> QED
  BY <1>1, RecordsAlwaysFit, PTL

\* Without a store fault, a pending dispatch record is that of the current attempt, and the
\* job it would dispatch has not been dispatched.
THEOREM OutboxFollowsAttemptTheorem == Spec => []OutboxFollowsAttempt
<1>1. RecordsFit => OutboxFollowsAttempt
  BY DEF RecordsFit, OutboxFits, OutboxFollowsAttempt
<1> QED
  BY <1>1, RecordsAlwaysFit, PTL

-----------------------------------------------------------------------------
\* The contract and the action properties.

LEMMA BusyIsOpen ==
    ASSUME IInv, NEW j \in Jobs, pc[j] # "none"
    PROVE  status[j] \in OpenJobs
<1>1. TypeOK /\ JobInv(j)
  BY DEF IInv
<1>2. TaskFits(pc[j], status[j], CurrentAttempt(j)) /\ pc[j] \in PCs
  BY <1>1 DEF JobInv, TypeOK
<1>3. CASE pc[j] = "failing"
  <2>1. CurrentAttempt(j) \in LiveAttempts
    BY <1>2, <1>3 DEF TaskFits
  <2> QED
    BY <1>1, <2>1 DEF JobInv, AttemptFits, TypeOK, StoreTypeOK, LiveAttempts, TerminalJobs, OpenJobs,
       Absent
<1>4. CASE pc[j] # "failing"
  BY <1>2, <1>4 DEF TaskFits, OpenJobs, PCs, SyncPC, DispatchPC
<1> QED
  BY <1>3, <1>4

\* An action of job j changes no record of another job.
Alone(j) ==
    \A k \in Jobs \ {j} : /\ status'[k] = status[k]
                          /\ current'[k] = current[k]
                          /\ attempt'[k] = attempt[k]

LEMMA ActionsAreLocal ==
    ASSUME TypeOK, NEW j \in Jobs, TaskStep(j) \/ Observe(j) \/ Fault(j) \/ Submit(j) \/ Cancel(j)
    PROVE  Alone(j)
<1> USE DEF TypeOK, StoreTypeOK, Alone, store
<1>1. CASE Dispatch(j)
  BY <1>1 DEF Dispatch, DropCancelled, Acquire, ConsumeOutbox, DispatchJob, AnnounceAttempt,
     ClaimAttempt, BeginAttempt, RunJob, RejectUnhandled, CompleteAttempt, TransitionJob,
     TransitionAttempt, MarkOutboxConsumedLocal
<1>2. CASE Settle(j)
  BY <1>2 DEF Settle, SettleOk, SettleCancelled, SettleShutdown, SettleTerminal, SettleRetryable,
     SettleRefused, RetryNow, GiveUp, CompleteAttempt, CreateRetryAttempt, ExhaustAttempts
<1>3. CASE HandlerReturns(j) \/ Observe(j) \/ Fault(j)
  BY <1>3 DEF HandlerReturns, Observe, ObserveShutdown, ObserveCancel, HandlerEnds, Fault,
     FaultIsClassified, FaultEscapes, FaultInHeartbeat
<1>4. CASE KillTask(j)
  BY <1>4 DEF KillTask, CompleteAttempt
<1>5. CASE Submit(j)
  BY <1>5 DEF Submit, CreateJob
<1>6. CASE Cancel(j)
  BY <1>6 DEF Cancel, RequestCancel
<1> QED
  BY <1>1, <1>2, <1>3, <1>4, <1>5, <1>6 DEF TaskStep

\* The jobs an action leaves alone stutter in the contract.
Kept(j) == status'[j] = status[j] /\ current'[j] = current[j] /\ attempt'[j] = attempt[j]

LEMMA KeptIsSame ==
    ASSUME NEW j \in Jobs, Kept(j)
    PROVE  Contract!Same(j)
<1>1. CurrentAttempt(j)' = CurrentAttempt(j)
  BY DEF Kept, CurrentAttempt
<1> QED
  BY <1>1 DEF Kept, Contract!Same, Turn, Verdict

LEMMA KeptIfUnchanged ==
    ASSUME NEW j \in Jobs, UNCHANGED store
    PROVE  Kept(j)
BY DEF store, Kept

\* What complete_attempt means to the contract: a try spent, or the job decided.
LEMMA CompleteRefines ==
    ASSUME IInv, NEW j \in Jobs, pc[j] # "none",
           NEW r \in Results, CompleteAttempt(j, held[j], r),
           r = "succeeded" => CurrentAttempt(j) = "running"
    PROVE  Contract!JobStep(j)
<1>1. TypeOK /\ JobInv(j)
  BY DEF IInv
<1>2. status'[j] = JobAfter(r) /\ CurrentAttempt(j)' = r /\ current' = current
  BY <1>1, CompleteLemma
<1>3. Verdict(j) = "open"
  BY BusyIsOpen DEF Verdict, OpenJobs, Absent
<1>4. Turn(j)' = "spent"
  BY <1>2 DEF Turn, Results, LiveAttempts
<1>5. CASE r \in {"failed_retryable", "lost"}
  <2>1. Verdict(j)' = "open"
    BY <1>2, <1>5 DEF Verdict, JobAfter, OpenJobs, Absent
  <2> QED
    BY <1>2, <1>3, <1>4, <2>1 DEF Contract!JobStep, Contract!Spend, Contract!StaysOpen
<1>6. CASE r \in {"succeeded", "failed_terminal", "cancelled"}
  <2>1. /\ Verdict(j)' \in {"completed", "failed", "cancelled"}
        /\ Verdict(j)' = "completed" => r = "succeeded"
    BY <1>2, <1>6 DEF Verdict, JobAfter, OpenJobs, Absent
  <2>2. r = "succeeded" => Turn(j) = "taken"
    BY DEF Turn, LiveAttempts
  <2> QED
    BY <1>2, <1>3, <1>4, <2>1, <2>2 DEF Contract!JobStep, Contract!Decide, Contract!Verdicts
<1> QED
  BY <1>5, <1>6 DEF Results

LEMMA CreateRefines ==
    ASSUME IInv, NEW j \in Jobs, CreateJob(j)
    PROVE  Contract!JobStep(j) /\ Alone(j)
<1>1. TypeOK /\ JobInv(j)
  BY DEF IInv
<1>2. /\ status[j] = Absent /\ status'[j] = "queued"
      /\ current'[j] = 1 /\ CurrentAttempt(j)' = "created" /\ Alone(j)
  BY <1>1, CreateLemma DEF CreateJob, Alone
<1>3. Turn(j)' = "fresh" /\ Verdict(j) = "none" /\ Verdict(j)' = "open"
  BY <1>2 DEF Turn, Verdict, LiveAttempts, OpenJobs, Absent
<1> QED
  BY <1>2, <1>3 DEF Contract!JobStep, Contract!Accept

LEMMA StepRefines ==
    ASSUME IInv, NEW j \in Jobs,
           TaskStep(j) \/ Observe(j) \/ Fault(j) \/ Submit(j) \/ Cancel(j)
    PROVE  Contract!JobStep(j) \/ Contract!Same(j)
<1>0. TypeOK /\ JobInv(j)
  BY DEF IInv
<1>a. pc[j] # "none" => held[j] = current[j] /\ current[j] \in AttemptNumbers
  BY <1>0, MaxAttemptsAssumption DEF JobInv, TypeOK, StoreTypeOK, AttemptNumbers
<1>b. ASSUME NEW r \in Results \ {"succeeded"}, pc[j] # "none", CompleteAttempt(j, held[j], r)
      PROVE  Contract!JobStep(j)
  BY <1>b, CompleteRefines DEF Results
<1>c. ASSUME NEW r \in Outcomes, Settling(j, r) PROVE pc[j] # "none"
  BY <1>c DEF Settling
<1>1. CASE HandlerReturns(j) \/ Observe(j) \/ Fault(j) \/ SettleRefused(j) \/ ConsumeOutbox(j)
  <2>1. Kept(j)
    BY <1>1 DEF HandlerReturns, Observe, ObserveShutdown, ObserveCancel, HandlerEnds, Fault,
       FaultIsClassified, FaultEscapes, FaultInHeartbeat, SettleRefused, ConsumeOutbox,
       MarkOutboxConsumedLocal, store, Kept
  <2> QED
    BY <2>1, KeptIsSame
<1>2. CASE DropCancelled(j) \/ RejectUnhandled(j) \/ SettleCancelled(j) \/ SettleShutdown(j)
           \/ SettleTerminal(j) \/ SettleRetryable(j) \/ KillTask(j)
  <2>1. PICK r \in Results \ {"succeeded"} : pc[j] # "none" /\ CompleteAttempt(j, held[j], r)
    BY <1>2, <1>c DEF DropCancelled, RejectUnhandled, SettleCancelled, SettleShutdown, SettleTerminal,
       SettleRetryable, KillTask, HasTurn, Outcomes, Results
  <2> QED
    BY <2>1, <1>b
<1>3. CASE SettleOk(j)
  <2>1. pc[j] = "returning"
    BY <1>0, <1>3 DEF SettleOk, Settling, JobInv, ProcessFits
  <2>2. CurrentAttempt(j) = "running"
    BY <1>0, <2>1 DEF JobInv, TaskFits
  <2> QED
    BY <1>3, <2>1, <2>2, CompleteRefines DEF SettleOk, Results
<1>4. CASE Acquire(j) \/ DispatchJob(j) \/ RunJob(j) \/ Cancel(j)
  <2>1. /\ status[j] \in OpenJobs /\ status'[j] \in OpenJobs
        /\ current'[j] = current[j] /\ attempt'[j] = attempt[j]
    BY <1>0, <1>4 DEF Acquire, DispatchJob, RunJob, Cancel, TransitionJob, RequestCancel,
       JobTransitions, TypeOK, StoreTypeOK, OpenJobs
  <2>2. CurrentAttempt(j)' = CurrentAttempt(j)
    BY <2>1 DEF CurrentAttempt
  <2>3. Verdict(j) = "open" /\ Verdict(j)' = "open"
    BY <2>1 DEF Verdict, OpenJobs, Absent
  <2> QED
    BY <2>1, <2>2, <2>3 DEF Contract!Same, Turn
<1>5. CASE AnnounceAttempt(j) \/ ClaimAttempt(j) \/ BeginAttempt(j)
  <2>1. PICK a \in {"dispatched", "claimed", "running"} :
            /\ TransitionAttempt(j, held[j], a) /\ pc[j] # "none"
            /\ a = "dispatched" => pc[j] = "announce"
            /\ a # "dispatched" => pc[j] \in {"claim", "begin"}
    BY <1>5 DEF AnnounceAttempt, ClaimAttempt, BeginAttempt
  <2>2. Verdict(j) = "open" /\ Verdict(j)' = "open"
    BY <2>1, BusyIsOpen DEF TransitionAttempt, Verdict, OpenJobs, Absent
  <2>3. current' = current /\ CurrentAttempt(j)' = a
    <3>1. /\ current' = current /\ current[j] # 0
          /\ attempt'[j][current[j]] = a
      <4>1. current[j] # 0 /\ current[j] \in AttemptNumbers
        BY <1>a, <2>1, MaxAttemptsAssumption DEF AttemptNumbers
      <4> QED
        BY <1>0, <1>a, <2>1, <4>1 DEF TransitionAttempt, TypeOK, StoreTypeOK
    <3> QED
      BY <3>1 DEF CurrentAttempt
  <2>4. Turn(j)' = "taken"
    BY <2>3 DEF Turn, LiveAttempts
  <2>5. CASE a = "dispatched"
    <3>1. Turn(j) = "fresh"
      BY <1>0, <2>1, <2>5 DEF JobInv, TaskFits, Turn, LiveAttempts
    <3> QED
      BY <2>2, <2>3, <2>4, <3>1 DEF Contract!JobStep, Contract!Take, Contract!StaysOpen
  <2>6. CASE a # "dispatched"
    <3>1. Turn(j) = "taken"
      BY <1>0, <2>1, <2>6 DEF JobInv, TaskFits, Turn, LiveAttempts
    <3>2. Verdict(j)' = Verdict(j) /\ Turn(j)' = Turn(j) /\ current'[j] = current[j]
      BY <2>2, <2>3, <2>4, <3>1
    <3> QED
      BY <3>2 DEF Contract!Same
  <2> QED
    BY <2>5, <2>6
<1>6. CASE RetryNow(j)
  <2>1. /\ status[j] = "retry_wait" /\ status'[j] = "queued"
        /\ current[j] < MaxAttempts /\ current'[j] = current[j] + 1
        /\ attempt'[j] = [attempt[j] EXCEPT ![current[j] + 1] = "created"]
    BY <1>0, <1>6 DEF RetryNow, CreateRetryAttempt, TypeOK, StoreTypeOK
  <2>2. current[j] \in AttemptNumbers /\ current[j] + 1 \in AttemptNumbers
    BY <1>0, <1>6, <2>1, MaxAttemptsAssumption DEF RetryNow, JobInv, TypeOK, StoreTypeOK, AttemptNumbers
  <2>3. CurrentAttempt(j)' = "created"
    BY <1>0, <2>1, <2>2, MaxAttemptsAssumption DEF CurrentAttempt, TypeOK, StoreTypeOK, AttemptNumbers
  <2>4. Turn(j)' = "fresh" /\ Verdict(j) = "open" /\ Verdict(j)' = "open"
    BY <2>1, <2>3 DEF Turn, Verdict, LiveAttempts, OpenJobs, Absent
  <2> QED
    BY <2>1, <2>4 DEF Contract!JobStep, Contract!TryAgain, Contract!StaysOpen
<1>7. CASE GiveUp(j)
  <2>1. /\ status[j] = "retry_wait" /\ status'[j] = "dead" /\ current[j] >= MaxAttempts
        /\ current' = current /\ attempt' = attempt
        /\ CurrentAttempt(j) \in {"failed_retryable", "lost"}
    BY <1>0, <1>7 DEF GiveUp, ExhaustAttempts, TypeOK, StoreTypeOK, JobInv, AttemptFits, Absent
  <2>2. current[j] = MaxAttempts
    <3>1. current[j] \in 0 .. MaxAttempts
      BY <1>0 DEF TypeOK, StoreTypeOK
    <3> QED
      BY <2>1, <3>1, MaxAttemptsAssumption
  <2>3. CurrentAttempt(j)' = CurrentAttempt(j)
    BY <2>1 DEF CurrentAttempt
  <2>4. Turn(j)' = "spent" /\ Verdict(j) = "open" /\ Verdict(j)' = "dead"
    BY <2>1, <2>3 DEF Turn, Verdict, LiveAttempts, OpenJobs, Absent
  <2> QED
    BY <2>1, <2>2, <2>4 DEF Contract!JobStep, Contract!Decide, Contract!Verdicts
<1>8. CASE Submit(j)
  BY <1>0, <1>8, CreateRefines DEF Submit
<1> QED
  BY <1>1, <1>2, <1>3, <1>4, <1>5, <1>6, <1>7, <1>8 DEF TaskStep, Dispatch, Settle

\* Recovery tries again what has attempts left, and decides the rest.
LEMMA StartRefines ==
    ASSUME IInv, Start, NEW j \in Jobs
    PROVE  Contract!JobStep(j) \/ Contract!Same(j)
<1>0. TypeOK /\ JobInv(j) /\ current[j] \in 0 .. MaxAttempts
  BY DEF IInv, TypeOK, StoreTypeOK
<1>1. /\ status'[j] = RecoveredStatus(j)
      /\ current'[j] = IF Requeued(j) THEN current[j] + 1 ELSE current[j]
      /\ \A n \in AttemptNumbers : attempt'[j][n] = RecoveredAttempt(j, n)
  BY DEF Start, RecoverIncompleteJobs
<1>2. CASE ~Open(j)
  <2>1. Kept(j)
    BY <1>0, <1>2, FinalInStart DEF Kept
  <2> QED
    BY <2>1, KeptIsSame
<1>3. CASE Requeued(j)
  <2>1. status[j] \in OpenJobs /\ status'[j] = "queued" /\ current'[j] = current[j] + 1
        /\ current[j] < MaxAttempts /\ current[j] + 1 \in AttemptNumbers /\ current[j] + 1 # current[j]
    BY <1>0, <1>1, <1>3, MaxAttemptsAssumption DEF RecoveredStatus, Requeued, Open, OpenJobs,
       AttemptNumbers
  <2>2. attempt'[j][current[j] + 1] = "created"
    BY <1>1, <1>3, <2>1 DEF RecoveredAttempt
  <2>3. CurrentAttempt(j)' = "created"
    BY <1>0, <2>1, <2>2 DEF CurrentAttempt
  <2>4. Turn(j)' = "fresh" /\ Verdict(j) = "open" /\ Verdict(j)' = "open"
    BY <2>1, <2>3 DEF Turn, Verdict, LiveAttempts, OpenJobs, Absent
  <2> QED
    BY <2>1, <2>4 DEF Contract!JobStep, Contract!TryAgain, Contract!StaysOpen
<1>4. CASE Open(j) /\ ~Requeued(j)
  <2>1. /\ status'[j] \in {"cancelled", "dead"} /\ current'[j] = current[j]
        /\ status'[j] = "dead" => current[j] = MaxAttempts
    BY <1>0, <1>1, <1>4, MaxAttemptsAssumption DEF RecoveredStatus, Requeued
  <2>2. /\ current[j] \in AttemptNumbers
        /\ attempt[j][current[j]] \in LiveAttempts \cup {"failed_retryable", "lost"}
    BY <1>0, <1>4, MaxAttemptsAssumption DEF JobInv, AttemptFits, CurrentAttempt, Open, OpenJobs,
       LiveAttempts, Absent, AttemptNumbers
  <2>3. attempt'[j][current[j]] \in {"superseded", "lost", "failed_retryable"}
    <3>1. RecoveredAttempt(j, current[j]) = Abandoned(attempt[j][current[j]])
      BY <1>4 DEF RecoveredAttempt
    <3> QED
      BY <1>1, <2>2, <3>1 DEF Abandoned, LiveAttempts
  <2>4. CurrentAttempt(j)' \in {"superseded", "lost", "failed_retryable"}
    BY <2>1, <2>2, <2>3, MaxAttemptsAssumption DEF CurrentAttempt, AttemptNumbers
  <2>5. /\ Turn(j)' = "spent" /\ Verdict(j) = "open"
        /\ Verdict(j)' \in {"cancelled", "dead"} /\ Verdict(j)' = status'[j]
    BY <1>4, <2>1, <2>4 DEF Turn, Verdict, Open, LiveAttempts, OpenJobs, Absent
  <2> QED
    BY <2>1, <2>5 DEF Contract!JobStep, Contract!Decide, Contract!Verdicts
<1> QED
  BY <1>2, <1>3, <1>4

LEMMA NextRefines ==
    ASSUME IInv, [Next]_vars
    PROVE  [Contract!Next]_(Contract!contract)
<1> SUFFICES ASSUME NEW j \in Jobs PROVE Contract!JobStep(j) \/ Contract!Same(j)
  BY DEF Contract!Next
<1>1. CASE UNCHANGED store
  BY <1>1, KeptIfUnchanged, KeptIsSame
<1>2. ASSUME NEW k \in Jobs, Alone(k), Contract!JobStep(k) \/ Contract!Same(k)
      PROVE  Contract!JobStep(j) \/ Contract!Same(j)
  <2>1. j # k => Kept(j)
    BY <1>2 DEF Alone, Kept
  <2> QED
    BY <1>2, <2>1, KeptIsSame
<1>3. ASSUME NEW k \in Jobs, TaskStep(k) \/ Observe(k) \/ Fault(k) \/ Submit(k) \/ Cancel(k)
      PROVE  Contract!JobStep(j) \/ Contract!Same(j)
  <2>1. Alone(k)
    BY <1>3, ActionsAreLocal DEF IInv
  <2> QED
    BY <1>2, <1>3, <2>1, StepRefines
<1>4. ASSUME NEW k \in Jobs, NEW new \in Jobs, Retry(k, new)
      PROVE  Contract!JobStep(j) \/ Contract!Same(j)
  BY <1>2, <1>4, CreateRefines DEF Retry
<1>5. CASE Process
  BY <1>1, <1>5, StartRefines DEF Process, BeginShutdown, ShutdownStep, GraceOver, StopWaiting, Halt,
     Crash, store
<1>6. CASE UNCHANGED vars
  BY <1>1, <1>6 DEF vars
<1> QED
  BY <1>3, <1>4, <1>5, <1>6 DEF Next, ClientCall

\* The backend keeps the contract: a bounded number of tries, each handed to a worker at most
\* once, and one verdict, for any interleaving of the calls in store.py and jobs.py.
THEOREM KeepsContractTheorem == Spec => KeepsContract
<1>1. Init => Contract!Init
  <2> SUFFICES ASSUME Init PROVE Contract!Init
    OBVIOUS
  <2>1. current = [j \in Jobs |-> 0]
    BY DEF Init, StoreInit
  <2>2. ASSUME NEW j \in Jobs PROVE Turn(j) = "spent" /\ Verdict(j) = "none"
    <3>1. status[j] = Absent /\ CurrentAttempt(j) = Absent
      BY DEF Init, StoreInit, CurrentAttempt
    <3> QED
      BY <3>1 DEF Turn, Verdict, LiveAttempts, OpenJobs, Absent
  <2> QED
    BY <2>1, <2>2 DEF Contract!Init
<1> QED
  BY <1>1, NextRefines, Invariance, PTL DEF Spec, KeepsContract, Contract!Spec

LEMMA TerminalIsIdle ==
    ASSUME IInv, NEW j \in Jobs, status[j] \in TerminalJobs
    PROVE  pc[j] = "none" /\ ~Open(j)
BY BusyIsOpen DEF TerminalJobs, OpenJobs, Open

\* An action of a terminal job's own changes nothing in the store: only a task could, and
\* there is none.
LEMMA TerminalIsDone ==
    ASSUME IInv, NEW j \in Jobs, status[j] \in TerminalJobs,
           TaskStep(j) \/ Observe(j) \/ Fault(j) \/ Submit(j) \/ Cancel(j)
    PROVE  FALSE
<1>1. pc[j] = "none"
  BY TerminalIsIdle
<1>2. ~(Submit(j) \/ Cancel(j))
  BY DEF Submit, CreateJob, Cancel, RequestCancel, JobTransitions, TerminalJobs, Absent
<1>3. ~Settle(j)
  BY <1>1 DEF Settle, Settling, SettleOk, SettleCancelled, SettleShutdown, SettleTerminal,
     SettleRetryable, SettleRefused, RetryNow, GiveUp
<1>4. ~Dispatch(j)
  BY <1>1 DEF Dispatch, HasTurn, DropCancelled, Acquire, ConsumeOutbox, DispatchJob, AnnounceAttempt,
     ClaimAttempt, BeginAttempt, RunJob, RejectUnhandled
<1>5. ~(HandlerReturns(j) \/ Observe(j) \/ KillTask(j))
  BY <1>1 DEF HandlerReturns, Observe, ObserveShutdown, ObserveCancel, HandlerEnds, KillTask
<1>6. ~Fault(j)
  BY <1>1 DEF Fault, FaultIsClassified, FaultEscapes, FaultInHeartbeat, HasTurn, Settling, DispatchPC
<1> QED
  BY <1>2, <1>3, <1>4, <1>5, <1>6 DEF TaskStep

LEMMA TerminalStays ==
    ASSUME IInv, [Next]_vars, NEW j \in Jobs, status[j] \in TerminalJobs
    PROVE  Kept(j)
<1>1. CASE UNCHANGED store
  BY <1>1, KeptIfUnchanged
<1>2. ASSUME NEW k \in Jobs, TaskStep(k) \/ Observe(k) \/ Fault(k) \/ Submit(k) \/ Cancel(k)
      PROVE  Kept(j)
  <2>1. j # k
    BY <1>2, TerminalIsDone
  <2> QED
    BY <1>2, <2>1, ActionsAreLocal DEF IInv, Alone, Kept
<1>3. ASSUME NEW k \in Jobs, NEW new \in Jobs, Retry(k, new)
      PROVE  Kept(j)
  <2>1. CreateJob(new) /\ j # new
    BY <1>3 DEF Retry, CreateJob, TerminalJobs, Absent
  <2> QED
    BY <2>1, CreateRefines DEF Alone, Kept
<1>4. CASE Start
  BY <1>4, TerminalIsIdle, FinalInStart DEF IInv, Kept
<1>5. CASE BeginShutdown \/ ShutdownStep \/ Crash \/ UNCHANGED vars
  BY <1>1, <1>5 DEF BeginShutdown, ShutdownStep, GraceOver, StopWaiting, Halt, Crash, store, vars
<1> QED
  BY <1>2, <1>3, <1>4, <1>5 DEF Next, ClientCall, Process

\* A verdict is final: no late task, refused result, shutdown or recovery changes the status
\* or an attempt of a terminal job.
THEOREM VerdictIsFinalTheorem == Spec => VerdictIsFinal
<1>1. IInv /\ [Next]_vars =>
          [\A j \in Jobs : status[j] \in TerminalJobs =>
              /\ status'[j] = status[j]
              /\ current'[j] = current[j]
              /\ attempt'[j] = attempt[j]]_vars
  BY TerminalStays DEF Kept
<1> QED
  BY <1>1, Invariance, PTL DEF Spec, VerdictIsFinal

LEMMA CancellingNeverCompletes ==
    ASSUME IInv, NEW j \in Jobs, status[j] = "cancelling",
           TaskStep(j) \/ Observe(j) \/ Fault(j) \/ Submit(j) \/ Cancel(j)
    PROVE  status'[j] # "completed"
<1>0. TypeOK
  BY DEF IInv
<1>1. ASSUME NEW r \in Results \ {"succeeded"}, NEW n, CompleteAttempt(j, n, r)
      PROVE  status'[j] # "completed"
  BY <1>0, <1>1 DEF CompleteAttempt, JobAfter, Results, TypeOK, StoreTypeOK
<1>2. CASE DropCancelled(j) \/ RejectUnhandled(j) \/ SettleOk(j) \/ SettleCancelled(j)
           \/ SettleShutdown(j) \/ SettleTerminal(j) \/ SettleRetryable(j) \/ KillTask(j)
  <2>1. PICK r \in Results \ {"succeeded"} : CompleteAttempt(j, held[j], r)
    BY <1>2 DEF DropCancelled, RejectUnhandled, SettleOk, SettleCancelled, SettleShutdown,
       SettleTerminal, SettleRetryable, KillTask, Results
  <2> QED
    BY <1>1, <2>1
<1>3. CASE Dispatch(j) /\ ~DropCancelled(j) /\ ~RejectUnhandled(j)
  BY <1>0, <1>3 DEF Dispatch, Acquire, ConsumeOutbox, DispatchJob, AnnounceAttempt, ClaimAttempt,
     BeginAttempt, RunJob, TransitionJob, TransitionAttempt, MarkOutboxConsumedLocal, JobTransitions
<1>4. CASE SettleRefused(j) \/ RetryNow(j) \/ GiveUp(j)
  BY <1>0, <1>4 DEF SettleRefused, RetryNow, GiveUp, CreateRetryAttempt, ExhaustAttempts, TypeOK,
     StoreTypeOK, store
<1>5. CASE HandlerReturns(j) \/ Observe(j) \/ Fault(j)
  BY <1>5 DEF HandlerReturns, Observe, ObserveShutdown, ObserveCancel, HandlerEnds, Fault,
     FaultIsClassified, FaultEscapes, FaultInHeartbeat, store
<1>6. CASE Submit(j) \/ Cancel(j)
  BY <1>0, <1>6 DEF Submit, CreateJob, Cancel, RequestCancel, TypeOK, StoreTypeOK
<1> QED
  BY <1>2, <1>3, <1>4, <1>5, <1>6 DEF TaskStep, Dispatch, Settle

\* A cancellation accepted before the handler's result is recorded wins over it, because the
\* task reads the job again before complete_attempt and nothing runs between the two.
THEOREM CancelBeatsSuccessTheorem == Spec => CancelBeatsSuccess
<1>1. ASSUME IInv, [Next]_vars, NEW j \in Jobs, status[j] = "cancelling"
      PROVE  status'[j] # "completed"
  <2>1. CASE UNCHANGED status
    BY <1>1, <2>1
  <2>2. ASSUME NEW k \in Jobs, TaskStep(k) \/ Observe(k) \/ Fault(k) \/ Submit(k) \/ Cancel(k)
        PROVE  status'[j] # "completed"
    <3>1. CASE k = j
      BY <1>1, <2>2, <3>1, CancellingNeverCompletes
    <3>2. CASE k # j
      BY <1>1, <2>2, <3>2, ActionsAreLocal DEF IInv, Alone
    <3> QED
      BY <3>1, <3>2
  <2>3. ASSUME NEW k \in Jobs, NEW new \in Jobs, Retry(k, new)
        PROVE  status'[j] # "completed"
    <3>1. CreateJob(new) /\ j # new
      BY <1>1, <2>3 DEF Retry, CreateJob, Absent
    <3> QED
      BY <1>1, <3>1, CreateRefines DEF Alone
  <2>4. CASE Start
    BY <1>1, <2>4 DEF Start, RecoverIncompleteJobs, RecoveredStatus
  <2>5. CASE BeginShutdown \/ ShutdownStep \/ Crash \/ UNCHANGED vars
    BY <2>1, <2>5 DEF BeginShutdown, ShutdownStep, GraceOver, StopWaiting, Halt, Crash, store, vars
  <2> QED
    BY <1>1, <2>2, <2>3, <2>4, <2>5 DEF Next, ClientCall, Process
<1>2. IInv /\ [Next]_vars =>
          [\A j \in Jobs : status[j] = "cancelling" => status'[j] # "completed"]_vars
  BY <1>1
<1> QED
  BY <1>2, Invariance, PTL DEF Spec, CancelBeatsSuccess
=============================================================================
