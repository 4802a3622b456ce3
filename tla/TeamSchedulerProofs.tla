------------------------ MODULE TeamSchedulerProofs ------------------------
(***************************************************************************)
(* What TeamScheduler keeps for every set of jobs, workers and             *)
(* dispatchers and every bound: a handler starts once, verdicts are final, *)
(* a cancellation in the document wins, the two copies of a status agree,  *)
(* and what has been acknowledged is in nobody's hands.                    *)
(***************************************************************************)
EXTENDS TeamScheduler, FiniteSetTheorems, TLAPS

Finals == {"succeeded", "failed_terminal", "cancelled"}
Started == Finals \cup {"running"}

\* A row: its two statuses, its attempt, and whether its handler has been started.
JobFits(j) ==
    /\ document[j] = column[j] \/ (document[j] = "queued" /\ column[j] \in {"dispatched", "running"})
    /\ document[j] \in Verdicts => attempt[j] \in Finals
    /\ runs[j] = IF attempt[j] \in Started THEN 1 ELSE 0
    /\ column[j] = Absent => attempt[j] = Absent
    /\ document[j] # "dispatched"

Handles(w, j) == worker[w].job = j /\ worker[w].pc \in {"load", "begin", "execute"}

\* A worker in the middle of a job: the attempt says how far.
WorkerFits(w) ==
    /\ worker[w].pc # "idle" => worker[w].job \in Jobs
    /\ worker[w].pc \in {"load", "begin"} => attempt[worker[w].job] = "claimed"
    /\ worker[w].pc = "execute" => attempt[worker[w].job] = "running"

OneWorker == \A j \in Jobs : \A v, w \in Workers : Handles(v, j) /\ Handles(w, j) => v = w

JobsAndWorkers ==
    /\ \A j \in Jobs : JobFits(j)
    /\ \A w \in Workers : WorkerFits(w)
    /\ OneWorker

\* The claims a dispatcher still has work for.
Holds(d, claim) == claim \in dispatcher[d].todo \/ (claim # NoClaim /\ dispatcher[d].sent = claim)

\* A claim is held once, and none is newer than the row's.
Claims ==
    /\ \A d \in Dispatchers : \A claim \in Jobs \X (1 .. MaxClaims) :
          Holds(d, claim) => claim[2] <= claims[claim[1]]
    /\ \A d \in Dispatchers : dispatcher[d].sent \notin dispatcher[d].todo
    /\ \A d, e \in Dispatchers : \A claim \in Jobs \X (1 .. MaxClaims) :
          Holds(d, claim) /\ Holds(e, claim) => d = e

\* The inductive invariant: HandledAtMostOnce needs the attempts, PublishedOnce the claims.
IInv == DeliveriesAreSound /\ Claims /\ JobsAndWorkers

WorkerRecords == [pc : {"idle", "claim", "load", "begin", "execute"}, job : Jobs \cup {NoJob},
                  cancelled : BOOLEAN]
DispatcherRecords == [todo : SUBSET (Jobs \X (1 .. MaxClaims)),
                      sent : (Jobs \X (1 .. MaxClaims)) \cup {NoClaim}]

----------------------------------------------------------------------------
\* Steps that leave one of the two sides alone.
LEMMA ClaimsAlone ==
    ASSUME Claims, PublishedOnce, UNCHANGED <<event, claims, dispatcher>>
    PROVE  Claims' /\ PublishedOnce'
  BY DEF Claims, PublishedOnce, Holds

LEMMA JobsAlone ==
    ASSUME JobsAndWorkers, UNCHANGED <<column, document, attempt, worker, runs>>
    PROVE  JobsAndWorkers'
  BY DEF JobsAndWorkers, JobFits, WorkerFits, OneWorker, Handles

\* A worker gives its job up, or has not begun it.
LEMMA WorkerLetsGo ==
    ASSUME TypeOK, JobsAndWorkers, UNCHANGED <<column, document, attempt, runs>>,
           NEW w \in Workers, NEW new \in WorkerRecords, worker' = [worker EXCEPT ![w] = new],
           new.pc = "idle" \/ (new.pc = "claim" /\ new.job \in Jobs)
    PROVE  JobsAndWorkers'
  <1>1. worker \in [Workers -> WorkerRecords]
    BY DEF TypeOK, WorkerRecords
  <1>2. worker'[w] = new /\ \A v \in Workers : v # w => worker'[v] = worker[v]
    BY <1>1
  <1>3. \A j \in Jobs : JobFits(j)'
    BY DEF JobsAndWorkers, JobFits
  <1>4. ASSUME NEW v \in Workers PROVE WorkerFits(v)'
    BY <1>2 DEF JobsAndWorkers, WorkerFits
  <1>5. OneWorker'
    BY <1>2 DEF JobsAndWorkers, OneWorker, Handles
  <1> QED
    BY <1>3, <1>4, <1>5 DEF JobsAndWorkers

\* A worker goes on with a job that is its own, or that nobody has.
LEMMA WorkerGoesOn ==
    ASSUME TypeOK, JobsAndWorkers, NEW w \in Workers, NEW j \in Jobs,
           NEW new \in WorkerRecords, worker' = [worker EXCEPT ![w] = new],
           Handles(w, j) \/ attempt[j] \notin {"claimed", "running"},
           \A i \in Jobs : i # j =>
               /\ column'[i] = column[i] /\ document'[i] = document[i]
               /\ attempt'[i] = attempt[i] /\ runs'[i] = runs[i],
           JobFits(j)',
           \/ new.pc = "idle"
           \/ new.job = j /\ new.pc \in {"load", "begin"} /\ attempt'[j] = "claimed"
           \/ new.job = j /\ new.pc = "execute" /\ attempt'[j] = "running"
    PROVE  JobsAndWorkers'
  <1>1. worker \in [Workers -> WorkerRecords]
    BY DEF TypeOK, WorkerRecords
  <1>2. worker'[w] = new /\ \A v \in Workers : v # w => worker'[v] = worker[v]
    BY <1>1
  <1>3. \A i \in Jobs : JobFits(i)'
    BY DEF JobsAndWorkers, JobFits
  <1>4. ASSUME NEW v \in Workers, v # w PROVE ~Handles(v, j)
    BY <1>4 DEF JobsAndWorkers, OneWorker, Handles, WorkerFits
  <1>5. ASSUME NEW v \in Workers PROVE WorkerFits(v)'
    <2>1. CASE v = w
      BY <1>2, <2>1 DEF WorkerFits
    <2>2. CASE v # w
      <3>1. worker'[v] = worker[v] /\ WorkerFits(v) /\ ~Handles(v, j)
        BY <1>2, <1>4, <2>2 DEF JobsAndWorkers
      <3> QED
        BY <3>1 DEF WorkerFits, Handles
    <2> QED
      BY <2>1, <2>2
  <1>6. OneWorker'
    <2> SUFFICES ASSUME NEW i \in Jobs, NEW u \in Workers, NEW v \in Workers,
                        Handles(u, i)', Handles(v, i)'
                 PROVE  u = v
      BY DEF OneWorker
    <2>1. CASE u # w /\ v # w
      BY <1>2, <2>1 DEF JobsAndWorkers, OneWorker, Handles
    <2>2. CASE u = w /\ v # w
      BY <1>2, <1>4, <2>2 DEF Handles
    <2>3. CASE u # w /\ v = w
      BY <1>2, <1>4, <2>3 DEF Handles
    <2> QED
      BY <2>1, <2>2, <2>3
  <1> QED
    BY <1>3, <1>5, <1>6 DEF JobsAndWorkers

\* A client or a dispatcher writes a row whose attempt is not in a worker's hands, or leaves the
\* attempt as it is.
LEMMA RowMoves ==
    ASSUME JobsAndWorkers, NEW j \in Jobs, UNCHANGED <<worker, runs>>,
           \A i \in Jobs : i # j =>
               column'[i] = column[i] /\ document'[i] = document[i] /\ attempt'[i] = attempt[i],
           attempt'[j] = attempt[j] \/ attempt[j] \notin {"claimed", "running"},
           JobFits(j)'
    PROVE  JobsAndWorkers'
  <1>1. \A i \in Jobs : JobFits(i)'
    BY DEF JobsAndWorkers, JobFits
  <1>2. ASSUME NEW w \in Workers PROVE WorkerFits(w)'
    BY DEF JobsAndWorkers, WorkerFits
  <1>3. OneWorker'
    BY DEF JobsAndWorkers, OneWorker, Handles
  <1> QED
    BY <1>1, <1>2, <1>3 DEF JobsAndWorkers

----------------------------------------------------------------------------
\* Clients.
LEMMA CreateJobKeeps ==
    ASSUME IInv, NEW j \in Jobs, CreateJob(j)
    PROVE  IInv'
  <1> USE DEF IInv, DeliveriesAreSound
  <1>1. TypeOK'
    BY DEF CreateJob, TypeOK, Statuses, Attempts
  <1>2. JobFits(j)'
    BY DEF CreateJob, TypeOK, JobsAndWorkers, JobFits, Started, Finals, Absent, Verdicts
  <1>3. attempt[j] \notin {"claimed", "running"}
    BY DEF CreateJob, JobsAndWorkers, JobFits, Absent
  <1>4. JobsAndWorkers'
    BY <1>2, <1>3, RowMoves DEF CreateJob, TypeOK
  <1>5. Claims' /\ PublishedOnce'
    BY DEF CreateJob, TypeOK, Claims, PublishedOnce, Holds
  <1> QED
    BY <1>1, <1>4, <1>5

LEMMA RequestCancelKeeps ==
    ASSUME IInv, NEW j \in Jobs, RequestCancel(j)
    PROVE  IInv'
  <1> USE DEF IInv, DeliveriesAreSound
  <1>1. TypeOK'
    BY DEF RequestCancel, TypeOK, Statuses
  <1>2. JobFits(j)'
    BY DEF RequestCancel, TypeOK, JobsAndWorkers, JobFits, Verdicts, Absent
  <1>3. JobsAndWorkers'
    BY <1>2, RowMoves DEF RequestCancel, TypeOK
  <1>4. Claims' /\ PublishedOnce'
    BY ClaimsAlone DEF RequestCancel
  <1> QED
    BY <1>1, <1>3, <1>4

----------------------------------------------------------------------------
\* Dispatchers.

LEMMA NextClaim ==
    ASSUME NEW n \in 0 .. MaxClaims, n < MaxClaims
    PROVE  n + 1 \in 0 .. MaxClaims /\ n + 1 \in 1 .. MaxClaims
  BY TeamAssumption

\* The claims made now are newer than any that is held.
LEMMA ClaimBatchKeeps ==
    ASSUME IInv, NEW d \in Dispatchers, ClaimBatch(d)
    PROVE  IInv'
  <1> USE DEF IInv, DeliveriesAreSound
  <1>1. PICK batch \in SUBSET {j \in Jobs : Claimable(j)} :
          /\ event' = [j \in Jobs |-> IF j \in batch THEN "publishing" ELSE event[j]]
          /\ claims' = [j \in Jobs |-> IF j \in batch THEN claims[j] + 1 ELSE claims[j]]
          /\ dispatcher' = [dispatcher EXCEPT ![d].todo = {<<j, claims[j] + 1>> : j \in batch}]
    BY DEF ClaimBatch
  <1> DEFINE made == {<<j, claims[j] + 1>> : j \in batch}
  <1>2. batch \subseteq Jobs /\ \A j \in batch : claims[j] < MaxClaims /\ event[j] # "published"
    BY DEF Claimable
  <1>3. claims \in [Jobs -> 0 .. MaxClaims] /\ dispatcher \in [Dispatchers -> DispatcherRecords]
    BY DEF TypeOK, DispatcherRecords
  <1>4. made \in SUBSET (Jobs \X (1 .. MaxClaims))
    <2>1. ASSUME NEW j \in batch PROVE <<j, claims[j] + 1>> \in Jobs \X (1 .. MaxClaims)
      <3>1. j \in Jobs /\ claims[j] \in 0 .. MaxClaims /\ claims[j] < MaxClaims
        BY <1>2, <1>3
      <3>2. claims[j] + 1 \in 1 .. MaxClaims
        BY <3>1, NextClaim
      <3> QED
        BY <3>1, <3>2
    <2> QED
      BY <2>1
  <1>5. dispatcher[d].sent = NoClaim /\ dispatcher[d] \in DispatcherRecords
    <2>1. dispatcher[d] = IdleDispatcher
      BY DEF ClaimBatch
    <2>2. IdleDispatcher.sent = NoClaim
      BY DEF IdleDispatcher
    <2> QED
      BY <1>3, <2>1, <2>2
  <1>6. dispatcher'[d].todo = made /\ dispatcher'[d].sent = NoClaim
    BY <1>1, <1>3, <1>5 DEF DispatcherRecords
  <1>7. dispatcher'[d] \in DispatcherRecords
    BY <1>1, <1>3, <1>4, <1>5 DEF DispatcherRecords
  <1>8. \A e \in Dispatchers : e # d => dispatcher'[e] = dispatcher[e]
    BY <1>1, <1>3
  <1>9. dispatcher' \in [Dispatchers -> DispatcherRecords]
    BY <1>1, <1>3, <1>7, <1>8
  <1>10. claims' \in [Jobs -> 0 .. MaxClaims]
    <2>1. ASSUME NEW j \in batch PROVE claims[j] + 1 \in 0 .. MaxClaims
      <3>1. j \in Jobs /\ claims[j] \in 0 .. MaxClaims /\ claims[j] < MaxClaims
        BY <1>2, <1>3
      <3> QED
        BY <3>1, NextClaim
    <2> QED
      BY <1>1, <1>3, <2>1
  <1>11. \A j \in Jobs : claims[j] <= claims'[j]
    BY <1>1, <1>3
  <1>12. \A claim \in made : claim[2] = claims'[claim[1]] /\ claim[2] = claims[claim[1]] + 1
    <2>1. ASSUME NEW claim \in made
          PROVE  claim[2] = claims'[claim[1]] /\ claim[2] = claims[claim[1]] + 1
      <3>1. PICK j \in batch : claim = <<j, claims[j] + 1>>
        OBVIOUS
      <3>2. claim[1] = j /\ claim[2] = claims[j] + 1
        BY <3>1
      <3> QED
        BY <1>1, <1>2, <3>2
    <2> QED
      BY <2>1
  <1>13. NoClaim \notin made
    BY <1>2, TeamAssumption DEF NoClaim, NoJob
  <1> HIDE DEF made
  <1>14. TypeOK'
    BY <1>1, <1>9, <1>10 DEF ClaimBatch, TypeOK, DispatcherRecords
  <1>15. JobsAndWorkers'
    BY JobsAlone DEF ClaimBatch
  <1>16. \A claim : Holds(d, claim)' <=> claim \in made
    BY <1>6, <1>13 DEF Holds
  <1>17. \A e \in Dispatchers : \A claim : e # d => (Holds(e, claim)' <=> Holds(e, claim))
    BY <1>8 DEF Holds
  <1>18. \A e \in Dispatchers : \A claim \in Jobs \X (1 .. MaxClaims) :
            Holds(e, claim) => claim \notin made
    BY <1>3, <1>12 DEF Claims
  <1>19. Claims'
    <2>1. \A e \in Dispatchers : \A claim \in Jobs \X (1 .. MaxClaims) :
              Holds(e, claim)' => claim[2] <= claims'[claim[1]]
      BY <1>3, <1>10, <1>11, <1>12, <1>16, <1>17 DEF Claims
    <2>2. \A e \in Dispatchers : dispatcher'[e].sent \notin dispatcher'[e].todo
      BY <1>6, <1>8, <1>13 DEF Claims
    <2>3. \A e, f \in Dispatchers : \A claim \in Jobs \X (1 .. MaxClaims) :
              Holds(e, claim)' /\ Holds(f, claim)' => e = f
      BY <1>16, <1>17, <1>18 DEF Claims
    <2> QED
      BY <2>1, <2>2, <2>3 DEF Claims
  <1>20. PublishedOnce'
    <2> SUFFICES ASSUME NEW j \in Jobs, event'[j] = "published", NEW e \in Dispatchers
                 PROVE  /\ <<j, claims'[j]>> \notin dispatcher'[e].todo
                        /\ dispatcher'[e].sent # <<j, claims'[j]>>
      BY DEF PublishedOnce
    <2>1. j \notin batch /\ event[j] = "published" /\ claims'[j] = claims[j]
      BY <1>1, <1>2
    <2>2. CASE e # d
      BY <1>8, <2>1, <2>2 DEF PublishedOnce
    <2>3. CASE e = d
      BY <1>3, <1>5, <1>6, <1>12, <2>1, <2>3 DEF PublishedOnce
    <2> QED
      BY <2>2, <2>3
  <1> QED
    BY <1>14, <1>15, <1>19, <1>20

\* A dispatcher that holds no more than before keeps the claims apart.
LEMMA DispatcherMoves ==
    ASSUME Claims, PublishedOnce, NEW d \in Dispatchers, UNCHANGED claims,
           dispatcher \in [Dispatchers -> DispatcherRecords],
           NEW new \in DispatcherRecords, dispatcher' = [dispatcher EXCEPT ![d] = new],
           \A claim : Holds(d, claim)' => Holds(d, claim),
           new.sent \notin new.todo,
           \A j \in Jobs : event'[j] = "published" =>
               event[j] = "published" \/ \A e \in Dispatchers : ~Holds(e, <<j, claims[j]>>)'
    PROVE  Claims' /\ PublishedOnce'
  <1>1. dispatcher'[d] = new /\ \A e \in Dispatchers : e # d => dispatcher'[e] = dispatcher[e]
    OBVIOUS
  <1>2. \A e \in Dispatchers : \A claim : Holds(e, claim)' => Holds(e, claim)
    BY <1>1 DEF Holds
  <1>3. Claims'
    BY <1>1, <1>2 DEF Claims
  <1>4. ASSUME NEW j \in Jobs, event'[j] = "published", NEW e \in Dispatchers
        PROVE  ~Holds(e, <<j, claims[j]>>)' /\ <<j, claims[j]>> # NoClaim
    <2>1. <<j, claims[j]>> # NoClaim
      BY TeamAssumption DEF NoClaim, NoJob
    <2> QED
      BY <1>2, <1>4, <2>1 DEF PublishedOnce, Holds
  <1>5. PublishedOnce'
    BY <1>4 DEF PublishedOnce, Holds
  <1> QED
    BY <1>3, <1>5

LEMMA PublishKeeps ==
    ASSUME IInv, NEW d \in Dispatchers, Publish(d)
    PROVE  IInv'
  <1> USE DEF IInv, DeliveriesAreSound
  <1>1. PICK claim \in dispatcher[d].todo :
          /\ queue' = [queue EXCEPT ![claim[1]] = @ + 1]
          /\ dispatcher' = [dispatcher EXCEPT ![d] = [todo |-> @.todo \ {claim}, sent |-> claim]]
    BY DEF Publish
  <1> DEFINE new == [todo |-> dispatcher[d].todo \ {claim}, sent |-> claim]
  <1>2. dispatcher \in [Dispatchers -> DispatcherRecords] /\ queue \in [Jobs -> Nat]
    BY DEF TypeOK, DispatcherRecords
  <1>3. dispatcher[d] \in DispatcherRecords /\ claim \in Jobs \X (1 .. MaxClaims)
    BY <1>2 DEF DispatcherRecords
  <1>4. new \in DispatcherRecords
    BY <1>3 DEF DispatcherRecords
  <1>5. dispatcher' = [dispatcher EXCEPT ![d] = new]
    BY <1>1
  <1>6. new.sent = claim /\ new.todo = dispatcher[d].todo \ {claim}
    OBVIOUS
  <1>7. claim[1] \in Jobs
    BY <1>3
  <1> HIDE DEF new
  <1>8. dispatcher'[d] = new
    BY <1>2, <1>5
  <1>9. \A c : Holds(d, c)' => Holds(d, c)
    BY <1>6, <1>8 DEF Holds
  <1>10. Claims' /\ PublishedOnce'
    BY <1>2, <1>4, <1>5, <1>6, <1>9, DispatcherMoves DEF Publish, rows
  <1>11. queue' \in [Jobs -> Nat]
    BY <1>1, <1>2, <1>7
  <1>12. dispatcher' \in [Dispatchers -> DispatcherRecords]
    BY <1>2, <1>4, <1>5
  <1>13. TypeOK'
    BY <1>11, <1>12 DEF TypeOK, Publish, rows, DispatcherRecords
  <1>14. JobsAndWorkers'
    BY JobsAlone DEF Publish, rows
  <1> QED
    BY <1>10, <1>13, <1>14

LEMMA DispatcherCrashKeeps ==
    ASSUME IInv, NEW d \in Dispatchers, DispatcherCrash(d)
    PROVE  IInv'
  <1> USE DEF IInv, DeliveriesAreSound
  <1>1. dispatcher \in [Dispatchers -> DispatcherRecords]
    BY DEF TypeOK, DispatcherRecords
  <1>2. IdleDispatcher \in DispatcherRecords /\ IdleDispatcher.sent = NoClaim /\ IdleDispatcher.todo = {}
    BY DEF IdleDispatcher, DispatcherRecords
  <1>3. dispatcher' = [dispatcher EXCEPT ![d] = IdleDispatcher] /\ faults' \in 0 .. MaxFaults
    BY TeamAssumption DEF DispatcherCrash, Fault, TypeOK
  <1> HIDE DEF IdleDispatcher
  <1>4. dispatcher'[d] = IdleDispatcher
    BY <1>1, <1>3
  <1>5. \A c : ~Holds(d, c)'
    BY <1>2, <1>4 DEF Holds
  <1>6. Claims' /\ PublishedOnce'
    BY <1>1, <1>2, <1>3, <1>5, DispatcherMoves DEF DispatcherCrash, rows
  <1>7. dispatcher' \in [Dispatchers -> DispatcherRecords]
    BY <1>1, <1>2, <1>3
  <1>8. TypeOK'
    BY <1>3, <1>7 DEF TypeOK, DispatcherCrash, rows, DispatcherRecords
  <1>9. JobsAndWorkers'
    BY JobsAlone DEF DispatcherCrash, rows
  <1> QED
    BY <1>6, <1>8, <1>9

\* The event is published when its claim leaves the only hands that held it.
LEMMA AcknowledgeKeeps ==
    ASSUME IInv, NEW d \in Dispatchers, Acknowledge(d)
    PROVE  IInv'
  <1> USE DEF IInv, DeliveriesAreSound
  <1> DEFINE new == [dispatcher[d] EXCEPT !.sent = NoClaim]
  <1>1. dispatcher \in [Dispatchers -> DispatcherRecords]
    BY DEF TypeOK, DispatcherRecords
  <1>2. dispatcher[d].sent \in Jobs \X (1 .. MaxClaims)
    BY <1>1 DEF Acknowledge, DispatcherRecords
  <1>3. PICK j \in Jobs, n \in 1 .. MaxClaims : dispatcher[d].sent = <<j, n>>
    BY <1>2
  <1>4. /\ dispatcher' = [dispatcher EXCEPT ![d] = new]
        /\ UNCHANGED <<document, cancel, claims, queue, worker, alive, runs, faults>>
    BY DEF Acknowledge
  <1>5. dispatcher[d] \in DispatcherRecords /\ NoClaim \notin dispatcher[d].todo /\ <<j, n>> # NoClaim
    BY <1>1, TeamAssumption DEF DispatcherRecords, NoClaim, NoJob
  <1>6. new \in DispatcherRecords /\ new.sent = NoClaim /\ new.todo = dispatcher[d].todo
    BY <1>5 DEF DispatcherRecords
  <1>7. Holds(d, <<j, n>>) /\ <<j, n>> \notin dispatcher[d].todo
    BY <1>3, <1>5 DEF Holds, Claims
  <1> DEFINE acknowledged ==
          /\ claims[j] = n
          /\ event' = [event EXCEPT ![j] = "published"]
          /\ column' = [column EXCEPT ![j] = IF @ = "queued" THEN "dispatched" ELSE @]
          /\ attempt' = [attempt EXCEPT ![j] = IF @ = "created" THEN "dispatched" ELSE @]
  <1>8. acknowledged \/ UNCHANGED <<event, column, attempt>>
    <2>1. <<j, n>>[1] = j /\ <<j, n>>[2] = n
      OBVIOUS
    <2> QED
      BY <1>3, <2>1 DEF Acknowledge, HoldsClaim
  <1> HIDE DEF new
  <1>9. dispatcher'[d] = new
    BY <1>1, <1>4
  <1>10. \A c : Holds(d, c)' => Holds(d, c) /\ c # <<j, n>>
    BY <1>6, <1>7, <1>9 DEF Holds
  <1>11. \A e \in Dispatchers : ~Holds(e, <<j, n>>)'
    <2>1. \A e \in Dispatchers : e # d => ~Holds(e, <<j, n>>)
      BY <1>7 DEF Claims
    <2>2. \A e \in Dispatchers : e # d => dispatcher'[e] = dispatcher[e]
      BY <1>1, <1>4
    <2> QED
      BY <1>10, <2>1, <2>2 DEF Holds
  <1>12. \A i \in Jobs : event'[i] = "published" =>
            event[i] = "published" \/ \A e \in Dispatchers : ~Holds(e, <<i, claims[i]>>)'
    <2> SUFFICES ASSUME NEW i \in Jobs, event'[i] = "published", event[i] # "published"
                 PROVE  \A e \in Dispatchers : ~Holds(e, <<i, claims[i]>>)'
      OBVIOUS
    <2>1. i = j /\ claims[i] = n
      BY <1>8 DEF TypeOK
    <2> QED
      BY <1>4, <1>11, <2>1 DEF Holds
  <1>13. Claims' /\ PublishedOnce'
    BY <1>1, <1>4, <1>5, <1>6, <1>10, <1>12, DispatcherMoves
  <1>14. dispatcher' \in [Dispatchers -> DispatcherRecords]
    BY <1>1, <1>4, <1>6
  <1>15. TypeOK'
    BY <1>4, <1>8, <1>14 DEF TypeOK, DispatcherRecords, Statuses, Attempts
  <1>16. JobFits(j)'
    BY <1>4, <1>8 DEF TypeOK, JobsAndWorkers, JobFits, Started, Finals, Absent, Verdicts
  <1>17. JobsAndWorkers'
    <2>1. attempt'[j] = attempt[j] \/ attempt[j] \notin {"claimed", "running"}
      BY <1>8 DEF TypeOK
    <2>2. \A i \in Jobs : i # j =>
             column'[i] = column[i] /\ document'[i] = document[i] /\ attempt'[i] = attempt[i]
      BY <1>4, <1>8 DEF TypeOK
    <2> QED
      BY <1>4, <1>16, <2>1, <2>2, RowMoves
  <1> QED
    BY <1>13, <1>15, <1>17

----------------------------------------------------------------------------
\* Workers.
LEMMA IdleWorkerFits == IdleWorker \in WorkerRecords /\ IdleWorker.pc = "idle"
  BY DEF IdleWorker, WorkerRecords

LEMMA ReceiveKeeps ==
    ASSUME IInv, NEW w \in Workers, Receive(w)
    PROVE  IInv'
  <1> USE DEF IInv, DeliveriesAreSound
  <1>1. PICK j \in Jobs :
          /\ queue[j] > 0
          /\ queue' = [queue EXCEPT ![j] = @ - 1]
          /\ worker' = [worker EXCEPT ![w] = [pc |-> "claim", job |-> j, cancelled |-> FALSE]]
    BY DEF Receive
  <1> DEFINE new == [pc |-> "claim", job |-> j, cancelled |-> FALSE]
  <1>2. new \in WorkerRecords /\ new.pc = "claim" /\ new.job = j
    BY DEF WorkerRecords
  <1>3. worker' = [worker EXCEPT ![w] = new]
    BY <1>1
  <1> HIDE DEF new
  <1>4. worker' \in [Workers -> WorkerRecords]
    BY <1>2, <1>3 DEF TypeOK, WorkerRecords
  <1>5. queue' \in [Jobs -> Nat]
    BY <1>1 DEF TypeOK
  <1>6. TypeOK'
    BY <1>4, <1>5 DEF TypeOK, Receive, rows, WorkerRecords
  <1>7. JobsAndWorkers'
    BY <1>2, <1>3, WorkerLetsGo DEF Receive, rows
  <1>8. Claims' /\ PublishedOnce'
    BY ClaimsAlone DEF Receive, rows
  <1> QED
    BY <1>6, <1>7, <1>8

\* What a busy worker has in hand.
LEMMA InHand ==
    ASSUME TypeOK, JobsAndWorkers, NEW w \in Workers, worker[w].pc # "idle"
    PROVE  /\ worker \in [Workers -> WorkerRecords]
           /\ worker[w] \in WorkerRecords
           /\ worker[w].job \in Jobs
  BY DEF TypeOK, JobsAndWorkers, WorkerFits, WorkerRecords

LEMMA ClaimJobKeeps ==
    ASSUME IInv, NEW w \in Workers, ClaimJob(w)
    PROVE  IInv'
  <1> USE DEF IInv, DeliveriesAreSound
  <1>1. worker[w].pc = "claim" /\ worker[w].pc # "idle"
    BY DEF ClaimJob
  <1>2. Claims' /\ PublishedOnce'
    BY ClaimsAlone DEF ClaimJob
  <1>3. PICK j \in Jobs : worker[w].job = j
    BY <1>1, InHand
  <1>4. worker \in [Workers -> WorkerRecords] /\ worker[w] \in WorkerRecords
    BY <1>1, InHand
  <1>5. CASE Executable(w, j)
    <2> DEFINE new == [worker[w] EXCEPT !.pc = "load"]
    <2>1. new \in WorkerRecords /\ new.pc = "load" /\ new.job = j
      BY <1>3, <1>4 DEF WorkerRecords
    <2>2. /\ column' = [column EXCEPT ![j] = "running"]
          /\ attempt' = [attempt EXCEPT ![j] = "claimed"]
          /\ worker' = [worker EXCEPT ![w] = new]
          /\ UNCHANGED <<document, cancel, event, claims, queue, dispatcher, alive, runs, faults>>
      BY <1>3, <1>5 DEF ClaimJob, Move
    <2>3. column[j] = "dispatched" /\ attempt[j] = "dispatched"
      BY <1>5 DEF Executable
    <2> HIDE DEF new
    <2>4. worker' \in [Workers -> WorkerRecords]
      BY <1>4, <2>1, <2>2
    <2>5. TypeOK'
      BY <2>2, <2>4 DEF TypeOK, WorkerRecords, Statuses, Attempts
    <2>6. JobFits(j)'
      BY <2>2, <2>3 DEF TypeOK, JobsAndWorkers, JobFits, Started, Finals, Absent, Verdicts
    <2>7. attempt'[j] = "claimed"
      BY <2>2 DEF TypeOK
    <2>8. \A i \in Jobs : i # j =>
             /\ column'[i] = column[i] /\ document'[i] = document[i]
             /\ attempt'[i] = attempt[i] /\ runs'[i] = runs[i]
      BY <2>2 DEF TypeOK
    <2>9. JobsAndWorkers'
      BY <2>1, <2>2, <2>3, <2>6, <2>7, <2>8, WorkerGoesOn
    <2> QED
      BY <1>2, <2>5, <2>9
  <1>6. CASE ~Executable(w, j)
    <2>1. /\ worker' = [worker EXCEPT ![w] = IdleWorker]
          /\ UNCHANGED <<column, attempt, document, cancel, event, claims, queue, dispatcher, alive,
                         runs, faults>>
      BY <1>3, <1>6 DEF ClaimJob, Done
    <2>2. worker' \in [Workers -> WorkerRecords]
      BY <1>4, <2>1, IdleWorkerFits
    <2>3. TypeOK'
      BY <2>1, <2>2 DEF TypeOK, WorkerRecords
    <2>4. JobsAndWorkers'
      BY <2>1, IdleWorkerFits, WorkerLetsGo
    <2> QED
      BY <1>2, <2>3, <2>4
  <1> QED
    BY <1>5, <1>6

LEMMA LoadKeeps ==
    ASSUME IInv, NEW w \in Workers, Load(w)
    PROVE  IInv'
  <1> USE DEF IInv, DeliveriesAreSound
  <1>1. worker[w].pc = "load" /\ worker[w].pc # "idle" /\ UNCHANGED <<rows, queue, dispatcher, alive, runs, faults>>
    BY DEF Load
  <1>2. Claims' /\ PublishedOnce'
    BY <1>1, ClaimsAlone DEF rows
  <1>3. PICK j \in Jobs : worker[w].job = j
    BY <1>1, InHand
  <1>4. worker \in [Workers -> WorkerRecords] /\ worker[w] \in WorkerRecords
    BY <1>1, InHand
  <1> DEFINE new == [worker[w] EXCEPT !.pc = "begin", !.cancelled = cancel[j]]
  <1>5. cancel[j] \in BOOLEAN
    BY DEF TypeOK
  <1>6. new \in WorkerRecords /\ new.pc = "begin" /\ new.job = j
    BY <1>3, <1>4, <1>5 DEF WorkerRecords
  <1>7. worker' = [worker EXCEPT ![w] = new]
    BY <1>3 DEF Load
  <1> HIDE DEF new
  <1>8. worker' \in [Workers -> WorkerRecords]
    BY <1>4, <1>6, <1>7
  <1>9. TypeOK'
    BY <1>1, <1>8 DEF TypeOK, WorkerRecords, rows
  <1>10. attempt'[j] = "claimed" /\ JobFits(j)' /\ Handles(w, j)
    BY <1>1, <1>3 DEF JobsAndWorkers, JobFits, WorkerFits, Handles, rows
  <1>11. JobsAndWorkers'
    BY <1>1, <1>6, <1>7, <1>10, WorkerGoesOn DEF rows
  <1> QED
    BY <1>2, <1>9, <1>11

LEMMA BeginKeeps ==
    ASSUME IInv, NEW w \in Workers, Begin(w)
    PROVE  IInv'
  <1> USE DEF IInv, DeliveriesAreSound
  <1>1. worker[w].pc = "begin" /\ worker[w].pc # "idle"
    BY DEF Begin
  <1>2. Claims' /\ PublishedOnce'
    BY ClaimsAlone DEF Begin
  <1>3. PICK j \in Jobs : worker[w].job = j
    BY <1>1, InHand
  <1>4. worker \in [Workers -> WorkerRecords] /\ worker[w] \in WorkerRecords
    BY <1>1, InHand
  <1> DEFINE new == [worker[w] EXCEPT !.pc = "execute"]
  <1>5. new \in WorkerRecords /\ new.pc = "execute" /\ new.job = j
    BY <1>3, <1>4 DEF WorkerRecords
  <1>6. /\ worker' = [worker EXCEPT ![w] = new]
        /\ attempt' = [attempt EXCEPT ![j] = "running"]
        /\ column' = [column EXCEPT ![j] = "running"]
        /\ document' = [document EXCEPT ![j] = "running"]
        /\ cancel' = [cancel EXCEPT ![j] = worker[w].cancelled]
        /\ runs' = [runs EXCEPT ![j] = @ + 1]
        /\ UNCHANGED <<event, claims, queue, dispatcher, alive, faults>>
    BY <1>3 DEF Begin, Move
  <1> HIDE DEF new
  <1>7. worker' \in [Workers -> WorkerRecords]
    BY <1>4, <1>5, <1>6
  <1>8. worker[w].cancelled \in BOOLEAN
    BY <1>4 DEF WorkerRecords
  <1>9. TypeOK'
    BY <1>6, <1>7, <1>8 DEF TypeOK, WorkerRecords, Statuses, Attempts
  <1>10. attempt[j] = "claimed" /\ Handles(w, j)
    BY <1>1, <1>3 DEF JobsAndWorkers, WorkerFits, Handles
  <1>11. attempt'[j] = "running" /\ column'[j] = "running" /\ document'[j] = "running"
    BY <1>6 DEF TypeOK
  <1>12. runs'[j] = 1
    BY <1>6, <1>10 DEF TypeOK, JobsAndWorkers, JobFits, Started, Finals
  <1>13. JobFits(j)'
    BY <1>11, <1>12 DEF JobFits, Started, Absent, Verdicts
  <1>14. \A i \in Jobs : i # j =>
            /\ column'[i] = column[i] /\ document'[i] = document[i]
            /\ attempt'[i] = attempt[i] /\ runs'[i] = runs[i]
    BY <1>6 DEF TypeOK
  <1>15. JobsAndWorkers'
    BY <1>5, <1>6, <1>10, <1>11, <1>13, <1>14, WorkerGoesOn
  <1> QED
    BY <1>2, <1>9, <1>15

\* The verdict and the end of the attempt, in one transaction.
LEMMA FinalizeKeeps ==
    ASSUME IInv, NEW w \in Workers, Finalize(w)
    PROVE  IInv'
  <1> USE DEF IInv, DeliveriesAreSound
  <1>1. worker[w].pc = "execute" /\ worker[w].pc # "idle"
    BY DEF Finalize
  <1>2. Claims' /\ PublishedOnce'
    BY ClaimsAlone DEF Finalize
  <1>3. PICK j \in Jobs : worker[w].job = j
    BY <1>1, InHand
  <1>4. worker \in [Workers -> WorkerRecords]
    BY <1>1, InHand
  <1>5. PICK outcome \in Finals, verdict \in Verdicts :
          /\ attempt' = [attempt EXCEPT ![j] = outcome]
          /\ column' = [column EXCEPT ![j] = verdict]
          /\ document' = [document EXCEPT ![j] = verdict]
    BY <1>3 DEF Finalize, Finals, Verdicts
  <1>6. /\ worker' = [worker EXCEPT ![w] = IdleWorker]
        /\ UNCHANGED <<cancel, event, claims, queue, dispatcher, alive, runs, faults>>
    BY DEF Finalize, Done
  <1>7. worker' \in [Workers -> WorkerRecords]
    BY <1>4, <1>6, IdleWorkerFits
  <1>8. TypeOK'
    BY <1>5, <1>6, <1>7 DEF TypeOK, WorkerRecords, Statuses, Attempts, Finals
  <1>9. attempt[j] = "running" /\ Handles(w, j)
    BY <1>1, <1>3 DEF JobsAndWorkers, WorkerFits, Handles
  <1>10. attempt'[j] \in Finals /\ column'[j] \in Verdicts /\ document'[j] = column'[j]
    BY <1>5 DEF TypeOK
  <1>11. runs'[j] = 1
    BY <1>6, <1>9 DEF JobsAndWorkers, JobFits, Started
  <1>12. JobFits(j)'
    BY <1>10, <1>11 DEF JobFits, Started, Absent, Verdicts
  <1>13. \A i \in Jobs : i # j =>
            /\ column'[i] = column[i] /\ document'[i] = document[i]
            /\ attempt'[i] = attempt[i] /\ runs'[i] = runs[i]
    BY <1>5, <1>6 DEF TypeOK
  <1>14. JobsAndWorkers'
    BY <1>6, <1>9, <1>12, <1>13, IdleWorkerFits, WorkerGoesOn
  <1> QED
    BY <1>2, <1>8, <1>14

\* A worker dies, its task raises, its message comes again, its heartbeat expires.
LEMMA WorkerFaultKeeps ==
    ASSUME IInv, NEW w \in Workers,
           WorkerCrash(w) \/ TaskRaises(w) \/ Redeliver(w) \/ HeartbeatExpires(w)
    PROVE  IInv'
  <1> USE DEF IInv, DeliveriesAreSound
  <1>1. UNCHANGED <<rows, dispatcher, runs>>
    BY DEF WorkerCrash, TaskRaises, Redeliver, HeartbeatExpires
  <1>2. Claims' /\ PublishedOnce'
    BY <1>1, ClaimsAlone DEF rows
  <1>3. worker' = [worker EXCEPT ![w] = IdleWorker] \/ worker' = worker
    BY DEF WorkerCrash, TaskRaises, Redeliver, HeartbeatExpires, Done
  <1>4. worker \in [Workers -> WorkerRecords]
    BY DEF TypeOK, WorkerRecords
  <1>5. worker' \in [Workers -> WorkerRecords]
    BY <1>3, <1>4, IdleWorkerFits
  <1>6. JobsAndWorkers'
    <2>1. CASE worker' = worker
      BY <1>1, <2>1, JobsAlone DEF rows
    <2>2. CASE worker' = [worker EXCEPT ![w] = IdleWorker]
      BY <1>1, <2>2, IdleWorkerFits, WorkerLetsGo DEF rows
    <2> QED
      BY <1>3, <2>1, <2>2
  <1>7. queue' \in [Jobs -> Nat]
    <2>1. queue \in [Jobs -> Nat]
      BY DEF TypeOK
    <2>2. PICK j : queue' = queue \/ queue' = [queue EXCEPT ![j] = @ + 1]
      BY DEF WorkerCrash, TaskRaises, Redeliver, HeartbeatExpires
    <2> QED
      BY <2>1, <2>2
  <1>8. alive' \subseteq Workers
    BY DEF TypeOK, WorkerCrash, TaskRaises, Redeliver, HeartbeatExpires
  <1>9. faults' \in 0 .. MaxFaults
    BY TeamAssumption DEF TypeOK, WorkerCrash, TaskRaises, Redeliver, HeartbeatExpires, Fault
  <1>10. TypeOK'
    BY <1>1, <1>5, <1>7, <1>8, <1>9 DEF TypeOK, WorkerRecords, rows
  <1> QED
    BY <1>2, <1>6, <1>10

----------------------------------------------------------------------------
\* Whatever is published, delivered, lost or raised, rows, workers and claims fit.
THEOREM Invariance == Spec => []IInv
  <1>1. Init => IInv
    <2> SUFFICES ASSUME Init PROVE IInv
      OBVIOUS
    <2>1. TypeOK
      BY TeamAssumption DEF Init, TypeOK, Statuses, Attempts, IdleDispatcher, IdleWorker
    <2>2. Claims /\ PublishedOnce
      BY DEF Init, Claims, PublishedOnce, Holds, IdleDispatcher, Absent
    <2>3. JobsAndWorkers
      BY DEF Init, JobsAndWorkers, JobFits, WorkerFits, OneWorker, Handles, IdleWorker, Absent,
         Verdicts, Started, Finals
    <2> QED
      BY <2>1, <2>2, <2>3 DEF IInv, DeliveriesAreSound
  <1>2. IInv /\ [Next]_vars => IInv'
    <2> SUFFICES ASSUME IInv, [Next]_vars PROVE IInv'
      OBVIOUS
    <2>1. ASSUME NEW j \in Jobs, CreateJob(j) \/ RequestCancel(j) PROVE IInv'
      BY <2>1, CreateJobKeeps, RequestCancelKeeps
    <2>2. ASSUME NEW d \in Dispatchers, DispatcherStep(d) \/ DispatcherCrash(d) PROVE IInv'
      BY <2>2, ClaimBatchKeeps, PublishKeeps, AcknowledgeKeeps, DispatcherCrashKeeps DEF DispatcherStep
    <2>3. ASSUME NEW w \in Workers, WorkerStep(w) PROVE IInv'
      BY <2>3, ReceiveKeeps, ClaimJobKeeps, LoadKeeps, BeginKeeps, FinalizeKeeps DEF WorkerStep
    <2>4. ASSUME NEW w \in Workers,
                 WorkerCrash(w) \/ TaskRaises(w) \/ Redeliver(w) \/ HeartbeatExpires(w)
          PROVE  IInv'
      BY <2>4, WorkerFaultKeeps
    <2>5. CASE UNCHANGED vars
      <3>1. TypeOK'
        BY <2>5 DEF IInv, DeliveriesAreSound, TypeOK, vars, rows
      <3>2. Claims' /\ PublishedOnce'
        BY <2>5, ClaimsAlone DEF IInv, DeliveriesAreSound, vars, rows
      <3>3. JobsAndWorkers'
        BY <2>5, JobsAlone DEF IInv, DeliveriesAreSound, vars, rows
      <3> QED
        BY <3>1, <3>2, <3>3 DEF IInv, DeliveriesAreSound
    <2> QED
      BY <2>1, <2>2, <2>3, <2>4, <2>5 DEF Next
  <1> QED
    BY <1>1, <1>2, PTL DEF Spec

\* However often a job is published or delivered, its handler starts once (claim_next_job).
THEOREM HandledAtMostOnceTheorem == Spec => []HandledAtMostOnce
  <1>1. IInv => HandledAtMostOnce
    <2> SUFFICES ASSUME IInv, NEW j \in Jobs
                 PROVE  /\ runs[j] <= 1
                        /\ Cardinality({w \in Workers : worker[w].job = j
                                          /\ worker[w].pc \in {"load", "begin", "execute"}}) <= 1
      BY DEF HandledAtMostOnce
    <2> DEFINE S == {w \in Workers : worker[w].job = j /\ worker[w].pc \in {"load", "begin", "execute"}}
    <2>1. runs[j] <= 1
      BY DEF IInv, JobsAndWorkers, JobFits
    <2>2. \A v, w \in S : v = w
      BY DEF IInv, JobsAndWorkers, OneWorker, Handles
    <2>3. CASE S = {}
      BY <2>1, <2>3, FS_EmptySet
    <2>4. CASE S # {}
      <3>1. PICK w : S = {w}
        BY <2>2, <2>4
      <3>2. Cardinality(S) = 1
        BY <3>1, FS_Singleton
      <3> QED
        BY <2>1, <3>2
    <2> QED
      BY <2>3, <2>4
  <1> QED
    BY <1>1, Invariance, PTL

\* The types, and no dispatcher still holds the claim of a published event.
THEOREM DeliveriesAreSoundTheorem == Spec => []DeliveriesAreSound
  <1>1. IInv => DeliveriesAreSound
    BY DEF IInv
  <1> QED
    BY <1>1, Invariance, PTL

\* The column and the document of a job's status do not drift apart.
THEOREM DocumentFollowsColumnTheorem == Spec => []DocumentFollowsColumn
  <1>1. IInv => DocumentFollowsColumn
    BY DEF IInv, JobsAndWorkers, JobFits, DocumentFollowsColumn
  <1> QED
    BY <1>1, Invariance, PTL

\* Of a decided job nothing is written any more.
LEMMA DecidedStays ==
    ASSUME IInv, [Next]_vars, NEW j \in Jobs, document[j] \in Verdicts
    PROVE  document'[j] = document[j] /\ column'[j] = column[j] /\ attempt'[j] = attempt[j]
  <1> USE DEF IInv, DeliveriesAreSound
  <1>1. column[j] = document[j] /\ attempt[j] \in Finals
    BY DEF JobsAndWorkers, JobFits, Verdicts
  <1>2. \A w \in Workers : ~Handles(w, j)
    BY <1>1 DEF JobsAndWorkers, WorkerFits, Handles, Finals
  <1> DEFINE kept == document'[j] = document[j] /\ column'[j] = column[j] /\ attempt'[j] = attempt[j]
  <1>3. ASSUME NEW i \in Jobs, CreateJob(i) \/ RequestCancel(i) PROVE kept
    <2>1. i # j
      BY <1>1, <1>3 DEF CreateJob, RequestCancel, Absent, Verdicts
    <2> QED
      BY <1>3, <2>1 DEF CreateJob, RequestCancel, TypeOK
  <1>4. ASSUME NEW d \in Dispatchers, Acknowledge(d) PROVE kept
    <2>1. PICK i :
            \/ /\ column' = [column EXCEPT ![i] = IF @ = "queued" THEN "dispatched" ELSE @]
               /\ attempt' = [attempt EXCEPT ![i] = IF @ = "created" THEN "dispatched" ELSE @]
            \/ UNCHANGED <<column, attempt>>
      BY <1>4 DEF Acknowledge
    <2>2. document' = document
      BY <1>4 DEF Acknowledge
    <2> QED
      BY <1>1, <2>1, <2>2 DEF TypeOK, Verdicts, Finals
  <1>5. ASSUME NEW w \in Workers, ClaimJob(w) PROVE kept
    <2>1. PICK i : \/ /\ Executable(w, i)
                      /\ column' = [column EXCEPT ![i] = "running"]
                      /\ attempt' = [attempt EXCEPT ![i] = "claimed"]
                   \/ UNCHANGED <<column, attempt>>
      BY <1>5 DEF ClaimJob
    <2>2. document' = document
      BY <1>5 DEF ClaimJob
    <2> QED
      BY <1>1, <2>1, <2>2 DEF TypeOK, Executable, Verdicts
  <1>6. ASSUME NEW w \in Workers, Begin(w) PROVE kept
    <2>1. PICK i : /\ i = worker[w].job
                   /\ document' = [document EXCEPT ![i] = "running"]
                   /\ column' = [column EXCEPT ![i] = "running"]
                   /\ attempt' = [attempt EXCEPT ![i] = "running"]
      BY <1>6 DEF Begin
    <2>2. i # j
      BY <1>2, <1>6, <2>1 DEF Begin, Handles
    <2> QED
      BY <2>1, <2>2 DEF TypeOK
  <1>7. ASSUME NEW w \in Workers, Finalize(w) PROVE kept
    <2>1. worker[w].job # j
      BY <1>2, <1>7 DEF Finalize, Handles
    <2>2. PICK outcome \in Finals, verdict \in Verdicts :
          /\ attempt' = [attempt EXCEPT ![worker[w].job] = outcome]
          /\ column' = [column EXCEPT ![worker[w].job] = verdict]
          /\ document' = [document EXCEPT ![worker[w].job] = verdict]
      BY <1>7 DEF Finalize, Finals, Verdicts
    <2> QED
      BY <2>1, <2>2 DEF TypeOK
  <1>8. ASSUME NEW d \in Dispatchers, ClaimBatch(d) \/ Publish(d) \/ DispatcherCrash(d) PROVE kept
    BY <1>8 DEF ClaimBatch, Publish, DispatcherCrash, rows
  <1>9. ASSUME NEW w \in Workers,
               \/ Receive(w) \/ Load(w) \/ WorkerCrash(w)
               \/ TaskRaises(w) \/ Redeliver(w) \/ HeartbeatExpires(w)
        PROVE  kept
    BY <1>9 DEF Receive, Load, WorkerCrash, TaskRaises, Redeliver, HeartbeatExpires, rows
  <1>10. CASE UNCHANGED vars
    BY <1>10 DEF vars, rows
  <1> HIDE DEF IInv
  <1>11. ASSUME NEW d \in Dispatchers, DispatcherStep(d) \/ DispatcherCrash(d) PROVE kept
    BY <1>4, <1>8, <1>11 DEF DispatcherStep
  <1>12. ASSUME NEW w \in Workers, WorkerStep(w) PROVE kept
    BY <1>5, <1>6, <1>7, <1>9, <1>12 DEF WorkerStep
  <1>13. CASE Next
    <2>1. ASSUME NEW w \in Workers, WorkerCrash(w) \/ TaskRaises(w) \/ Redeliver(w) \/ HeartbeatExpires(w)
          PROVE  kept
      BY <1>9, <2>1
    <2> QED
      BY <1>3, <1>11, <1>12, <1>13, <2>1 DEF Next
  <1> QED
    BY <1>10, <1>13

\* A verdict is final whatever a late dispatcher, worker or client does.
THEOREM VerdictIsFinalTheorem == Spec => VerdictIsFinal
  <1>1. IInv /\ [Next]_vars =>
          [\A j \in Jobs : document[j] \in Verdicts =>
              document'[j] = document[j] /\ column'[j] = column[j] /\ attempt'[j] = attempt[j]]_vars
    BY DecidedStays
  <1> QED
    BY <1>1, Invariance, PTL DEF Spec, VerdictIsFinal

\* Only _finalize gives a verdict, and it looks at the cancellation under the row's lock.
LEMMA VerdictHeedsCancel ==
    ASSUME IInv, [Next]_vars, NEW j \in Jobs,
           cancel[j], document'[j] \in Verdicts, document[j] \notin Verdicts
    PROVE  document'[j] = "cancelled"
  <1> USE DEF IInv, DeliveriesAreSound
  <1> DEFINE heeds == document'[j] = "cancelled"
  <1>1. ASSUME NEW i \in Jobs, CreateJob(i) \/ RequestCancel(i) PROVE heeds
    BY <1>1 DEF CreateJob, RequestCancel, TypeOK, Verdicts
  <1>2. ASSUME NEW w \in Workers, Begin(w) PROVE heeds
    <2>1. PICK i : document' = [document EXCEPT ![i] = "running"]
      BY <1>2 DEF Begin
    <2> QED
      BY <2>1 DEF TypeOK, Verdicts
  <1>3. document' = document => heeds
    OBVIOUS
  <1>4. ASSUME NEW w \in Workers, Finalize(w) PROVE heeds
    <2>1. PICK verdict : document' = [document EXCEPT ![worker[w].job] = verdict]
      BY <1>4 DEF Finalize
    <2>2. worker[w].job = j
      BY <2>1 DEF TypeOK
    <2>3. document' = [document EXCEPT ![j] = "cancelled"]
      BY <1>4, <2>2 DEF Finalize
    <2> QED
      BY <2>3 DEF TypeOK
  <1>5. ASSUME NEW d \in Dispatchers, DispatcherStep(d) \/ DispatcherCrash(d) PROVE heeds
    BY <1>3, <1>5 DEF DispatcherStep, ClaimBatch, Publish, Acknowledge, DispatcherCrash, rows
  <1>6. ASSUME NEW w \in Workers,
               \/ Receive(w) \/ ClaimJob(w) \/ Load(w) \/ WorkerCrash(w)
               \/ TaskRaises(w) \/ Redeliver(w) \/ HeartbeatExpires(w)
        PROVE  heeds
    BY <1>3, <1>6 DEF Receive, ClaimJob, Load, WorkerCrash, TaskRaises, Redeliver, HeartbeatExpires, rows
  <1>7. CASE UNCHANGED vars
    BY <1>3, <1>7 DEF vars, rows
  <1> HIDE DEF IInv
  <1>8. ASSUME NEW w \in Workers, WorkerStep(w) PROVE heeds
    BY <1>2, <1>4, <1>6, <1>8 DEF WorkerStep
  <1>9. CASE Next
    <2>1. ASSUME NEW w \in Workers, WorkerCrash(w) \/ TaskRaises(w) \/ Redeliver(w) \/ HeartbeatExpires(w)
          PROVE  heeds
      BY <1>6, <2>1
    <2> QED
      BY <1>1, <1>5, <1>8, <1>9, <2>1 DEF Next
  <1> QED
    BY <1>7, <1>9

\* A job whose document carries a cancellation ends as cancelled, whatever its handler returned.
THEOREM SeenCancelWinsTheorem == Spec => SeenCancelWins
  <1>1. IInv /\ [Next]_vars =>
          [\A j \in Jobs : cancel[j] /\ document'[j] \in Verdicts /\ document[j] \notin Verdicts
              => document'[j] = "cancelled"]_vars
    BY VerdictHeedsCancel
  <1> QED
    BY <1>1, Invariance, PTL DEF Spec, SeenCancelWins

----------------------------------------------------------------------------
(* The Team profile implements JobContract. *)

\* To the contract, a job is its attempt and its document.
Kept(j) == attempt'[j] = attempt[j] /\ document'[j] = document[j]

LEMMA KeptIsSame ==
    ASSUME NEW j \in Jobs, Kept(j)
    PROVE  Contract!Same(j)
  BY DEF Kept, Contract!Same, Turn, Verdict

\* A job that has an attempt under way is open.
LEMMA UnderWayIsOpen ==
    ASSUME NEW j \in Jobs, JobFits(j), attempt[j] \in {"dispatched", "claimed", "running"}
    PROVE  document[j] \notin Verdicts \cup {Absent}
  BY DEF JobFits, Verdicts, Finals, Absent

LEMMA CreateRefines ==
    ASSUME IInv, NEW j \in Jobs, NEW i \in Jobs, CreateJob(i)
    PROVE  Contract!JobStep(j) \/ Contract!Same(j)
  <1>1. TypeOK /\ JobFits(j)
    BY DEF IInv, DeliveriesAreSound, JobsAndWorkers
  <1>2. CASE i = j
    <2>1. attempt[j] = Absent /\ document[j] = Absent
      BY <1>1, <1>2 DEF CreateJob, JobFits, Absent
    <2>2. attempt'[j] = "created" /\ document'[j] = "queued"
      BY <1>1, <1>2 DEF CreateJob, TypeOK
    <2>3. Verdict(j) = "none" /\ Verdict(j)' = "open" /\ Turn(j)' = "fresh"
      BY <2>1, <2>2 DEF Verdict, Turn, Verdicts, Absent
    <2> QED
      BY <2>2, <2>3 DEF Contract!JobStep, Contract!Accept, Absent
  <1>3. CASE i # j
    <2>1. Kept(j)
      BY <1>1, <1>3 DEF CreateJob, TypeOK, Kept
    <2> QED
      BY <2>1, KeptIsSame
  <1> QED
    BY <1>2, <1>3

\* A cancellation leaves the job open and its attempt where it is.
LEMMA CancelRefines ==
    ASSUME IInv, NEW j \in Jobs, NEW i \in Jobs, RequestCancel(i)
    PROVE  Contract!Same(j)
  <1>1. TypeOK
    BY DEF IInv, DeliveriesAreSound
  <1>2. attempt' = attempt
    BY DEF RequestCancel
  <1>3. Verdict(j)' = Verdict(j)
    <2>1. CASE i = j
      <3>1. document[j] \notin Verdicts \cup {Absent} /\ document'[j] = "cancelling"
        BY <1>1, <2>1 DEF RequestCancel, TypeOK
      <3> QED
        BY <3>1 DEF Verdict, Verdicts, Absent
    <2>2. CASE i # j
      <3>1. document'[j] = document[j]
        BY <1>1, <2>2 DEF RequestCancel, TypeOK
      <3> QED
        BY <3>1 DEF Verdict
    <2> QED
      BY <2>1, <2>2
  <1> QED
    BY <1>2, <1>3 DEF Contract!Same, Turn

\* An acknowledgement finds the attempt fresh and leaves it so, or does not touch it.
LEMMA AcknowledgeRefines ==
    ASSUME IInv, NEW j \in Jobs, NEW d \in Dispatchers, Acknowledge(d)
    PROVE  Contract!Same(j)
  <1>1. PICK i : \/ attempt' = [attempt EXCEPT ![i] = IF @ = "created" THEN "dispatched" ELSE @]
                 \/ attempt' = attempt
    BY DEF Acknowledge
  <1>2. document' = document
    BY DEF Acknowledge
  <1>3. \/ attempt'[j] = attempt[j]
        \/ attempt[j] = "created" /\ attempt'[j] = "dispatched"
    BY <1>1 DEF IInv, DeliveriesAreSound, TypeOK
  <1>4. CASE attempt'[j] = attempt[j]
    BY <1>2, <1>4, KeptIsSame DEF Kept
  <1>5. CASE attempt[j] = "created" /\ attempt'[j] = "dispatched"
    <2>1. Turn(j)' = Turn(j) /\ Verdict(j)' = Verdict(j)
      BY <1>2, <1>5 DEF Turn, Verdict
    <2> QED
      BY <1>5, <2>1 DEF Contract!Same, Absent
  <1> QED
    BY <1>3, <1>4, <1>5

\* claim_next_job hands the attempt out.
LEMMA ClaimRefines ==
    ASSUME IInv, NEW j \in Jobs, NEW w \in Workers, ClaimJob(w)
    PROVE  Contract!JobStep(j) \/ Contract!Same(j)
  <1>1. TypeOK /\ JobFits(j)
    BY DEF IInv, DeliveriesAreSound, JobsAndWorkers
  <1>2. document' = document
    BY DEF ClaimJob
  <1>3. PICK i : \/ Executable(w, i) /\ attempt' = [attempt EXCEPT ![i] = "claimed"]
                 \/ attempt' = attempt
    BY DEF ClaimJob
  <1>4. \/ attempt'[j] = attempt[j]
        \/ attempt[j] = "dispatched" /\ attempt'[j] = "claimed"
    BY <1>1, <1>3 DEF TypeOK, Executable
  <1>5. CASE attempt'[j] = attempt[j]
    BY <1>2, <1>5, KeptIsSame DEF Kept
  <1>6. CASE attempt[j] = "dispatched" /\ attempt'[j] = "claimed"
    <2>1. document[j] \notin Verdicts \cup {Absent} /\ document'[j] = document[j]
      BY <1>1, <1>2, <1>6, UnderWayIsOpen
    <2>2. Verdict(j) = "open" /\ Verdict(j)' = "open" /\ Turn(j) = "fresh" /\ Turn(j)' = "taken"
      BY <1>6, <2>1 DEF Verdict, Turn
    <2> QED
      BY <1>6, <2>2 DEF Contract!JobStep, Contract!Take, Contract!StaysOpen, Absent
  <1> QED
    BY <1>4, <1>5, <1>6

\* The handler starts: the attempt was this worker's before.
LEMMA BeginRefines ==
    ASSUME IInv, NEW j \in Jobs, NEW w \in Workers, Begin(w)
    PROVE  Contract!Same(j)
  <1>1. TypeOK /\ JobFits(j) /\ WorkerFits(w)
    BY DEF IInv, DeliveriesAreSound, JobsAndWorkers
  <1>2. PICK i : i = worker[w].job
    OBVIOUS
  <1>3. /\ worker[w].pc = "begin"
        /\ attempt' = [attempt EXCEPT ![i] = "running"]
        /\ document' = [document EXCEPT ![i] = "running"]
    BY <1>2 DEF Begin
  <1>4. CASE i = j
    <2>1. attempt[j] = "claimed"
      BY <1>1, <1>2, <1>3, <1>4 DEF WorkerFits
    <2>2. attempt'[j] = "running" /\ document'[j] = "running"
      BY <1>1, <1>3, <1>4 DEF TypeOK
    <2>3. document[j] \notin Verdicts \cup {Absent}
      BY <1>1, <2>1, UnderWayIsOpen
    <2>4. Turn(j) = "taken" /\ Turn(j)' = "taken" /\ Verdict(j) = "open" /\ Verdict(j)' = "open"
      BY <2>1, <2>2, <2>3 DEF Turn, Verdict, Verdicts, Absent
    <2> QED
      BY <2>1, <2>2, <2>4 DEF Contract!Same, Absent
  <1>5. CASE i # j
    BY <1>1, <1>3, <1>5, KeptIsSame DEF TypeOK, Kept
  <1> QED
    BY <1>4, <1>5

\* The worker that has the attempt decides the job.
LEMMA FinalizeRefines ==
    ASSUME IInv, NEW j \in Jobs, NEW w \in Workers, Finalize(w)
    PROVE  Contract!JobStep(j) \/ Contract!Same(j)
  <1>1. TypeOK /\ JobFits(j) /\ WorkerFits(w)
    BY DEF IInv, DeliveriesAreSound, JobsAndWorkers
  <1>2. PICK i : i = worker[w].job
    OBVIOUS
  <1>3. PICK outcome \in Finals, verdict \in Verdicts :
          /\ attempt' = [attempt EXCEPT ![i] = outcome]
          /\ document' = [document EXCEPT ![i] = verdict]
    BY <1>2 DEF Finalize, Finals, Verdicts
  <1>4. CASE i = j
    <2>1. attempt[j] = "running"
      BY <1>1, <1>2, <1>4 DEF Finalize, WorkerFits
    <2>2. attempt'[j] \in Finals /\ document'[j] \in Verdicts
      BY <1>1, <1>3, <1>4 DEF TypeOK
    <2>3. document[j] \notin Verdicts \cup {Absent}
      BY <1>1, <2>1, UnderWayIsOpen
    <2>4. Turn(j) = "taken" /\ Turn(j)' = "spent"
      BY <2>1, <2>2 DEF Turn, Finals
    <2>5. Verdict(j) = "open" /\ Verdict(j)' \in {"completed", "failed", "cancelled"}
      BY <2>2, <2>3 DEF Verdict, Verdicts, Absent
    <2> QED
      BY <2>1, <2>2, <2>4, <2>5 DEF Contract!JobStep, Contract!Decide, Contract!Verdicts, Finals, Absent
  <1>5. CASE i # j
    BY <1>1, <1>3, <1>5, KeptIsSame DEF TypeOK, Kept
  <1> QED
    BY <1>4, <1>5

LEMMA NextRefines ==
    ASSUME IInv, [Next]_vars
    PROVE  [Contract!Next]_(Contract!contract)
  <1> SUFFICES ASSUME NEW j \in Jobs PROVE Contract!JobStep(j) \/ Contract!Same(j)
    BY DEF Contract!Next
  <1>1. ASSUME NEW i \in Jobs, CreateJob(i) \/ RequestCancel(i)
        PROVE  Contract!JobStep(j) \/ Contract!Same(j)
    BY <1>1, CreateRefines, CancelRefines
  <1>2. ASSUME UNCHANGED <<attempt, document>> PROVE Contract!Same(j)
    BY <1>2, KeptIsSame DEF Kept
  <1>3. ASSUME NEW d \in Dispatchers, DispatcherStep(d) \/ DispatcherCrash(d) PROVE Contract!Same(j)
    <2>1. CASE ClaimBatch(d) \/ Publish(d) \/ DispatcherCrash(d)
      BY <1>2, <2>1 DEF ClaimBatch, Publish, DispatcherCrash, rows
    <2> QED
      BY <1>3, <2>1, AcknowledgeRefines DEF DispatcherStep
  <1>4. ASSUME NEW w \in Workers, Receive(w) \/ Load(w) \/ HeartbeatExpires(w)
        PROVE  Contract!Same(j)
    BY <1>2, <1>4 DEF Receive, Load, HeartbeatExpires, rows
  <1>5. ASSUME NEW w \in Workers, WorkerCrash(w) \/ TaskRaises(w) \/ Redeliver(w)
        PROVE  Contract!Same(j)
    BY <1>2, <1>5 DEF WorkerCrash, TaskRaises, Redeliver, rows
  <1>6. ASSUME NEW w \in Workers, WorkerStep(w) \/ HeartbeatExpires(w)
        PROVE  Contract!JobStep(j) \/ Contract!Same(j)
    BY <1>4, <1>6, ClaimRefines, BeginRefines, FinalizeRefines DEF WorkerStep
  <1>7. CASE UNCHANGED vars
    BY <1>2, <1>7 DEF vars, rows
  <1> QED
    BY <1>1, <1>3, <1>5, <1>6, <1>7 DEF Next

\* Whatever the broker repeats and the processes lose, a job of the Team profile is tried once,
\* in the hands of one worker, and decided once: the contract the Local profile keeps, too
\* (claim_next_job, acknowledge_outbox_publish, _finalize).
THEOREM KeepsContractTheorem == Spec => KeepsContract
  <1>1. Init => Contract!Init
    <2> SUFFICES ASSUME Init PROVE Contract!Init
      OBVIOUS
    <2>1. ASSUME NEW j \in Jobs
          PROVE  attempt[j] = Absent /\ Turn(j) = "spent" /\ Verdict(j) = "none"
      <3>1. attempt[j] = Absent /\ document[j] = Absent
        BY DEF Init
      <3> QED
        BY <3>1 DEF Turn, Verdict, Verdicts, Absent
    <2> QED
      BY <2>1 DEF Contract!Init
  <1> QED
    BY <1>1, NextRefines, Invariance, PTL DEF Spec, KeepsContract, Contract!Spec
=============================================================================
