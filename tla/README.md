# CodeResearch Agent: verification

TLA+ models of the CodeResearch Agent (`src/`), the TLC runs that check them
and the theorems proved about them. Paths below are relative to
`src/backend/app/` unless they start with `src/`.

The program is a Python backend (FastAPI, SQLite or PostgreSQL, Celery) with a
browser client. It analyses a repository and a paper, builds an index, answers
research questions about it with an agent, aligns the paper's modules with the
code, and evaluates all this. The two profiles differ in who runs a job: in the
*Local* profile one process does everything (`control_plane/jobs.py`), in the
*Team* profile a dispatcher, a broker and worker processes share a PostgreSQL
database (`control_plane/team_*.py`, `control_plane/postgres/`).

## 1. Inventory

For each part: the state it keeps, what it does to it, what is hard about it,
and what makes it correct. `PROJECT.json` lists the same parts with their
status, and the hazards with their lines.

**Job store** (`control_plane/store.py`). Jobs, their attempts and one outbox
event per attempt, in SQLite; each method is one `BEGIN IMMEDIATE` transaction.
Jobs follow `JOB_TRANSITIONS`, attempts `ATTEMPT_TRANSITIONS`, but several
methods write a status without asking these tables. *Hard*: a caller needs
seven transactions to start a job and two to retry one; recovery rewrites every
open job at once; a late result meets a job that has moved on. *Correct*: one
live attempt per job; the job's status and its attempt's agree; a verdict is
final.

**In-process job backend** (`control_plane/jobs.py`, `runtime.py`). A set of
asyncio tasks, a semaphore, two flags (`_accepting`, shutdown event). Submit,
cancel, retry; a task per attempt with a heartbeat beside it; start with
recovery; a shutdown that lets tasks finish, then asks, then kills. *Hard*: the
tasks interleave at every store call; cancellation, shutdown, a fault of the
store and the death of the process meet anywhere. *Correct*: every accepted job
gets one verdict after at most `max_attempts` attempts; nothing is stranded;
nobody's job is reported cancelled unless somebody cancelled it.

**Team scheduler** (`control_plane/team_store.py`, `team_process.py`,
`team_worker.py`, `team_worker_handlers.py`, `celery_*.py`,
`postgres/002_scheduler_functions.sql`). The same tables in PostgreSQL, with
each status kept twice (a column and a JSON document), the broker's queues, the
worker registry. A dispatcher claims outbox events under a token and a lease,
publishes, acknowledges; a worker takes a message, claims the job, runs it,
finalizes. *Hard*: at-least-once delivery, expired leases, dead processes,
reads without a lock. *Correct*: a handler runs once, a verdict is final,
cancellation wins where it can, the two copies of a status agree.

**Outbox dispatcher** (`control_plane/outbox.py`, `store.claim_outbox` and the
two methods that end a claim). The Python form of the same protocol, with
retries and a back-off. *Hard*: a publish that raises after the broker took the
message. *Correct*: an event ends published or failed, under its claim only.

**Artifacts and deletion** (`control_plane/artifacts.py`, `lifecycle.py`). Files
and rows that name them: stage, quarantine, validate, finalize, delete after
retention. *Hard*: a crash between the file and the row. *Correct*: an
available row has its file; a deletion resumed after a crash ends.

**Domain handlers** (`control_plane/domain_handlers.py`). Handlers that start a
research, alignment or evaluation run and wait for it under the job's
checkpoint. *Hard*: two state machines with two cancellations. *Correct*: job
and run end alike.

**Sessions, access, reservations** (`control_plane/auth.py`, `access.py`,
`provider_reservations.py`). Sessions with expiry, role checks, daily limits
reserved before a provider call and settled after it. *Hard*: a settlement after
the expiry of its reservation. *Correct*: what is reserved and used never
exceeds the limit.

**Research runs** (`persistence/research_run_store.py`,
`research_checkpoint.py`, `services/research_run_coordinator.py`) and the
**research graph** (`agents/research/`). Runs with a lease, a cancel flag and a
resume count; a coordinator that claims, renews and ends them; a graph of plan,
execute, replan and answer nodes under budgets. *Hard*: a lease lost while a
tool runs; cancel against finalize; resume after a crash. *Correct*: one
executor, terminal states final, late results discarded, budgets kept.

**Alignment** (`persistence/alignment_store.py`,
`services/alignment_run_coordinator.py`, `alignment/`). Runs with a lease that
go through stages in a thread of their own, decisions with their reviews, one
active run per repository, index, paper and profile. *Hard*: a save asks
neither for the lease nor for the flag that were looked at just before;
`stop()` lets go of a run whose thread goes on; reviews come while decisions
are replaced. *Correct*: one active run, published in full; a verdict is
final; decisions people have reviewed stay.

**Evaluation runs** (`persistence/evaluation_store.py`,
`evaluation/evaluation_service.py`, `services/evaluation_run_coordinator.py`).
Runs over frozen data sets with a lease, case results, metrics; each update of
a run reads the row in one transaction and rewrites it whole in the next.
*Hard*: an older copy of a row written back; a task that has lost its heartbeat
and goes on; cases that outlive their task. *Correct*: one executor; a
completed run has all its results; an attempt follows the end of the one before.

**Bad cases, regression cases, baselines** (`evaluation/bad_case_analyzer.py`,
`bad_case_service.py`, `promotion_service.py`, `dataset_catalog.py`,
`baseline_service.py`). A fault that is found again counts up and may be
reopened; a confirmed one becomes a case of a dataset version; a scope has one
baseline. *Hard*: an event written before the change it is of, and a death
between the two; two analyses of one fault. *Correct*: no silent change of
status; each occurrence counted once; a verified fault has its case.

**Index versions** (`indexing/index_service.py`,
`persistence/index_store.py`). One row per input hash, a lease that a build
takes once and never renews, artifacts, the pointer to the active version.
*Hard*: a build that outlives its lease; take-over, retry, rollback. *Correct*:
a reader sees one complete version, and always one once there is one.

**Search generations** (`persistence/fts_generation_store.py`,
`retrieval/sync_service.py`, `vector_store.py`, `retrieval_service.py`). The
two indexes of a version, built by the searches that need them, from the
documents their filters let through. *Hard*: two searches that build one
generation; a search that reads a generation another is replacing. *Correct*: a
ready generation is what it says; an answer keeps to its filter.

**Observability** (`observability/recorder.py`,
`persistence/observability_store.py`). A bounded queue, a writer thread,
sequence numbers, an event stream. *Hard*: overflow, shutdown. *Correct*: what is
not dropped is stored once, in order.

**Provider routers** (`llm/`, `vision/`, `image_generation/`). Call budgets,
fall-backs, caches. **Settings** (`settings/`). Revisions of provider settings
and secrets. **Analysis** (`services/analysis_service.py`,
`services/task_progress.py`). A fixed pipeline with a progress table.

How they meet: the API calls the store and the backend; the backend calls the
store and the handlers; handlers start research, alignment and evaluation runs
and poll their stores; coordinators claim runs and drive graphs and stages,
which call routers, tools and the retrieval service; evaluation runs feed the
bad-case analyzer; the index service publishes the versions retrieval reads; all
of them record to observability. In the Team profile the API writes only the
store, and dispatcher and workers do the rest through the SQL functions.

## 2. Plan and state

| | modules | of | state |
|-|---------|----|-------|
| 1 | `JobStore`, `JobBackend`, `JobContract` | jobs in the Local profile | checked; safety and the refinement proved |
| 2 | `TeamScheduler`, under `JobContract` too | jobs in the Team profile | checked; all its properties and the refinement proved |
| 3 | `ResearchRuns` | leases, coordinator, checkpoints | checked; safety proved |
| 4 | `ResearchGraph` | the graph of a run, `agents/research` | checked; safety proved |
| 5 | `AlignmentRuns` | runs, publication, reviews | checked; all its properties proved |
| 6 | `EvaluationRuns`, `EvaluationContract` | runs, leases, results | checked; all its properties and the refinement proved |
| 7 | `EvaluationRegressions` | bad cases, regression cases, baselines | checked; all its properties proved |
| 8 | `IndexVersions` | builds and publication of an index | checked; safety proved |
| 9 | `SearchGenerations` | full-text and vector generations under searches | checked; all its properties proved |
| 10 | artifacts and deletion, recorder queue, router budgets, reservations and sessions, domain runs composed with jobs | see section 8 | not modelled |

The order is that of the damage a wrong state does: first who runs a job, then
the long runs a job starts, then what is published from them and read by
others. Each module stands for itself: the subsystems share no rows, and a
handler that polls a run sees of it only the verdict, which the `VerdictIsFinal`
or the `KeepsContract` of each module says does not change.

## 3. The modules

### JobStore, JobBackend, JobContract

`JobStore` holds the rows, `JobBackend` (which extends it) the process that
drives them; `JobContract` is the promise.

| model | code |
|-------|------|
| `status[j]`, `current[j]`, `cancelRequested[j]` | a row of `jobs` |
| `attempt[j][n]` | `job_attempts` |
| `outbox[j][n]` | the outbox event of attempt `n` |
| `phase` | `_accepting`, the shutdown event and whether the process is up |
| `pc[j]`, `held[j]`, `outcome[j]` | the asyncio task of `j`: where it stands, the attempt it works for, what its handler gave |
| an action of `JobStore` | one method, one transaction |
| `Acquire` ... `RunJob` | the store calls of `_execute`, one step each, since a task may be overtaken, cancelled or killed between any two |
| `Settle...`, `RetryNow`, `GiveUp` | the `except` clauses of `_execute` |
| `Start`, `BeginShutdown`, `GraceOver`, `StopWaiting`, `KillTask`, `Halt` | `start` and `shutdown` |
| `Crash` | the death of the process; the runtime starts it again |
| `FaultIsClassified`, `FaultEscapes`, `FaultInHeartbeat` | a `sqlite3` error of the next store call, by where it is raised |

Abstracted: a job stands for its idempotency key, so a second create of it is
no step; time stamps, tokens, revisions and audit rows are dropped; what a
handler computes is one of the outcomes its exception or return is classified
as. A token is equal to its attempt number: a token is drawn once per attempt
and compared only with that attempt's.

`JobContract` knows of a job only whether it is absent, open or decided and how
many tries it has had. `Contract` in `JobBackend` instantiates it with the map
from statuses and attempts, and `KeepsContract` is its `Spec`. The Team scheduler
keeps the same contract.

### TeamScheduler

| model | code |
|-------|------|
| `column[j]`, `document[j]` | `jobs.status`, and the status in `jobs.job_json` |
| `cancel[j]` | `cancel_requested` in `job_json` |
| `attempt[j]` | `job_attempts.status`; a Team job has one attempt |
| `event[j]`, `claims[j]` | the outbox event and its `publish_attempt`; the number stands for the claim token, which is drawn anew at each claim |
| `queue[j]` | the messages for `j` at the broker (external: Celery over Redis) |
| `dispatcher[d]`, `worker[w]` | the local variables of `run_dispatcher` and of `execute` with `execute_claimed_job` |
| `alive` | the rows of `worker_registry` younger than 90 seconds |
| `ClaimBatch`, `Publish`, `Acknowledge` | the loop of `run_dispatcher` |
| `Receive`, `ClaimJob`, `Load`, `Begin`, `Finalize` | `execute` and `execute_claimed_job`: each transaction is a step, and the lock-free read of `job_json` is one of its own |
| `WorkerCrash`, `TaskRaises`, `Redeliver`, `DispatcherCrash` | `task_reject_on_worker_lost`, an exception that ends the task, `visibility_timeout`, a dispatcher that is restarted |

Abstracted: time (a lease or a heartbeat may expire at any moment), row-level
security, payloads and artifacts. The broker is modelled from how it is
configured.

`Contract` instantiates `JobContract` with one attempt: its turn is fresh until a
worker claims it, taken until the worker finalizes, and the verdict is that of
`job_json`, which is what a client is shown. That both profiles keep one contract
is what lets the API and the handlers ignore which of them runs. The promise is of
safety only: an attempt whose worker has died stays taken (section 7).

### ResearchRuns

| model | code |
|-------|------|
| `status[r]`, `cancelRequested[r]` | a row of `research_runs`; the eleven phases of a run in progress are `running` |
| `lease[r]` | a row of `research_run_leases`; `live` says whether it has run out |
| `thread[r]` | the last checkpoint of the run's thread: how many were written, and the verdict the graph has come to |
| `task[c][r]` | the asyncio task of a run in coordinator `c`: the next thing it does, its lease token, the status it has read |
| `scan[c]`, `mode[c]` | the list `_run_loop` is working through; where the process is between `start` and the end of `stop` |
| `Begin`, `Renew`, `Release`, `ListClaimable` | `acquire_lease` with the task created after it, `renew_lease`, `release_lease`, `list_claimable` |
| `Open` ... `EndGraph`, `GraphRaises` | `_execute_run_impl` |
| `ReadStatus`, `WriteStatus` | the read and the `update_status` that end every path, two transactions; the second writes only if the status is still the one read |
| `LoseLease`, `FailHeartbeat` | the heartbeat finds another's lease, or the store raises: the task is cancelled |
| `BeginStop`, `CancelTasks`, `Exit`, `Crash`, `Start` | `stop`, the death of a process, and its successor with a new owner name |

A process is one event loop: while one of its tasks is between a read and the
write after it, no other of its tasks runs (`Suspended`); other processes do.
Time is left out: a lease whose task is gone runs out at any moment (`Expire`),
one whose task lives runs out only if its process stands still (`Stall`, bounded
by `MaxStalls`). Left out: purge of old runs, observability spans, payloads.

### ResearchGraph

| model | code |
|-------|------|
| `st` | the fields of `ResearchState` that steer the run, and the next node |
| `disk` | the checkpoint a new process would find |
| an action | a node of `build_research_agent_graph` with the edge behind it; `SeeCancel` is the early return of every node that looks for a cancellation |
| `InvokeTool`, `ReuseResult`, `ExceedBudget` | the ways through `ResearchExecutor.execute` |
| `ClearTool` or `RefuseTool`, `StartTool`, `FinishTool` | `ToolRegistry._invoke_impl`: the look at the cancellation, the start of the handler and its end are steps of their own; `handler` is where the call stands |
| `planRows`, `currentPlan` | `research_plan_versions` of the run, and the pointer to it in its row |
| `RulePlan`, `Planned` | the two planners |
| `AfterAssessment` | `next_action` of the evidence checker |
| `Publish`, `Raises`, `Resume` | what the coordinator does at the end of the graph, at an exception, and at the start after a crash |

Evidence is reduced to the set of criteria it satisfies, a call to its tool and
arguments, a binding to whether the step before succeeded; what a tool finds,
whether a bound argument is there and whether an answer has a supported claim
are choices. Langgraph is external: a node's checkpoint is written before the
next node ends. Its own limit on the number of steps is not modelled.

### EvaluationRuns

| model | code |
|-------|------|
| `row[r]`, `lease[r]`, `results[r]`, `metrics[r]` | `evaluation_runs`, `evaluation_run_leases`, `evaluation_case_results`, `evaluation_metric_results` |
| a run `r` | the attempts of one fingerprint: `run_id` hashes the fingerprint, the attempt and the run it retries |
| `task[c]` | the run a coordinator executes: where `process_run` stands, its token, whether its heartbeat is alive, its copy of the row, the results it knows, its cases |
| `ReadToCancel`, `CheckCancel`, `WriteCancel` | `request_cancel`: it reads the row; `update_run` checks the transition in one transaction and writes the whole row in another |
| `CheckUpdate`, `WriteUpdate` | the same two transactions of `update_run`, called by a task |
| `Open`, `ListResults`, `BeginCase`, `SaveResult`, `Collect`, `Measure`, `Analyse`, `MarkFailed` | `process_run` |
| `strays[c]`, `BeginStray`, `SaveStray` | the cases a task has left behind when its `gather` raised; the place of the task is free, they go on |
| `Claim`, `Renew`, `LoseHeartbeat`, `Expire`, `Stall`, `Leave`, `Stop`, `Crash`, `Start` | the coordinator and its leases |

Abstracted: what an adapter computes is an outcome; metrics are the results
they were computed from.

`EvaluationContract` knows of an attempt whether it is absent, open or how it
ended, and the results and metrics that are stored; it has no coordinators,
leases, cancel flags or copies of rows. An attempt is opened after the end of the
one before, a result and the metrics are recorded once, and `Complete` asks for a
judged result of every case and their metrics. `Contract` maps the statuses that
are not terminal to `open`.

### EvaluationRegressions

| model | code |
|-------|------|
| `bad`, `events`, `occurrences` | the row of one fingerprint in `bad_cases`, its events by sequence, its occurrences |
| `promoted`, `version` | the promotion of the bad case and the dataset version that takes its regression case |
| `bindings` | `evaluation_baseline_bindings` of one scope |
| `actor[a]` | a request or an analysis: its next transaction and the copy it carries there |
| `FindOccurrence`, `FindBadCase`, `Reopen`, `SaveRecurrence`, `AppendOccurrence` | `BadCaseAnalyzer` |
| `BeginTransition`, `AppendEvent`, `SaveTransition` | `BadCaseService.transition`: the event first, then the row |
| `BeginPromotion`, `SaveCase`, `SavePromotion`, `ListToFreeze`, `Freeze` | `PromotionService` and `DatasetCatalog` |
| `PromoteBaseline` | `promote_baseline`, one transaction |

The analyzer does not keep two tasks off one result. The lease of their run does,
until a heartbeat is lost or a process stands still (both in `EvaluationRuns`); so
`FindOccurrence` lets a second task begin `MaxLapses` times.

### AlignmentRuns

| model | code |
|-------|------|
| `row[r]`, `lease[r]`, `saved[r]`, `decisions[r]`, `reviews[r]` | `alignment_runs`, `alignment_run_leases`, the stages' tables, `alignment_decisions`, `alignment_reviews` with `effective_revision` |
| `thread[c]` | `process_run` in coordinator `c`: its next transaction, stage, the status it expects, whether the heartbeat beats and whether the coordinator still watches it |
| `GuardLease`, `GuardCancel`, then `SaveStage`, `SaveDecisions`, `SaveVerifications` or `Activate` | a stage: a look at the lease, one at the flag, the save |
| `Drop`, `SaveRaises`, `ReadToFail`, `Fail` | the ends of a run that is not published |
| `ReadToCancel`, `WriteCancel`, `AddReview` | the clients |

The tables refer to each other: a save of profiles or candidates deletes, by
cascade, all output of later stages made from the old ones, and one of profiles the
decisions and reviews too (`Outlasting`); a save whose own references are gone is an error. `Unpublished`
is the unique index that lets one run of an input be published; `Activate` without
it raises. The other index, one active run, never refuses, because `activate_run`
supersedes first.

Abstracted: what a stage computes is there or not; the three stages before
scoring have one shape (`Extraction`), and the instance has the first two, between
which the cascades differ. `events`
counts lapses (an executor outlives its lease: a stall, a stop whose thread goes
on, a lost heartbeat) apart from faults, because what may be promised differs.
A retry is of the last attempt of its input: `create_run` gives an attempt the
number after its parent's, and the number is part of the id.

### IndexVersions

| model | code |
|-------|------|
| `version[i]` | a row of `index_versions`, by the hash of its input, with the lease |
| `artifacts`, `pointer` | the versions whose rows are stored; `repositories.active_version_id` |
| `build[b]` | a call of `IndexService`: waiting for another's build, or building |
| `Insert`, `Resume`, `Refuse`, `Begin` | `begin_version`: a new version, one more try, or no |
| `MarkReady`, `Activate`, `MarkFailed`, `Rollback` | the transactions that follow |
| `Expire`, `Crash` | the lease of a build is never renewed; a build that dies |

### SearchGenerations

| model | code |
|-------|------|
| `fts[g]`, `manifest[g]`, `points` | full-text generations with their rows, vector manifests, the points of the collection; a generation is identified by its documents |
| `search[s]` | a search: its next transaction, the documents its filter lets through, what it has found, whether a list of it was full |
| `List`, then `ReadManifest`, `WriteBuilding`, `Upsert`, `Count`, `WriteManifest`, `SyncRaises` | `RetrievalService.search` up to `VectorSyncService.sync`; each access of a manifest or the collection is a step |
| `FindReady`, `CheckOwn`, `Reset`, `Fill`, `Clear` | `FTSGenerationStore.ready_generation` and `sync` |
| `Match`, `Read`, `SkipText` | the text search: any of the generation's rows, or of the points if the vectors have a sparse part; or none |
| `DenseSearch`, `NoDenseSearch` | the dense search: the first `DenseTopK` of all points of the version, whatever the filter; or none, when there are no vectors or it raises |
| `Answer` | the graph's hits are added, the list is cut to `FinalTopK`, and then the filter drops what it shuts out |

What the query text matches and how hits are ranked are choices, so the lists are
any sets of the sizes the code keeps. Documents that a filter shuts out can take
the places of those it lets through, and an answer is complete only where no list
was full. The names this module would share with `IndexVersions` begin with
`Search`, so that one module can prove both.

## 4. The runs

| run | instance | shows |
|-----|----------|-------|
| `job_safety` | 2 jobs, one of a type without a handler, on 1 place; 2 attempts, 3 starts, 2 store faults; fair | the inductive invariant (one live attempt, job and attempt agree, no stranded job), nothing cancelled unasked, no stale dispatch record, final verdicts, cancellation before success, the contract, every job is decided |
| `team_safety` | 2 jobs, 2 dispatchers, 2 capable workers and 1 that is not, 2 claims per event, 1 loss | one start per handler, sound deliveries, a seen cancellation wins, agreement of the two statuses, the contract with one attempt |
| `research_safety` | 2 processes, 1 run, 2 checkpoints, 1 fault, 1 stall; fair | the inductive invariant, verdicts final whoever writes late; before the stall one executor, nothing replayed, no answer for a cancelled run; every run ends |
| `graph_rules` | the code's limits, a two-step rule-based plan, 1 crash; fair | a run ends, and fails only if cancelled |
| `graph_models` | a model's plans of 1 or 2 steps with 2 ids, 3 calls, 1 replan, 1 crash | calls within budget, nothing paid twice, evidence behind a completed run, one active plan, one tool at most that starts after a cancel |
| `evaluation_runs` | 2 coordinators, 2 cases at concurrency 1, 2 attempts, 1 event; cases may outlive their task | attempts follow one another, a completed run is whole, one executor, the contract of attempts although whole rows are written back |
| `evaluation_regressions` | 2 actors, 2 results, 2 baseline candidates, 8 revisions, 1 death, 1 result analysed by two | no silent change of a bad case, each recurrence counted, and once but for the death and the second analysis, a verified fault has its case, one active baseline |
| `alignment_runs` | 2 coordinators, 2 runs of one input or two, 2 extraction stages, 1 review, 1 event | one active run and one publication per input; before a lapse published in full, decided once, reviewed decisions stay, nothing built that the index would refuse |
| `index_versions` | 3 inputs, 2 builders, 1 retry per version, 1 rollback; fair | the pointer names the active version, what is readable is whole and stays so, a live lease is respected, builds end |
| `search_generations` | 2 searchers, 3 documents, 4 filters (all, two, one, none), lists of 2, 3 searches, 1 error or death | one ready generation at most and full of its own documents, a ready manifest has its points, answers keep to their filters and miss nothing for want of a point |
| `search_filter` | violation; 2 searches | a ready generation holds only the documents of the first filter (finding) |
| `alignment_reviews` | violation, fair; 1 coordinator, no failure | a review is deleted with the scorer's decisions (finding) |

An *event* of the evaluation and alignment runs is a retry, a stop, a death, a
store error, a lost heartbeat or a lease that lapses under its task.

*Why the bounds are enough.* The hazards of a job involve two successive
attempts and at most one other job that holds the place; two attempts make the
last attempt and the one before it different; two restarts let recovery meet
what a recovery left. One fault may hit any store call, the second the recovery
or the other job's task. In the Team runs two claims of an event are a claim and
its take-over, and the one loss adds the third message. A research, evaluation
or alignment run is shared by the holder of its lease and one that takes over, so
two processes meet in every way; a single research run suffices because runs
share nothing but the places of a process, while evaluation attempts and
alignment runs supersede each other and need two. Two checkpoints make a first
and a last one different, two cases a run that is half done. A bad case is
raced for by two at a time, and eight revisions let it go its whole way to
closed (the sixth), be reopened and change once more. Two extraction stages are a
save that takes decisions and reviews with it and one that does not. Three index inputs are the version that is active, the
one it replaced and the one being built. Three documents are the least of
which a filter can let through as many as a list holds, fewer, or none, and a list of
two can be full of the others; three searches are one that builds, one that replaces and
one that reads in between. The graph is checked with the code's own limits where its
plans are short, and with small limits where a model's plans must reach them.
Each cfg states its values.

*Symmetry* is used for coordinators, cases, workers, jobs and requests, whose
names nothing compares, and only in runs that check no liveness.

Each property has a mutant in `PROJECT.json`: a definition of the model changed
the way a plausible slip in the code would change it (a guard dropped, a
comparison off by one, a step left out). Mutants stand beside the definitions
they change, marked `Mutant:`.

*Deadlock.* The checks are switched off, because each of these systems really
stops: a process that has been started `MaxStarts` times and stopped stays
stopped, and where no client asks for more and all runs, builds and searches are
decided nothing is left to do. What must not stop early is stated as liveness.

## 5. Fairness

Each fair specification asks only for what the event loop, the threads and the
operator give; clients, cancels, crashes, faults and stalls are never forced.

| specification | weak fairness of | so that | shows |
|---------------|------------------|---------|-------|
| `JobBackend!FairSpec` | each task's next step, the phases of a shutdown, the start of a process that went down | asyncio runs what is ready, handlers return, the waits of a shutdown have time limits, the last start is not ended | `EveryJobSettles`: a queued job is decided, or the store has failed |
| `ResearchRuns!FairSpec` | each task's step and renewal, the polling loop, the phases of a stop, the end of a lease, the start | a lease whose task is gone runs out; another process claims the run | `EveryRunEnds` |
| `ResearchGraph!FairSpec` | `Node`, `Resume` | nodes end, tools have time limits, a dead process is replaced | `RunEnds` |
| `IndexVersions!FairSpec` | each builder's next step | a thread goes on until it returns, and the wait for another's build has a time limit | `EveryBuildEnds` |
| `AlignmentRuns!FairSpec` | threads, heartbeats, claims, the end of an abandoned lease, the start | used by `alignment_reviews`, so that its counterexample is not a system that stands still | |

`EveryJobSettles` makes the exception because it is real: a store error between
two calls of a dispatch ends the task and leaves the job as it is until the next
start (section 7).

## 6. Proofs

The theorems hold for every value of the constants; the runs check the same
formulas on the instances of section 4. Every inductive invariant
(`IInv`; `IndexInv` and `SearchInv` in `RetrievalProofs`) was first checked by TLC.

| module | assumptions | proved |
|--------|-------------|--------|
| `JobBackendProofs` | `MaxAttemptsAssumption` (positive), `BackendAssumption` (bounds are naturals); any set of jobs, even infinite | all of `job_safety` but `EveryJobSettles`, with the refinement `Spec => Contract!Spec` |
| `TeamSchedulerProofs` | `TeamAssumption` | all of `team_safety`, with the refinement `Spec => Contract!Spec` |
| `ResearchRunsProofs` | `RunsAssumption` (finitely many coordinators, natural bounds) | all of `research_safety` but `EveryRunEnds` |
| `ResearchGraphProofs` | `GraphAssumption` | all of `graph_models`; `OnlyCancelledFails` of `graph_rules` for a planner without a model, as that run has it |
| `AlignmentRunsProofs` | `AlignmentAssumption` (finitely many coordinators, extraction stages that differ, natural bounds) | all of `alignment_runs` |
| `EvaluationRunsProofs` | `EvaluationAssumption` | all of `evaluation_runs`, with the refinement `Spec => Contract!Spec` |
| `EvaluationRegressionsProofs` | `RegressionAssumption` | all of `evaluation_regressions` |
| `RetrievalProofs` | `IndexAssumption`, `SearchAssumption` | all of `index_versions` but `EveryBuildEnds`, and all of `search_generations` |

**Jobs.** `StatusMatchesAttempt` is not inductive: whether `complete_attempt`
may write depends on which attempt the task holds and how far it is. `IInv`
adds, for each job, what its task's program counter implies about its row
(a task that is about to claim finds the attempt dispatched, and so on), that a
task holds the current attempt unless the process is ending, that every attempt
before the current one is finished and every later one absent, and that a task
is in the failing state only after a fault. `TypeCorrect`,
`OneLiveAttemptTheorem`, `StatusMatchesAttemptTheorem` and
`NoStrandedJobTheorem` name its conjuncts. Almost every action touches one job:
`LocalStep` reduces such a step to that job, `OtherJobs` carries the others
over. Recovery rewrites all open jobs in one step and is proved on its own, job
by job, as is a crash. The action properties and the refinement follow from
`IInv`: a busy task belongs to an open job (`BusyIsOpen`), so no step of a task
writes to a decided one, and each action is a step of the contract for one job
(`ActionsAreLocal`) or, for recovery, for all. `CancelledOnlyOnRequest` and
`OutboxFollowsAttempt` need `RecordsFit` beside it: as long as the store has not
failed, a pending dispatch record is the current attempt's and its task has not
consumed it, and only a request makes a job cancelling or its handler's outcome a
cancellation.

**Team.** `HandledAtMostOnce` rests on the claim of a job: `JobsAndWorkers` says
how far the worker of a job is at each status of its attempt, that a job has one
worker, and that the handler has been started once if the attempt is past
`claimed` and never before. `Claims` says the same of
events and dispatchers: a claim is held by one dispatcher, once, and none is newer
than the event's own; so nobody has work left under the claim that was
acknowledged. The two sides hardly meet, so most steps are proved by
`ClaimsAlone` or its counterpart for jobs and workers. The refinement needs that
a job whose attempt is under way is open in its document (`UnderWayIsOpen`, from
`JobFits`): then `CreateJob`, `ClaimJob` and `Finalize` are the contract's `Accept`,
`Take` and `Decide`, and each other action is a stutter of every job: most touch
neither attempt nor document (`KeptIsSame`), `RequestCancel` leaves an open job open,
and `Acknowledge` and `Begin` move the attempt but not its turn. `VerdictIsFinal`, which
says of the column and the attempt what the contract says of the verdict, is
proved too.

**Research runs.** `VerdictIsFinal` needs little: a step writes one status at
most, and only one that is not decided (`OneOpenStatus`), because
`update_status` compares the status with the one its caller has read and refused
to go on from if it was terminal. `OneExecutor` is not inductive, because
`acquire_lease` looks at the lease and not at the tasks; `IInv` adds that until
a process stands still past its lease, a task holds the lease of its run, alive
and with its own token (`TasksFit`). Then a lease that can be acquired is one no
other coordinator's task holds (`TaskBegins`), one that runs out has no task
(`LeaseRunsOut`), one that is given back has no other (`LeaseGivenBack`), and
the leases a dead process leaves are not those of others (`ProcessGone`). That a
fresh token exists is a pigeonhole argument over one token more than there are
coordinators (`FreshTokenExists`), which is why a task that is over must keep no
token. `NeverReplayed` and `CancelNeverAnswers` need `PInv`: a task never lags
behind the checkpoints of its run's thread, and one that still works for an
answer meets a cancel flag only beside a status that will keep the answer away.

**Research graph.** A new process goes on from the checkpoint, so what holds of a
state has to hold of its checkpoint too: `StateFits(s)` says what a node finds (the
steps before the current one are over, all are once there is an answer to write,
enough evidence is all of it, a completed state is at its end) and is kept for `st`
and for `disk`. `Lags` says how
the two differ: the checkpoint is behind by one call at most, and only from the end
of that call to the end of the next node. The counts then follow from `CallsCounted`,
which takes them from the running state or, when the process is down, from the
checkpoint: the calls that were started are those in that state, and at most one more
for every death, never both the running call and the unsaved one.
`PlansAreSound` needs `RowsFit`: ids and versions of plan rows are unique, and none
is newer than the replans of the state and of the checkpoint allow; so a row that a
node saves again after a death is the active one (`SameRowIsCurrent`).
`OnlyCancelledFails` rests on `RuleRows`: the id of a rule plan is its version, and no
two plans clash. `OneToolAfterCancel` is not inductive: a tool started late must have
been cleared before the cancellation, and nothing is cleared after it. `LateFits` says
that while there is no cancellation, or a cleared call still waits, none was late.

**Alignment runs.** At most one run is active because `activate_run` supersedes
whatever else is active in its transaction, and one run of an input is published
because of the unique index; this part of the invariant (`Unique`) needs
nothing of leases. The rest does, and is `Calm`, which holds until an executor
outlives its lease. Nothing a run row says shows how far the run is, so `Behind(r, n)`
names what steps before the `n`-th have left, and `RunFits` has every run behind
the step its status would be resumed at (`Position`), also when its holder died
between a save and the next status. `ThreadFits` says of a thread that it holds
the live lease of its run, that the status it expects is the stored one and the
run is as far as the thread's step; an `update_status` is then never refused, and
`activate_run` finds the run it publishes whole. No other thread has the run
(`ClaimKeeps`: a lease that is free has no thread), so a step disturbs the runs of
others only by superseding one that is active (`Kept`, `CalmStep`), and the three
kinds of write are proved once each (`ThreadOnly`, `StatusWrites`,
`OutputWrites`). `RetriedFits` says that all attempts of an input but the last
have failed or were cancelled; so in calm nothing is built that the index would
refuse. A save keeps what `RunFits` says because the cascade takes only output of
later steps, which a run that is behind them does not have. The steps
are a sequence of any length: `StepsAre`, `StepsDiffer` and `PositionIs` give what
the proofs need to know of it.

**Evaluation runs.** Every writer carries an older copy of a row. `VerdictIsFinal`
holds because the second transaction of `update_run` looks at the stored status
again. `RunsAreSound` needs what the writers carry: the results a task knows are
the stored ones (`Knows`), it measures when none of its cases is left, and one
about to write `completed` knows a judged result for every case and has stored
their metrics (`Fits`); a cancel request carries a copy that was not decided
(`ClientsFit`). A case that goes on after its task writes a result that was not there,
to a run that exists (`StraysFit`, proved with `IInv`); a task that measures knows every
result of a run it is to complete, so such a write never comes under it. `OneExecutorTheorem` uses a second invariant, `LInv`: tokens are
distinct, and until a stall a task that beats holds its live lease.

The refinement looks at one row at a time. A write of an open row either leaves it
open or decides it, and no other row (`VerdictWritten`), and makes it `completed`
only by a task that fits the stored results, so `WriteRefines` gives `Complete`,
`End` or a stutter. `SaveRefines` and `MeasureRefines` are the two immutable
inserts: they find nothing stored or change nothing, and a task measures what it
knows, which is a part of what is stored. All that goes on between processes,
leases and copies shows nothing (`NothingToSee`). That the row as a whole,
cancel flag included, does not change once decided is `VerdictIsFinalTheorem`.

**Regressions.** `Fits(a)` says what the copy an actor carries has to do with
the row: its revision is the next at most, and if its save would be accepted, it was made
from the row's status and its count; if it changes the status, the event of its
revision is already there, and is its own. The results whose analysis has counted are those
with an occurrence, those whose occurrence is the actor's next transaction, and the one
the row was saved for last, which an actor that has died leaves without either;
`CountFits` says that the count is never less than their number, whatever dies and
however often one result is analysed, and equal to it as long as nobody has died and no
two tasks had one result. That a recurrence cannot be lost needs that two copies
of one revision are never both saved, though a row that is the same already is left as
it is: equal copies are of one result (`last`). Until two tasks have one result, each
is analysed by one actor (`Distinct`) and has no occurrence yet.

**Index versions.** `PublishedSoundly` needs only `OwnedIsPending`: a version
with an owner is being built. Nearly all steps are `Undisturbed`: they move no
published version. `MarkReady` and `Activate` are the exceptions.

**Search generations.** Points are never removed while searches run, so `Knows(s)`
can say that those a search has counted, or was told of by a ready manifest, are
there until it answers. A dense search whose list was not full has then found all of
them, and a cut that leaves room loses none. What it reads from a generation that is being
replaced may be too little, and the answer is cut to the filter in any case, never too much.

The `VerdictIsFinal` of the Team scheduler and of the evaluation runs are proved
and not listed in a run: `KeepsContract` checks their verdicts there.

*Only model-checked:* the four liveness properties (`EveryJobSettles`,
`EveryRunEnds`, `RunEnds`, `EveryBuildEnds`): fairness and `ENABLED` are beyond
the proof system.
No module has a recursive operator, and no theorem needs induction over data.

## 7. What the checks found

Two statements of the repository are not so, and a run shows each:

* **A search with a filter builds the generation of the whole version**
  (`search_filter`, `retrieval/retrieval_service.py:156`). `plan_v1.5.0.md:383`
  says of the full-text generations that one is ready per repository, version and
  profile, 部分 rows 永不暴露. The first search hands over the documents its own filter lets through,
  and later searches find that generation ready and nothing fills it up.
* **Reviews are lost with the decisions they review** (`alignment_reviews`,
  `persistence/alignment_store.py:337`). `plan_v1.7.0.md:1220` says reviews are
  append-only. The verifier's decisions replace the scorer's, and a review made
  in between is deleted with them, `effective_revision` starts again at 0.

The models also have these behaviours. They are named here, without a run of
their own, because they explain conditions in the properties or because a
document says otherwise (`src/docs/history/plan/`):

*Jobs.*

* A job whose cancellation was accepted goes to `retry_wait`, and is run again, if
  the process stops before its task has a place: `complete_attempt`
  (`control_plane/store.py:588`) does not look at the job, while
  `JOB_TRANSITIONS` (`store.py:38`) lets `cancelling` become only `cancelled` or
  `failed`.
* Any store error in a heartbeat records the job as cancelled though nobody
  asked, and one between two dispatch calls (`control_plane/jobs.py:197`) ends
  the task and leaves the job dispatched until the next start. This is why
  `CancelledOnlyOnRequest`, `NoStrandedJob` and `EveryJobSettles` speak of a store
  that has not failed.
* Team: a worker that is faster than the dispatcher's acknowledgement
  (`control_plane/team_process.py:29`) uses the job's message up in vain, though
  `plan_v2.0.0.md:35` says "A stable deduplication key plus worker claim guards
  makes uncertain or repeated publication safe."
* Team: a worker writes `running` over a cancellation it has not seen; a job
  cancelled before it is claimed stays `cancelling`; one whose worker dies stays
  `running`; a worker idle for 90 seconds no longer counts as alive. The write
  of `running` is from a row that `execute_claimed_job` has read without a lock
  (`control_plane/team_worker_handlers.py:40`); `_finalize` locks its row.

*Research.*

* A task that stood still past its lease writes `interrupted` over `cancelling`,
  and the new holder completes the run
  (`services/research_run_coordinator.py:232`); `plan_v1.6.0.md:1117` says
  任一非终态取消必须经过 `cancelling → cancelled`. Until its next renewal it also
  writes checkpoints into the run's thread. This is why `OneExecutor`,
  `NeverReplayed` and `CancelNeverAnswers` speak of processes that do not stand
  still.
* A cancellation seen in `build_context` or `generate_answer` fails the run on a
  missing key (`agents/research/graph.py:387`, `:503`).
* A step that exceeds the tool budget is tried again for ever when its plan is
  long enough (`graph.py:264`, `:304`), where `plan_v1.6.0.md:492` has a reached
  budget end in a partial answer. The limit of tool failures is never applied,
  and a model that uses a plan id again in a later version makes the run fail.
* A run interrupted before its first checkpoint is failed by the next process.

*Evaluation.*

* `update_run` and the service write whole rows (`persistence/evaluation_store.py:337`,
  `evaluation/evaluation_service.py:289`), so a cancellation accepted between a
  task's read and its write is erased; `plan_v1.9.0.md:1208` says
  取消只阻止新Case并在安全边界停止，已完成CaseResult保留.
* A result that two tasks analyse after a heartbeat was lost is counted twice, with
  no death: one saves its recurrence between the other's look for an occurrence and
  its read of the bad case (`evaluation/bad_case_analyzer.py:40`, `:90`). A death
  between the recurrence and its occurrence does the same. This is why
  `OccurrencesCounted` says "at least" without conditions and "once" with two.
* A death between a bad case's event and its row
  (`evaluation/bad_case_service.py:106`) makes the case unchangeable: the next
  event has the same sequence and is refused. A case can be added to a data set
  between the freezing's list and its update (`evaluation_store.py:175`).

*Alignment, index, search.*

* An alignment thread outlives its lease and `stop()`, and its saves ask for
  neither. This is why the properties of `AlignmentRuns` speak of leases that
  have not lapsed. Such a thread can fail a run after another has opened it: the
  other takes `failed` for the status it may leave (`update_status` compares with
  what was read) and builds the run to the end beside a retry of it. The unique index
  `uq_alignment_successful_request` refuses the publication of whichever comes second,
  and that run fails: one input is never published twice, but it is built twice.
  A save of such a thread also deletes by cascade what the new holder has built from
  the rows it replaces, decisions and reviews included.
* A build that outlives its lease may fail the build of the one that took over;
  an input that is given again after another was published is refused as
  superseded; a dead build of one version blocks the retry of another until its
  lease has run out.
* The synchronisation of a generation takes a ready one down to rebuild it
  (`persistence/fts_generation_store.py:94`, `:154`), though `plan_v1.5.0.md:383`
  keeps the old one readable. The count of a filtered vector manifest never fits
  a later search's. The dense search and the fusion cut their lists before the filter
  of the answer drops what it shuts out (`retrieval/dense_retriever.py:22`,
  `retrieval_service.py:224`), so a filtered search can miss documents that are
  indexed. A query whose filter lets nothing through makes an empty generation ready.

## 8. Not modelled

* *Numbers and text*: parsing of code, papers and figures, text layout, prompts,
  ranking, fusion, alignment scores, metrics and gates (`tools/`, `retrieval/`,
  `alignment/scorer.py`, `evaluation/metric_engine.py`,
  `services/library_function_service.py`): functions of unbounded text or of
  floating-point numbers, without a protocol.
* *Single steps*: settings (one file rewritten whole under a lock if its revision
  is the expected one), sessions and access checks, the API's routing. Each is
  one atomic step, and a model of it would restate its guard.
* *One-shot programs*: `control_plane/cli.py`, `doctor.py`, `backup.py`,
  `migration.py`. The browser client. The fixed pipeline of
  `services/analysis_service.py`.
* *Started by no profile*: the Python outbox dispatcher. Its protocol is the
  one `TeamScheduler` checks in SQL.
* *Compositions*: a job with the research, alignment or evaluation run it waits
  for. Each side is checked alone; their product exceeds what TLC can explore in
  minutes.
* *Components with a protocol of their own that no module here covers*:
  artifacts with their deletion, the recorder's queue and event stream, provider
  routers and reservations, the loading of models.
* *Within the modelled components*: row-level security and roles (every caller
  is assumed to have set its scope), purges of old runs, audit rows, spans, trials
  within an evaluation case, deployments of alignment runs, langgraph's own limit
  on steps, stale points of the vector collection.
