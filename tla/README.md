# TLA+ models of Experimently

Experimently is an experimentation platform: a FastAPI backend over PostgreSQL
and Redis (`backend/app`), Lambda functions for ingestion and edge evaluation
(`backend/lambda`), optional enterprise modules (`modules/backend`), SDKs
(`sdk/`) and a web frontend. This directory models the parts of the backend in
which several processes, threads and timers write the same rows, checks them with
TLC and proves their main properties with TLAPS.

Paths in this text are relative to the repository; issue numbers (#436, #629, ...)
are the ones the source's own comments cite.

## How the system runs

| who | what it does | where it runs |
|---|---|---|
| API endpoints for rollout schedules | load a row, check, commit | `def`: a thread pool, one database session per request |
| API endpoints for flags and safety | load a row, check, commit, then write the audit log | `async def` without an await between the load and the commit; they still interleave with the thread pool and with the other processes |
| API endpoints for experiments | load a row, check, commit | `async def` without an await between the load and the commit: indivisible inside one process |
| five background schedulers (experiments, rollouts, safety, metrics, bandits) | a tick every few minutes | the event loop of every replica, serialised by a PostgreSQL advisory lock |
| manual triggers | the same work, without the lock | background tasks and endpoints |
| API endpoints for holdouts and `/assign/batch` | several SELECTs, then one commit | `def`: a thread pool; `/assign` itself is on the event loop, other processes beside it |
| warehouse analyses | admission in the endpoint's thread, the job on an executor's thread | every process has an executor of its own; the limits are the deployment's |
| SDKs, edge Lambda | read flags and experiments, cache them, send events | outside the process |

PostgreSQL runs at READ COMMITTED. SQLAlchemy sessions do not autoflush, keep the
first copy they load of a row, and an UPDATE writes only the columns whose value
differs from that copy. Most hard behaviour below comes from these three facts:
a decision is taken on a copy, and what is written later lands on whatever is
stored then. `WEB_CONCURRENCY` is 1 by default
(`docs/architecture/technical-guide.md:373`), but several replicas and workers are
supported, and the schedulers' lock exists for them.

## Inventory

State, operations and what correctness means, per component. The full list with
sources is `components` in `PROJECT.json`.

| component | state | operations | hard part | correct when |
|---|---|---|---|---|
| scheduler tick and advisory lock | loop task, worker thread, lock session | start, acquire, tick, release, record, stop | cancellation leaves a thread behind; a session dies during a tick; an unlock fails | one live runner; the lock always comes back |
| rollout schedules | schedule and stage rows, flag percentage | tick, activate, pause, cancel, advance | a tick plans from a stale copy; lock order | no stage starts once the schedule is stopped |
| safety rollbacks | flag row, schedules | monitor tick, manual rollback | races with stage starts, stale copy of the flag | after a rollback nothing widens the rollout |
| flag status and percentage | flag row | enable, disable, archive, PUT, bulk | unlocked check and write | archived stays off until unarchived |
| experiment lifecycle and schedule | experiment row | start, pause, complete, archive, schedule, update, delete, pass | passes beside endpoints, dates, stamping the rule id | dates true, pauses hold, the promised life |
| assignment and mutual exclusion | assignment, group and population rows | assign one user or a batch, change the group | first assignment twice, groups and holdouts changing under a request | one answer per user, one live experiment per group, nobody missing from a holdout |
| global holdouts | holdout rows | create, update, activate, deactivate | two activations at once, stale copies, row locks | one active; an ended one stays ended; the percentage is fixed once measured |
| warehouse analysis runs (module) | run rows, executor slots, jobs | reserve, admit, release, run, heartbeat, finish, sweep; deletion of an experiment or a connection | limits across processes, crashes, sweeps beside slow jobs, midnight, rows deleted under their jobs | rows bound what queries as long as they are there; slots come back |
| experiment and evaluation caches | Redis keys, in-process LRU | get, set, invalidate, expire | a read before a change stored after its invalidation | staleness bounded by the lifetime |
| bandit scheduler | arm counters, weights | tick, pull, reward | counters read between two writes | never trained on less than before |
| live results | sets of sockets | connect, disconnect, broadcast | sets change while sends are awaited | nobody subscribed is skipped |
| event ingestion (API, Kinesis Lambda) | events, aggregates | track, batch, retry | partial failure, redelivery | nothing lost, repeats known |
| rules engine, hashing, statistics | none | evaluate, bucket, estimate | numeric | pure functions |
| SDK clients | cache, queue, poll timer | evaluate, track, flush | network failures | bounded queues, last good values |
| modules: workspaces, ETL, SSO, RBAC | memberships, jobs, sessions | create, invite, run, sign in | outside services | permissions hold |
| audit, notifications, auth, AI, frontend | log rows, sessions | append, send, check | after-commit best effort | do not disturb the others |

Interactions: rollbacks and rollouts meet in the flag row (`FlagRollout` composes
the three writers); the schedulers all stand on the tick (`SchedulerTick`); an
experiment's status and the active holdout decide assignments (`Assignment` composes
them with `Holdouts`); processes that run warehouse jobs meet in the run rows.

## Modules

| module | models | lines it follows |
|---|---|---|
| `TickMutex` | abstract: a set of runners with at most one member | scheduler_lock.py's promise |
| `SchedulerTick` | loop coroutine, worker thread and lock session of each replica | core/scheduler_tick.py, core/scheduler_lock.py |
| `RolloutCap` | abstract: what a rollback promises about percentage and schedules | #629 |
| `FlagRollout` | flag, schedules and stages; ticks, monitors, requests; row locks and session copies | core/rollout_scheduler.py, core/safety_scheduler.py, services/{rollout,safety,feature_flag}_service.py |
| `FlagRolloutMC` | the stage triggers TLC uses | |
| `ExperimentLife` | abstract: the life of an experiment the API documents | docs/api/endpoints.md:1507-1570 |
| `ExperimentLifecycle` | one experiment row; endpoints and passes of each process | services/experiment_service.py, endpoints/experiments.py, core/scheduler.py |
| `HoldoutLife` | abstract: what the API promises about global holdouts | endpoints/global_holdout.py, models/global_holdout.py |
| `Holdouts` | holdout rows, their locks and the administrators' requests | services/global_holdout_service.py |
| `Assignment` | extends `Holdouts`: experiments, the group, assignments, populations and the requests that assign | services/assignment_service.py, services/mutual_exclusion_service.py, endpoints/tracking.py |
| `AssignmentMC` | buckets and hashes TLC uses | |
| `RunLife` | abstract: the life of a warehouse run and the limits on runs in flight | models/warehouse_analysis_run.py:10 |
| `WarehouseRuns` | run rows, admissions, executor slots and jobs of several processes | modules/backend/app: services/warehouse_runner.py, services/warehouse_run_accounting.py, warehouse/executor.py |
| `WarehouseRunsMC` | which process serves which request | |
| `SchedulerTick_proofs`, `FlagRollout_proofs`, `ExperimentLifecycle_proofs`, `Holdouts_proofs`, `Assignment_proofs`, `WarehouseRuns_proofs` | the theorems about each | |
| `StageOrder_proofs` | extends `FlagRollout_proofs`: the order in which the tick starts stages | |

### SchedulerTick

A replica has a `phase` (the coroutine of its loop), a `thread` (the
`asyncio.to_thread` worker that acquires or releases), a `session` (the lock's own
connection) and the flags `acquired` and `cancelled`; `holder` is PostgreSQL's
view of the lock. Coroutine and thread are separate because cancelling one does not
stop the other: `Stop` during `acquiring` leaves a thread that may yet take the lock.
`LoseSession` ends a session behind the tick body's back. An unlock may fail on a session that
lives on (`FailRelease`): `_release` only logs it and hands the connection back to the pool, with
the lock. Such a lock is `stuck`: other connections are refused, the same connection is granted
the lock once more and its release takes only that grant back, until the pool, asked for the
connection once it is 300 seconds old, replaces it (`Recycle`, `pool_recycle` in
`db/session.py`).

### FlagRollout

`flag`, `sched` and `stage` are the rows, `ripe` and `over` what the clock says
of dates and durations, `flagLock` and `schedLock` the `FOR UPDATE` locks. Each
actor has a program counter, its session's copy of the flag (`seen`) and locals
(`work`). A tick reads, plans, locks flag then schedule, re-reads the schedule and
commits; a manual advance takes the same locks after its own unlocked checks; a
rollback locks the flag and pauses every ACTIVE schedule. Status, percentage and
schedule requests check unlocked and commit later. `Flushed` is SQLAlchemy's rule that
a column assigned its loaded value is not written. `capped` is a history
variable: the target of the last rollback that nobody has lifted.

### ExperimentLifecycle

The row has a status, the three dates, the kind and id of its targeting rules, an
analysis setting (`level`) and `ready` (has it what POST /start asks for). Each
process does one thing at a time: an endpoint loads the row into `copy`, puts its
result in `want`, and `Commit` writes the columns that differ. A pass does this
twice, for starts and resumes and then for endings, each with its own commit.
The clock and the dates are small integers; `Hour` is the shortest run and `Buffer`
the ten minutes a start date may lie back. Constraint refusals are in `Flush`.
A request that is refused changes nothing and is not a step. Superusers' edits of
descriptive fields outside DRAFT touch no modelled column.

### Holdouts

`holdout` are the rows (made, active, whether `activated_at` and `deactivated_at` are
stamped, the percentage), `lock` PostgreSQL's row locks. A request loads one row,
decides on the copy (`MayChange`: `HoldoutPercentageLocked`, `HoldoutEnded`) and later
writes what differs from the copy. Activation takes three more steps: `FindOthers`
selects the active rows, `FlushOthers` writes their ends and holds their locks,
`ActivateHoldout` flushes the row itself and commits, unless the partial unique index
finds another active row (`Clashing`): then all is rolled back. `AbortHoldout` is a lost
connection or the deadlock that PostgreSQL ends when two activations hold each other's
rows. `Legacy` is the holdout from before salts were stored, which has no start and is
not measured.

### Assignment

One request goes through the statements of `assign_user`: `Look` for a stored row,
`LoadHoldout`, `Record` (INSERT ... ON CONFLICT DO NOTHING into the population), `Check`
and `CheckSibling` (eligibility), `Insert` with its commit, and `Recover` when the unique
index on experiment and user refused the row and the rollback took the population row
with it. `req` holds what the request has read, which is what goes stale. The users'
buckets and hashes are constants of any value, a bandit's weights may draw any variant,
and targeting rules may refuse anybody. Histories: `told` (what a user was answered),
`met` (who was answered while a holdout was measured), `raced` (requests that a change of
the active set overtook). A batch is one such request per user. `NoRequest` after `Lose`
is a request whose process or connection died: nothing of it is committed.

### WarehouseRuns

`ask[q]` is the endpoint's handler, `job[q]` what holds an executor slot, `row[r]` the
run's row, `used[c]` how many rows the day has. Admission has three steps: `Reserve` a
slot in the process, `Admit` under the deployment's advisory lock (sweep, daily limit,
limit of the deployment, one row in flight per connection), `Release` the job with the
row's id; or `Refuse` cancels it. A job that hears nothing gives up (`Wake`). Time is kept
in ages (`row.age` since the last sign of life, `ask.late` since the handler read its
clock) and in what a job has `left`, so nothing runs out and no clock bounds the model.
The clocks of the processes and of the database are assumed to agree; when each is read is modelled.
`Crash` drops handlers and jobs of one process and leaves the rows to the sweep of a later
admission. `Slack` is how long past its deadline a job's last write may be and `MaxLate`
how long an admission may take; the code's margin of 300 seconds is `Margin`, assumed
not shorter than `Slack`. An age stops at `MaxAge`, past which every sweep takes the row.
Writes of a job that fail are `Start` and `Finish` without their row. Of a run that has ended
only its number is kept, in `used`, so that a row's id can be used again.

Deletions do not ask whether a run is in flight. `DeleteExperiment` removes the rows of a draft's
runs, whatever they are at (`ON DELETE CASCADE`), and takes them off the counts; any set of rows in
flight may be one experiment's, which covers every way the rows are spread over experiments.
A job whose row is gone goes on with `run` = `None`: its UPDATEs find nothing. `DeleteEnded` does the
same for runs that have ended, `DeleteConnection` sets the rows' connection NULL (`None`), after which
the index sees them no more but the deployment's count does. A row keeps its `day`, by which it is
counted.

## Runs

| run | configuration | shows |
|---|---|---|
| `ticks` | 3 replicas, 3 faults, fair | mutual exclusion of live sessions, a lock is held by a tick under way or stuck on a pooled connection, and comes back; ticks go on for ever; refinement of `TickMutex`. Three replicas: one holder, one refused, one restarting; three faults: a failed unlock, a crash and a lost session in one behaviour |
| `rollout_safety` | 1 tick, 1 monitor, 1 request of any kind, 1 schedule of 2 stages (time, manual), percentages 0..2, 1 fault | row locks protect what was read under them; rollbacks hold; nothing widens; a pause stops stages; refinement of `RolloutCap`; no deadlock on the row locks |
| `rollout_liveness` | 3 time stages, pauses, rollbacks, an end date, 1 fault, fair | stages start in order, locks are released, the rollout ends |
| `rollback_missing_target` | 1 monitor, 1 percentage request; a violation | a rollback with a stale copy leaves a concurrent percentage above its target |
| `experiment_serial` | 1 process, all endpoints, clock to 4, dates to 5, a run of at least 2, a crash | dates, rollout id, constraints, refinement of `ExperimentLife` |
| `experiment_replicas` | 2 processes, pause and schedule, passes overlapping, 1 fault, fair | what is due happens; a partial rollout never starts without its id; a pass ends a pause only by a due resume, or if it had read the row before the pause or the reschedule |
| `holdout_admins` | 2 administrators, 3 holdouts, one legacy, 2 percentages | one active holdout and stamped windows under any order of locks and commits |
| `assignment_population` | 2 requests, 1 administrator, 2 holdouts (one legacy), 1 bandit experiment | one answer per user, complete populations in the right arms, refinement of `HoldoutLife` |
| `assignment_exclusion` | 2 requests, 2 experiments (one a bandit), 2 changes of the group, no holdouts | a second live experiment only for a request that was overtaken |
| `warehouse_limits` | 3 requests in 2 processes, 2 connections, 2 rows, 1 run a day and 1 at a time, crashes, deletions | the jobs whose row is there stay within the deployment's limit; refinement of `RunLife`; no deadlock |
| `warehouse_slots` | 2 requests in 2 processes, 1 connection, 2 runs at a time, late admissions, crashes, deletions, fair | one job on a connection; the sweep spares live jobs; the daily limit across midnight; every executor slot is given back |
| `warehouse_late_admission` | as `warehouse_slots`, admissions later than the job's patience; a violation | an admission commits a run whose job has given up |

Every property of a passing run has a mutant of the code that violates it; they
stand beside the definition they replace, marked "Mutant of".

Bounds. One flag and one experiment suffice for `FlagRollout` and
`ExperimentLifecycle` because rows of different flags and experiments are never read
together by the modelled code, except that one tick goes through several schedules
(`todo`) and one rollback pauses several; that case is left to the proofs, which hold for
any set of schedules. Stage targets are their indexes, so 2 or 3 stages
give every order relation a rollback target can have to them. The clock of
`experiment_serial` allows schedule, start, pause, resume and end at distinct
instants, with dates before, at and after now. `MaxFaults` counts crashes and errors;
safety with more faults is covered by the proofs, which leave all bounds open.
Assignments of different users share no row, so one user is enough; two requests are
a race, its loser and a retry. His bucket is inside a holdout of two per cent
and outside one of one per cent, so both arms occur. Two experiments are a sibling and
its rival, and two changes of the group take one away and give it back. Three holdouts
are one that is active, one that replaces it and one that replaces both. Three warehouse
requests are two in one process (which share slots) and one in another (which shares only rows).
The limit of the deployment and the index are each checked where the other cannot stand in for it: two
connections and one run at a time in `warehouse_limits`, where the index would admit both, and one
connection and two at a time in `warehouse_slots`, where the count would. Three connections and rows
with two at a time exceed what TLC finishes; the proofs hold for any numbers. `Total`, `Slack` and `Margin` of 1 in `warehouse_slots`
put the sweep exactly at its boundary, where an off-by-one shows.

Symmetry is used for requests of one user and for interchangeable rows,
connections and requests of one process, in runs without liveness only. Deadlock is checked except in
`holdout_admins`, `assignment_population` and `assignment_exclusion`, which may really stop:
every holdout can be ended, every experiment archived, and no request need come.

Fairness. Weak fairness for what a loop, coroutine or thread does next, because the
event loop and the operating system run them; for time; strong fairness for taking
a row lock and for commits that wait for one, because PostgreSQL queues waiters; strong
fairness for the pool's replacement of an aged connection, because it hands its connections out
in turn and the ticks alone keep asking, and for a pass beginning, because the event loop serves a due timer between
requests. For warehouse jobs: time passes, the executor's threads run, and a handler
gets an answer or an error from the database (`Handle`) within `MaxLate`, here longer than the
job's own patience: the slot must come back before the handler does, too. No request, fault, rollback decision or shutdown is ever assumed to happen.

## What is proved

For every set of replicas, actors, schedules, processes, users, holdouts and requests and
every bound, from the named assumptions on the constants in the modules:

- `SchedulerTick_proofs`: `TypeCorrectness`, `LockIsDisciplined`, `MutualExclusion`,
  `Refinement`. The invariant `IInv` is `TypeOK` and
  `LockDiscipline`: exclusion alone is not inductive, since nothing in it says that a
  replica whose thread was just granted the lock, or is about to release it, is the
  holder.
- `FlagRollout_proofs`: `TypeCorrectness`, `LocksAreProtection`, `RollbacksHold`,
  `PausesStop`, `NothingWidens`, `Refinement`. `Ind` adds `WorkFits` (an actor's
  locals fit the step it is at) to `TypeOK` and `LocksProtect`; `NextEffect` then shows
  that every step has one of five effects on the flag, the schedules and the cap, and
  the action properties and the refinement follow from the effects alone. Three more
  say what the run's finding leaves standing: `ManualRollbacksReach` (a manual rollback
  reads the flag under its lock, so it never leaves an active flag above its target; `Fresh`, that the copy of
  whoever holds the flag's lock after reading under it is the flag, is what it adds to `Ind`),
  `PartialRollbacksReach` (a rollback to a positive percentage reaches it with any copy, so
  only turning the flag off can leave the percentage behind) and `NoLockCycle` (who
  holds the flag's lock finds the schedules' free).
- `StageOrder_proofs`: `StagesInOrder`, that a stage a tick starts finds all before it
  complete, for any number of schedules, stages, monitors and requests, from two hypotheses.
  `OneTick` is what `SchedulerTick` proves of replicas whose lock sessions live, and
  `TimeIsAutomatic` excludes a manual stage before a time-based one as long as stages are advanced
  by hand. TLC finds the order broken without either. The tick plans before it holds a lock, so
  the order of the rows is not inductive: `Order` adds that what the tick planned is
  still true at each of its steps (`PlanFits`) and that an advance only ever holds a manual
  stage (`HandFits`); `PlansStayTrue` proves it.
- `ExperimentLifecycle_proofs`: `TypeCorrectness` for any number of processes: the
  stored row always satisfies the table's constraints. The rest is for one process
  (`Replicas = {r}`), where it is what the endpoints' checks are for:
  `ChecksAreEnough`, `RowStaysInOrder`, `DatesAreTrue`, `LifeIsAsPromised`. `AloneInv` says that the copy a handler decided on is still the
  stored row and that what it will write is a `Plan`: accepted by the table, with an id,
  true dates, and a step of the promised life. Each endpoint has one lemma showing that
  it plans. These are stated for one process because they fail for two: a PUT that
  read a draft edits an experiment started since. `PausesHold` is for any number of processes and
  all endpoints: a pass that ends a pause finds a resume due, or had found the row due before it was
  paused or rescheduled. It rests on what a pass carries to its activation (`PassInv`), and on the
  table's constraint, which refuses a draft's activation where a resume has been scheduled since.
  Two hold for any number of
  processes with one endpoint left out: `StampSurvivesRaces` without updates of the rules
  (`IdInv`: a copy lags behind the row by a stamp at most, and what is written keeps or
  adds one) and `DatesSurviveRaces` without schedules (`DateInv`: no write clears a date
  or brings one that lies ahead, and a new status brings the dates it needs; their
  order is the table's constraint). TLC breaks each with the endpoint it leaves out: an update
  that read the draft removes the stamp; a schedule that read it dates a started experiment in
  the future.
- `Holdouts_proofs`: `HoldoutsTyped`, `AtMostOneActive`, `WindowsStamped` for any
  interleaving. One active row is not inductive alone: `Pending` says what a request may
  still write, `Activates` (only after asking for the others) or `Rewrites` (never
  activates, never takes a stamp back), and that stamps it has read are stored. The same
  facts give `HistoryStays`: no interleaving makes a holdout forget that it was active, which
  is what locks its percentage for every request that loads it afterwards. `SerialLife` is
  for requests that follow one another (`Serial`: one request at a time):
  then the copy stays the row (`Faithful`) and the holdouts implement `HoldoutLife`.
- `Assignment_proofs`: `Typed`, `OneAnswer`, `NobodyMissing`, `Exclusive` for any
  interleaving, on top of the holdouts' invariant. `Recorded` says where the population row of a request on
  its way is: stored, or in its own open transaction; `NobodyMissing` needs it because
  the answer comes after a rollback that removes the row. `Separated` says that for a
  request that nothing overtook what it read of the group still holds, so its user has no
  sibling when it inserts: that is `Exclusive`. `FirstArm` says that the first commit
  of a user's population row or assignment is the last word on it, for any interleaving; it needs
  that a transaction holding such a row is the only one and finds none stored (`Alone`).
  `NobodyBetweenSlots` is about the algorithm: the integer division of `Selected` always finds
  an active experiment, the one whose part of the allocation the hash lies in, which is what the
  loop of `select_experiment_for_user` accumulates. That every place below the number of
  active experiments is taken (`RankReached`) is shown with the pigeonhole theorem, since ranks
  do not repeat. `HoldoutsLive` and `ArmsSettled` are for
  administrators' requests that follow one another; `ArmsSettled` adds that arms read before a
  commit are the arms of the percentage that can no longer move.
- `WarehouseRuns_proofs`: `Typed`, `SweepSparesJobs`, `LoadLimited`, `OneJobEach`, `LimitPerDay`,
  `RunsLive`, through crashes, sweeps and deletions. The limits count rows while the properties are
  about threads: the invariant gives every job a row of its own (`OneOwner`), unless it was deleted, and
  says that such a row is as far as its job, has its job's connection or none, and an age that
  together with the time the job has left is at most `Total + Slack` (`RowIsKept`). With `Slack <= Margin`
  no sweep takes it; the jobs that query then map one to one into the rows in flight
  (`FS_Injection`), which `Admit` limits. No two jobs have rows of one connection (`OneEach`): the index
  cannot say so of rows whose connection was deleted, but nothing is admitted on a deleted
  connection. `LimitPerDay` needs that the rows in flight of a day are among those counted (`Counts`), so
  that a deletion takes off no more than was there. `RunsLive` is the refinement of `RunLife`: a write
  by the row's id only ever moves it on. `SlotsLimited` adds that each process stays within its
  executor slots, one connection to a job, and `ReleaseIsInTime` that a release finds its job waiting
  if admissions are answered within the jobs' patience (`MaxLate < AdmissionWait`): the finding of
  `warehouse_late_admission` needs a slower one. Its invariant `Prompt` adds up the handler's delay and
  the job's patience.

Only model-checked: all liveness (`LockIsFreed`, `TicksForever`, `LockReleased`,
`RolloutFinishes`, `StartsHappen`, `EndsHappen`, `SlotsAreFreed`), because the prover has
no reasoning about fairness. Every safety invariant and action property of the passing
runs is stated by a theorem, some of them under the hypotheses named above (one process, requests
that follow one another, one tick). What the two violated properties forbid is proved for the
cases the findings do not concern.

## Disagreements between code and documentation

Two findings have a run of their own and quote the text they contradict
(`findings` in `PROJECT.json`): a rollback that does not write its target, and a committed warehouse
run that nobody runs. Two more contradictions a counterexample of a model shows; the properties
that hold are stated around them:

- `api/v1/endpoints/experiments.py:1241` says of a pause "It is never resumed automatically unless a
  resume is scheduled after pausing". A pass that read a due draft, or a resume then due, before
  another process paused the experiment or dropped its resume, writes ACTIVE over the pause. That is all
  that wakes it: `PauseHoldsUnlessRaced`;
- `docs/api/warehouse-analytics.md:172` says "one analysis or preview per connection, and at most
  `WAREHOUSE_MAX_CONCURRENT_RUNS` (default 2) across the deployment", line 168 "whatever their outcome" of
  the runs counted in a day. Deleting a draft experiment deletes its runs
  (`models/warehouse_analysis_run.py:65`) while their jobs query, and the connection, the deployment and
  the day are free for another. The executor of the same process still refuses the connection; another
  process does not. `JobsWithinLimit`, `OneJobPerConnection` and `DailyLimitKept` speak of the jobs and
  runs whose row is there. A deleted connection frees nothing: its rows still count for the
  deployment.

Further behaviours the models reach that no
document forbids in so many words, or that are promised only of requests that follow one another:

- a rollback to 0 by a monitor whose copy is old turns INACTIVE a flag that was
  archived meanwhile, and one to a positive target may raise a percentage lowered meanwhile;
- a request that read a flag before it was archived turns it on; a pause that read a
  schedule before it completed puts PAUSED over COMPLETED;
- two manual advances of one stage both act: the second may reopen a completed stage;
- an advance whose request already loaded the flag with the stage's percentage
  does not write it over a concurrent change;
- with a manual stage before a time stage the time stage can start first;
- a replica whose lock session died goes on with its tick beside the next one;
- a scheduled start does not ask for the variants and metric a start by hand needs;
- with two processes a PUT that read a draft changes targeting, or the stamped rule id,
  of an experiment that is already active, and a stale start or pause revives a completed one;
- with two administrators a copy read before an activation moves the percentage of a measured
  holdout or restarts an ended one;
- a user let through under one holdout is assigned although another one, activated before the
  insert, holds him out; and two requests of a user whose group changes between
  check and insert enter him into two live experiments.

## Not modelled

- Statistics, the bandit's sampling, consistent hashing: floating point and bit
  arithmetic. `Assignment` takes hashes and weights as arbitrary instead.
- The rules engine: pure functions of large inputs; the models let rules refuse anybody.
- Authentication, permissions, roles, single sign-on: they decide who may call an operation; the
  models allow every call. Audit and notifications: after the commit, best effort.
- Bulk toggles: each flag's change is `FlagRollout`'s status request; the batch's row locks
  over several flags and its one commit would need several flag rows, which would
  change every proof about the one.
- Creating and editing rollout schedules: validation of a draft before the tick can see
  it; `FlagRollout` starts from its result and folds `min_stage_duration`, start dates and durations into one
  delay per stage. A flag's health is arbitrary.
- Creation and cloning of experiments and replacement of their variants and metrics: whether
  an experiment is ready is a constant of its life.
- Caches (experiments, evaluation, edge Lambda): copies with a lifetime; no modelled decision
  reads one.
- Event ingestion, AI assistance, warehouse connections and ETL: what they do is decided by
  answers of services outside the repository.
- Live results: sets of sockets in one process, nothing stored.
- Within assignment: `reassign_user` and `delete_assignments_by_experiment` (no caller in the API)
  and exposure events. Within warehouse runs: the queries, the estimators and the validation of sources.
- SDKs, frontend, infrastructure, scripts that check the documentation: outside the backend's state.

## Plan

Done: `SchedulerTick` with `TickMutex`, `FlagRollout` with `RolloutCap`, `ExperimentLifecycle` with
`ExperimentLife`, `Holdouts` with `HoldoutLife`, `Assignment`, `WarehouseRuns` with `RunLife`, and the proofs of all the safety
they check. What would add most next:

1. Several flags in `FlagRollout`: bulk toggles with their locks in the order of the request,
   and results collected before the commit that may fail. The rows become functions on
   flags; the effects of `NextEffect` stay.
2. Variants and metrics of a draft in `ExperimentLifecycle`: two replacements that
   overlap leave the union of both sets.
3. `ExperimentCache`: row, Redis entry, readers, writers, passes; a register whose reads
   lag by at most the lifetime.
4. `LiveResults` and one SDK client.
