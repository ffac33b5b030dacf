# LocalMind: a verification project

TLA+ models of LocalMind (FastAPI server, local AI assistant), TLC runs that
check them on small instances, and TLAPS proofs about them for every instance.
Paths below are relative to `src/`.

| file | what it is |
|---|---|
| `JobLifecycle.tla` | abstract specification: which status of a job may follow which |
| `JobPipeline.tla` | the job pipeline: tables, worker, REST handlers, Slack buttons, crash and restart |
| `MCJobPipeline.tla`, `JobPipeline*.cfg` | instances for TLC |
| `JobPipelineProofs.tla` | theorems about `JobPipeline`, checked by TLAPS |
| `JobCompletionProofs.tla` | a done job ran all its nodes, if its plans are acyclic: proof by TLAPS |
| `LockTable.tla` | abstract specification: what resource locks promise |
| `ResourceLock.tla` | the lock manager and its table, with expiry and the UNIQUE constraint |
| `MCResourceLock.tla`, `ResourceLock*.cfg` | instances for TLC |
| `ResourceLockProofs.tla` | theorems about `ResourceLock`, checked by TLAPS |
| `FileCustody.tla` | abstract specification: what the recycle bin promises of a file |
| `RecycleBin.tla` | deleting, restoring and purging, by the collector's thread and the event loop, with crashes and faults |
| `MCRecycleBin.tla`, `RecycleBin.cfg`, `RecycleBinProofs.tla` | instance and theorems |
| `DurableExecution.tla` | leases, orphaned jobs, attempts, idempotent tool calls, cancellation |
| `MCDurableExecution.tla`, `DurableExecution.cfg`, `DurableExecutionProofs.tla` | instance and theorems |
| `GpuScheduler.tla` | the scheduler of nodes together with the manager of the card's memory |
| `MCGpuScheduler.tla`, `GpuScheduler.cfg`, `GpuSchedulerProofs.tla` | instance and theorems |
| `PROJECT.json` | components, runs, mutants, source map, findings, hazards, theorems |

To check: `tlc -config JobPipeline.cfg MCJobPipeline.tla` (and the other
`.cfg` files, each with the MC module whose name it begins with), and `tlapm`
with each `*Proofs.tla`.

## 1. Inventory of the system

The server is one process with one asyncio event loop (`backend/server.py`,
`lifespan`). It serves HTTP, starts one `JobWorker`, a garbage collector, an
optional Slack bot and some housekeeping loops, and keeps its state in one
SQLite database that survives it.

| component | state | operations | hard behaviour | what makes it correct |
|---|---|---|---|---|
| job queue, `jobs/queue.py` | rows of `jobs`, `job_nodes` | create, update_job_status, cancel, delete, create_nodes, update_node, get_next_pending_node, increment_review_count, get_interrupted_jobs | status writes are unconditional; every writer may be late | statuses follow a life cycle; nodes run in dependency order |
| job worker, `jobs/worker.py` | current job and node, `_running`, circuit breaker | start/resume, poll/claim, plan, execute, review, re-plan, fail, stop | suspends at every model call while handlers run; crash at any await | owns its job; bounded retries; every run ends; interrupted jobs resumed |
| REST handlers, `routes/jobs.py` | none | create, cancel, delete | check a status, then write | never take a running job's rows away |
| Slack bot, `integrations/slack_bot.py` | event table | create job, review buttons, notifications | buttons arrive at any later time; duplicate events | one job per event; late buttons harmless |
| planner, executor, reviewer | none | answer or raise | slow, may fail or time out | outcomes only |
| delegation, `swarm/delegation.py` | `job_delegation` | spawn, cancel_subtree, is_tree_complete | limits checked before insert; wait for children | tree bounded; waiting ends |
| resource locks, `swarm/resource_lock.py` | `resource_locks` | acquire, release, release_all, force_release, cleanup | expiry while held; check then insert | mutual exclusion of exclusive locks |
| shared memory, messages, `swarm/` | tables with versions, read marks | put, get, send, receive | concurrent writers | no lost update; delivery once |
| swarm coordinator, `swarm/coordinator.py`, `task_queue.py` | bounded priority queue, running agents | submit, pop, collect | full queue, worker crash | a task is run at most once |
| durable execution, `core/execution.py` | attempts, tool invocations, leases, dead letters, source events | start/complete/fail, heartbeat, claim orphans | retry of what was done; dead workers that go on | no job in two leases; nothing reported as done that was not run; orphans come back; cancellations stay |
| scheduler, `core/scheduler.py`; GPU manager, `core/gpu_manager.py` | pending nodes, loaded models, counted memory | schedule_next, acquire, release, evict | a peek at the memory that is old when it is acquired; release and eviction subtract the same memory | nobody starves or waits for ever; memory over-committed by releases only |
| GC and recycle bin, `core/gc.py`, `security/recycle_bin.py`, `security/data_protection.py` | files and their rows | delete, restore, purge | file and row change separately, in a thread and in the event loop; crash in between; the collector's loop can die | a deleted file stays restorable until its time is over; rows and files agree |
| token budgets, `core/token_budget.py` | usage rows | allocate, compile, record | none: a pure allocation per prompt | parts fit the context window |
| others (policy, identity, secrets, evaluation, telemetry, providers, metacognition, memory, validation, tools, front end, command-line agent) | see `PROJECT.json` | | no protocol between actors, or pure I/O | |

How they interact: handlers and Slack write rows; the worker polls the rows and
calls planner, executor and reviewer; the worker's notifications go through
`_activity_multiplex` to server-sent events and to Slack, and suspend the
worker when Slack is called; a node's output may ask the worker to delegate.

### What can happen between two steps

The pipeline is one event loop, so its code interleaves only at an `await` that
really suspends: `planner.plan`, `executor.execute_node`, `reviewer.review`,
`reflection.analyze_failure`, `asyncio.sleep`, and, for jobs that came from
Slack, the notification. SQLite calls are synchronous. A step of
the model is therefore what runs between two such awaits, and `stage` names
the await at which the worker is parked. The garbage collector is the exception: its
tasks run in threads (section 5). Workers of the durable-execution layer are processes of
their own (section 6).

## 2. Plan

Most important behaviour first; each entry is a module with its instance,
abstract specification and proof where it has one.

| | modules | state |
|---|---|---|
| 1 | `JobPipeline`, `JobLifecycle` | done, proofs (section 3) |
| 2 | `ResourceLock`, `LockTable` | done, proofs (section 4) |
| 3 | `RecycleBin`, `FileCustody` | done, proofs (section 5) |
| 4 | `DurableExecution` | done, proofs (section 6) |
| 5 | `GpuScheduler` | done, proofs (section 7) |
| 6 | `Delegation`: limits, subtree cancellation, tree completion over trees of bounded size | to do, once `spawn_child_job` can insert a row |
| 7 | `SwarmQueue`, `SharedMemory`, `Messages` | to do, once something in `src` starts the coordinator |
| 8 | `TokenBudget`: one prompt's allocation, over bounded inputs | to do |
| 9 | `JobCompletionProofs`: `DoneComplete` for acyclic plans | done (section 8) |

## 3. The job pipeline

### State

| model | code |
|---|---|
| `status`, `prio`, `reviewCount` | columns of `jobs`; `"absent"`: no row. Ids are numbers in order of creation |
| `nodes[j]` | the rows of `job_nodes` of a job in the order of insertion; `seq` repeats when a second plan is inserted; `deps` are positions of rows, 0 for a reference that names no row |
| `stage`, `cur`, `node`, `attempt` | the await the worker is parked at, its job, its node, the loop variable of `_run_job` |
| `running`, `failures`, `breakerOpen` | `_running`, `_consecutive_failures` (saturating at the threshold: larger values act alike), `_circuit_open_until` in the future |
| `toResume` | rest of the list `start()` iterates over |
| `gated` | Slack jobs whose review buttons exist |
| `created`, `exits` | counters of the bounds `MaxJobs`, `MaxExits` |

### Actions

| action | code |
|---|---|
| `Poll` | `_poll_and_execute`, `_dequeue_next_pending`, start of `_run_job` |
| `PlanDone`, `PlanError` | return of `planner.plan`, `create_nodes`, top of the attempt loop, up to the first node or review |
| `NodeOk`, `NodeFailed`, `BetweenNodes` | return of `execute_node` (success; timeout, exception or failed result); the loop of `_execute_nodes` up to the next node, the review or the failure. `BetweenNodes` is the suspension in Slack's `node_completed` |
| `ReviewPassed`, `ReviewRejected`, `ReviewError`, `RcaDone` | return of `review` and of `analyze_failure` |
| `ReplanDone`, `ReplanError` | return of the second planning, `_reset_nodes_for_retry`, next attempt |
| `Start`, `ResumeNext`, `Stop`, `Crash`, `Exit` | `start`, `_resume_job`, `stop`, and the end of the process |
| `BreakerTimeout` | five minutes have passed |
| `CreateJob`, `CancelJob`, `DeleteJob` | the REST handlers (`CreateJob` is also Slack's) |
| `SlackButton` | `handle_action` |

The overall timeout of a job is a nondeterministic failure at the top of each
attempt. A plan is any member of `Plans`, a set of sequences that give each
node's dependencies; whether the model of the language or a template made it is
not distinguished. Abstracted away: contents of nodes, files, feedback, costs,
audit rows, notifications' texts.

Delegation is inside `_run_job`, but `spawn_child_job` inserts into `jobs`
without columns that are NOT NULL, so it raises for every input, the worker
catches it, and no child rows exist: `_wait_for_children` is not reached.

### Runs

| run | question | instance | result |
|---|---|---|---|
| `pipeline_api` | do worker and handlers agree on every job, through crashes? | 2 jobs, two 2-node plans (in order, reversed), 2 reviews, breaker at 2, 2 exits | 735 000 states, holds |
| `pipeline_live` | does everything that starts end? | 3 jobs, 1-node plan, 1 exit | 112 000 states, holds |
| `pipeline_slack` | what survives buttons that write any status? | 1 Slack job beside 1 API job, reversed plan, 1 exit | 84 000 states, holds |
| `cancel_forgotten` | is every cancel request answered? | 1 job, no crash | violated |
| `resume_redoes` | does a resume keep completed work? | 1 job, 1 crash | violated |
| `template_skips` | does done mean that all nodes ran? | plan with a dangling reference | violated |

Why the bounds are enough. Two jobs are needed for one to be pending, cancelled
or deleted while another runs; three for the circuit breaker to open after two
failures with a job still waiting. The threshold is 2 instead of 3 and the
review budget 2 instead of 3: one value below the limit, one at it. Two nodes
give a dependency, and a plan whose second node must run first. Two exits allow a crash
during the run of a resumed job. Priorities are all 0 in the runs; the
proofs hold for any.

Deadlock checking is off because the modelled system may stop: when `MaxJobs`
jobs were created and finished nothing more need happen.

Fairness (`FairSpec`): weak fairness of the worker's steps taken together, since
every await in it has a timeout and the loop polls every two seconds; of
`BreakerTimeout`, since time passes; of `Exit`, since a server told to stop ends;
of `Start`, since `docker-compose.yml` restarts the container
(`restart: unless-stopped`). Nothing is assumed of the handlers or of crashes.
Liveness holds with a bounded number of jobs and crashes; with
unbounded arrivals of higher priority a pending job could be starved.

### Properties

`WebJobs` are the jobs without review buttons (`Jobs \ SlackJobs`). What is said of
"a job" in the first five properties is said of those, beside any
number of Slack jobs.

* `WorkerOwnsJob`: while the worker runs a job the row carries its phase or a
  cancel request. `update_job_status` has no condition and `delete_job`
  leaves the check to its caller, so this is a fact about all writers together.
* `ExecutingIsOwned`: an executing job belongs to the worker or is found again by
  `start()`, which may keep it in its list while a Slack job is resumed first.
* `RunningNodeOwned`: so does the job of a running node.
* `DoneComplete`: a job is done only if all nodes ran. True for
  valid plans, false for plans with dangling references (`template_skips`).
* `ReviewBudget`: the counter in the row and the loop variable, which restarts
  with the process, never disagree in the direction of one retry too many.
* `DepsOrder`: over retries, resumes and button presses no node starts before its
  dependencies (Slack jobs included).
* `NoNodeAfterCancel`: no node starts for a job that is being cancelled (Slack
  jobs included).
* `RunShortens`: each step of the worker uses up the planning, an attempt, a
  node or a stage between node and verdict, and no handler, button or deletion
  sets its run back (Slack jobs included). `RunEnds` rests on it.
* `BreakerQuiet`, `ImplementsLifecycle`.
* `PendingServed`, `RunEnds`, `InterruptedResumed`, `RunningCancelResolves`.

The buttons write a status without looking at the old one (approving a done job
makes it 'executing', and it is executed again after a restart), so no status of a
Slack job can be relied on. No document promises otherwise. They also reach
other jobs in one way: a button can make a second job executing, and then `start()`
resumes a list. While it goes through the list the breaker is not asked
(`BreakerQuiet` fails), and a job that is cancelled before its turn is
planned all the same, its 'cancelling' overwritten (`ImplementsLifecycle` fails,
also for a job that has no buttons). These two are therefore stated only for
systems without Slack jobs (`SlackJobs = {}`).

### Disagreements with the documentation

1. `routes/jobs.py:453` says a cancelled job is picked up by the executor and
   stopped. A job cancelled while pending is not, and can never be deleted
   (`cancel_forgotten`). The same holds for one whose cancellation was pending in a crash.
2. `jobs/worker.py:15` says an interrupted job resumes from its last completed node.
   It is planned again and all nodes run again (`resume_redoes`).
3. `jobs/worker.py:485` says `_execute_nodes` returns True if every node
   completed. It also does when pending nodes can never become ready
   (`template_skips`).

## 4. Resource locks

`ResourceLockManager` is synchronous and is called from one event loop, so each
call is one step. Today `acquire`, `release` and `release_all` are called by tests
only, `force_release` by `POST /locks/{id}/release` (`routes/swarm_routes.py`) and
`cleanup_expired` by the coordinator; the model lets any caller make any call at any time.

| model | code |
|---|---|
| `rows[p][j]` | the row of `resource_locks` of path `p` and job `j`; UNIQUE(resource_path, held_by_job_id) leaves at most one, and no code deletes rows |
| `now`, `Tick` | the UTC clock |
| `answer` | what the last call of `acquire` returned or raised |
| `AcquireHeld`, `AcquireConflict`, `AcquireNew`, `AcquireAgain` | the four ends of `acquire`: the existing row, `LockConflictError`, a new row, `sqlite3.IntegrityError` |
| `Release`, `ReleaseAll`, `CleanupExpired` | `release` and `force_release` (the same statement), `release_all`, `cleanup_expired` |

Abstracted away: row ids, nodes, the time of release (only whether there is
one), formatting of times (ISO strings of one offset compare as the times
do). `Tick` lets time pass between calls; the two readings of the clock inside one
`acquire` are taken as one.

| run | question | instance | result |
|---|---|---|---|
| `locks` | do exclusive locks exclude, through expiry, release and clean-up? | 3 jobs, 1 path, ttl 1 or 2, clock to 3 | 96 000 states, holds |
| `lock_upgrade` | is a granted exclusive lock exclusive? | 2 jobs, 1 path | violated |
| `lock_again` | is a call refused only because of another job? | 2 jobs, 1 path | violated |

Bounds: paths never interact except in `release_all` and `cleanup_expired`, which
treat each row alike, so one path suffices for TLC and the proofs cover any
number. Three jobs allow two shared locks beside a third request; ttl
1 and 2 let one lock expire while another is held; the clock goes on until
every lock granted at 0 or 1 has expired. Deadlock checking is on: the manager
can always be called.

* `MutualExclusion`: an exclusive lock is the only active lock on its path.
* `CleanupSparesActive`: the clean-up's comparison and acquire's leave no instant
  at which a lock is both held and expired.
* `LockedOnce`: a row is one lock. A release that comes late (the holder did not
  notice its lock expired) cannot take a newer lock. The price is `lock_again`.
* `ImplementsLockTable`: with `holds` read off the active rows, every step is a
  compatible grant of `LockTable` or loses locks.

Disagreements with the documentation of `acquire` (`swarm/resource_lock.py:90-99`):

4. A job with a shared lock that asks for an exclusive one is answered with the
   shared lock, and no `LockConflictError`, although another job holds a
   shared lock (`lock_upgrade`).
5. A job that released its lock, or let it expire, cannot lock the path again: the
   old row is still there and the insertion raises `IntegrityError`, which the
   docstring does not have (`lock_again`).

## 5. The recycle bin

`safe_delete`, `restore` and the purges of `security/recycle_bin.py` move files
and change rows of `recycle_bin` in separate steps. The garbage collector
(`core/gc.py`) runs each of its tasks in a thread (`asyncio.to_thread`), so its
deletions and purges interleave with those of the event loop
(`security/data_protection.py`, and whoever restores) between any two file
operations or statements.

| model | code |
|---|---|
| `disk[p]`, `slot[i]` | the content at path `p`; the content in `.recycle/<entry>`. Contents are numbered as they are written, so that two are never taken for one |
| `row[i]` | the row of entry `i`: absent, live or `restored`, with its age: fresh, past the week of the emergency purge, past `RETENTION_DAYS` |
| `at`, `id`, `dest` | between which two steps the thread (`gc`) and the event loop (`loop`) are, with their locals |
| `mode`, `doomed`, `left` | the purge under way: its kind, the entries it selected, those whose files are still there |
| `gcUp` | the loop of `GCWorker.start` is running |
| `torn` | history: entries an exit or a fault left half done |

| action | code |
|---|---|
| `DeleteBegin`, `DeleteMove`, `DeleteMissed`, `DeleteInsert` | `safe_delete`: slot and hash, the move, the move that finds no file, the INSERT |
| `RestoreBegin`, `RestoreUnlink`, `RestoreReplace`, `RestoreMissed`, `RestoreStamp` | `restore`: the checks, `unlink` under `force`, `os.replace`, an `unlink` or a move that finds its file gone, the UPDATE |
| `PurgeExpired`, `PurgeBySize`, `PurgeEmergency` | the SELECT of each purge |
| `PurgeFiles`, `PurgeRows` | removing the slots one by one; the DELETE of all selected rows |
| `Fault`, `GCDies`, `Exit` | a failing file operation or statement (the caller logs it and goes on); an exception outside the tasks' handlers, which ends the collector's loop (`gc.py:983`); the end of the process and its restart |
| `Write`, `Tick` | a job writes a file; a day passes |

Abstracted away: which files a clean-up picks (here: any file at any time),
sizes (each file counts one), hashes, names, and the artifact, archive and log
tasks of the collector, which work on tables nothing in `src` fills. The model
lets `restore` be called at any time; in `src` only tests call it.

Run `recycle_bin`: 2 paths, 2 contents, 2 entries, `MaxKept` 1, one exit and
one fault; 164 000 states; everything holds. Two paths let a restore meet another
file at its destination, two entries let one purge select both or have to choose,
and one entry can be restored while the other is being purged. One exit and one fault can meet in
one behaviour; a second of either adds no new place to break off. Deadlock checking is
off: once both contents are gone and the bounds are used up nothing need happen.

Fairness: days pass; a deletion or purge that has begun goes on, being
synchronous code; `PurgeExpired` comes round daily while `gcUp`. Nobody is
assumed to restore, or to fill the bin until a size or emergency purge.

* `OnePlace`: a content is in one place, also when a restore and a deletion
  cross or the process exits between two of their steps.
* `RowsTellTheTruth`: but for torn entries, a live row without its file and a
  file without its live row exist only while someone is about to write the other half.
* `PurgeJustified`: a purge selects first and removes later, with restores in
  between; whatever it removes was still due at that moment.
* `BinEmpties`: every live entry leaves the bin as long as the collector's loop
  does not die, also one whose files are gone already. `MaxFaults` is 1, so an
  operation fails once; a slot that can never be removed would end every purge
  that selects it, and the code has nothing against that.
* `ImplementsCustody`: every step is one of `FileCustody` or a stutter; in
  particular deleting never destroys content and what is gone stays gone.

Torn entries are real: a crash between the move (`recycle_bin.py:270`) and the
INSERT (301) leaves a file in the bin that no row names, so no purge removes it
and no restore finds it. The code has no step that would look for such files.

## 6. Durable execution

`core/execution.py` is a layer for workers on one database. Nothing else in
`src` calls it yet besides tests (the job worker claims with
the status 'executing' while this layer looks for 'running'), so its workers
are modelled as callers that do what the docstrings of its classes say: acquire
a lease, take a job, number and start an attempt, look for a cached result,
log the call, run the tool, record its result, complete; look for a
cancellation between steps; heartbeat at any time. A job is one node with one
tool call, whose idempotency key is the job.

| model | code |
|---|---|
| `job` | status column that `claim_orphaned_jobs` and the cancellation write |
| `lease[w]` | row of `worker_leases`; `late`: `last_heartbeat` lies beyond the timeout |
| `attempt[j][n]`, `tool[j][n]` | rows of `node_attempts` (UNIQUE(node_id, attempt_number)) and `tool_invocations` (the key is not UNIQUE: one row per attempt) |
| `found`, `first`, `saw` | what the supervisor holds between `find_dead_workers`, the SELECT of `claim_orphaned_jobs` and its transaction |
| `effects`, `slipped`, `crashes`, `stalls` | history: runs of the tool; a lease changed behind the supervisor's back; the faults so far |

| action | code |
|---|---|
| `AcquireLease`, `ReleaseLease`, `Heartbeat`, `HeartbeatLate` | the lease methods; time passing |
| `GetLatestAttempt`, `StartAttempt`, `FailAttempt`, `CompleteAttempt` | the attempt methods |
| `LogInvocation`, `UpdateInvocation`, `GetCachedResult` | the log of tool calls |
| `RequestCancellation`, `IsCancelling`, `CompleteCancellation` | the two-phase cancellation |
| `FindDeadWorkers`, `ClaimRead`, `ClaimOrphanedJobs` | the supervisor |
| `Take`, `RunTool`, `Crash` | the worker itself |

Run `durable_execution`: 2 workers, 1 job, 3 attempts, 1 crash, 1 late heartbeat of
a live worker; 345 000 states; everything holds. Two workers are what a take-over
needs; one crash and one stall give three attempts, each of which can break off
elsewhere; keys of different jobs never meet, and the proofs cover any number of
jobs. Deadlock checking is off: when the job is over and its workers released
nothing need happen.

Fairness: the heartbeat of a worker that is down becomes late, since time
passes, and the supervisor comes round. No worker has to start, take a job or go on.

* `OneHolder`: two leases never name one job, even while a worker that was
  declared dead works on.
* `NotReopened`: a cancellation survives reclaim and late completion; a job
  that is over stays over.
* `DoneWasRun`, `RerunsPaid`: at least once, and at most once more for each
  crash or stall: what the idempotency keys achieve, and all they achieve.
* `JobsComeBack`: the job a dead worker's lease names is given back, but for two
  windows. A worker that restarts under its id wipes the job off its row
  (`execution.py:732`), and a heartbeat between the SELECT and the UPDATE (877)
  names a job nobody looks at; `slipped` marks exactly these.

`LogInvocation` takes the look-up and the logging of the call as one step. Two
attempts can still both miss each other's result, since the tool's run
is a step of its own.

Also visible in the model: a job in 'cancelling' whose worker dies stays there,
since the reclaim only takes running jobs.

## 7. Scheduler and GPU manager

`JobScheduler.schedule_next` and `GPUManager` meet in one event loop: the
scheduler peeks at `can_fit` and at the loaded models, and the memory is acquired
later. The body of `acquire` suspends nowhere between taking and leaving the
lock, unless it has to wait (which `NeverWaits` excludes, by proof), so each call is one
step; the eviction loop unloads one model per step while everything else stands still.

| model | code |
|---|---|
| `node`, `created`, `old` | status and `created_at` order of pending rows; the oldest `old` of them wait for longer than `MAX_GPU_WAIT_SEC` |
| `loaded`, `allocated`, `holds` | `_loaded_models` in order of last use, `_vram_allocated_mb`, the slot's `vram_mb` |
| `evicting` | the acquire that is in `_evict_lru_locked` |

| action | code |
|---|---|
| `ScheduleNext` | `schedule_next`: `FetchPendingNodes`, `Score`, the winner, admission, the starvation override |
| `AcquireTooBig`, `AcquireReuse`, `AcquireSwap`, `AcquireFits`, `AcquireEvicts`, `AcquireEvicted`, `EvictOldest` | the ends and steps of `acquire` |
| `Release` | the end of the slot's context |
| `Arrive`, `Age`, `Take` | the planner's row, time, the worker that takes the offer |

Left open: the round-robin cursor indexes `list(set(..))`, whose order is that
of hashes, so any fetched workspace may have its turn; rows of one priority are fetched
in any order. Left out: the `gpu_slots` mirror table, which nothing reads back,
and the waiting branch of `acquire`, which `NeverWaits` shows is not reached. `SameModel` is an equality where the code
compares a prefix (`gpu_manager.py:166-168`), so that an id without a tag would
match every tag of its model; the two agree on ids that have one.
In `src` only tests call the two today.

Run `gpu_scheduler`: 4 nodes, models of size 2, 2 and 5, 2 adapters, card of 3,
`Limit` 2; 115 000 states; everything holds. Two models that fit alone but not
together force evictions; two nodes of one model need two adapters; the model
larger than the card has the highest priority, so that it blocks everyone until
it starves, and is then refused by a `ValueError` (the default heavy model of 18000 MB on the
default card of 10240 MB is in this position); four nodes exceed `Limit`, so that two are
not fetched at first. The review node outranks the lowest two by exactly 900,
where all its boosts together make its score equal to that of a starving node. Deadlock checking is off: when all nodes are done nothing need happen.

Fairness: time passes (`Age`), workers ask for work and take it, a started
`acquire` returns. No `Release` is assumed.

* `NeverWaits`: an acquire that has evicted everything fits, although release and
  eviction both subtract one model's memory.
* `FitsUntilRelease`: the loaded models fit on the card (`FitTogether`: their running
  totals stay within its size) until a slot that loaded its model is released.
  Afterwards they need not: release counts memory as free while the model stays
  loaded (`gpu_manager.py:224-236`, and `test_release_frees_vram` asserts it), so the next model is loaded beside it.
* `StarvingFirst`: no fresh node is offered while a fetched one starves, unless its
  priority is more than 900 higher; the API does not bound priorities
  (`routes/jobs.py:306`). At 900 the scores can be equal and age decides.
* `EveryNodeScheduled`: every node is offered in the end, also behind a blocker
  that never fits and beyond the rows fetched first. Each node arrives once: under an
  endless stream of at least `LIMIT` rows of higher priority a row
  would never be fetched, and nothing here says otherwise.

The docstring of `schedule_next` (`scheduler.py:129-131`) puts any node that waits too
long before all others. The code does so for the fetched rows only, which the query has
cut by priority (`scheduler.py:374-375`), and within the bound on priorities; this is what
the two conditions of `StarvingFirst` stand for.

## 8. Proofs

`JobPipelineProofs` proves, for any number of jobs, any plans, budget,
threshold and number of crashes that satisfy the ASSUMEs of `JobPipeline`:

| theorem | statement | assumes |
|---|---|---|
| `TypeCorrect` | `[]TypeOK` | |
| `DependenciesRespected` | `[]DepsOrder` | |
| `CancelledStartsNothing` | `NoNodeAfterCancel` | |
| `WorkerOwnership`, `ExecutingOwnership` | `[]WorkerOwnsJob`, `[]ExecutingIsOwned` | |
| `RunningOwnership` | `[]RunningNodeOwned` | |
| `ReviewBudgetHolds` | `[]ReviewBudget` | |
| `RunsShorten` | `RunShortens` | |
| `BreakerPausesWork` | `[]BreakerQuiet` | no Slack jobs |
| `LifecycleImplemented` | `ImplementsLifecycle` | no Slack jobs |
| `DoneMeansComplete` (in `JobCompletionProofs`) | `[]DoneComplete` | acyclic plans |

The argument. Type correctness and dependency order are inductive on their own;
the latter rests on lemmas about `Insert` (positions of existing rows do
not move and new references stay within the new rows) and `Mark`.

Ownership is not inductive by itself. `WebInv` adds that ids beyond `created`
have no row (`NotCreated`: a new job is not the worker's), and that a job without
buttons that waits in `start()`'s list is executing or being cancelled, is the only one
of its kind there, and that the worker has no other such job meanwhile
(`WebWaits`). The proof separates the two kinds of job: a step of a run touches no
job but its own (`Apart`), so a run of a Slack job leaves `WebInv` alone whatever
its status has become, and a step of the other kind's run ends it, goes on to a
node or goes to review, over no cancel request (`RunOutcome`), or takes one of the two
turns of a review. For the breaker and the life cycle, where there are no Slack
jobs, `ApiInv` adds that the list is always empty, since `start()` takes the only
executing job in the same step (`StartResumes`), and every step is shown to be
one of `JobLifecycle` or a stutter (`LifeStepTaken`), which gives the refinement.

For running nodes, `RunningInv` says whose a running row can be: the worker is
parked at it, or its job is not the worker's and is 'executing' or 'cancelling', where
ownership applies. Each step inside a run leaves at most the node it
parks at (`RowsLeft`). For the review budget, `BudgetInv` adds that a job that may still be
rejected (executing in the table, waiting in the list, or at any stage before a
rejection) has a review left; without it a resumed job could enter review with
its budget spent.

`RunsShorten` takes each continuation of a run apart: `Mark` on a ready row takes
that row out of the pending ones (`MarkLeft`), the rest of the steps lower the stage,
use up an attempt or let the job go. `TypeOK` bounds the attempts and the rows
are finitely many, so a run has finitely many steps; that it takes them is fairness,
and `RunEnds` stays with TLC.

`DoneMeansComplete` needs that a job with no ready node left has nothing left
(`NothingReadyFinished`). An induction along the plan's order is
avoided by stating acyclicity as well-foundedness (`AcyclicPlan`): every non-empty set of
nodes has one that depends on none of the set; applied to the pending nodes it
names a ready one. `Grounded` carries this to the rows of a job that
several plans were appended to, and says that a kept row depends only on kept
rows; `Insert`, `Mark` and the replacement of a rejected plan preserve it.
`DoneInv` adds that rows stay finished from the last node through review. The
assumption is needed: `_validate_plan` detects cycles and unknown references, but a
template is used although it has some (`planner.py:385-392`), the cut to
`MAX_NODES_PER_JOB` follows the validation (`planner.py:816-825`), and
`template_skips` shows a plan with a dangling one ending as done with a node
that never ran.

`ResourceLockProofs` proves, for any jobs, paths, times to live above zero and
any end of the clock (`ClockAssumption`):

| theorem | statement |
|---|---|
| `TypeCorrect` | `[]TypeOK` |
| `Exclusion` | `[]MutualExclusion` |
| `CleanupIsExact` | `CleanupSparesActive` |
| `LostForGood` | `LockedOnce` |
| `TableImplemented` | `ImplementsLockTable` |

The argument. Two lemmas say what an insertion and a release of any set of rows
do; `GrantOrLose` concludes that every step either grants one lock that conflicts
with none or only loses locks. `MutualExclusion` is inductive once that is
known, and the other theorems are read off it: the three forms of release are one case
and the passing of time another. `TypeOK` is needed because times are
compared.

`RecycleBinProofs` proves, for any paths, contents, entries, limits, exits and
faults (`BoundsAssumption`):

| theorem | statement |
|---|---|
| `BinTyped` | `[]TypeOK` |
| `OnePlaceAlways` | `[]OnePlace` |
| `RowsTruthful` | `[]RowsTellTheTruth` |
| `PurgesJustified` | `PurgeJustified` |
| `BinKeepsCustody` | `ImplementsCustody` |

The argument. The inductive `Inv` adds to the properties what a call under way
knows (`Calls`): whose entry is not yet in the table has no row, the two processes never
work on one new entry, a restore's entry is live as long as its file is there. `Fresh`
ties contents and entries to their counters, so that a new one is in no
place, and says that a restored entry has no file; `DoomedOK` and `Due` carry the purge's SELECT over to
the removals: without them a restore in between could leave a selected entry
that is no longer due. One lemma per step. `PurgesJustified` is read off the two
steps that empty a slot; the refinement gives for each step the move of one
content (`OneGoes`) or two (a forced restore onto another file).

`DurableExecutionProofs` proves, for any workers, jobs, attempts, crashes and stalls:

| theorem | statement |
|---|---|
| `ExecutionTyped` | `[]TypeOK` |
| `OneHolderAlways` | `[]OneHolder` |
| `DoneWasRunAlways` | `[]DoneWasRun` |
| `CancellationSticks` | `NotReopened` |
| `RerunsArePaid` | `[]RerunsPaid` |

The argument. `OneHolder` alone is not inductive: a worker that was declared dead
still has its job in hand. `Named` says what separates it from the new holder: only
active rows name jobs, and what an active worker has in hand is pending
nowhere and in no other active hand. `Seen` says the same of the job
that `claim_orphaned_jobs` read before its transaction. `Ran` says that
wherever a result is recorded or about to be, the tool has run, which gives
`DoneWasRun`. `NotReopened` is read off `Take` and the reclaim, the only steps
that open a job. For `RerunsPaid`, `Paid` is an account with the crashes and stalls as income: it
holds against them the runs of the tool, one for a job that is pending, one for each
worker with the job in hand before its run, and one for each worker whose lease can be
taken for dead. Taking a job turns the pending one into a hand, running the tool turns a
hand into a run, and a reclaim turns a doubted worker into a pending job; only a crash or a
stall adds to the sum.

`GpuSchedulerProofs` proves, for any nodes, models, priorities, card and limit
(`GpuAssumption`):

| theorem | statement |
|---|---|
| `GpuTyped` | `[]TypeOK`; with it, what is counted as allocated never exceeds the card |
| `StarvingGoFirst` | `StarvingFirst` |
| `AcquireNeverWaits` | `[]NeverWaits` |
| `FitsBeforeRelease` | `[]FitsUntilRelease` |

The argument. `TypeOK` is inductive; `TouchedType` says what moving a slot to the end of
`loaded` keeps, `LessType` that subtraction stops at zero. For `StarvingFirst`, a row
that fewer than `Limit` others rank before is fetched (cardinalities of finite sets),
the boosts other than starvation's add up to at most 100 (`ScoreBounds`), and at equal
scores the starving node is the older one, since every waiting node has its place in
the order of the rows (`Placed`). For the two
about memory, `MemoryInv` says what `allocated` is worth (`Counted`): no more than
the loaded models add up to, and exactly that until a slot that loaded
its model is left. So once everything is evicted nothing is counted, and a
node that evicts needs no more than the card has (`EvictsForOne`). Sums are
stated as running totals, a function on positions, and not by a fold: appending,
dropping the oldest and moving one to the end each give new totals from the
old ones, where a fold would need an induction the provers cannot do.

### What is only model-checked

Every safety invariant and action property that a passing run checks is a theorem. What stays
with TLC is liveness, which is outside the prover's reach: `PendingServed`, `RunEnds`,
`InterruptedResumed`, `RunningCancelResolves`, `BinEmpties`, `JobsComeBack` and
`EveryNodeScheduled`.

## 9. Not modelled

* Delegation: `spawn_child_job` raises for every input, so the tree it would
  build does not exist. `is_tree_complete` waits for a status no job
  has. Both are listed as hazards.
* The swarm coordinator, its task queue, agent messages and shared memory: no
  code in `src` starts a coordinator outside tests, so who calls what and when
  would be invented. They come next, once it is wired in.
* Token budgets: a pure allocation of one prompt's tokens and a table of usage rows; no
  state that two callers share.
* Source events and the dead letter queue of `execution.py`: one INSERT against a
  UNIQUE pair, and rows nobody reads back.
* `inference/lora_manager.py`: a registry of adapters; it loads none and does not
  meet the GPU manager.
* Planner, executor, reviewer, chat agent, tools, providers: calls of language
  models and tools; they appear by their outcomes.
* Policy, identity, secrets, evaluation, telemetry, validation, metacognition,
  autonomy, front end, editor extension, command-line agent: no protocol between
  actors, or pure I/O. `PROJECT.json` gives the reason for each.
