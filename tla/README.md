# A TLA+ model of ops-monitor

ops-monitor watches and operates a fleet of Linux servers: agents on the servers
report metrics and run service tasks, a FastAPI backend over MySQL and Redis keeps
inventory, metrics, alerts and tasks, and a Vue frontend shows them. This directory
models the parts whose correctness depends on the order of events: the task system,
the scheduler that drives it, the alert centre, the agents' calls and what the backend
derives from them, accounts and the start of the backend, and the browser's session.

## 1. Inventory

| part | state | operations | module |
|---|---|---|---|
| task service (`services/task_service.py`, `repositories/task_repository.py`) | `ops_task`, `ops_task_target`, `ops_task_execution` | create, confirm, cancel; fetch, report; timeout scan, retry dispatch, cron firing, cleanup | `TaskTables`, `TaskService`, `TaskTransactions` |
| retry policy (`core/retry.py`) | none | classify an error, decide on a retry, backoff | `RetryPolicy` |
| scheduler (`core/scheduler.py`, `core/scheduler_lock.py`) | APScheduler's next run times, a Redis key per job | rounds of seven jobs in every worker | `Scheduler` |
| alert centre (`services/alert_engine.py`, `alert_service.py`) | `alert_rule`, `alert_event` | rules, acknowledge, resolve, evaluation round | `AlertEngine`, `AlertTransactions` |
| request authentication and the agents' HTTP clients (`api/v1/deps.py`, `core/replay.py`, `core/signing.py`, `agent/reporter`, `agent-go/internal/reporter`) | nonces in Redis, the public key of a token, calls in flight | sign, send, retry, verify, register and rotate a key | `AgentRequests`, `ReportDelivery` |
| registration, heartbeat, status (`services/agent_service.py`, `repositories/server_repository.py`) | `ops_server`, `ops_agent_token` | create a server, issue a token, register, heartbeat, refresh | `AgentStatus` |
| assets, services, whitelist (`agent_service.py`, `server_service.py`) | `ops_server_disk`, `_network`, `_service` | sync assets, sync services, set the whitelist | `AssetSync` |
| metrics (`repositories/metric_repository.py`, `services/monitor_service.py`) | raw and daily tables | ingest, archive, delete, summarise | `MetricArchive` |
| users, roles, login (`services/user_service.py`, `auth_service.py`, `api/v1/deps.py`) | `sys_user`, `sys_role`, tokens | create, update, delete, log in, authorise | `Accounts` |
| seed data and start (`core/seed.py`, `main.py`) | roles, default rules, administrator | seed, retry, serve | `Accounts` |
| web frontend (`frontend/src`) | token, user data, route, calls in flight | log in, log out, guard, intercept, retry, poll, reload | `WebSession` |
| Python and Go agents (`agent/`, `agent-go/`) | key file, threads, executions fetched | start, register, four loops, execute, report | spread over the modules above |
| discovery, audit log, tracing, packaging, read-only queries, migrations, deployment | – | see section 5 | – |

**How they meet.** Users and agents call the backend over HTTP. Two uvicorn workers
answer from thread pools, and each worker also runs the scheduler; a Redis key per job
keeps two rounds of one job apart. Handlers share nothing but the database. Every
handler has its own session: MySQL's default REPEATABLE READ, no `SELECT ... FOR
UPDATE` anywhere, and an ORM that writes back the columns it changed, by primary key.
Agents sign a call once and repeat it with the same headers. The browser keeps its
token in `localStorage`; interceptors act on every answer, whoever asked for it.

**What is hard here.** Handlers that overlap and decide on a snapshot (aggregation,
fetch, idempotency key, confirm against cron scan, report against timeout scan,
acknowledge against evaluation, sync against whitelist, heartbeat against refresh, two
workers seeding); agents that lose answers, crash, or repeat a report late; a nonce
store that fails between its command and its answer; deadlines that pass between two
decisions; cleanups that delete what a later aggregation counts; a lock that expires
under a long job; unique keys that refuse a whole request; answers that reach a page
which has moved on. `PROJECT.json` lists each with its line.

**What makes each part correct.**
- Tasks: the status of a task agrees with its executions; attempts of a target form a
  chain within the budget; nothing unconfirmed or cancelled runs; what has ended stays
  as it ended; every released task ends; one task per idempotency key.
- Scheduler: a fresh run is alone; no failure leaves the lock taken; the job goes on.
- Alerts: one active event per rule, server and metric; a resolved event is history;
  an event fires after a steady violation and does fire; it ends when the value is back.
- Calls: a call ends, a confirmed call took effect, no call takes effect twice.
- Status: what is shown follows the agents, whatever the refresh overlaps with.
- Assets: the inventory converges to the machine; the whitelist is the operator's.
- Metrics: nothing within the retention is deleted, a day is archived whole, the
  traffic chart shows no traffic that was not there.
- Accounts and sessions: workers come up and seed once; a refused session ends; a user
  whose account works gets in.

## 2. Modules

| module | role |
|---|---|
| `RetryPolicy` | `core/retry.py` as operators |
| `TaskTables` | row types; every handler as an operator from the database it reads to the one it commits |
| `TaskService` | serial specification: one action per endpoint, job and agent step; properties; the inductive invariant `IInv` |
| `TaskTransactions` | the same handlers as sessions: `Begin…` snapshots and computes, `CommitSession` merges changed columns or `RollbackSession` on a unique key |
| `Scheduler` | one job in all workers with its lock |
| `AlertEngine`, `AlertTransactions` | rules, events, evaluation round; the same as sessions |
| `ReportDelivery` | abstract specification: what an agent may rely on when it calls |
| `AgentRequests` | clients, network, signature checks, nonce store; implements `ReportDelivery` |
| `AgentStatus` | server rows, heartbeats as sessions, refresh job, hosts |
| `AssetSync` | asset and service reports, syncs and whitelist as sessions |
| `MetricArchive` | samples, cleanup transaction, daily archive, summary |
| `Accounts` | users, roles, who a token acts for, workers that start and seed |
| `WebSession` | the browser, composed with `Accounts` |
| `MC*` | constants, reports and symmetry for TLC |
| `TaskServiceProofs` | theorems about `TaskService` and, for overlapping sessions, `TaskTransactions` |
| `SchedulerProofs`, `AlertEngineProofs`, `AgentRequestsProofs`, `AgentStatusProofs`, `AssetSyncProofs`, `MetricArchiveProofs`, `WebSessionProofs` | theorems about the module of that name (`WebSessionProofs`: about the accounts inside `WebSession`) |

`TaskTransactions` extends `TaskService`, which extends `TaskTables`, which extends
`RetryPolicy`; `AlertTransactions` extends `AlertEngine`; `WebSession` extends
`Accounts`, and its next-state relation contains the whole of it. Serial and
transactional levels use the same handler operators, so a property proved of the serial
level is about the very transitions the transactional level interleaves.

### State and actions against the code

*Tasks.* `task[t]` is a row of `ops_task` with its set of targets, `exec[t][s][a]` the
execution of attempt `a` on server `s` (`uk_ops_task_execution_target`). Statuses are
the code's. `ABSENT` is an id not used yet; a row deleted by the cleanup is kept with a
mark (`DELETED`, `gone`) so that properties can speak about it, and every operator that
models a query looks at `Stored` rows only. Every timestamp column is a distance to the
present: `left` (deadline_at), `cron_wait`, `ran` (started_at), `wait` (next_retry_at),
`ended` (finished_at), saturated where no comparison tells two values apart. `sent` is
the result an agent holds for an execution: `AgentExecute` sets it once
(`agent/worker.py`), `ReportResult` may deliver it never, late, or again and again.
One agent process per server is assumed here: its only polling loop executes a row once,
and when two polls overlap and both are given the row, its HTTP client has given up on
one of them. *Other divergences* says what a second process changes.
Handlers that raise an error change nothing and are guards here; a creation with a key
already in use returns the existing task and is a stutter. `dispatch_retries` is one
operator for the loop over the due rows; the comment there says why the order inside a
batch does not matter.

*Scheduler.* `due[w]` is the time to the next run in worker `w`; phases are arbitrary
since processes start at different times. `lock`/`ttl` are the Redis key; the token is
the worker, which has at most one in play (`max_instances=1`). `SkipRoundAnswerLost` is
a `SET` that took effect but whose answer was lost, `FinishRoundReleaseFails` a failed
release, `Restart` a process that died and came back. `StartsPaused` is
`next_run_time=None`.

*Alerts.* `event[k][n]` is the n-th event of a key; the key includes the metric, as
`_alert_key` does. `age` is the time since first_fired_at. `streak` is a history
variable: since when the key has been violated without an evaluation that found it back
to normal (`BackToNormal`); nothing in the actions depends on it.

*Calls.* `call[r]` is one call of the client: `line` is the attempt it waits for
(`sent`, `busy` while it is in its handler, an answer, or `cut` when the connection
broke after the server was done). `late` and `busy` count the copies it gave up on: the
ones that may still arrive and the ones in their handlers. `off` is the timestamp minus
the server's clock. A copy is served in two steps, as in the code: `Admit` is the
dependency chain of `deps.py`, which judges it and stores its nonce, `Handle` the
handler, which commits, commits with the answer lost, fails or crashes; in between
anything may happen, the arrival of another copy included. Redis answers, or does not answer with the command done or not done. Both
settings of `AGENT_REQUIRE_SIGNATURE` and every clock offset of the host are initial
states. Two agents on one host share a token and overwrite each other's key.

*Status.* A heartbeat or registration is a session: `Begin…` reads the row, `Commit`
writes the time always and address and status if they differ from what was read, as the
ORM does, or `Rollback` when the address, or the code of a new server, belongs to
another row. The refresh is one UPDATE and one step; it may come between the two. `due` says whose interval is over; time never waits for it.

*Assets.* A report is a set of keys; `sync_assets` turns it into the inserts, deletes
and updates of its session, `SyncServices` into the status columns that changed. An
insert that meets its unique key, or an update whose row is gone, fails the request.

*Metrics.* A sample is its time and the network counter; a daily row is the set of
samples it was computed from, so that losing part of a day is visible. The cleanup is
one transaction with two readings of the clock.

*Accounts and browser.* A user is the name; rows marked deleted keep their unique keys
and are found by no query. A starting worker takes its snapshot (`SeedBegin`), then
commits or ends with the IntegrityError, which `init_seed_data` does not catch;
OperationalErrors are retried. A call of the page is answered by a worker, or by the
gateway if none is up, and received by whatever page is there then. `path` is the
route; `loading` is the first navigation after a reload, while the guard waits for the
user's data.

*Inputs taken for granted.* `schedule_type` is ONCE or CRON and `action` one of the
five known ones (the API schema takes any string; others are rejected later or never
fetched). Ids are never reused (auto-increment). The whitelist does not change while a
task is created. Agents sign every call and know their server code. All servers use one
`ssh_port`.

## 3. Runs

### Passing

| run | instance | shows |
|---|---|---|
| `TaskServiceCore` | 1 task, 2 servers, 2 attempts, ONCE and CRON, cleanup on | types, `StatusMatchesWork`, `RetryChain`, `ConfirmedBeforeRun`, `CancelSparesOnlyBegunWork`, `FinalStatusCountsEveryTarget`, `ReferentialIntegrity`, `FinishedStaysFinished`, `RetryOnlyInBudget` |
| `TransactionsSerial` | 1 session, 1 task, 2 servers, no symmetry | `TxSpec` implements the `Spec` of `TaskService`; every released task ends (`EveryTaskEnds`) |
| `TransactionsConcurrent` | 2 sessions, 1 server, 3 attempts; a second task that only races for the key | the retry chain and budget survive every overlap; two racing creations leave one task per key |
| `SchedulerLock` | 3 workers, TTL 3, jobs up to 4 | a run younger than the TTL owns the lock and is alone; the job goes on, so no failure leaves the lock taken |
| `AlertLifecycle` | 1 key of LOAD on 2 cores, 4 readings, 5 forms of a rule (one with a recovery threshold), 3 events | one active event, history kept, steady violation before firing, a pending event fires, an alert ends when the value is back to normal |
| `AgentRequests` | a Python and a Go agent, 1 call, 3 attempts, skew 1 | `DeliversAtMostOnce`: an implementation of `ReportDelivery`; `ReplayedWasAdmitted`: "replayed" is only said of a call that took effect, has a copy in its handler, or was broken off after the nonce |
| `AgentStatus` | 2 servers, 2 addresses, 1 session against the refresh | a heartbeat in time leaves its server ONLINE whatever the refresh does in between (`BeatInTimeShowsOnline`); a dead agent ends OFFLINE; a live one whose address is its own is ONLINE again and again |
| `AssetSync` | 1 item, 1 service, 2 sessions, 2 reports of a kind on their way | no sync touches the whitelist of a known service; the tables converge to the machine |
| `MetricArchive` | days of 2 slots, retention 2, 7 slots, 1 restart of the counter | retention, whole days, summary |
| `WebSession` | 2 users, 2 workers, 2 calls in flight, 2 disturbances | `SeededOnce`, `WorkersComeUp`, `RefusedSessionEnds`, `EnabledUserGetsIn` |

### Violations: what the documentation says and the code does not do

| run | property | what happens |
|---|---|---|
| `WriteSkew` | `AllSuccessIsSuccess` | two simultaneous reports leave the task RUNNING for ever |
| `AlertResurrected` | `ResolvedIsFinal` | a stale session opens a resolved event |

### Other divergences

Met while modelling; the model contains the behaviour, no run is kept for it.

Tasks and scheduler:
- A task without executions aggregates to PENDING (`task_service.py:425`), so a
  cancelled cron task that has not fired is PENDING and fires
  (`docs/modules/automation.md:49`: CANCELLED).
- A confirmation that read a cron task before `fire_due_cron` committed writes PENDING
  over RUNNING; every later scan selects the task, breaks the unique key of the
  executions and rolls back for all cron tasks (the comment at `task_service.py:372`
  says a fired task is not selected again).
- Both cleanup jobs are added with `next_run_time=None` (`scheduler.py:179`), which
  adds them paused; nothing resumes them (`docs/modules/monitoring.md:55`: daily
  cleanup). `CleanupHistory` and the cleanup of `MetricArchive` are modelled as the
  jobs are written and would run once they are resumed.
- `list_pending_cron` also selects CREATED tasks, so cron tasks fire unconfirmed
  (`docs/modules/automation.md:75`: confirmed first).
- `cancel_task` leaves RUNNING executions, which go on, and RETRYING ones, which are
  dispatched again (`task_service.py:162`: unfinished executions become CANCELLED).
  `CancelSparesOnlyBegunWork` is what the code does keep: no server that had not begun
  the task begins it.
- `_can_retry` ignores backoff and pickup time, so an attempt may start after the
  deadline (`docs/architecture/task-retry-strategy.md:392`).
- The deadline of a cron task counts from its creation, so a batch fired later is never
  retried (`docs/decisions/009-task-retry-and-idempotency.md:58`).
- A repeated report of a RETRYING execution restarts its backoff
  (`docs/modules/automation.md:61`).
- `delete_terminal_before` may delete a failed execution of a task in progress, which
  then ends SUCCESS (`task_repository.py:235`).
- Two overlapping polls of a server get the same execution
  (`docs/architecture/task-retry-strategy.md:402`), the loser of a race for an
  idempotency key gets an error (`:262`), and a report that overlaps the timeout scan
  overwrites TIMEOUT (`:181`).
- Two agent processes with one token on a server may both be handed an execution by
  overlapping polls and report different results. Serially nothing comes of it. If the
  failure is reported first and the success overlaps the dispatch of the retry, the
  success is written over the dispatched row and the target has a successful attempt
  followed by another (`RetryChain` fails; TLC finds it in 16 steps when `AgentExecute`
  may change its result). The modules and `OverlapChainCorrect` are about one process.
- The job lock is released at once, so each worker runs each round, one after the
  other (`docs/decisions/011-distributed-scheduler.md:20`: once per round).

Alerts:
- With a recovery threshold, time spent between the two thresholds counts towards
  `duration_seconds` (`docs/modules/alerting.md:28`), and `FiringNeedsSteadyViolation`
  counts it; a stale evaluation undoes an acknowledgement (`:37`).
- The recovery test of LOAD forgets the factor of the cores (`:44`, `:49`): an alert
  goes on while the value is below the threshold it fired at and above the unscaled one.
  `AlertEnds` is about values at which the code's test succeeds.
- With a recovery threshold a value recovers when it is at or below it whatever the
  operator (`alert_engine.py:165`), so an alert of an LT rule does not end at high values.

Agents:
- The nonce of an agent whose clock is exactly `MAX_SKEW` ahead expires in the last
  second in which its timestamp is accepted, so a late copy in that second takes effect
  again; the refinement is stated for smaller offsets. Without
  `AGENT_REQUIRE_SIGNATURE` a request let in while Redis fails, or before a key is
  registered, may also take effect twice; the promise is withdrawn from then on
  (`degraded`).
- A call whose handler failed after the nonce was stored is answered "replayed" when it
  is repeated, and the client takes that as final. So is a retry that arrives while the
  first copy is still in its handler, which may yet fail.
- `register` replaces the stored key whenever the agent presents another one, so two
  installations with one token lock each other out in turn.
- Two hosts that exchange addresses stay OFFLINE for good: each heartbeat is rolled
  back on the unique key of the other's row, and with it the address that would free
  it (`LiveAgentComesOnline` excludes an address that another row holds).
- A cleanup whose cutoff falls inside a day archives its first part; the next one
  replaces that row by the rest (`on_duplicate_key_update`), although the docstring of
  `aggregate_daily` calls the upsert idempotent. `UnsplitDayIsWhole` is about the other
  days. A cleanup runs at any time of the day, so a day is normally split.

Accounts and browser:
- If the seeded administrator is deleted in the user administration, the soft-deleted
  row is not found and its unique key refuses the new one: every start of the backend
  fails (`AdminGone` in the properties).
- A default alert rule that was renamed or deleted, or that an upgrade adds while the
  roles are there already, is created twice when two workers start together, as rule
  names have no unique key (`core/seed.py:76` and `docs/deployment.md:21`: idempotent).
  `SeededOnce` is about the first start and unedited rules, which the unique keys of the
  roles protect.
- A 401 for an old token that arrives late ends the session that is there by then.
- Pressing Enter twice sends two logins; with different names in between, the user data
  of one may be shown with the token of the other, since `fetchMe` does not look at
  the token its answer belongs to. No property is stated of it.

### Bounds

Two servers make aggregation over targets meet every mixture of statuses, two attempts
(three with one server) contain a first, a middle and a last attempt of the budget, and
a timeout of two ticks leaves time for a backoff before the deadline. One task suffices
where tasks do not interact; only keys relate two, and `SecondTaskOnlyRaces` keeps a
second task to that race. Two sessions are the smallest overlap, and each
counterexample above needs no more. Backoff is one tick; the retention is the least
that exceeds every deadline, as a day does in the code. For the scheduler the TTL
exceeds the interval and `MaxRun` exceeds the TTL. Limits of a batch are at least the
number of rows that can exist in these instances.

Three attempts of a call leave up to three copies, so that one is served, one refused
and one late; a skew of one second has an inside, a boundary and an outside on both
sides. Calls have nonces of their own and meet only in the registered key. Status
boundaries 1 and 2 give ONLINE two ages, so that a heartbeat may be recent and not new,
and every boundary an age on either side. In `AgentStatus` one session overlaps the
refresh; sessions of different servers meet only in the unique key, which is looked at
in the commit step. (The safety properties were also checked with two sessions, of
which both may serve one server: 5.8 million states.) The load of a
server with two cores has readings below, at and above both the threshold of a rule and
its double. `MaxWire` allows a report to be overtaken. In `MetricArchive`
days and buckets have two slots, so a cutoff falls both between and into days, and
seven slots let a day be written, split, archived and dropped. The clock stops at
`MaxTime` there, which is why that run does not look for deadlocks. `MaxDisturbances`
counts faults, edits and reloads of a browser run; the first seeding race and each
single misfortune followed by another are within two. Elsewhere time is bounded by
saturation, never by stopping the clock. `MaxEvents` and the set of task ids bound how
many rows are created. Symmetry over servers, sessions and tasks is used for safety
only.

### Fairness

- `TaskTransactions`: a session ends (weak); each scan, each server's poll and time
  come round (strong, since a single session may be taken by another request whenever
  they are due). The scheduler repeats the scans for ever (`JobKeepsRunning` and
  `OneAtATime` are the justification) and an agent's loop polls until it is stopped.
  Nothing is assumed of `AgentExecute` or reports, nor of users.
- `Scheduler`: time passes, a job ends, and, strong fairness, a round that finds the
  key free again and again is eventually not lost to a failure of Redis or a collision
  of phases.
- `AlertEngine`: the evaluation job runs and time passes; for `AlertEnds` and
  `PendingFires` nothing else is needed.
- `AgentRequests`: the client's own timeout or the answer ends an attempt. Nothing is
  assumed of the network or the server.
- `AgentStatus`: sessions end, the refresh runs, a loop that is due again and again
  gets a request through, time goes on. Starting, stopping and moving are free.
- `AssetSync`: the agent's loop sends, reports of either kind are served again and
  again, sessions end.
- `WebSession`: the supervisor restarts a worker, which goes on; calls are answered and
  received; the dashboard's timer fires; a user with a working account keeps trying.

## 4. Proofs

TLAPS checks these for every value of the constants that the named assumptions of the
modules allow. Every invariant and every action property of a passing run is the
statement of a theorem, and of the two refinements one is proved whole (`Serial`) and
the other in its safety part (`DeliversAtMostOnce`). The assumptions are facts about
the configuration: lengths and limits are numbers, the backoff table is not empty and
has no zero, NULL is no number. Three deserve a word. `MetricArchive` takes the
accepted clock skew to be at most the retention (five minutes against days): with a
larger one a sample could be ingested that the cleanup has passed already.
`TaskTables` takes the retention of finished tasks to exceed every deadline (days
against minutes). `Accounts` takes "no user" to be no row. Two theorems carry a
hypothesis of their own, named below.

**TaskServiceProofs, serial.** `Invariance` shows `Spec => []IInv`; `TypeCorrect`,
`StatusCorrect`, `RetryChainCorrect`, `ConfirmationCorrect` and `CleanupCorrect` follow, and `FinishedCorrect` and `BudgetCorrect` are action
properties proved from it. None of the properties is inductive alone. That the
aggregate fits the executions needs the chain: `_aggregate_task_status` looks at the
last stored attempt of a target only, and it is the chain that rules out an active
attempt below it, while `GoneIsEnded` rules out that the cleanup removed an active one.
The chain in turn needs `ReportsOfStarted` and `NotHandedOut` (only a row that was
handed out is reported on), and confirmation needs `Unconfirmed`, which ties the
status to the executions of a task nobody confirmed. `IInv` is the conjunction of these
per task, so that each handler is one lemma about the row of one task
(`TaskInv(tk, rows)`), and the induction over `Next` only assembles them.
`CancelCorrect` adds `NoNewServer`: rows past being handed out were begun, and beside a
cancelled row no first attempt waits. A first attempt waits only in a task nothing of
which was cancelled, since `create_task` and the cron scan insert them for new tasks
only and `cancel_task` takes every one that waits. A server's further attempts follow
from the chain: its first one has failed, so it was begun.
`FinalStatusCorrect` adds `CountsLatest` (the status of an ended task none of whose
rows is deleted is the verdict on the latest attempts) and the observation that a
handler either leaves a task in progress, aggregates it over the rows it commits, or
changes no status (`CountsStep`).

**TaskServiceProofs, overlapping sessions.** `TxInvariance` shows `TxSpec => []TxInv`
for any number of sessions; `KeyCorrect`, `OverlapChainCorrect` and
`OverlapBudgetCorrect` follow. The difficulty is that a session decides on a snapshot
and writes over rows that others have changed since. `TxInv` says of each open session
which changes its handler makes to a row of its snapshot (`RowWrite`) and to a task
(`TaskWrite`), how a row it read may differ from the row now (`RowPair`), and what two
open sessions never share (`Apart`: a job, a task they create, a row that one of them
gives a successor). The argument that no overlap forks a chain: a further attempt is
inserted only by `dispatch_retries`, which the scheduler lock keeps single, for a row
whose backoff is over; a report or timeout that overlaps it would have to write the
same row, but no time passes while a session is open, so a row that came to wait for a
retry since then has its whole backoff ahead and is not among those due, and a row that
was due before is one for which every other session decides the same way, since result
and budget are the same (`BudgetNow`). Columns are merged one by one, which is why the
timers `ran` and `wait` are part of the invariant. TLC checked `TxInv` before it was
proved, on the instance of `TransactionsConcurrent` and with three sessions.

`SerialCorrect` (hypothesis: one session) is the refinement. Its invariant `UpToDate`
says that the snapshot of the open session is the database and that what it will write
is what an enabled handler makes of it; the merge at the commit is then the identity on
what was written, and the step is the handler's.

**SchedulerProofs.** `LockCorrect` is inductive with three additions: a key that is set
has an expiry, a run is no longer than `MaxRun`, and the types (`SchedulerTypeCorrect`).
`MutualExclusion` follows, since two runs below the TTL would both hold the one key.

**AlertEngineProofs.** Types and `OneActivePerKey` are inductive together;
`ResolvedCorrect` is the action property from them. `FiringCorrect` needs that a
pending event is not older than the streak of its key: an evaluation that ends the
streak finds the value back to normal and resolves the event in the same round. It
holds for any rules, with LOAD and with recovery thresholds; they may be edited,
switched off and on meanwhile.

**AgentRequestsProofs.** `RequestsInv` counts, for each call, the copies on their way,
the copies in handlers and the effects against the attempts made, and ties the nonce to
them: it is in Redis only if a copy was let in, which is in its handler, has committed
or was broken off, and, while the promise stands, there is no more than one such copy
and the nonce outlives the time in which the call's timestamp is accepted. `ReplayedCorrect` follows,
and so does `DeliverySafe`: initial states of `AgentRequests` map to initial states of
`ReportDelivery` and every step to a step or a stutter. `DeliversIfCallsEnd` joins to it
the one liveness conjunct of `ReportDelivery` as a hypothesis; TLC checks that conjunct.

**AgentStatusProofs.** `BeatCorrect` is about a heartbeat that leaves out the status
column because it read ONLINE, while a refresh or another request wrote the row in
between. `StatusInv` says that a row which was recent when an open session read it still
is, since no time passes while a session is open and every other write makes it younger,
and that a refresh therefore left the ONLINE the session read as it was.

**AssetSyncProofs.** `WhitelistCorrect` needs that rows of services are never deleted,
so that a row a session has read is still there when it commits (`ReadsAreOld`), and
that a flag belongs to a row (`FlagsCorrect`).

**MetricArchiveProofs.** For `RetentionCorrect` and `WholeDaysCorrect` the invariant
says that what an open cleanup has aggregated is what it would aggregate now, since no
sample that old is accepted any more, and that a day no cutoff has split is either
untouched or put away: archived in full, deleted in full and out of reach of every
later sample. `SummaryCorrect` rests on `PaceInvariance`, that between two samples the
counter has not grown by more than the time between them. A point of the chart is then
at most the number of slots between the sample its bucket's maximum comes from and the
one of the bucket before; these sets of slots are disjoint for different buckets and
lie within the range, so the sum is at most its length (`SumBound`). The sum is a fold
over a set in an unspecified order; that it is well defined and the bound are proved by
induction on the least size of a subset for which they fail (`LeastOf`, from the
well-foundedness of the naturals).

**WebSessionProofs.** `AccountsInv` says that the tables are empty or hold all of the
seed data, and that a worker in the middle of seeding saw one or the other. A second
seeding is refused by the unique key of the roles because it saw them all missing.
`ServesSeededCorrect` says that no request is served before.

**Model-checked only.** The liveness properties: `EveryTaskEnds`, `JobKeepsRunning`,
`PendingFires`, `AlertEnds`, `DeadAgentGoesOffline`, `LiveAgentComesOnline`, `AssetsConverge`,
`WorkersComeUp`, `RefusedSessionEnds`, `EnabledUserGetsIn`, and that calls end in
`DeliversAtMostOnce`; fairness and `ENABLED` are outside this prover's reach. The two
violation runs are counterexamples and need no proof.

## 5. Not modelled, and why

Texts, names, result logs, exit codes, the login log and the audit log: no handler
reads them back. Task and alert modules let any user act at any time, which is the more
general environment for their properties; roles are in `Accounts`. A wrong password is
answered like a missing user, and a 403 changes nothing on either side. Deadlocks
between row locks inside MySQL: the ORM flushes by primary key and a victim is rolled
back as a whole, which is a request that did not happen (`SeedRetries` has the one that
is retried). Discovery is a scan inside one request without state of its own. Container,
disk, network and process metrics have tables that nothing writes. What collectors and
`systemctl` return is an input. Migrations, packaging, tracing, exported metrics,
dashboards and deployment keep no state the modelled parts rely on.

## 6. Plan

The code that keeps state is modelled, and the safety properties the runs check are
proved. What may still be proved:

1. `OneTaskPerKey` for `TaskService` with the cleanup on, which `TaskTransactions`
   leaves out: a deleted task gives its key back.
2. For `AlertTransactions`, what survives overlapping sessions: types, and that an
   event always belongs to a rule that exists.
3. For `TaskTransactions`, the other invariants of `TaskService` that survive overlaps:
   `ConfirmedBeforeRun`, the first half of `ReferentialIntegrity`, and
   `CancelSparesOnlyBegunWork`, which TLC finds true of two overlapping sessions on two
   servers with two attempts (326 453 states).
