# simulation-labs: a TLA+ verification project

Simulation Labs (package `ghostpanel`) sends a swarm of simulated users
("personas"), each a browser session driven by a vision model, at a web page and
reports who completes the task and who gives up. A hosted deployment puts each
swarm on a durable job queue that worker processes drain; a local deployment runs
it in the server process and streams it to a browser; a CLI turns two runs into a
merge gate.

Paths below are relative to `src/src/ghostpanel/` unless they start with `src/`.

## 1. Inventory

| component | state it keeps | operations | talks to |
|---|---|---|---|
| job queue (`jobs/queue.py`) | rows of `jobs`: state, attempts, run_id, lock | `enqueue`, `claim` (one path per SQL dialect), `attach_run`, `mark_done`, `mark_failed` | API, workers, reapers: only through the table |
| reliability (`jobs/reliability.py`) | none (reads and writes `jobs`) | `reap_stuck_jobs`, `run_with_timeout`, `dead_letters` | queue rows, worker |
| worker (`jobs/worker.py`) | slots, the job each drives, its swarm task | `_worker_loop`, `run_job`, `_reaper_loop`, shutdown | queue, store, swarm, artifact storage |
| fair scheduler (`jobs/scheduler.py`) | last-served order of the projects | `FairClaim.claim` | `jobs` table (constructed only by its tests) |
| store (`store/`) | `runs`, `projects`, `accounts`, `members`, `jobs` | row operations in `session_scope` | everything persistent |
| swarm (`server/swarm.py`, `server/runs.py`) | one record per run: status, report, error | `start_run`, `_execute`, `_run_one`, `_narrate` | sessions, hub, report builder, voice |
| event stream (`server/ws.py`, `server/api.py`) | per run a ring buffer and a set of subscriber queues | `publish`, `subscribe`, `unsubscribe`, `ws_runs` | sessions and swarm publish, web viewers subscribe |
| session runner (`runner/`) | steps, history, simulated clock, outcome | `run`, `_loop`, `_enforce`, `is_stuck`, `is_success` | browser page, model, event sink |
| model engine (`engine/`) | token bucket, semaphore, the image sent | `RateLimiter.acquire`, `_chat` with retries, `decide` | model API |
| API routers (`server/routers/`) | none | runs, members, projects, accounts, artifacts | store, queue, billing |
| billing (`billing/`, `routers/billing.py`) | tier and subscription ids of a project | webhook, `set_project_billing`, `reconcile_*`, quota and seat counts | Stripe, store |
| rate limit (`auth/ratelimit.py`) | a window of timestamps per client | `allow`, `retry_after` | routers |
| gate and command line (`cli/`) | `sim.yml`, `report.json`, `baseline.json` and the CI outputs in one directory | `init`, `try`, `run`, `gate`, `baseline`, preflight, `compare`, exit codes | swarm, reports, CI |
| reports (`report/`) | none (pure) | build, insights, heat map, two HTML pages, JUnit | swarm, CLI |
| artifact storage (`storage/`) | files on a worker's disk, objects in a bucket | `put_dir`, `delete_run` | worker, retention |
| retention (`src/ops/retention.py`) | none | `run_retention` | store and artifact storage |
| web client (`src/web/src`) | live state of a run | `reduceEvent`, `useRunStream` | event stream |
| server support, authentication, voice, benchmarks, landing page, migrations | - | - | - |

What is hard in this system, and what makes each component correct:

* **Queue, reliability and worker.** Any number of processes share two tables and
  nothing else. A claim is one statement on Postgres and a SELECT followed by a
  guarded UPDATE on SQLite; every other write is a session that loads the row and
  commits later, without a version column or an owner check; the reaper takes jobs
  from workers that are alive because the lease (15 min) is shorter than the job
  timeout (30 min); a timeout cancels a slot at any await, also inside a commit.
  Correct means: one owner for each attempt; a DONE job has a report; a report
  stays; a dead letter has had its attempts; every job settles.
* **Swarm and event stream.** Personas publish concurrently, viewers join and leave
  at any time, the buffer is bounded. Correct means: a viewer sees the same final
  state whenever it joined, `run_finished` comes once and last, and when it comes
  the registry can serve the report.
* **Session.** A loop with three budgets (steps, simulated seconds, wall clock), a
  verified success signal, a loop detector and a policy handler that runs between
  its steps. Correct means: infrastructure failures never become a verdict on the
  page, a claimed success is verified, a success in the last step or second wins.
* **Billing.** Webhooks late, repeated, reordered or lost, a reconciler that decides on a row
  it read before it asked Stripe, and sessions that write only the columns that differ from what they
  loaded. Correct means: the columns of a tier stay together, and the tier ends up as Stripe says of the
  subscription that the row names.
* **Seats and quota.** A count, then an insert, in different transactions; the quota counts runs, which
  a worker creates later. Correct means: the limits are exceeded by what is open at a time and no more.
* **Fair claims.** Slots sort the projects by services that other slots have yet to mark. Correct
  means: a project that waits is overtaken a bounded number of times.
* **Retention.** Artifacts and rows are in two stores that no transaction spans, a sweep may die in
  between, and a baseline or a job may name a run that is being deleted. Correct means: a deleted run
  leaves nothing behind, and every run past its window goes.
* **Gate and reports.** Sessions that broke are excluded here and counted there; several views compute
  the same numbers on their own; a process may be stopped between two files. Correct means: only losses
  block a merge, an exit code can be traced to files, and all views say the same.
* **Model engine.** Personas share a limiter and a semaphore; calls are retried and cancelled at any
  await; a point is rounded and rescaled three times on its way back to the viewport. Correct means: a
  bounded overrun of the provider's budget, calls that end, clicks that land where they were aimed.

## 2. Modules

| module | what it is |
|---|---|
| `JobQueue` | the jobs row and what each operation writes to one row: pure operators |
| `Worker` | the processes around the jobs and runs tables: API, slots, reapers, clock, faults |
| `JobLifecycle` | abstract specification: what the queue promises of a job |
| `Worker_proofs` | the theorems about `Worker` and their proofs |
| `EventHub` | the hub of one run: replay buffer and subscriber queues, as operators that `LiveRun` makes part of its actions |
| `LiveRun` | one run in the server process: `_execute`, its sessions, the registry, the hub, the viewers |
| `LiveRun_proofs` | the theorems about `LiveRun` and their proofs |
| `Session` | one persona session: the loop, its budgets, the policy's request handlers |
| `Session_proofs` | the theorems about `Session` and their proofs |
| `Billing` | one project's tier: Stripe, webhook requests, the reconciler |
| `Entitlements` | seats and monthly runs: requests that count, then act |
| `FairClaim` | the claims of the slots that share a `FairClaim` |
| `History` | what is kept of runs: rows, artifacts, the baseline; the retention sweep |
| `Hosted` | composes these four: a project's tier is what its requests are allowed by, its jobs are what slots claim |
| `Tiers_proofs` | the theorems about `Billing` and `Entitlements` and their proofs |
| `Hosted_proofs` | the theorems about `FairClaim`, `History` and `Hosted` and their proofs |
| `Report` | from the results of sessions to the report and every view of it: pure operators |
| `RecordedDemo` | the two recorded runs that `sim try` replays |
| `Gate` | the `sim` commands in one directory: preflight, swarm, comparison, files, exit codes |
| `Gate_proofs` | theorems and proofs |
| `Rounding` | Python's `round`, used by `Report` and `PersonaAgent` |
| `PersonaAgent` | `decide` from the image sent to the pixel clicked: pure operators |
| `HoloClient` | the client that a run's personas share: limiter, semaphore, retries |
| `HoloClient_proofs` | theorems and proofs |
| `Lemmas` | what the proofs need of numbers, finite sets and sequences: minima, division, induction over naturals and finite sets, functions defined by recursion over a finite set |
| `MCWorker`, `MCLiveRun`, `MCSession`, `MCHosted`, `MCGate`, `MCHoloClient` | constants of the model-checking instances |

### How `JobQueue` and `Worker` correspond to the code

`job[j]` is a row of `jobs`: `locked_at` stands for `locked_by` and `locked_at`
(always written together) and holds the age of the lock in ticks; `run_id` is the
number of the attempt whose run is linked. `run` is the `runs` table: a run is named
by the ticket (job, attempt) it was created for, because each attempt that gets that
far creates one run with a new id. `started_at`, `finished_at`, `error` and `spec`
decide nothing and are left out. `pc[w]` is the await a slot is about to make,
`ticket[w]` its local `job`, `sess[w]` what `session.get` loaded, `swarms[w]` the swarm
tasks alive in the process (a swarm outlives the `run_job` that started it when that
is left before `await record.task_handle`), `snap[w]` the rows a sweep has read.

The ORM sends an UPDATE of the columns whose new value differs from the LOADED one.
`Flush` is this rule and it matters: a session that loaded QUEUED and writes QUEUED
changes no state column, whatever the row is by then. A row loaded for `mark_done`,
`mark_failed` or a sweep and its commit are two steps (`LoadJob`/`CommitMark`,
`ReapRead`/`ReapCommit`); `attach_run` and the writes to `runs` are one, since what they
write does not depend on what they read. `ClaimPostgres` is one step (`FOR UPDATE SKIP
LOCKED`), `PickCandidate` and `ClaimGuarded`/`LoseRace` are two. An await that is
cancelled or raises may have committed or not (`CommitOrNot`). `JobTimeout` cancels the
swarm only when it hits the await of the swarm's task. SIGTERM cancels the slots and
`CancelledError` passes through `run_job` and the safety net, so a shutdown is a `Crash`.

`JobLifecycle` has five steps: submit, claim (of a queued job only, counting), report,
complete (a reported job only), give back (a job with attempts left, or with its attempts
used up as dead letter). It does not promise that DONE is final, because the code does
not: a late session may queue a finished job again.

### How `EventHub` and `LiveRun` correspond to the code

`EventHub` holds what `WebSocketHub` keeps for one `run_id`, and `log`, a history variable
with every event published. No method of the hub awaits, so `Publish` and `Subscribe`
happen inside a step of their caller. `Take` is `queue.get` returning, with `unsubscribe` if the
endpoint then leaves.

`exec` is the await `_execute` is at: the probe of the target, the gathered sessions, the exit
interviews. `Announce` holds `set_report` and the last event, which no await separates
(the hub's `publish` is a coroutine that never suspends). `stage[p]` is where a session is,
as far as others can tell: whether it has a context, has sent `persona_started`, is in its
loop, is closing; `Session` has what happens inside. `RunnerRaises` is the exception before
the runner's `try`, which leaves no event. `shields[p]` counts the policy handlers of a session
that await the abort of a request: each is a task of its own and may resume after the session,
and even after the run. An event carries what the web reducer tells apart: its kind, its persona,
the outcome, whether it is a policy notice; `abandoned` stands for the three verdicts, which
the grid shows alike.

`conn[v]` and `live[v]` are a viewer's socket and what `reduceEvent` has made of the events so
far. A `Send` is a delivery: the network between the two is in order and is not modelled apart
from its end. A viewer that has gone (`Leave`) is noticed only when a send to it raises, and a send
may also still succeed (`SendFails`).

### How `Session` corresponds to the code

`pc` is the await that `run` is at, `n` is `state["current_step"]`, `sim` counts simulated time
in units of `_THINK_TIME_S`. `history` holds the captions and whether the no-change note was added.
Captions are kinds of actions: two clicks within the radius of `is_stuck` share a `Spot`.
The reason of a verdict, the head of the loop and the test of its range belong to the step that
reaches them, since no await lies between. `Look` is `is_success`: True, or False, also when
the predicate raises; always False when there is no predicate, because the default list of
selectors is empty. `Deny` and `Shield` are `_enforce` before and after the await of
`route.abort`: in between the loop may take any number of steps. `WallCap` is the cancellation
by `wait_for`, at any await of the loop.

### How the hosted modules correspond to the code

`Billing`: `project` is the row; `ses[p]` is what a request or the reconciler has at hand, as in `Worker`:
a session loads the row (`Load`) and writes later (`Commit`) only the columns whose new value differs
from the loaded one (`Column`). `Webhook` verifies nothing but the event: signature and parsing are
before it. `Read` and `Ask` are the reconciler's two reads, of the row and of Stripe; its answer is
compared with the row as it was read. Stripe itself is external: it changes a subscription's status and
puts an event on its way, which may be lost, repeated and overtaken. Projects share nothing.

`Entitlements`: a request reads the tier with its credentials (`AskSeat`, `AskRun`), then counts
(`CountSeats`, `CountRuns`), then acts (`AddMember`, `Enqueue`). A negative limit is no limit (`Within`);
only the tier "audit" has one, which nothing but an operator gives a project, and the two tiers of the
model have limits. `waiting` is the number of jobs that no
run counts for yet; `peak` and `retried` are history variables that the bound on the quota speaks of.

`FairClaim`: `Candidates`, `Order`, `Take`/`Pass` and `Mark` are the query, the sort by last service, the
walk over the projects and the mark after the commit; `served` and `serve_seq` are the counters of the
code, `_last_served` and `_serve_seq`. `overtaken` is a history variable: how many jobs of each project
were taken since another one waits.

`History`: `row`, `disk`, `bucket`, `named`, `baseline` are the tables and stores by run. `Select`,
`DeleteArtifacts` and `DeleteRows` are the sweep; `LeaveArtifacts` is a deletion that the disk or the bucket
refuses, which the sweep takes for one that was done, and `missed` what it left; with `ForeignKeys` the one transaction of `DeleteRows`
is refused as long as a job or a baseline names a run of it. `SweepDies` is a crash in between. A run is
deleted as a whole or left as a whole: no property tells how much of one is left.

`Hosted` puts the four together and bounds the inputs: `left` is a budget for each kind of input, taken
from one of `Mixes`. The tier of a request is the tier of the project then; an enqueued job is offered
to the claims of its project; a run that is created counts.

### How `Report`, `RecordedDemo` and `Gate` correspond to the code

A result is the outcome of a session, its steps, where it died and at which pixel. `Build` is the report
builder. `Insights`, `Deliverable`, `RenderHtml`, `JunitXml` and `PrintSummary` each recompute from the
report what their code recomputes, never from one another: that they agree is `ViewsAgree`. Rates are
pairs of numbers and credits multiples of `Unit`, so that comparisons are exact (the code uses floats:
0.8 - 0.2 may differ from 0.6 in the last bit).

`Gate` runs one process at a time. `phase` is where it is; what a command does between two writes of
files is one action. `Preflight` is the list of checks in their order, on a record of what the
invocation passes and finds. `Swarm` ends in any of `Sessions`. `Stop` is Ctrl-C or a failed write at any
phase: the file being written is torn. `--from` names the report.json of the output directory or a file
that is not in it, and `--baseline` may name one of those too (`Elsewhere`): a report that nothing here
writes, no file, or a torn one. `RecordedDemo` is the cassette of `sim try`: how its sessions
ended, and the survival, heat and rate recorded beside them, which `ReplayHonest` compares.

### How `PersonaAgent` and `HoloClient` correspond to the code

`Sent`, `Denormalize`, `ScaleBack` and `Jitter` are the functions of the same purpose; `ParseAction`
keeps of the text of a reply whether it names a point, lacks one, is unreadable or needs none, which is
all that its forms differ in. `Ideal` is what a model answers that looks at its target and answers on
the grid of 1000, as the prompts ask.

In `HoloClient` time is ticks and tokens are grains. `TakeToken` and `AwaitToken` are the two ways
through the body of `acquire`; the lazy refill of the code gives the same tokens as the refill in
`Tick`, because it is linear and capped. `queue` is the FIFO of `asyncio.Semaphore`; leaving it through a
cancellation or the end of the `async with` wakes the next, which is `Start`. A failed request has given
its permit back when it sleeps (`Retry`).

There are two layers of retries. `AsyncOpenAI` is made without `max_retries` (`engine/holo_client.py:401`),
so the SDK sends a request that failed with 408, 409, 429, 5xx, a lost connection or a timeout again, up to
twice, before `create` raises. `Resend` is that: on the token and under the permit of the call. `resent`
counts them within a `create`, `Resends` is the SDK's `max_retries`. The SDK's pauses in between belong to
the time in flight, which has no length here. `GivesUp` says when `create` may raise: after a lost
connection only when no resend is left; after an answer at any time, since which statuses are sent
again, and whether a provider's `x-should-retry` forbids it, is left open.

`credit` is not in the code: it is the provider's count of the
same budget, against which every HTTP request that leaves is held, with `Sends == 1 + Resends` times the rate
and burst of the limiter, since one token may become so many requests. `said[p]` keeps the reply and the draw of
the tremor, and `Action(p)` is what `decide` makes of them.

## 3. Runs

| run | instance | question |
|---|---|---|
| `worker_sqlite` | SQLite, 1 job, 2 workers, 1 reaper, 2 attempts, 1 death | the safety properties, the inductive invariant and the refinement |
| `worker_live` | Postgres, 1 job, 2 workers of which one has no model client, 1 death, 1 raised await | every job settles |
| `worker_attempts` | as `worker_sqlite`, Postgres, no faults | violation: tries are not capped at `max_attempts` |
| `worker_runs_closed` | same | violation: a timed-out job leaves its run RUNNING |
| `live_run` | 2 personas of 1 step, 1 viewer, a buffer of 5, 1 denied request | what a viewer sees, whenever it joins; the end of the run; the report |
| `live_ends` | 1 persona of 2 steps, 1 viewer, a buffer of 3, 1 denied request | a viewer is told of the end, endpoints return |
| `session` | 4 steps, 3 kinds of action, 2 denied requests | the inductive invariant; success is confirmed, verdicts are earned, notes and notices are kept, the session returns |
| `hosted` | six mixes: a subscription, seats, quota, retries, claims, a sweep with a refused deletion; no foreign keys, S3 | what tiers, seats, quota, claims and stored runs come to; the tier ends up in sync; old runs go |
| `retention` | the sweep, with foreign keys | violation: no old run goes as long as one of them is named |
| `gate` | the bundled roster, 19 ways for a swarm to end, 13 invocations, 3 bars, 2 margins, a report kept elsewhere | what blocks a merge, what an exit code means, all views of all reports |
| `gate_skew` | same | violation: an error in the baseline makes the gate fail with nobody lost |
| `engine` | five mixes: 3 personas racing for one permit, 2 without a semaphore but with every error and cancellation, 1 resend, every pixel of two axes of 4 viewports, replies of every kind, a scripted backend | overrun of the budget, clicks, calls that end |

Each property also fails on a mutant of the code (PROJECT.json, "mutants"): the
definitions whose names end in the mistake they make, next to the one they replace.

**Bounds.** Two workers are what every race in this protocol needs (claim against
claim, late commit against new owner); the second worker's process also runs the
reaper, which is any process's reaper: it shares no memory with a slot. `MaxAttempts = 2`
is the least value with both a retry and a dead letter. `Lease = 0` and `Timeout = 1`
keep the order of the real constants (900 s < 1800 s): a lock has expired when its age
exceeds the lease, so one tick is enough for both. The age of a lock stops counting once
it has expired and the timer once it is due: no guard tells later values apart. Attempts
have no bound of their own: `RetryOverrunBounded` bounds them, which is also why the
state space is finite. One death and one raised await are enough for each place they can
hit; `worker_sqlite` takes the death and `worker_live` both. The proofs have none of
these bounds.

In `live_run` a run without denied requests publishes up to 8 events, so a buffer of 5 evicts
`run_started` and more; the real size is 2000. Two personas are needed for one to speak while
another ends; one viewer is enough, because a viewer writes only its own queue: a second one
would be compared with the log in the same way. The two personas are interchangeable
(symmetry; no liveness is checked in that run). In `session` the detector's window of three and the
action after it need four steps. `Deadline = 4` and actions of one or two units make patience
run out on the second, third or fourth action; two denied requests are needed for a step to have
a second one.

In `hosted` a mix is a budget of inputs for one of the parts, since parts that share no variable need
not be interleaved: `Subscribing` has three changes at Stripe, a lost, a repeated and an aborted webhook
(two subscriptions, one handler, one reconciler: what the handler does between the reconciler's
read and write is what can go wrong); `Inviting` and `Running` change the tier between a request's
steps, with two requests, so that both pass the count; `Retrying` adds a second attempt and a new month;
`Queueing` has seven jobs, five at a time, of two projects and two slots, so that each slot serves twice while
the other has yet to mark; `Sweeping` has two runs, a baseline set, a sweep that dies and a deletion that is refused. Limits are 1 and 2: a
limit, and one that is larger by an upgrade.

In `gate` the personas, their channels and their steps are those of `src/personas`. Three of them
(an unimpaired one, two impaired) end in combinations of success, stuck, out of steps and two kinds
of errors, in which one of the impaired at most gives up; the demo's runs and two runs of the whole roster (all broken; all out of steps but one)
are added. `sim` may be called any number of times: the state is finite because files hold one of these
reports.

In `engine` a request is two grains, a tick refills one, the bucket holds two requests as the code's
largest capacity does, and a call has three attempts (four in the code): a retry after a retry is
what a third attempt adds. The back-offs are 1 and 2 ticks. One resend for each call is enough for resends of
one call between the requests of others (the SDK's two are a constant like any other for the proof). Racing personas have one call each, or two
each when there are two personas. The viewports are the roster's two, a wide one, and one that is a pixel
wider than the image sent. Points aimed at are all pixels of the two middle axes: the axes are computed
independently.

**Deadlock** is checked in the worker runs; the clock can always tick. A run and a session are over
at some point and then nothing more happens, so the runs of
them do not check it; `live_ends` and `session` check instead that everything ends. Nor does `hosted`, where
inputs run out. `gate` and `engine` check it: a command can always be given, the clock always ticks.

**Fairness** (`worker_live`). Weak fairness of each slot (asyncio runs a task whose
await has completed, and the loop polls every 2 s), each reaper (a timer of 60 s), the
job timeout (`wait_for`), the clock, and the restart of a dead process (fly.toml keeps
its machines running; docker-compose.yml sets no restart policy for the worker, and there
the property needs an operator). Swarms are not fair: a hung page is the case the timeout
is for. Deaths and raised awaits are bounded, hence finitely many. In `live_ends`: `_execute`, each
session, each policy handler and each endpoint (asyncio runs a ready task; a session ends because
Playwright gives a navigation and an action a timeout and `wait_for` caps the loop, which is what
`SessionEnds` shows; a send raises or returns). No fairness on `Connect`, `Leave` and `Deny`. In
`session`: `page.goto` (which has a timeout), the timer of `wait_for` and the closing of a context; the
model, the page and the policy handlers are not fair. That `context.close` returns is an assumption:
the code gives it no timeout. In `hosted`: requests
and webhook sessions go on (asyncio); the reconciler and the sweep are scheduled again and again (cron;
nothing is assumed of Stripe's deliveries, of users or of crashes, which are bounded). In `engine`: the
clock, the tasks that are ready, and that each request ends in an answer, an error or a resend (`Goes`),
because the HTTP client has a timeout and the resends of a call are counted; no session need be cancelled and no persona need begin.

## 4. What is proved

`Worker_proofs` proves, for any finite sets of jobs and workers, any attempts, lease and
timeout, both dialects and any number of faults, from `JobQueueAssumption` and
`WorkerAssumption` alone:

* `TypeCorrect`: `Spec => []TypeOK`;
* `Invariance`: `Spec => []IInv`, and from it `OneOwnerPerAttempt`, `DoneIsReported`,
  `DeadLettersExhausted`, `RunLinksValid`;
* `ReportsKept`: `Spec => ReportKept`, an action property;
* `LifecycleRefinement`: `Spec => Lifecycle!Spec`.

The four state properties are not inductive: whether a slot may write FINISHED to a run,
or DONE to a job, depends on where it is and for which attempt. `IInv` adds this
(`SlotInv`): the number of a slot's ticket is between 1 and the attempts of its job; the
run of the ticket does not exist before `create_run`, is RUNNING while the slot drives
it, and is FINISHED when the slot is about to mark the job done; a loaded row is never
ahead of the row. The last, with the same for a sweep (`SnapInv`), is what makes a stale
decision to dead-letter safe: attempts only grow. `AttemptOwnedOnce` is inductive because
a claim takes the number attempts + 1, which no ticket has; it is used in turn to show
that no other slot writes the run a slot relies on. The proof has one lemma per action.

`LiveRun_proofs` proves, for any personas, viewers, buffer size, steps and denied requests, from
`EventHubAssumption` and `LiveRunAssumption`:

* `TypeCorrect`, and `Invariance`: `Spec => []IInv`;
* `BacklogsAreSuffixes`: a subscriber is owed a gapless end of the log. Lemmas about suffixes
  (appending to both, dropping the first) give one lemma for each operation of the hub;
* `NothingFollowsTheEnd` and `ReportsAreReady`. Neither is inductive: `EndIsRecorded` adds that no
  session is under way before or after the gathering, and that an event or a viewer that
  says the run is over implies that `_execute` is. That a viewer cannot hear of the end earlier uses
  `QueueIsSuffix`: what is taken from a queue is in the log.

`Session_proofs` proves, for any kinds of actions, any budgets, with and without a success predicate,
and any number of denied requests, from `SessionAssumption`:

* `TypeCorrect`, and `Invariance`: `Spec => []IInv`;
* `SuccessesAreReal`, `VerdictsAreEarned`, `ShieldsAreOnce`;
* `NotesAreKept`: `Spec => NoteIsKept`, an action property.

`VerdictIsEarned` is not inductive: that a session out of steps is not also out of time follows from
where patience is looked at, and that the page had not confirmed the task from where the loop
leaves. `IInv` adds this (`InTime`: within the loop, outside of the look after an action, the
clock is below the deadline, and a page seen to confirm the task has ended the loop) and how many
records and entries each await goes with (`Counted`), without which a session could be out of
steps with fewer records. There is one lemma for ending the loop, one for going on, one for the next
pass, and one for each action on top of these.

`Tiers_proofs` proves, for any subscriptions, handlers and reconcilers, `BillingInvariance` and
`PaidTogether` (`TeamHasPrivate`): sessions that cross write their columns one by one, and the two stay
together because every row loaded or wanted by anybody has them together (`PairsTogether`) and a column is
left out only when the loaded row agrees with the wanted one on it, hence on both. It also proves
`SeatsBounded` and `QuotaBounded` for any users, requests, limits and number of jobs. Both bounds are
inductive once they count the requests that have passed their check: a request that passes adds one to
the open requests, of which there are at most as many as requests.

`Hosted_proofs` proves, for any tenants, slots, runs, workers, requests and any mix of inputs and faults:

* `NothingLeft` (`DeletedLeavesNothing`), with and without foreign keys, on a disk or in a bucket. Its
  invariant (`HistoryInvariance`) says that a stale run is over, that a sweep works on stale runs alone, and
  that what it has deleted of them, but for what a refused deletion has missed, is not stored and does not
  come back: a worker that may still write
  belongs to a run that is not stale.
* `NoTenantStarves` (`BoundedOvertaking`): with n slots a waiting project is overtaken by each other one at
  most n(n+1)/2 times. A slot that sorts may not see services that others have yet to mark, and a service
  of the waiting project that is marked late puts it behind again. `FairInvariance` bounds what a project
  has suffered from another one together with the slots that may take a job of that one yet (`MayTake`) by
  k(k+1)/2, where k slots have no service of the waiting project to mark: marking one makes k larger by
  one and lets at most k + 1 slots pass once more.
* `PartsImplemented`: every step of `Hosted` is a step of each of the four specifications it is composed
  of, or leaves the part's variables alone. Hence what is proved of a part holds of the product: `HostedSafe`
  and `HostedTyped`.

`LiveRun_proofs` proves further, from the same assumptions and that a run has a persona:

* `GridsMatchReports` (`GridMatchesReport`). `StoryInv` says of the log that the notice of an ended session
  comes after the session, says how it ended and is followed by nothing of that persona but a late step,
  and that a session that came to anything is announced (`LogStory`); and of each viewer that whatever its
  tiles do not show of this yet is in its queue (`GridTells`).
* `LateViewersCatchUp` (`JoinedLateSameGrid`). `SameInv` says that a viewer's grid, with its backlog drawn, is
  the grid of the whole log or has no tiles, because `run_started` has left the buffer. That is about a fold
  of `reduceEvent` over a sequence; the lemmas about it (a fold over a longer sequence, a fold without
  `run_started`) are proved by induction over sets of positions.

`Worker_proofs` also proves `RetriesBounded` (`RetryOverrunBounded`): a job has fewer attempts than
`MaxAttempts` and the slots and sweeps of the system together. `OverrunInv` counts those slots and sweeps
that loaded the row before its last allowed attempt was counted (`Early`, `EarlySweeps`), and whether the
job is queued (`Waits`): only they can send it back once more, since whoever loads the row later sees the
attempts used up.

`Gate_proofs` proves, for any roster, any ways for sessions to end, any bars and margins:

* `GateBlocksLosses` (`BlocksLossesOnly`). Without errors in the baseline both rates are over the same
  personas, so they compare as numerators (`SameWhole`), these as the cardinalities of the sets of those
  who finished, and a smaller set means that somebody was lost.
* `ExitsTraced` (`ExitTraceable`). Its invariant says for each phase what is on disk by then: a verdict is
  in a CI output only after `Judge`, which runs only on a whole report: the one that `Save` or `Load` found
  in the directory, or the one elsewhere that `--from` names.
* `GateTyped`, and `VerdictsTraced` (`VerdictTraceable`), the above and `ReplayHonest`: that the recorded
  survival, heat and rate of both demo runs are what the report builder makes of their sessions is
  computed in the proof (`WorkingIsBuilt`, `BrokenIsBuilt`), so is the red gate between them.
* `ViewsAlwaysAgree` (`ViewsAgree`), if a swarm has fewer than a hundred personas, which follows from a
  roster of fewer than a hundred (`SmallRoster`; the bundled one has six). All counts come down to the two
  sets `Finished` and `Scored`, through a bijection between personas and the rows of the page; the curve
  never rises because who is alive at a step was alive at the one before. The score is a sum over a set:
  it is n full credits if nobody gave up, and at least half a credit less otherwise, which rounds to less
  than 100 as long as n < 100. With a hundred it does not: see section 6. The clusters of the page are a
  fold over its rows, of which the proof needs that they are made of rows of those who gave up.

`ReportAssumption` and `GateAssumption` say of the constants that the roster is a finite sequence whose
personas have step limits that divide the unit of credit, that bars and margins are numbers, that sessions
are of personas of the roster and end as the runner ends them (a success has died nowhere,
`runner/session.py:352`), that the marks of a missing and a torn report are not reports, and that a report kept
elsewhere is one a swarm of `Sessions` has, is missing or is torn.

`HoloClient_proofs` proves, for any personas, attempts, permits, tokens, rates and viewports:

* `OverrunIsBounded` (`RateOverrunBounded`): with the HTTP requests counted that the SDK sends again, a run is
  never ahead of `1 + Resends` times the limiter's budget (three times it, for the SDK's two resends) by more
  than one call for each persona that is not waiting for a permit. In a single budget that holds only without
  resends. It is not inductive by itself: `RateInv` adds the tokens the bucket still holds, each of which is
  covered by the provider's credit or by a persona that is not waiting, and the resends that the calls in
  flight have not used (`Spare`), each of which is paid for already.
* `ClientTyped` (`TypeOK`).
* `ClicksNear` (`ClickNearTarget`), under `EveryViewFits`: a pixel of the image sent leaves room for the
  grid and for a pixel of the screen, which holds for every screen up to twice as wide as the image
  (`TwiceAsWideFits`; the roster's screens are smaller than the image). Its lemmas bound what a division
  that rounds half to even is off by, one for each of the three roundings, and add the bounds up.

Folds and sums (`FoldLeft`, `MapThenSumSet`) are recursive functions in the community modules. The
induction theorems of the library take an operator as a parameter, which these provers cannot instantiate;
`Lemmas` therefore has induction over a SET of naturals (`Induct`) and over a SET of subsets (`SetInduct`),
and the existence of a function that is defined by recursion over the subsets of a finite set (`Recursion`),
each proved from the well-foundedness of strict inclusion between finite sets.

## 5. Only model-checked

Every invariant of the passing runs is proved. `IInv` of `LiveRun` contains its type invariant and is checked in
its place, that of `Session` was dropped from its run once proved.

Not proved: liveness (`EventuallySettled`, `ViewerSeesEnd`, `EndpointsReturn`, `SessionEnds`,
`EventuallyInSync`, `StaleRunsGo`, `CallsEnd`), since no prover here does liveness under fairness. And the
violations, which need no proof.

## 6. Disagreements found

* `worker_attempts`: the comment at `jobs/queue.py:149` says retries are capped at
  `max_attempts` total tries. `mark_failed` decides on a stale count and puts back a row it
  no longer owns, so a late one gives the job another try. By `RetryOverrunBounded` there
  are at most as many extra tries as sessions open at the same time.
* `worker_runs_closed`: `run_job` says it marks the run FINISHED or ERROR itself
  (`jobs/worker.py:92`); after a timeout nothing does, and the run stays RUNNING.
* `retention`: the sweep is said to delete rows with their artifacts (`src/docs/data-policy.md:44`,
  `src/ops/retention.py:4`), but on a database with foreign keys the one transaction for all rows is refused
  as long as a job or a baseline names one of them: the artifacts are gone and no row ever is.
* `gate_skew`: the exclusion of errored personas is there so that an error "can't skew the delta"
  (`cli/regression.py:71`), but only errors of the current run are excluded: a persona that broke when the
  baseline was taken counts against every later run.

Also seen while reading, kept as the code has it where it is modelled:

* Session: `is_stuck` is said to look at the last actions (`runner/detect.py:35`), but the action just
  decided is not in the history yet: a persona that breaks a loop of three is ended before it acts, and
  the reason names the new action. A denied request that resumes late is noted on the step before.
* Grid: an error of a session is shown as abandoned (`reduceEvent` knows success and the rest).
* Queue: the lease is shorter than the job timeout, so the reaper takes jobs from live workers. With S3 a
  worker's local copies are never swept; `LocalArtifactStorage.put_dir` copies a directory onto itself.
* Billing: a late deletion of an old subscription overwrites `stripe_subscription_id`, and the reconciler
  then follows the old one; it also resets a project of another paid tier that has a subscription. The
  quota counts runs and not queued jobs, and retention with a short window deletes rows that it counts.
  `reconcile_all` stops at the first project that raises. Signup is two transactions.
* Retention: what `rmtree` cannot delete is ignored (`src/ops/retention.py:85`) and the errors that a bucket
  reports for single keys are not read (`:99`): the row goes all the same (`LeaveArtifacts`), and with it what
  the artifacts would be found by. `DeletedLeavesNothing` therefore speaks of what the store did not refuse.
* `completion_trend` returns the oldest 30 runs (`store/repo.py:348`); two crossing `set_baseline` may
  leave the run of one with the rate of the other.
* Gate: `sim baseline` saves any usable run as "last green run" (`cli/config.py:120`), and `gate` itself never
  writes one, although it announces to seed it; an explicit `--baseline` that does not exist is a first
  run; `--fail-under` is parsed after the swarm ran and its range is not checked; `max_personas`, the
  "hard cap" of `src/docs/ci.md:118`, is not applied to `personas: auto`; CI outputs of an earlier process
  stay beside a later failure.
* Reports: `steps_survived` is a 0-based step where it is a failure's and a count where it is a
  success's; the heat map of the builder has the pixels of errored sessions (new dead zones) while the
  page leaves them out; the terminal summary shows a count of all personas beside a rate without the
  errored ones; the finding about rage clicks counts errored personas; `_cluster` is said to be
  single-linkage but never merges two clusters, so it depends on the order; `insights.ts:376` lacks a
  condition of the survival series of `insights.py`; a leaderboard counts errors as losses. The score is
  rounded: with a hundred personas, all of whom succeed but one that comes half the way, it is 100 although
  somebody gave up (`report/insights.py:397`).
* Engine: a token is taken before the wait for the semaphore, so that requests held back leave back to
  back: with one permit (`engine/gemini_client.py:26`: "Serialize to ONE in-flight call so the shared RPM
  limiter can pace") `credit >= 0` does not hold even without resends, `RateOverrunBounded` does. The limiter is a process's: each
  worker has one. And it paces calls of `create`, not requests: the SDK below sends one up to three times on
  one token, back to back under the permit (`engine/holo_client.py:401`), although one limiter is shared "so
  the whole swarm respects a single budget" (`:69`). An error whose text contains "429" is retried as a rate limit whatever its status is.
* Others: `server/metrics.py` adds up cumulative histogram buckets twice; `auth/ratelimit.py` truncates the
  seconds of `Retry-After`.

## 7. Not modelled

Layout and wording of reports, pages and terminal output, prompts, what the perturbations make of an
image, voice, benchmarks, schema migrations, metrics and logging: sequential code whose results nothing
else decides on. Authentication: stateless hashing and signing. The request rate limit: a window per
client in the memory of one process, in front of everything and shared with nothing. The deletion of
old runs from the registry, the columns a baseline copies and the loop of `reconcile_all` over projects
(the hazards at `store/repo.py:309` and `billing/reconcile.py:160` have no property for this reason). More
than one slot per process in `Worker`: the slots share no variable, so two slots are two workers
there, except that they die together.

## 8. Plan

All modules of the plan are there and every invariant that a run checks is proved. What could be added, in
this order: that what `LiveRun` shows of a session is what `Session` does, as a refinement; the copied
columns of a baseline in `History`; the request rate limit.
