# A TLA+ model of Drev CI

Drev CI runs pipelines of container jobs: `drevd` accepts a pipeline over HTTP or a GitHub
webhook, queues it in memory, and a pool of workers executes its jobs as a DAG of goroutines,
each in a Docker container with a workspace of its own. A store (SQLite or PostgreSQL) holds the
status of every run and job; a dashboard and a command line client watch it. This directory
models that system in TLA+, checks the model with TLC and proves its core with TLAPS.

## 1. Inventory

| Component | Source | State | Operations | Talks to |
|---|---|---|---|---|
| Scheduler | `internal/scheduler` | in-degrees, done channels, in-memory job statuses, errgroup | `RunPipeline` | store, workspace, runner |
| Worker pool | `internal/pool` | goroutines, context | `Start`, `Stop`, `processJob` | queue, scheduler, store, notifier |
| Queue | `internal/queue` | a buffered channel | `Enqueue`, `Drain`, `Depth` | handlers, pool |
| Store | `internal/store` | rows of runs, jobs, organisations, usage | create, update, read, `ResetGhostRuns` | everything |
| Runner | `internal/runner/runner.go` | Docker containers | `RunJob` | Docker |
| Reconciliation | `internal/runner/reconcile.go` | labelled containers | `ReconcileOrphans` | Docker, store |
| Limits | `internal/runner/limits.go` | none | parse and resolve limits | runner |
| Workspace | `internal/workspace` | a directory tree per run | `Create`, `Clone`, `CreateJobWorkspace`, `Cleanup` | file system |
| Streamer | `internal/streamer` | a log file per run | `Writer`, `Reader`, `Tail` | handlers |
| API, webhook | `internal/api`, `internal/webhook` | none beyond the request | trigger, list, get, logs (SSE), stats, push | store, queue, streamer |
| Notifier | `internal/notify` | none | Slack and Discord, one request each | HTTP |
| Parser | `internal/parser` | none | parse, validate, `detectCycle` | handlers |
| Auth | `internal/auth` | API keys, generated secrets on disk | middleware, `PersistEnvSecrets` | store, file system |
| Daemon | `cmd/drevd` | process life cycle | recover, start, shut down | all of the above |
| Client | `cmd/drev` | none | trigger, poll, logs | API |
| Dashboard session | `dashboard/lib/auth-server.ts`, auth routes, `proxy.ts`, login page | failed-login counters, the session cookie, each tab's page and pending requests | login, logout, page proxy, 401 handling | API proxy |
| Dashboard API proxy | `app/api/v1/[[...path]]`, `lib/server-config.ts` | settings cached from `.env` files | forward, resolve settings | API |
| Log client | `dashboard/lib/api.ts`, `LogViewer.tsx` | lines, retries, subscriptions | `streamLogs` | streamer, through the proxy |
| Run page | `app/runs/[runId]/page.tsx`, `lib/timeline.ts`, `JobTimeline.tsx` | run, jobs, error, clock | poll, retry, chart | API proxy |
| Runs page | `app/runs/page.tsx`, `lib/runs-filter.ts` | rows, controls, query string | poll, filter, link | API proxy, router |
| Overview page | `app/page.tsx`, `lib/overview-metrics.ts` | statistics, runs, fallback data and flags | poll, fall back, retry | API proxy |

How they interact: a handler writes the run's row and its jobs' rows, opens the log file and sends
to the queue; a worker receives, calls `RunPipeline`, writes the verdict once more and starts the
notification. Handlers, workers and start-up recovery share the store without a lock; workers
share one context, which shutdown cancels. Within a run, goroutines share the done channels, the
in-memory statuses and the errgroup context.

What is hard, and what makes each component correct:

* **Scheduler.** Goroutines, channel closes, row writes and two nested contexts interleave; any
  store or Docker call may fail and most errors are dropped. Correct if jobs start after their
  parents and from the right files, the run is reported once, truthfully and after the last job,
  the tree outlives the jobs, and every run ends.
* **Pool and queue.** A worker may pick a job although it has been cancelled; the queue fills up
  and dies with the process. Correct if a run has one owner, runs at most once, and shutdown ends.
* **Store.** Updates have no guard on the status they overwrite and recovery is two statements.
  Correct if terminal rows stay, and recovery settles what a crash left.
* **Handlers.** Several writes before the enqueue, each of which may fail. Correct if an accepted
  run is never lost and a refused one never runs.
* **Runner, reconciliation.** Containers survive the daemon; removal may fail. Correct if nothing
  of a dead run keeps running and nothing unmanaged is touched.
* **Streamer and log clients.** Three loops at different speeds (writer, tail, status poller), then
  a client that reconnects. Correct if the viewer follows the log, a
  finished one arrives (all but its empty lines, which are never sent), and the client ends once.
* **Notifier.** One channel's failure cancels the other's request in flight through the shared context.
* **Parser.** Validation and scheduler must agree on what a cycle is.
* **Dashboard session.** A counter read before an await and written after it, in several attempts at
  once; settings that are read again at every request; redirects from three places. Correct if the
  limiter lets no more than the limit through, nobody is locked out for ever and redirects end.
* **Dashboard pages.** Polls overlap and each answers for another moment; a page stops polling by what
  one answer said. Correct if the last thing shown was read after the end, and what is derived from it
  (chart, cards, averages) agrees with it and with the daemon.
* **Client poller.** A timeout racing an answer; the first error ends it.

`PROJECT.json` lists the hazards at their lines with the properties that cover them.

## 2. Modules and plan

| Module | What it is | Status |
|---|---|---|
| `RunStatus` | the statuses a row can hold | done |
| `DagRun` | the abstract promise of `RunPipeline` | done |
| `Scheduler` | one run in full detail; implements `DagRun` | done |
| `MCScheduler` | the pipelines and directories TLC runs it on | done |
| `SchedulerProofs` | theorems about `Scheduler` | done |
| `Daemon` | start-up, handlers, queue, pool, shutdown, crash | done |
| `DaemonProofs` | theorems about `Daemon` | done |
| `RefinementProofs` | `Scheduler` implements `DagRun` | done |
| `LogStream` | log file, `Tail`, SSE, `streamLogs` with its reconnects, the viewer | done |
| `LogStreamProofs` | theorems about `LogStream` | done |
| `Timeline`, `RunPage`, `MCRunPage` | the chart's layout; the page that polls a run | done |
| `RunPageProofs` | theorems about `RunPage` | done |
| `OverviewMetrics`, `Overview`, `MCOverview` | the numbers, computed in Go and in TypeScript; the page that polls them | done |
| `OverviewProofs` | theorems about `Overview` | done |
| `RateLimit`, `Login`, `MCLogin` | one entry of the limiter; tabs, proxy, login and logout, settings, time | done |
| `LoginProofs` | theorems about `Login` | done |
| `RunsFilter`, `RunsPage`, `MCRunsPage` | one row and one query string; the page with its rows, controls and URL | done |
| `RunsPageProofs` | theorems about `RunsPage`, its sorted list, its link and its cards | done |
| `Reconcile` | containers a crash leaves behind, with recovery | next, 1 |
| `Notifier` | two senders, shared cancellation | 2 |
| `Dag` | Kahn's algorithm and `detectCycle` against reachability; limits | 3 |
| `StoreReads` | the multi-query reads against concurrent writes | 4 |
| `Poller`, `EnvSecrets` | the command line client's poller; the daemon's generated secrets | 5 |

`Scheduler` and `Daemon` meet in `RunStatus` and in processJob: `Daemon` replaces what happens
inside `RunPipeline` by its effect on rows. The abstraction is deliberately loose (its jobs move
in any order), so what `Daemon` shows does not depend on what `Scheduler` shows. The dashboard's
modules meet the daemon in what it answers: `RunPage` takes from `Scheduler` that no job starts after its run
has been reported as ended, and from `Daemon` that a row left behind may still be failed by a recovery;
`LogStream` contains the daemon's half of the stream, and `OverviewMetrics` holds `GetRunStats` next to the browser's version of it.

## 3. Scheduler

One run from the moment a worker holds it. `main` is the program counter of the worker through
`processJob` and `RunPipeline`; `pc[j]` that of job `j`'s goroutine; the other variables are the
rows, the channels, the in-memory map, the containers, the tree and the content of the job
directories. A step is one store call, one Docker call, one channel operation or one file copy,
because that is where other goroutines can get in between.

* **Contexts.** `ctxDone` is the worker's context, `EgDone` the errgroup's. Every call is made with
  the context the code passes: the job's `running` row with the errgroup's, the final rows with
  `context.Background()`, the verdict with the worker's.
* **Failing calls.** At most `MaxFaults` calls on the store or on Docker's removal fail
  (`Fault`); refusals by a cancelled context do not count. Failures the code has a path for
  (clone, workspace copy, container start, exit code) are unbounded choices.
* **Select.** `AwaitDependency` has both alternatives of the select, with no preference.
* **Data.** A directory holds the set of its writers (`Checkout` for the source), which is what
  inheritance and isolation are about. `Dir` maps job names to cleaned names. Env merging, log text and
  images are left out. The tree is what a directory *holds*; permissions and symlinks are left out.
* **Topological order.** `Sortable` says that one exists; that Kahn's loop finds it is planned (`Dag`).
  The order in which goroutines are started does not matter to the model: all are started before any is waited for.
* **Left out.** The error for a job without a row (`scheduler.go:147-150`): the handlers create a row for
  every job of the pipeline before they queue the run, and no code deletes one.

Run `scheduler` (217 425 states, about 45 s): a chain, a fork, a fan-in, three roots, a
job that lists a dependency twice (a multigraph: two waits, and no inheritance) and a cycle, with one fault
and a cancellation anywhere. Three jobs are the fewest that give a fan-in, a fork with a sibling that
fails while the other runs, and a parent with a grandchild. One fault suffices to separate "no
call failed" from "one failed": `VerdictRecorded` and `NoticeAgreesWithStore` claim nothing
beyond one fault; the theorems cover any number.

| Property | Question |
|---|---|
| `StartsAfterParents` | are a job's dependencies done, gone and reported before it begins? |
| `SuccessMeansAllSucceeded`, `VerdictIsQuiescent`, `ReportedIsFinal` | is the report true, in time, and the last word? |
| `VerdictRecorded`, `NoticeAgreesWithStore` | does it reach the store, and does the notification agree? |
| `SnapshotExact`, `TreeOutlivesJobs` | does each job see the right files, while it runs? |
| `KeepsPromise` | is all of it an implementation of `DagRun`? |
| `FailFast`, `EventuallyFinishes` | does the run end, at once when cancelled, and otherwise once containers exit? |

Fairness: each goroutine and the worker are scheduled (weak fairness of `MainStep` and of each
`JobStep`). Nothing is assumed of the commands inside a container: `JobExits` is not part of
`JobStep`, `FailFast` holds without it, and `EventuallyFinishes` states the assumption as its
antecedent, because the code puts no limit on how long a job runs.

Run `scheduler_aliased` (expected violation of `WorkspacesIsolated`): with two names that clean to
one directory, two jobs run in the same workspace. Only sibling jobs are aliased there; a child
aliased to its own parent would copy a directory onto itself, which the model does not describe.

## 4. Daemon

The process (`proc`: down, the three statements of `ResetGhostRuns`, serving, draining the HTTP
server, stopping the pool), the handlers (`handler[r]`: one request per run id), the queue, the
workers and the rows. Rows survive; queue, handlers and workers do not. `old` is the set of runs
whose rows were there when the current process started.

* Each store call of a handler may fail at any time, because a client may go away and cancel
  the request's context; calls of workers and of recovery fail at most `MaxFaults` times.
* A job's row is written when it starts, fails and ends, and each of these writes may be lost, because the scheduler
  drops their errors (`WriteJob`). The row then disagrees with the job (`stage[w][j]`), and maybe with its run.
* `Receive` carries the worker limit as the code checks it: long before the enqueue, and only for
  requests with an organisation.
* `StopPool` may happen with handlers still in flight: `server.Shutdown` gives up after ten
  seconds. `Crash` may happen at any moment, during recovery too.

Run `daemon` (512 251 states, about 100 s): two runs of two jobs, two workers, a queue of one (so the second
request may be refused), one fault, and two times down (a crash during the recovery from
a crash). Two runs and two workers are the fewest that let one run sit in the queue while another is
held, and two workers compete. Two jobs let a crash fall between a run's jobs.

| Property | Question |
|---|---|
| `OneOwner`, `ActiveRunsOwned`, `StartsOnce` | is every live run in exactly one place, and started at most once? |
| `TerminalIsForever`, `SuccessKeepsItsJobs` | do recovery, shutdown and late writes respect what has been reported? |
| `RecoveredRunsSettled`, `AcceptedRunsSettle` | is every interrupted run settled? |
| `RunningJobsUnderRunningRun` | is no job shown running under a run that is not? |
| `ShutdownCompletes` | does a shutdown end whatever is queued or running? |

`SuccessKeepsItsJobs` and `RunningJobsUnderRunningRun` count: the rows that disagree with their run are never more than
the store calls that failed. So with no failure there is none, and every lost write is worth one row at most, also
after a recovery has turned a row that was left running to failed.

Deadlock checking is off: an idle daemon that nobody sends a request or a signal to has nothing
to do, and once the bound on going down is used up it stays so. Fairness: the process executes
(recovery, handlers, workers, shutdown), and it is started again after it went down (Compose restarts
the container with `restart: unless-stopped` after a crash; after a graceful stop an operator does). `JobStep`
is under the workers' fairness: here, jobs end. No fairness on requests, signals or crashes.

Runs `daemon_ghost_jobs` and `daemon_late_enqueue` are expected violations, see `findings` in
`PROJECT.json`: a crash between the two updates of `ResetGhostRuns`, and a request that is slower than
the shutdown's timeout.

## 5. Log stream

`LogStream` follows one run's log from the file to the screen. The file's n-th line is the number n, so a
line shown twice, skipped or out of order is visible. `sub[s]` is the closure of one `streamLogs` call
(the EventSource, events sent and handled, the awaited status request, the retry timer, the teardown
flag); the effect subscribes on mount, when `isLive` turns false before anything was fetched, and when it turns
true again. Every event of the browser is a step. The daemon reads the file from its first byte on every connection
and is cancelled by a ticker once the run is over; tickers are any delay.

* `blank` is the set of empty lines. The SSE writer sends none of them, so `Follows(m, n)` says which line comes
  after m on the screen. A line is what `Tail` cuts at a newline: what the browser makes of a carriage return inside one, and
  a half-written last line that `Tail` flushes when it is cancelled, are not told apart from lines.
* `TailFails` ends a connection before the run is over: the file is not there yet, cannot be read, or the ticker
  cannot read the run.
* `OlderAnswer` is the page's answer from before the end that arrives after a newer one: the run is shown as running again
  (`RunPage` has the fetches that overtake each other), and a new subscription appends a whole replay, since the
  lines are dropped only when the same subscription connects again. A change of status cancels the fetches of
  the effect before, so this happens once at most in a page's life: `MaxLate` is 1.

Run `log_stream` (438 609 states, about 60 s): three lines, any of them empty, the code's three retries and four
outages, one more than the retries. Three lines let an empty one stand between two others.

| Property | Question |
|---|---|
| `ViewFollowsLog` | does the screen have the log in order, without a gap, and never twice but for the replay after an older answer? |
| `NothingAfterTeardown` | is a torn-down subscription dead, whatever was pending? |
| `StreamSettles` | does the client come to rest, and does a finished log arrive? |

Fairness: connections, timers and requests come to something; nothing is assumed of the network, the run or the user,
and `TailFails` need not happen.

Of a run watched live the last lines may never appear: the page sees the end and tears the stream down. The
model has this behaviour and `StreamSettles` does not claim otherwise. That the log may be shown twice after an older
answer is a property of the code, too, which no document excludes.

## 6. Run page

`RunPage` is the polling effect with its fetches (`fetch[f]`: which of the two requests, what it
answered, whether its effect is still current), Try Again, and the timeline's ticking clock. The server is a
history fixed in `Init`, when the rows of the run and of each job say running and over; a request reads that history
when the server answers. `Timeline` is the layout of the chart, in numerators of the percentages.

A run's end is written twice, by `RunPipeline` and, after the tree has been removed, by the worker, and the second
write replaces the time (`again`). Either write may be lost, and so may a job's: `PossiblePlans` has rows that still say
pending or running after the run's end, for good or until a recovery fails them.

Run `run_page` (378 586 states, about 110 s): nine histories of up to three jobs (nested, touching, equal, without
length, failed unstarted, never run, one that starts as two end, rows left behind that a recovery fails), a clock up to 5, a browser clock that is off by
one either way, two overlapping fetches, one failing request. Two fetches are the fewest that overtake each other.

| Property | Question |
|---|---|
| `EndedRunShowsEndedJobs` | do run and jobs, read by two requests, agree once the run is shown as ended, but for rows left behind? |
| `ChartIsExact` | is every bar inside the track and in its true place, and the peak of parallelism the true one? |
| `PageSettles` | does the page come to show the run as ended, with what was read after its end, and keep it? |

`ChartIsExact` allows two exceptions to the peak, and both are real. A bar without length has its end passed before
its start and may raise the peak. And a job that has just started, seen by a browser whose clock is behind the
server's, ends before it starts: its end is then taken off the count of the other bars, and the peak shown is too low. It
takes three jobs, two that ran side by side and a third that starts as they end; the proof of the peak found it
(section 10), and the seventh history has it.

Before the end an older answer may overwrite a newer one for a while; `PageSettles` says that this heals. What the page
keeps need not be the last state of the store: a page that read the run between its two last writes stops asking and shows the
first of the two finish times for good, and it never learns of a row that a recovery fails later.
Fairness: requests are answered, effects run, intervals go off, time passes; nobody has to press the button.

Run `run_page_peak` (expected violation of `SequentialIsNotParallel`): timestamps have whole seconds, and a job
that ends in the second it starts leaves the parallelism count one too high for good.

## 7. Overview page

`Overview` has both pollers (calls overlap, `statsCall[c]` and `runsCall[c]`), the two fallback requests of
`fetchStats`, the flags that decide header and banner, Retry, and a server whose endpoints become unavailable.
An answer is the version of the list of runs it was read from. `OverviewMetrics` has the metrics twice, as in
the code: over the newest 25 runs in TypeScript, over the table in Go, with different samples. The page's own list, which
stands in when the fallback has no runs, is shorter (`RecentLimit`, 10 in the code).

Run `overview` (624 121 states, about 105 s): two versions of the list, of which the second is longer than
the batch of two, two overlapping statistics calls, one call for the runs, one change of what is
unavailable. `FallbackAgreesWithDaemon` compares the two computations; `PageConverges` says that for each combination
of outages the header and the banner come to say what is the case, whatever calls overlapped before. Deadlock
checking is off: a page whose calls are answered may rest until its interval. Fairness as for the run page.

Run `overview_fallback` (expected violation of `FallbackIsShown`): statistics that were read once are never
cleared and are preferred to the fallback that the header announces.

## 8. Login

`Login` has the tabs of one browser, which share a cookie; the proxy in front of every page; the login
route, cut where it awaits (`Admit`, `ReadBody`, `Conclude`, `Receive`), logout, the API route with the pages'
401 handling; and the settings, which the server caches in its environment one by one while the operator may edit the
file (`Edit`) or restart the server (`Restart`). `RateLimit` is one entry of the limiter. The clock is modelled by ages
and countdowns, so time needs no bound.

* A request is told apart by its headers only behind a trusted proxy; otherwise there is one bucket.
* A tab waits for its attempt, so `Tabs` bounds how many attempts are under way, those whose answer
  nobody waits for included.
* When one login page replaces another the router may keep the form and its loading state: both are allowed.
* A failure that is recorded after its window has ended replaces the entry, and with it a block that is still in
  force. The model has this; `FailuresBounded` is about the count, not the length of the block.

Run `login` (451 840 states, about 135 s): two tabs, a window of two ticks, a limit of two failures, a map that
is always full (so that every failure prunes), sessions of one tick, a file that is complete or lacks the
secret, any number of edits and restarts. Two tabs are the fewest whose attempts pass the limiter
together. Deadlock checking is off: with all requests answered and no session there may be nothing left
that someone must do.

| Property | Question |
|---|---|
| `FailuresBounded` | does an attempt let through early, and counted late, ever exceed the room left by the limit? |
| `LockoutEnds` | is a client that is locked out let in again, whatever the tabs do? |
| `NavigationSettles` | does every chain of redirects end, and, without a session, on the login page unless the page has stopped to ask? |

Fairness: requests are answered and navigations followed, and a page that polls goes on polling (`polls`); the page of a run
that has ended does not (`PollingEnds`), and stays on the screen without a session until somebody acts. Time need not pass: a
session may outlast everything, and `LockoutEnds` states the passing of time as its antecedent. Operators do
nothing they do not want to. A daemon that itself answers 401 sends a signed-in tab to the login page and back at
every poll; `DaemonAccepts = FALSE` shows it, and no property excludes it.

## 9. Runs page

`RunsPage` has the controls, the timer that writes them to the URL after 250 ms (`armed`), the router that hears of
it later and overwrites the controls with what it heard (`seen`), history and links, and the polls of the rows.
`RunsFilter` is what is done to one row and one query string: the filter, the order, parsing and serializing. A pipeline
goes by its identifier or its name, and the filter takes either.

Run `runs_page` (278 442 states, 40 s): four rows that tie or lack a time in one way each, in two versions, two
overlapping requests, two steps of the operator on the controls, one retry, three links (one with values that
mean nothing), two statuses and two orders. `ScreenAgrees` says that the URL is a link to what is on the screen,
and that the cards, computed by code of their own, agree with the list; `PageSettles` that timer, router, history
and polls end up agreeing. Fairness: timer, router and interval go off, answers are handled, and the daemon does not fail for ever.

A link is followed only when the router has caught up with the URL. Text typed between the page's own write and
the router's answer to it is overwritten by the answer: the model has this, and nothing claims otherwise.

## 10. Proofs

`SchedulerProofs` proves, for every set of jobs, every set of pipeline shapes (cyclic ones and
repeated dependencies included), every directory mapping and every number of faults, that
`Scheduler!Spec` implies its safety properties:
`TypeCorrect`, `DependencyOrder`, `SuccessIsComplete`, `TerminalIsQuiescent`, `VerdictIsRecorded`,
`TreeIsThere`, `NoticeIsTrue` and the action property `ReportsAreFinal`. The assumptions are the four
`ASSUME`s of `Scheduler`: jobs are a finite non-empty set without the checkout, pipelines map jobs to
lists of jobs, directories map jobs, the bound on faults is a natural number.

None of the properties is inductive by itself. A goroutine's own position does not say that its parents
have succeeded; what says so is the conjunction `IInv` of

* `Lifecycle(j)`: a container runs exactly in phase "running"; a closed channel belongs to an ended
  goroutine whose status is success; a goroutine that ended without closing its channel has
  cancelled the errgroup;
* `RowFollows(j)`: without faults, the row follows the goroutine;
* `WaitedFor(j)`: the waited-for prefix of the dependencies is closed, and it is the whole list once
  the wait is over;
* `MainInv`: goroutines move only while the worker waits; the run's row is active until then and agrees
  with the result afterwards; a run reported successful has only closed channels; the phases of the tree
  and of the notification.

`Lifecycle` and `WaitedFor` give `DependencyOrder`; `Lifecycle` with `MainInv` gives the truth of
success, since "all ended and no error" means "all closed". `ReportsAreFinal` needs that the worker's
second write repeats the first. The step for a goroutine has two halves: what it does to its own part
(`JobStepOwn`) and that it frames every other goroutine's part (`Frame`, `OthersKeep`), where
monotony of channels carries `WaitedFor` over. `TypeOK` is not inductive either: that the row saved is a
status needs `Lifecycle`. `IInv` was checked with TLC on the instance of run `scheduler` before it was proved.

`RefinementProofs` proves `Implementation`, that `Scheduler` implements `DagRun` under the mapping `Stage`. `IInv` says
neither when the in-memory status of a job appears nor who raised the error; `Refines` adds both. A step of
the worker that returns is `Conclude`, with a verdict that is true because an error has an author
(`Blamed`); starting, refusing and ending a container are `Begin`, `Refuse` and `End`; all else is invisible.

`Snapshots` in `SchedulerProofs` is `SnapshotExact`, from one more assumption, `OwnDirs`: no two job names are cleaned to one
directory. Run `scheduler_aliased` has a directory mapping that breaks it. `SnapInv` says that a
directory is empty until its job has copied, and then holds its source and the job's own writes. The source does
not change meanwhile since the parent has ended (`ParentEnded`).

`NoDeadlock` in `SchedulerProofs` is the safety half of `EventuallyFinishes`, for every pipeline: while the worker waits, the
goroutines that have not ended are never all blocked in their selects. Goroutines only exist for a pipeline that could
be sorted (`SortedInvariance`), so among the unfinished jobs one has no unfinished dependency, and by `Lifecycle` a finished one
has closed its channel or cancelled the errgroup. That an unblocked goroutine is scheduled, and its container exits, is fairness and stays
with TLC.

`LoginProofs` proves `TypeCorrect` and `FailuresStayBounded` for every number of tabs, every limit, window, set of
headers, map size and contents of the file, from `RateLimitAssumption` and `LoginAssumption`. `FailuresBounded` is
inductive in the form "failures already counted, and attempts admitted and not concluded, exceed the limit's room by at
most the tabs": an admission needs an entry below the limit, and a recorded failure moves one from the second to the first.
Pruning, expiry and restarts only make the count smaller. `Counts` is the arithmetic of one entry and one set
of attempts, and `CountsTabStep` applies it to a step of one tab.

`DaemonProofs` proves all safety properties of `Daemon` (`OwnedOnce`, `NoRunIsLost`, `RecoverySettles`, `SuccessIsKept`,
`RunningUnderRunning`, `TerminalStays`, `StartedOnce`) for every set of runs, jobs and workers, every capacity of the queue
and every number of faults and crashes, from `SetsAssumption` and `BoundsAssumption`. The invariant is a part per run
(`RunPart`: while requested, while waiting or settled, its jobs while a worker has it, after success) and one per
worker (`Working`), the distinctness of what queue and workers hold, and what a boot and a recovery leave (`CleanBoot`,
`Recovered`). It holds in every state, with the daemon down too, and that is why a crash, which empties queue and workers at
once, preserves it. It was checked with TLC with two faults before it was proved. The two properties that count rows are proved by
counting more: `WrongRows` adds to the unsuccessful rows under a successful run those of jobs that have succeeded under a worker that
has not reported yet, and `StrayRows` leaves of the running rows only those whose goroutine runs. A step that uses
no fault adds none (`NoneAdded`), and one that uses a fault adds one at most.

`LogStreamProofs` proves `ViewFollowsLog` and `NothingAfterTeardown` for every length of the log and every number of retries,
outages and older answers. `Phase` says that a subscription has at most one of connection, counting status request and timer,
and none once torn down, so two subscriptions never both write to the viewer; `Synced` that the last line on the screen is the one
the open connection handled last. That the log begins anew no more than once for each older answer is `ReplaysLeft`: while the
current subscription's next line would begin it below others (`Beginning`), one replay is still to spare. `SubsLeft` says that
there is a subscription for every turn of `isLive` still to come.

`RunPageProofs` proves `EndedRunShowsEndedJobs` for every history, horizon and number of overlapping fetches: the row of a job that
ends with its run does not change after it (`RowIsFinal`), and a fetch reads the run first (`FetchInv`). It also proves
`ChartIsExact`, for every number of jobs (`ChartIsTrue`). That the bars are in place follows from the window, which spans the
start of every job and the end of every finished one (`WindowSpansJobs`). The peak is a fold over the moments at which a bar
starts or ends. `Passed` says what the count is worth after a moment `t`: at most the bars over `t` and those without
length that have started, at least the bars over `t` less those that have ended and not started. `MomentPassed` is one
step of the fold, by counting the five kinds of bars that start or end at `t`; `PeakBounds` is the induction. The
assumption on constants is `RunPageAssumption`, which keeps the browser's clock after the zero timestamp.

`OverviewProofs` proves `TypeCorrect` and `FallbackIsFaithful`, which is `FallbackAgreesWithDaemon`, for any histories, sizes of
the batch and of the two samples, and any number of overlapping calls. The batch is a prefix of the table, so the newest finished
runs of the batch are among those of the table; if there are as many, they are the same, and so is every number derived from
them (`MetricsAgree`).

`RunsPageProofs` is about any texts, rows, links and number of requests, from `TextAssumption`, `EmptyAssumption` and
`PageAssumption` (trimming twice trims no more, the empty text and `all` are trimmed and in lower case, the empty text is
neither a status nor a sort). Its parts:

* the order is irreflexive, total and transitive for every choice of sort (`SortIrreflexive`, `SortTotal`,
  `SortTransitive`); the list of the model, in which a row's place is the number of rows put before it, is
  sorted and complete (`ListIsSorted`), and it is the only such list (`SortedListIsUnique`), so it is what
  `Array.sort` makes of the rows;
* the rate on the cards is a percentage and the average lies between the first rows of the two duration orders (`CardsAgree`);
  the sum of the durations is bounded by induction over the rows (`SumBounds`);
* once the debounce has passed, the link in the address bar reads back to the list on the screen (`LinkIsFaithful`), because
  serializing and parsing a state of the controls keeps what the filter looks at (`ReadsBack`);
* both together are `ScreenAgrees` (`ScreenIsTrue`).

The last two assume `PlainLinks`: no link that is followed has a branch of blanks only, or `all` between blanks. The code is not
faithful there: `parseRunsUrlParams` keeps the text, the filter trims it, and `serializeRunsUrlParams` writes it as an empty parameter, which means all; so
`?branch=%20` shows the rows without a branch until the page rewrites the address, and the rewritten address shows all of them. The links of run `runs_page` are plain.

Induction over a finite set is by minimal counterexample: the subsets of a finite set are well-founded by inclusion, so if a
statement fails for some subset it fails for one without smaller failing subsets (`SmallestSubset`). This gives the existence of
the fold's function, too (`SumExists`, `CountExists`), without a theorem that takes an operator as a parameter.

Only model-checked: the liveness properties (`FailFast`, `EventuallyFinishes`, `AcceptedRunsSettle`, `ShutdownCompletes`,
`StreamSettles`, `LockoutEnds`, `NavigationSettles`, `PageConverges` and the two `PageSettles`), which are out of the provers'
reach. Every safety property of a passing run is a theorem.

## 11. Not modelled

* Rendering, log text, YAML decoding, flags, HTTP details, signature checks, the bytes and attributes of tokens and
  cookies, `OPTIONS`, the `me` route: no state, or none that another part depends on.
* Of the log viewer: search, filters, highlighting, scrolling, and the connection indicator, which goes on saying
  live between a connection error and the reconnect (`LogViewer.tsx:40`).
* Of the pages: formatting and rounding, the first-error callout, the queue bar of the runs page, the health
  indicator of the navigation bar, copy buttons.
* Orphan reconciliation, the two senders of the notifier, the command line client, persistence of generated secrets: planned, see 2.
  Until `Reconcile` exists, `Daemon` lacks one write: reconciliation marks a run as failed if it is
  still active when its container is found, which happens only after a failed `ResetGhostRuns`.
* What an orphaned container writes after its job has ended (its removal failed).
* Timestamps of rows in the daemon, usage records, the PostgreSQL store's differences in SQL.
* The cancelled status: declared and displayed, but no code of the daemon writes it; `TypeOK` says so.

## 12. Conventions

Operators marked "Seeded fault" sit before the definition they vary. No specification uses them: each is a
plausible bug with which, put in place of that definition, TLC finds the named property violated. They show
that the property can fail. `PROJECT.json` lists them under `mutants`.

`tlc -config X.cfg M` checks a run; `tlapm M.tla` checks the proofs of a module
whose name ends in `Proofs` (`DaemonProofs` takes about a minute and a half, the others seconds).
