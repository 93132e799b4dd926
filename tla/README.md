# codex-gitea in TLA+

codex-gitea is a Go service that reviews pull requests of a Gitea instance with
coding agents (Codex, Claude, MiniMax), answers `/review` comments, and analyses
production alerts against logs and source code. It is one process over one
SQLite database, with a single-page console in the browser. This directory
models the core logic of the service and the console with the requests between
them, checks the models with TLC on small instances, and proves the properties
that matter with TLAPS.

## The system

| Component | State | Operations |
|---|---|---|
| Webhook intake (`internal/webhook`, `onEvent` in `cmd/codex-gitea/main.go`) | none of its own | verify, parse, supersede and cancel on push, enqueue, notify |
| Review queue (`internal/queue`, `internal/store/jobs.go`) | table `jobs`; in memory the key locks, the cancel functions, the wake token | claim, run, classify an error, finish, retry, rerun, cancel, recover |
| Review orchestrator (`internal/review`, `findings.go`, `pulls.go`) | tables `pulls`, `reviewer_state`, `review_runs`, `findings` | review a head, dismiss the old review, post the new one, carry findings forward, answer a comment |
| Alert analysis (`internal/incident`, `store/analysis.go`) | tables `alert_analysis_configs`, `analysis_tasks`, `analysis_throttle_states`; in memory the cancel functions | ingest, throttle, claim, run phases, cancel, retry, recover, notify |
| Git caches (`internal/gitcache`) | bare mirrors and worktrees on disk, keyed mutexes, the set of active incident repositories | prepare, clean up, prune |
| Agent runners (`internal/codex`, `internal/claude`) | the provider selected in the shared cc-switch configuration | run an agent as a subprocess |
| Gitea client (`internal/gitea`) | none | requests with retries, diff positions |
| Configuration and console server (`internal/config`, `internal/console`, `store/settings.go`, `store/skills.go`) | live configuration, tables `settings`, `project_skills`, `analysis_reports`; in memory the skill generations | list, show, rerun, cancel, retry, edit, validate, save, probe, generate, report |
| Console frontend (`internal/console/frontend/src/App.jsx`) | the open tab; in each panel what was loaded, what is selected, what is typed, what is under way | seven panels, each with loads, polls, selections, forms and writes |
| Analytics, secret box | snapshots, a key | aggregation, encryption |

How they interact: an HTTP goroutine enqueues a row and puts a token in the
wake channel; a worker claims the row, takes the lock of its repository and
calls the orchestrator, which calls Gitea, git and an agent, and writes its
results to the database; the worker then records the outcome. A push reaches
into a running review twice: it changes the row, and it cancels the context of
the run. The console changes rows behind the workers' backs. The alert side has
the same shape with its own table and pool. The frontend is a component of its
own: it holds copies of what the server keeps, asks for new ones in effects, on
timers and on clicks, and nothing orders the answers.

Hard behaviours: nothing but single SQL statements is atomic, so every pair of
statements of a handler interleaves with the workers; the row of a job and the
worker that runs it can disagree; a process that dies leaves rows `running`;
SIGTERM cancels every run at once; Gitea redelivers; a retry, a restart and a
rerun all put work back. In the browser every answer is old when it arrives:
the admin has selected something else, typed on, pressed the next button or
left the tab; a request that timed out may have been served all the same; a
form is saved over a table that has changed since it was loaded.

What makes the parts correct, in a sentence each: a job or task is done once
and every one ends; a push replaces the review of its own pull request and
nothing else; no open finding disappears; a card, an answer or a row says what
happened; a cache is never taken from its user; a panel shows what is selected,
says truly whether it is busy, and a form stores what was typed where it was
typed and nothing else.

## Modules

| Module | Models |
|---|---|
| `JobQueue` | the webhook handlers, the jobs table, the worker pool, the console's two operations on a job, and the process |
| `JobLifecycle` | what the jobs table promises, whoever calls it: the abstract specification `JobQueue` implements |
| `MCJobQueue` | the constants of `JobQueue` for TLC |
| `JobQueueProofs` | types, the table, claims, the repository lock: invariants and proofs |
| `JobQueueGuarantees` | refinement of `JobLifecycle`, deliveries, owners, attempts: proofs |
| `ReviewRun` | the runs of one pull request: `Orchestrator.review` against Gitea and the store, and the order in which the handler and the workers bring the runs about |
| `FindingLedger` | what a run promises about findings: the abstract specification `ReviewRun` implements |
| `MCReviewRun` | the constants of `ReviewRun` for TLC |
| `ReviewRunProofs` | types, refinement of `FindingLedger`, blocking findings, vetoes: invariants and proofs |
| `AnalysisQueue` | the alert tasks: receiver, throttle, pool, console, terminal cards, process |
| `AlertThrottle` | the duplicate throttle of one configuration, as functions of its row and the alert |
| `AnalysisLifecycle` | what the console promises about a task: the abstract specification `AnalysisQueue` implements |
| `MCAnalysisQueue` | the constants of `AnalysisQueue` for TLC |
| `MCAnalysisThrottle` | the same with alerts enough for the throttle |
| `AnalysisQueueProofs` | types, refinement of `AnalysisLifecycle`: invariants and proofs |
| `AnalysisQueueGuarantees` | owners of runs, cancellation, the limit, terminal cards: proofs |
| `IncidentCache` | the Git caches of the alert analysis: mirrors, worktrees, passes, the janitor |
| `MCIncidentCache` | the constants of `IncidentCache` for TLC |
| `IncidentCacheProofs` | types, the count of users, the lock, what a task may lose: invariants and proofs |
| `ConsoleRequests` | what the panels share: the open tab, and the life of a request of `fetchJSON` |
| `JobsPanel` | the review jobs: the polled list, its pager, the drawer, rerun and cancel |
| `TasksPanel` | the alert tasks: the polled list with filters, the polled drawer, cancel and retry |
| `ConfigsPanel` | the alert configurations: the list, the form under its heading, and five kinds of writes |
| `SkillsPanel` | the project skills, and the generation of one that is started, polled and forgotten by a restart |
| `SettingsStore` | the settings table as two panels read it: redaction and defaults |
| `SettingsPanel` | the global settings, saved group by group |
| `ChatPanel` | the form that tries a reviewer, prefilled from the settings |
| `AnalyticsPanel` | the latest report, its trend, and the making of a new one |
| `Console` | the composition: `App` with its tabs over all panels, the fairness, the joint properties |
| `MCConsole` | the constants of `Console` for TLC |
| `FormProofs` | the panels with forms (configurations, reviewer, settings): invariants and proofs |
| `ConsoleProofs` | the panels with lists and details, and the composition: invariants and proofs |

### JobQueue

State that survives a restart: `jobs` and `lastId` (the table), and what the
sender of a webhook knows (`acked`, `nacked`, `sends`). All else is memory of
the process and is lost in `ProcessEnds`.

A handler runs `onEvent` one call at a time: for a push (`action`
"synchronized") `SupersedePending`, `CancelInFlight`, then `EnqueueJob`, which
deduplicates by delivery id, then `Notify`. A failing supersede is only logged;
a failing enqueue is answered 500 (`EnqueueFails`), also when the row was
inserted and only the read-back failed (`EnqueueUnread`).

A worker loops `ClaimJob`, `StartRun`, `ProcessReturns`, `FinishRunningJob`,
`Release`, or waits in `idle` for the wake token or the ticker. `ClaimJob` is one SQL statement: the oldest
due pending row whose pull request has no running row. `StartRun` is the part
of `Queue.run` up to the call of `Process`: the key lock and the registration
of the cancel function are one step, because between them `CancelInFlight`
finds the same as before the lock. `Process` itself is one step here with any
outcome an error can have: done, superseded when the context is cancelled,
retryable or not otherwise; it need not come back at all. `ClaimLost` and `FinishFails` are the two statements whose failure
leaves a row `running` with no worker.

The process is `boot` (HTTP served, `Queue.Run` not past `RecoverRunning`),
`up`, `stopping` (SIGTERM received, the pool's context done, requests drained by
`srv.Shutdown`) or `down`. `main` does not wait for the workers, so `Exit` may
come before any of them has recorded an outcome.

Abstractions: a row keeps its status, pull request, delivery, attempts and
whether its `next_attempt_at` has passed (`due`); the payload, the error text
and the log are left out. Error classification is a choice of retryable or not.
The synthetic delivery id of a rerun is `None`, which no webhook has.

Bounds: `MaxJobs`, `MaxSends`, `MaxReruns`, `MaxCrashes`, `MaxStops` and
`MaxFaults` cap rows, sends of each delivery (one cap per delivery), reruns, crashes, SIGTERMs and
failing statements. They guard the environment only. The theorems hold for every value of them.

### JobLifecycle

A row is submitted once, starts only while no row of its pull request runs,
may go back to wait, and ends in a state it never leaves. The refinement maps
`status` and `pr` to the columns of `jobs`. Concurrency, claims and faults are
absent from it: the theorem `ImplementsLifecycle` says they do not show.

### ReviewRun

What `JobQueue` does in the one step `ProcessReturns`, taken apart. That the
runs of a pull request exclude each other is what `JobQueue` shows (`SingleRun`,
`KeyExclusive`), so there is one run at a time, with the locals of
`runReviewer` in `mem`.

State that survives: what Gitea keeps (`prOpen`, `head`, the `reviews` of each
agent), the tables `pull_reviewer_states` (`lastReview`), `findings` and
`review_runs` (`runRows`), and the rows of the pull request in `jobs`.

Which head a run reviews depends on the order of calls outside it, so these are
actions too. `Push` and `Reopen` send a webhook (`events`); `onEvent` handles
one call at a time, `SupersedePending`, `CancelInFlight`, `EnqueueJob` for a
push and the last alone for the rest. `ClaimJob` takes a pending row into
`taken`; `Start` is a worker that gets the lock and calls `Process` with the row
as it was claimed. Between the two the job may be superseded, the push finds
nothing to cancel, and a newer job may be claimed and started first: `Start`
does not read the row, as `Queue.run` does not. `End` puts the row back, ends
it, or fails to.

One action per call of `runReviewer`: `Begin` (read the state and the open
findings, insert the row), `AgentReturns`, `DismissPrevious`, `Recheck`, `Post`,
`RecordState`, `SaveFindings`, `MarkFindingsFixed`, `FinishReviewRun`. Each may
fail; all fail once the context is done; a `POST` may fail after it took effect.
Gitea refuses to dismiss a review that only comments (`Dismissal`), which the
code logs and no more. `pc` names the status when the run calls
`FinishReviewRun`. A failing second status check leaves the row as it is
(`RecheckFails`), as the code does.

Abstractions: a finding is its fingerprint (path, title and severity, so
`Blocking` is a set of fingerprints). `CarriedAs` is what carrying forward does
to a fingerprint: nothing, unless the title is blank; the severity stays. An agent answers
any set of its own findings and declares any set fixed. Left out: sessions, the
author column of the pull row and its repair, worktree, diff positions, the
text of a review, jobs of comments (they post no review) and the event that
reports a closed pull request.

Bounds: `MaxHead`, `MaxEvents` (webhooks under way), `MaxRuns`, and `MaxUpsets`,
one budget for reruns, closes, contexts that end from outside, crashes and
failing calls, so that every pair of them is explored. `fresh` counts the runs
that replace no review.

### FindingLedger

A finding of an agent is open after the agent showed it in a posted review,
fixed after the agent declared so in a review that does not show it, and while
it is open no later review of the agent passes over it. Reviews that were
posted but not recorded, runs that died half-way and dismissals are absent:
`ImplementsLedger` says they make no difference.

### AnalysisQueue

State that survives: `analysis_tasks` (`status`, `config`, `delivery`,
`fingerprint`, and `asked`, the column `cancel_requested`), the concurrency of
each configuration (`limit`, 0 once it is deleted), `analysis_throttle_states`
(`streak`) and the terminal cards the chat received (`cards`). The runners are
the slots of `Queue.Run`; `rdone` says that the context of the run is done.

`EnqueueAnalysisTask` is one transaction and one action. `Queue.Cancel` is not:
`CancelRead`, `CancelUpdate`, `CancelReread`, `CancelSignal`, `CancelCard` are
its statements, and the pool moves between them. A runner goes through
`ClaimAnalysisTask`, `Register`, `StartProcess` (the check for a cancellation
that came before the registration, and the read of the configuration), `WorkFails`
or `WorkSucceeds` (logs, repository, agent and result, in any of which a run may
fail, must once its context is done, and may hang), `Publish`, `FinishAnalysisTask`,
`NotifyTerminal`. A success is announced before it is recorded, anything else
after. `Fault` is a failing statement or notification; `ClaimLost`,
`FinishFails`, `RecoverFails` and `CancelFails` are those that matter.

Recovery is two statements with HTTP served in between (`RecoverRequested`,
`RecoverRunning`); if one fails the process stays up without its pool
(`"poolless"`).

Abstractions: configurations exist from the start, are enabled and throttled;
filtered alerts, events and the app-bot's progress cards are left out. A retry
has a delivery id no alert has (`None`). Time is only whether the cooldown is
over (`CooldownEnds`).

### AlertThrottle and AnalysisLifecycle

`Suppresses` and `NextStreak` are the two results of `applyAnalysisThrottle`;
`ThrottleCounts` compares what they did with the table of alerts itself, in an
instance of its own with alerts enough to count.
`AnalysisLifecycle` says that a task whose cancellation is recorded neither
waits nor starts again and that ended tasks stay ended; a restart may move many
tasks in one step.

### IncidentCache

What `AnalysisQueue` does in `WorkFails` and `WorkSucceeds` with the repository.
State that survives: the directories (`mirror`, `size`, `lastUsed`, `tree`).
Memory: `active` (the marks), the runs (`pc`) and the passes (`at`, `todo`,
`counted`; of the janitor also `dirs` and `doomed`). A run is one call of
`Process`, or of `TestRepository`, which uses the worktree of task 0.

A run marks the repository (`Start`), makes a pass, looks at the disk
(`CheckSpace`), takes the lock (`prepareIncidentBareRepo`), and under it goes
through `Fetch`, `CheckSize` and `AddWorktree`. `PrepareFails` is the deferred
function that takes the mark back. After the analysis `CleanupRevision` removes
the worktree under the lock, and `Unmark` takes the mark back and starts
another pass. The lock is held by whoever is in `Locked`; it is free in every
other state, so no variable stands for it. A pass is `Scan` and then, entry by
entry, `PassOver`, or `Choose` and `Evict`: the mark is read in `Choose` and,
under the lock, in `Evict`. The janitor looks at the worktrees first.

Abstractions: the time of the last use is a place in the order of the mirrors,
and that it passes `MaxIdle` or `WorktreeTTL` is a step of the environment
(`MirrorIdles`, `TreeAges`); free space is any answer in `Disk` at every look;
the policy is constant. A directory is removed whole or not at all. A crash
inside a git command is the failure of the command and then the crash: both are
within the bounds of `cache_drained`. SIGTERM is not modelled apart from the
crash: it ends contexts, which is a `Fault`. The mirrors of pull requests are
not modelled.

### The console: ConsoleRequests and the panels

The seven panels of `App.jsx` have one shape, so their modules do: the state of
the server that the panel shows, the `useState` variables of the panel under
their own names (renamed where two panels share a name), and the set of its
requests. A request is `sent`, then `served` (the handler ran and the answer is
a snapshot), then delivered; `fetchJSON` may give it up after its timeout
before the handler ran, after it or during it, and a write nobody waits for any
more is an `orphan` that the handler may still see. `Orphans` is what unmounting
a panel leaves. `MaxCalls` bounds the requests a panel has open when it sends
another.

An action is a click with everything its handler does up to the first `await`;
the handler of the server; the arrival of an answer with everything up to the
next `await`; the elapse of an interval; or a failure. `load`-like functions
that ask for several things together are one request. What an effect's cleanup
cancels is removed from the requests by the step that runs the cleanup
(`Cleanup`, `CleanupSkill`, `CleanupPoll`); where the code cancels nothing, as
in `loadDetail` of the tasks or `refresh` of the jobs, nothing is removed.

- `JobsPanel`: `Load` and `DeliverList` are `loadJobs`; `MoveDrawer` is a change
  of `drawerJobId` with its effect; `refresh` goes on to the detail that its
  closure remembers (`Closure`, `RefreshAs`); `ServeRerun` inserts a job,
  `WorkOnJobs` is what the queue does to one meanwhile.
- `TasksPanel`: both intervals are one (`TasksPoll`), as they have the same
  period; `DeliverDetail` is unguarded, as the code is.
- `ConfigsPanel`: a typed value is the heading it was typed under, so a value
  tells where it comes from. `Save` and the load that follows it are two
  requests with the button disabled across both. `handleUpdateAnalysisConfig`
  reads, merges (`Kept`) and writes in two statements without a transaction:
  `ReadForUpdate` and `StoreUpdate`, between which another request may store, or
  delete the row and give its id to a new one; `NextId` is the table's row id, given again
  after the newest row was deleted.
- `SkillsPanel`: a generation is started by `ServeGenerate` and
  `ServeCreateTask`, two steps as in the handler, ends in `GeneratorEnds`, and is
  forgotten by `ServerRestarts`, after which its poll is answered 404.
- `SettingsStore`, `SettingsPanel`: `ServeSave` stores the keys of a request
  that the handler accepts, one statement each; `StoreKey` is the treatment of
  the redaction. `formBase` is auxiliary: the table the form was loaded from.
- `ChatPanel`: one field stands for the parameters of a reviewer.
- `AnalyticsPanel`: a report is its number, a trend the interval it was made for.

Left out of all panels: messages, the job statistics (that they may fail, and
end a refresh early, is kept), the option lists, the effective configuration
and the status of the reviewers, the model list of Codex, and everything that is
computed from props and drawn (charts, cards, logs).

### Console

`App`: `tab` chooses the panel that is mounted. `SelectTab` unmounts one and
mounts another in one step; every other step is one of one panel and leaves
the rest alone (`KeepExcept...`). `ChatPanel` reads the table `SettingsPanel`
writes, all others are independent but for the tab. The bounds are in the
composition: `MaxClicks` says of each tab how much the admin has done in all
when he last clicks there, `MaxSelects` caps the changes of the tab, and
`MaxEvents` likewise counts the failures and what workers and restarts do.

## Runs

| Run | Instance | Shows |
|---|---|---|
| `queue_faults` | two pushes of one pull request in two handlers, each sent once, two workers, a rerun, retries, a crash, a failing statement | types, `OneRunningPerPR`, `RunningOwned`, `AttemptsBounded`, `AckedDeliveryRecorded`, `SupersededCauses`, `SupersededHasSuccessor`, `FinalStateKept`, refinement of `JobLifecycle` |
| `queue_liveness` | two pull requests of one repository, a push sent up to twice and another event, two workers, a SIGTERM and the next boot under `FairSpec` | `KeyExclusive`, `CancelsOfHolder`, `SupersededCauses`, `EveryJobEnds` |
| `queue_crosspr` | two pull requests of one repository, a push to one of them | a counterexample to `CanceledByOwnPR` |
| `review_faults` | one reviewer, one blocking finding, two heads, two runs, two upsets of any kind | types, `OpenIsShown`, refinement of `FindingLedger`, `VetoesBounded`, `BlockingHeld` |
| `review_stale` | three heads, three runs, no upsets | a counterexample to `DismissesOlder` |
| `analysis_core` | two rows from three alerts, one of another kind, and retries, of one configuration with a cooldown and limit 1, which may be raised to 2 or deleted, two slots, a request to cancel, a crash, a failing statement | types, `SlotsHold`, `CancelReaches`, `CardTellsStatus`, `OneTerminalCard`, `RunningOwned`, refinement of `AnalysisLifecycle` |
| `analysis_throttle` | up to six of nine alerts of two kinds to two configurations: one suppresses from the third on and cools down, the other from the second on without a cooldown; retries, a deletion; nobody works on the tasks | `ThrottleCounts` |
| `analysis_ends` | two alerts, two slots, a request to cancel, a SIGTERM and the next boot under `FairSpec` | `EveryTaskEnds` |
| `cache_drained` | a task and a repository test over one repository with a mirror of an older version, space that may be short at any look, sizes below and above the limit, a failing call and a crash under `FairSpec` | types, `MirrorHeld`, `UsedKept`, `Drained` |
| `console_watch` | the jobs, the tasks and the skills, opened on a link to a task, two or three clicks, one change of the tab, one event (a failing request, a worker's step, a restart) under `FairConsole` | `RowsSettle`, `TasksSettle`, `GenerationEnds` |
| `console_faults` | all seven panels, two or three clicks, five in all where they end at the alert configurations, one change of the tab, two events, one where they happen in the first tab or the alert configurations | types, `BusyTells`, `FormFollows`, `TypedStays`, `SavesKeepRest`, `ShownIsSelected` |
| `console_placeholder` | the alert configurations alone, four clicks and no failure | a counterexample to `NoPlaceholderStored` |

Two workers and two jobs that conflict are enough for every race of the lock
and the claim, which are pairwise. The workers are interchangeable, and so are
the handlers: symmetry is used in the safety runs of the queue and not in the
liveness run. `queue_faults` sends every delivery once and does not stop the
process, because `SupersededHasSuccessor` needs both, as told under the findings;
the redelivered push, the stop, the boot after it and the push next door are in
`queue_liveness`, so that between them the two runs have every cause that
`SupersededCauses` names and every one that it denies.

Two runs are what a review finding needs to be found and lost: the call that fails
in the first leaves the table and the pull request apart, and the second starts
from there. Two upsets are the failure and what meets it. Nothing in the
code relates two findings or two reviewers but the verdict over the list, so one
blocking finding and one reviewer are checked; any number is in the proofs. A
third head and a third run are what a stale run needs to dismiss a newer review:
one posts a review, one is superseded after its claim, one overtakes it.

Two tasks are what the limit needs to be exceeded, and one request is what races
with a claim, a registration, a finish and a recovery; the request is idle again
after its answer, so it may come twice. The throttle needs more: two equal
alerts to count to a threshold of two, a third to be suppressed, one of
another kind to start over, and after the cooldown, or after that other one, the
first ones again. That is what six rows of nine alerts give.

Two runs and the janitor give every overlap of a pass with a preparation, a
pass and a cleanup. `cache_drained` needs no second repository: what is left
over by a failure or a crash concerns one, and a mirror above the limit is
evicted as one too many would be.

In the console two requests of a panel give every overtaking, and two clicks
the selection that is left and the one that replaces it; the forms have a third
click, to type. The form of the alert configurations has five: a toggle whose
answer is late, another heading, typing under it, and the save, whose answer
may in turn be late. Two objects of a kind (jobs, tasks, configurations,
projects, reviewers) are what a late answer needs to be about the other one; a
second page and a second page size are what a late list needs.
`console_placeholder` needs four clicks: select, toggle, new, save. One change of
the tab unmounts one panel in every state and mounts another; that more of them
change nothing is what the theorems say. The admin stops after the bounded
clicks, so these runs may stop: they do not check for deadlock.

### Fairness

No fairness is assumed of work that goes to Git over the network. The agents have
timeouts, but the context of a run has no deadline (`internal/queue/worker.go:155`,
`internal/incident/queue.go:78`) and `runGit` sets none
(`internal/gitcache/cache.go:187`). So the three properties of the service that
something ends are conditional, and name the condition: `EveryJobEnds` on
`ProcessComesBack`, `EveryTaskEnds` on `WorkComesBack`, `Drained` on
`RemoteComesBack`. A fetch that hangs keeps its row, its lock or mark, and a
worker or slot; as many as there are workers hold up everything until the next
start.

`FairSpec` of `JobQueue` assumes weak fairness of every handler, of the loop of
every worker but `Process` (the two-second ticker makes `Tick` happen without a
wake token), of the clock that makes a retry due, and of the process
(docker-compose restarts it). Strong fairness is assumed of `StartRun` alone:
others may take the lock of the repository in between, and Go's `sync.Mutex` hands
a starving waiter the lock. Nothing is assumed of `Receive`, the console, crashes or
SIGTERM. `FairSpec` of `AnalysisQueue` assumes weak fairness of the claim (the same
ticker), of the steps of every run but the work itself, of every request, of
recovery and of `Exit`. `FairSpec` of `IncidentCache` assumes weak fairness of the
steps of every run but fetch and checkout, of every pass, of the janitor (its
timer), and of time; nothing of starts, crashes and failures, so `Drained` speaks of
what happens when no more alerts come.

`FairConsole` assumes weak fairness, for each kind of request, of the handler and
of the arrival of the answer (`fetchJSON` gives every request up in the end, and
a poll that was given up is asked again), of the intervals while their panel is
mounted (`setInterval`), and of the end of a generation (30 minutes at most).
The list and the detail have fairness of their own: in the code nothing lets
one of them starve the other. Nothing is assumed of the admin, the workers, the
failures or a restart, so `RowsSettle` and `TasksSettle` speak of what is shown
when nothing changes any more.

## Findings

Three statements of the code or its comments that a run refutes.

- `queue_crosspr`: the registration of a run is per repository, so a push to one
  pull request cancels the review of another, which ends superseded for good. The key
  is all that is behind it: where no two pull requests share a repository, nobody
  stops the process and nothing is redelivered (`Debounced`), the same property is
  a theorem (`OnlyOwnPushCancels`).
- `review_stale`: superseding is there "so a newer event for the same PR takes
  priority" (`internal/store/jobs.go:64`). A push handled between the claim and the
  registration of a run supersedes its row and finds nothing to cancel; the run
  goes on, because `Queue.run` does not read the row again
  (`internal/queue/worker.go:168`), and when the newer job gets the lock first, the
  older one dismisses the newer review and posts its own in its place.
  `FinalStateKept` says no more than that its outcome is not recorded.
- `console_placeholder`: the answer of a toggle fills the form, whatever the
  heading says by then. If that is a new configuration, saving it stores the
  placeholder `***set***` as its secrets, which the comments of the sentinel
  say never happens.

Four more that contradict a statement, seen in the models and without a run of
their own:

- "marks all pending (and running) jobs for pr as superseded, so a newer event
  for the same PR takes priority" (`internal/store/jobs.go:63`): a push delivered
  twice supersedes the job its first delivery enqueued, and the second finds the
  row of its delivery and enqueues nothing. With `MaxSends` 2,
  `SupersededHasSuccessor` fails; `SupersededCauses` names this cause.
- "Called on boot to requeue work that was in flight when the process died"
  (`internal/store/jobs.go:260`): SIGTERM cancels the runs, and a run that returns
  an error with its context done is recorded superseded
  (`internal/queue/worker.go:172`), so the next boot does not find it. With
  `MaxStops` 1, `SupersededHasSuccessor` fails; `SupersededCauses` names this too.
- "webhook mode sends only one terminal card" (the repository's `README.md:368`):
  a request to cancel that reads a task again just after its
  runner recorded it canceled announces it too, so a canceled task can have two.
  `OneTerminalCard` holds for every other task.
- The form says of secret fields that blank keeps the value (`App.jsx:853`): a
  blank webhook of an alert configuration clears the stored one.

Behaviours of the models that no statement of the code excludes, seen on the
way and kept out of the properties above by their conditions:

In the service:

- `FinishReviewRun` gets the context whose end made the run fail, so the row of
  a cancelled run in `review_runs` stays `running`; a failing second status check
  never calls it.
- A worker that waits for the lock of a repository holds its row meanwhile,
  also when the run it waits for is of another pull request.
- The old review is dismissed before the pull request is found closed, the post
  fails or the run is interrupted, and then none stands: `BlockingHeld` ends with
  the first close, failing call or interruption. A crash or a failure between
  `Post` and `RecordState` leaves a review that no later update dismisses, and
  the run of a reopened pull request dismisses none: `VetoesBounded` counts these.
- A row whose claim could not be read back, or whose end could not be recorded,
  stays `running` without a worker until the next start: `RunningOwned` is about
  states before the first failed statement.
- A finding whose title is blank is carried forward under another fingerprint
  (`CarriedAs`) and stored twice; the instances have titles.
- A request that read a task as queued and updates it after the claim leaves no
  mark; it still stops the run if that is registered by then, and is lost, with
  an answer that says `running`, if it is not.
- A request recorded between the two statements of the recovery leaves a
  `cancel_requested` row without a goroutine, which keeps its slot until the
  next start: `EveryTaskEnds` excludes it.
- A recorded cancellation may still end `succeeded` or `failed`, when the run
  was past its last use of the context.
- A run that finds its repository too large, or the disk short of space, removes
  the mirror without looking at the marks: another task of the repository that
  is being analysed loses the objects behind its worktree. `UsedKept` excepts
  this step and no other.
- A preparation that fails after the mirror was made starts no pass, so the
  limits of the cache may be exceeded until the next one.
- A pass goes by the order of its scan and may evict a repository used since;
  and it counts an entry down that it finds in use under the lock.
- A worktree that vanishes between the listing and the look at it ends the pass
  of the janitor, before the mirrors.

In the console:

- Settings: saving a group before its form was loaded, or after a load of it
  failed, sends blank secrets, and a blank clears the stored one: only the
  redaction keeps it (`internal/console/handlers.go:266`). `SavesKeepRest`
  excepts a form that was never loaded. A load that ends after the admin typed on, as
  the one after every save does, discards what was typed; an older answer that
  comes last leaves an older form; a save of several keys that fails half-way
  has stored the first ones.
- Alert configurations: the late answer of a
  toggle under the heading of another configuration lets a save overwrite its
  plain fields, and only the secrets stay (`TypedStays`). An update writes what it
  read: a change stored between its read and its write is lost, and where a
  configuration was deleted and its id given again, the new one may get the
  secrets of an older one with that id. The late answer of a
  rotation shows the address of one configuration under another. A load that
  fails after a save that was made says the save failed, and saving again makes
  a second configuration. The id of a deleted configuration is given again.
- Buttons: `BusyTells` is about the flags that its comment names; the flag of a
  refresh of the jobs and that of a skill being loaded are outside it.
- Jobs: the refresh after a rerun fetches the detail of the job its closure
  remembers, so the drawer of the new job may show the old one. A late answer
  of a rerun opens a drawer that was closed; a rerun that was made is reported
  as failed when the statistics of the refresh fail; a detail that fails
  leaves the job that was shown before. `detailLoading` stays set when
  the drawer is closed during a load, which nobody sees: `DetailBusyTells` is
  about an open drawer.
- Tasks: a late detail or list is shown for up to a poll (`TasksSettle` is as
  strong as it gets); the task of the link is opened at every mount of the tab.
- Skills: a detail asked for before a generation ended may replace the newer
  skill by the one before; a detail that fails leaves the skill of the project
  selected before (`ShownIsSelected` is about a skill that appears); a
  generation that was given up and started again may run twice; a restart
  loses the generation, not the panel (`GenerationEnds`).
- Reports: an interval chosen while a report is made leaves the trend of the
  other one; a load that was late may put back the report before.

## Proofs

Every safety invariant and every safety action property of the passing runs is a
theorem, for every value of the constants; the theorems are listed in
`PROJECT.json`. Where a property is a promise of a part of the environment only,
the theorem assumes that part by name. There is one such name, `Debounced`, and
it is an assumption of two theorems. All others hold of the whole specification.

For `JobQueue`, under `QueueAssumption`, the argument is:

1. `TypeInv` adds to `TypeOK` that a busy handler serves a delivery, a busy
   worker has a row, and a finishing worker has an outcome.
2. `NextTable` shows that every step changes the table in one of seven ways
   (`TableStep`); `TableStepRows` that none of them changes the identity of a
   row or a final state. `FinalKept`, `OneRunning` and the refinement
   `ImplementsLifecycle` need only that factorisation.
3. `ClaimInv`: a row in the hands of a worker is not pending, which no step of
   another party can change; so no second worker claims it (`SingleRun`).
   `OneRunningPerPR` alone would not do: a superseded row is not running and
   its worker still is.
4. `LockInv`: the lock table and the program counters agree and only the holder
   is registered (`Exclusive`, `CancelsHolder`).
5. `DeliveryInv`: a handler about to answer 200 has its row.
6. `AttemptsInv`: a waiting row has an attempt to spare, two while the pool
   stops (a claim may be lost and the row recovered on the next boot), and a row
   left running by a pool that ended has one (`AttemptsLimited`).
7. `SupersededHasCause` assumes nothing of the environment. `SupersededCauses` is
   not inductive: a run is recorded superseded long after what cancelled it.
   `CauseInv` says the same of every run that is cancelled and of every outcome
   decided, and uses that the holder of a registration is the run the push reaches
   (`LockInv`), that a row in the hands of a worker was started, and that a pool
   which stops was asked to.
8. The last two assume `Debounced`: no delivery is sent twice, nobody stops the
   process, and no two pull requests share a repository. Crashes, failing
   statements, reruns and retries stay. `DeliveryOnce` says that a delivery has one
   handler, which inserts its row last, so every row there is while a push is under
   way is older than the row of that push. `DebounceInv` says of every job that is
   superseded, or that will be recorded so, both that another push caused it
   (`Caused`; `OnlyOwnPushCancels`) and that the job of a push follows, or the push is
   under way or was refused (`Followed`; `SupersededFollowed`).

For `ReviewRun`, under `ReviewAssumption`: `TypeCorrect` from `Shape` (a run
serves a job, the ids it holds exist); `ImplementsLedger` from `LedgerInv`: what
was read before the agent ran is still what the table says when the review is
posted, and what is written after it is what the review says. Nothing but the
run itself writes those tables, which is why the half hour in between is safe
for findings, while it is not for `DismissesOlder`. `NoFindingHidden` follows
through the ledger, whose own steps keep `NothingHidden`.

`BlockingStaysHeld` is about the states in which no call has failed, no run was
interrupted and the pull request was not closed (`Undisturbed`, a condition of the
property on the counters, not on the bounds); agents may fail, jobs may run
again and superseded ones may run, in any order. `Calm` says that a context that
ended, or a closed pull request, was counted. By `HeldInv` the last
review of an agent is active, but for the moment between dismissal and post
(`Replacing`), and lists what the table has open, but for the moment after the
post (`Writing`). That a finding the run neither lists nor settles cannot be open
at the end of that moment is `OpenIsShown` again, so the ledger carries this proof
too. It also shows that a blank title does no harm here: the finding is listed
under its new title, with its old severity.

`VetoesStayBounded` needs an accounting, because a count of reviews is not
inductive. A veto is `Loose` when no update will dismiss it any more: it is not
the review that `LastId` names. `LooseBound` says that the loose vetoes of an
agent, and one more if the run under way may still add one (`Credit`), are no more
than the events they can be owed to (`Owed`). A posted review makes the one before
it loose, unless that was dismissed; then the run is of an opened or reopened event
(counted in `fresh`), or the dismissal failed, or Gitea refused it because the
review only comments, which is no veto. `RunFacts` says that what the run read as
the previous review is still the last one, and that a reviewer has one turn in a
run; `Account` is the arithmetic that each step comes down to. No step need be
assumed not to happen.

For `AnalysisQueue`, under `AnalysisAssumption`: `TypeInv` gives `TypeCorrect`,
and `RowsMove` shows that every action moves every row as the lifecycle allows
(`ImplementsLifecycle`), whence `AskedNeverRestarts`. `OwnInv` ties the table to
the runners: the task of a runner has a slot until its end is recorded, no two
runners have the same task, and nothing runs before recovery; `RunningHasRunner`
is its last part. `CancelReaches` is inductive on the types: whichever of the
mark and the registration comes second sees the other, and a request that left
a mark is in front of its signal until it has given it. `LimitHolds` maps the runners
of a configuration one to one to rows with a slot, which a claim counts; an edit
of the limit or a crash may leave more rows than slots, and so the promise is
one of the claim, not of the state. `CardInv` holds in the first life of the
process: a waiting task has no card, a run before its end at most the card of its
success, and a run about to announce has a row that says the same; so cards and
rows agree (`CardTells`, `OneCard`). A restart breaks it: a success announced
and not yet recorded is announced once more.

`ThrottleRight` needs no further assumption: retries, cancellations and crashes leave
the alerts and the counter as they are, and a configuration that is deleted takes
its counter and its alerts with it.
`ThrottleCounts` compares a decision with a history, and the code keeps one row
for it, so `ThrottleInv` says what the row knows (`CountsAlerts`): at least the last
`count` alerts of the configuration have its fingerprint; a cooldown was started by
an alert that was suppressed; and before the first suppression, or without a
cooldown, no longer run of equal alerts ends the table. When a cooldown is over
the counter starts again from one, which is why the property promises a suppression
only before that. No induction along the alerts is needed: the last n + 1 alerts
after an insert are the new one and the last n before it (`LastOfGrows`), and a
decision once taken is about older alerts, which do not change (`Treated`).

For `IncidentCache`, under `CacheAssumption`: `CacheInv` is `TypeOK`,
`ActiveCounts`, `MirrorHeld` and two strengthenings, that the lock of a repository
admits one run (`LockedAlone`) and that a linked worktree has a ready mirror
(`Linked`). `MirrorHeld` rests on the lock alone: whoever changes a mirror holds
it (`MirrorStep`). `UsedKept` rests on both: a task outside the lock is a user,
users are counted (`UserCounted`), so passes and the janitor leave its directories
alone, and a run that replaces a mirror finds it not ready, which `Linked`
excludes for a task with a worktree (`UsedStep`).

For the console, under the assumptions of its modules (`ConsoleAssumption`,
`JobsAssumption`, `TasksAssumption`, `ConfigsAssumption`, `SkillsAssumption`,
`KeysAssumption`, `GroupsAssumption`, `ReviewerAssumption`, `AnalyticsAssumption`),
so for any number of jobs, tasks, configurations, projects and settings, of
requests under way, of clicks and of failures. Each panel has a specification of
its own (`JobsSpec` and the like: the panel, its handlers and the tab) and an
inductive invariant:

1. `ConfigsInv` follows a secret on its whole way. In the form it was typed under
   the heading, in a request to store it was typed under the configuration that
   the request names, and no answer of the server has one in it (`ViewHides`). A
   request that has read its configuration and not yet written it carries what was
   stored under that id, or typed for it; between the two the row may be gone, or be
   another one, so `TypedStays` lets such a request bring back what a
   configuration with its id was made with, and nothing else.
   The property alone is not inductive: it speaks of the table, and
   what reaches the table was in a form several steps ago. `ConfigsBusyInv` adds
   that of the requests that free the buttons one at most is waited for, also
   while a save goes over into its load.
2. `SettingsInv`: a field of the form, and a key of a request to save, was typed or
   is what the table showed when the form was loaded, where a redacted secret
   is never sent back; so a save of an unchanged key stores what is stored
   (`SavedAsStored`), unless the table is newer than the form.
3. `ChatInv`: the field was typed or is the parameter of the reviewer that is
   chosen, for whatever table the settings are by then.
4. `JobsInv` and `SkillsInv`: of the requests for a detail that an effect waits
   for there is at most one and it is of what is selected, because every step
   that changes the selection runs the cleanup; and a generation is waited for
   by one request or one poll, of the project that is selected. `TasksInv` has
   no such part, as the code cancels nothing there.
5. `AnalyticsInv`: at most one request makes a report or fetches its trend.

`ConsoleProofs` composes them: every step of `ConsoleNext` is, for each panel, a
step of that panel's `Next` or leaves the panel and the tab alone
(`JobsInConsole`, ..., `ChatInConsole`), so the conjunction `ConsoleInv` is
inductive (`ConsoleStep`), and what was shown of a panel holds in the console.
Only `ChatPanel` needs something of another panel, that the settings table keeps
its type, which is part of `SettingsInv`. All six properties of `console_faults`
are theorems.

Model-checked only: `EveryJobEnds`, `EveryTaskEnds`, `Drained`, `RowsSettle`,
`TasksSettle` and `GenerationEnds`. They are liveness properties under fairness,
the first three under their conditions besides, which, with `ENABLED`, is out of the
prover's reach. `CanceledByOwnPR`, `DismissesOlder` and `NoPlaceholderStored` are
refuted.

## Not modelled

- The runners, the Gitea client, the diff parser, the webhook parser, the
  configuration loader and the secret box are subprocesses, I/O or pure functions
  of one call. What they contribute to the modelled state is there as a choice of
  outcomes: an agent answers any findings, a call fails before or after its
  effect, a connection probe succeeds or not. The provider that the agents share in the
  cc-switch configuration, and the retries of the Gitea client, would be modules
  of their own.
- The mirrors of pull requests (`internal/gitcache` without its incident part):
  one lock of the repository, no passes and no janitor.
- Of the console server: login and session, the read-only handlers (statistics,
  options, status, effective configuration, version), and the effect of a setting
  on the live configuration.
- Of the frontend: what has no state, or state that nothing else reads: messages,
  the statistics, option lists and model lists, the logs of a job, and
  everything that is computed from a report or a skill and drawn (`LineChart`,
  `BarChart`, `buildSkillSignals` and the cards). Seen while reading: the bar
  chart names the first item as the largest share whatever the order is, and
  `buildSkillSignals` may show a card twice.

## Plan

Done, in this order: the queue; `ReviewRun` and `FindingLedger`; `AnalysisQueue`,
`AlertThrottle` and `AnalysisLifecycle`; `IncidentCache`; the console with its
panels; and the proofs of each. What a continuation would take up:

1. `ProviderSwitch`: the provider in the shared configuration, its mutex and its restoration.
2. `GiteaRetry` and `DiffPosition`: the retries of the client, and diff positions against a reference definition.
3. `PullCache`: the mirrors of pull requests under the lock of the repository.
