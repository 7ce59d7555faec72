# Pantheon Ops: formal models

Pantheon Ops is an operations console: a Go backend that manages hosts (CMDB),
deploys packages to them over SSH, drives Kubernetes, distributes files, and
carries the usual platform around it (login, sessions, tenants, permissions).
Its hardest code is the deployment engine,
`src/backend/modules/business/deploy`: several server processes share one
database, requests and goroutines interleave between single SQL statements,
processes crash and recover, and claims and leases expire. The models start there, and go
on with the browser shell, `src/frontend`, where requests, answers, timers and
sign-outs interleave over state that outlives the subject it was read for.

All paths below are relative to `src/backend/` unless they begin with `src/`.
`deploy_service.go` is `modules/business/deploy/deploy_service.go`.

## Inventory

| Component | State | Operations | What is hard |
|---|---|---|---|
| Deployment tasks (`modules/business/deploy`) | task, task-host, attempt, lease, step, event rows; per process `taskWorkers`, `taskCancels` | start, pause, resume, retry, cancel, delete, report, `runAsyncTask`, `ReconcileDeployQueue` | interleaved statements, crash and recovery, expiring claims, lost wake-ups |
| Plan orchestrator (`deploy/orchestrator`) | frozen plan, step rows, the outcomes of the attempt in progress | `ValidateDAG`, `RunHostSteps` | conditions over partial outcomes, resume from checkpoints |
| Event log and automatic rollback (`deploy_rollback.go`, `withTaskSequence`) | event rows by sequence number, rollback tasks | append, start a rollback | duplicate terminal events, rollback started twice |
| Templates, credentials, import/export | rows | render, validate, rotate | data conversion |
| Service instances (`modules/business/service`) | desired/observed/health state, version, `lifecycle_version`, last correlation id | `TransitionState`, `ReconcileInstanceState` | a stale read overwrites a transition, a replayed correlation id |
| CMDB (`modules/business/cmdb`) | hosts with an optimistic version | create, update, writeback | stale version |
| Kubernetes releases and backups (`modules/business/k8s`) | release rows pending/applying/succeeded/failed/timed_out | create, execute, roll back, reconcile | reconcile against the request that is still polling; ambiguous apply errors |
| File distribution (`modules/business/filedist`) | task and target rows | execute, monitor, retry | the monitor reads counts while targets are retried |
| Observability, Argo CD | alerts, applications | ingest, proxy, sync | an external system's truth |
| Login, MFA | attempts, lockouts | login, verify | throttling |
| Shell session (`src/frontend/src/api/request.ts`, `AppLayout.tsx`, `Login.tsx`) | cookies, CSRF token and session hint, operation token; `refreshPromise`, the verification resolver, `logoutTransition` | send, refresh and replay, verify and replay, sign in, sign out, redirect | several 401s at once, a lost rotation, a sign-out meeting a refresh |
| Shell stores (`store/*`, `core/auth/bootstrap.ts`, `core/router/prefetch.ts`) | menu tree, tenant context, profile, warmed data, viewpoint | fetch, settle, reset, warm up, expire | module state survives a sign-out by navigation, late answers |
| List pages and refresh sync (`core/refresh`, `config/dict`, `refresh_sync.go`) | a version per topic, polled versions, rows, query, request number | load, search, save, poll, publish | superseded loads, rows warmed before the change |
| Sessions and tokens (`modules/auth/session`, `pkg/authtoken`) | session row, Redis access and refresh tokens, reverse index, blacklist | refresh, switch tenant, revoke | two stores without a transaction; refresh against revoke |
| Identity, tenants | users, roles, memberships, casbin policy | CRUD, suspend, switch | membership that ends while a session lives |
| System settings, low code, dashboard, HTTP | rows, caches | CRUD | caches |
| The other pages, layout, tabs, translations of `src/frontend` | form and view state | the API's client | |

The deployment engine calls the CMDB and service instances after a host or a
task has its result; both calls may fail, and then the handler returns early.
Operators and external executors call the engine through the HTTP API.
The shell calls the session service and every API; its stores are filled by
those answers and emptied at both sides of a sign-in. The server counts a version
per topic after each write; every open shell polls the versions and publishes a
newer one to its pages. Everything else the inventory lists runs beside these
without shared state.

What makes each component correct:

* **tasks**: at most one live claim per task host; bounded attempts; a verdict
  is never rewritten; two tasks never run on one host together; no step runs
  twice; results are complete before a task is final; whatever is started,
  paused, canceled or retried gets there;
* **orchestrator**: exactly the acyclic plans are admitted, steps follow their
  dependencies and conditions, checkpoints survive every interruption;
* **event log**: numbers are dense and unique, one terminal event per run, one
  rollback per failure;
* **service instances**: a transition is applied to the state it was validated
  against; a replay changes nothing;
* **releases, file distribution**: a terminal status is written once and agrees
  with the targets; a timed-out release is settled by reconciliation only;
* **shell session**: a write the user submitted once is executed at most once;
  a refresh token is spent once; every request settles; a sign-out ends;
* **shell stores**: whatever the shell shows belongs to the signed-in subject;
  no caller joins a promise that is over; no spinner turns for ever;
* **list pages**: the rows are those of the query; what was saved is shown;
  counted changes of others are shown;
* **sessions**: a consumed refresh token is never accepted again; a revoked
  session gets no new tokens; a session never outlives its membership.

## Modules

| Module | Models |
|---|---|
| `DeployState` | the tables as functions, their row types, and the table operations several handlers share (leases, attempts, the three statements of `recomputeTaskStatus`) |
| `DeployControl` | the API handlers, each split where another statement can come between two of its own |
| `DeployWorker` | `runAsyncTask`, `runAsyncTaskHost`, the SSH steps, crash, restart, expiry |
| `DeployEngine` | composes the two: `Next`, fairness, the properties |
| `DeployLifecycle` | what the engine promises about a task: its status, the results of its hosts, and the verdicts that were formed and may still be written |
| `DeployDag` | the dependency graph of a plan and the depth first walk that `hasDAGCycle` and `topoOrder` both make, call by call |
| `DeployPlan` | submission and validation of a plan, its order, and `RunHostSteps` over one host and several attempts, with the step rows |
| `ShellSession` | the requests of one page, the interceptors, refresh, verification, sign-in and sign-out, and the session service they meet |
| `ShellCaches` | what the shell remembers of a subject, across sign-ins |
| `ListSync` | the dictionary page, the warmed rows, the versions and the polling |
| `DeployTypeProofs`, `DeployLedgerProofs`, `DeploySettleProofs`, `DeployLeaseProofs`, `ShellSessionProofs`, `ShellCachesProofs`, `ListSyncProofs`, `DeployPlanProofs` | the theorems |
| `MCDeploy`, `MCDeployPlan`, `MCShellSession`, `MCShellCaches`, `MCListSync` | symmetry and finite sets of plans for TLC; the shell modules need none |

### How state corresponds to the code

`status[t]` is `biz_deploy_task.status`, with `"deleted"` for a soft-deleted
row; `row[t][h]` the task-host row (`"none"` before the start and after a
deletion); `attempts[t][h]` the attempt rows in `attempt_no` order, `live` being
`lease_expires_at > now`; `lease[h]` the host lease; `ckpt[t][h]` the steps
whose row says success. `run[r]` is a `runAsyncTask` goroutine: its place in the
function, its process and whether the context it stored in `taskCancels` is
canceled (`killed`); `Loaded` is `taskWorkers` seen from one process.
`worker[r][h]` is the goroutine of a host: its place in the attempt loop,
the attempt it claimed, the next step, the result it carries. `call[c]` is an
API request between two of its statements. All three carry in `res` what one
statement of `recomputeTaskStatus` leaves to the next: the verdict derived from
the host rows (`active`, `settle`), which is what `Verdicts` collects for
`DeployLifecycle`. `up[p]` says whether a process lives.

`DeployPlan`: `plan` is the list of steps as it was submitted; `mark` is the map
`state` of `hasDAGCycle` and `visited` of `topoOrder`, `path` the stack of the
calls of their recursive closure `visit` and `rest[k]` the dependencies that the
loop of the call for `k` has not reached. Each call, turn of the loop and return
is a step, so the recursion is a state machine that can be reasoned about by
induction over steps. Both walks use the same variables, one after the other:
`hasDAGCycle` takes the keys in the order of a Go map, which is any, and
`topoOrder` in the order of the list. `todo` is first the result of `topoOrder`
and then what `RunHostSteps` has left of it; `done` is `executed`, `step` the
rows. A plan with a bad key or reference is refused at once, whatever the walk
would add to the message. The validation and the order are pure computations
over a frozen plan: an interruption has no effect before the walk of the steps
begins, so none happens there.

`ShellSession`: a *pair* is an access and a refresh token; `sessionOf`, `access`,
`refreshable` and `revoked` are the session rows and the Redis keys together.
`req[r]` is the promise of one request with the headers and flags of its config
(`pair` the cookies it left with, `csrf` the pair whose CSRF token it carries,
`op` the session its operation token was issued for, `retried` = `_retry`,
`opRetried` = `_opRetry`); `refresh` is `refreshPromise` with its request; `waiter` the
resolver of `secondaryVerifyController.ts`, `modal` `verifyVisible`; `leaving`,
`grace` and `transition` are `performLogout`, its 800 ms timer and
`logoutTransition`; `unloading` the time between `location.href = '/login'` and
the new document, in which callbacks still run. `lost` and `runs` are history
variables for the properties. A callback of JavaScript runs to its next `await`,
and so does an action.

`ShellCaches`: a subject is the number of its sign-in; an answer is the subject
whose cookie the request carried, or a failure. `calls` are the requests in
flight; `menu`, `tenant`, `profile`, `warm` are `useMenuStore` with
`menuFetchSeq`, `useTenantSessionStore`, `pendingProfilePromise` and one entry
of `warmDataCache`. `token` and `userInfo` are `useAuthStore`, `viewpoint` is the
key in `sessionStorage`. `Login` opens the shell at once, where the code first
awaits the menu: the model has every behaviour of the code and a few more.
`EnterShell` is `AuthGuard` (`App.tsx:41-47`), which admits a page with a token or
a hint, also when a late profile has brought the token.

`ListSync`: the rows of an answer are the number of changes the table had seen
when they were read. `version` is the row of `system_refresh_version`: it counts
requests whose HTTP status is below 400 (`refresh_sync.go:129-145`), and a refusal
is answered with 200 (`response.go:47-58`), so it is not a count of changes.
`pending` are the changes whose middleware has yet to run, `counted[d]` the version
that change `d` was counted under. `polls` is the set of versions that the polls in
flight have read; two polls with the same version are one. `page` is the state of
`DictPage` with `current` for `typeLoadRequestSeqRef` (the call whose answer
counts), `due` for the timer of its effect, and `outdated` while the newest load
asked for another query than the toolbar's; `warm` and the calls that are *kept*
are the cache entry with its promise; `known` is `versionsRef`. `own` is one write
of the page's own: `submitTypeForm` under its modal, or a deletion, a batch or an
import, which leave the toolbar usable while they await (`DictTypeTab.tsx:208-267`);
each reloads with the query of the render it was clicked in.

Definitions that a comment introduces as a *mutant* are not used by the
specification. Each is a plausible mistake in the definition that follows it;
putting it in that definition's place makes TLC find a property violated, which
shows that the property depends on that code.

### Grain and abstractions

* A step of the model is one statement, or one transaction, of the code:
  `recomputeTaskStatus` reads the host rows, then the attempts, and then writes the
  task row whatever it says by then; `failStartedTask` and `failQueuedTask` make
  their updates one by one. Statements are merged where nothing that a property
  speaks of can tell: `Restart` performs `ReconcileDeployQueue` in one step, the
  leases of several hosts are given back in one, the last read of the task, the
  count of live attempts and the release of the lease are one (`FinalizeHostResult`,
  `WorkerFinalize`), and a writeback that succeeds is one with the read of the hosts
  that follows it. A writeback that fails is a step.
* Time is only "this claim or lease has expired".
* Every task targets every host of the instance.
* In the engine the steps of a host form a chain; conditions, failure policies
  and dependencies are the subject of `DeployPlan`, where the host is one.
* A task outside `SshTasks` is a manual one: started without a worker and
  settled by reports.
* In the shell: a write is refused, executed or lost as a whole; the statements
  of the session service inside one request are one step, so the race of two
  rotations inside the server is not shown. Every request of `ShellSession` is
  one that needs the CSRF header. The cookies and the CSRF token kept for them change
  in one step, and the CSRF cookie lives as long as its session. The POST that
  `clearClientSession` starts leaves after the token was cleared, is refused, and is left out.
* `ShellSession` and `ShellCaches` are the same sign-ins seen twice: what is sent
  and replayed, and what its answers fill. They share no variable: the stores
  see of the session only whose cookie a request carried.
* The versions of `ListSync` are one topic. `Touch` is a step after the write and
  may never happen (the middleware ignores its error); `TouchUnchanged` counts a
  refused write and the other writes of the topic (cache refresh, items); an import
  changes the table and is never counted (`system_modules.go:396-413`).
* Failures of the database itself, and errors in evaluating a condition, are
  not modelled. Events, logs, notifications and metrics are left out.
* The synchronous path (`asyncExecution = false`) is left out: `main` enables
  the asynchronous one.

## Runs

Operators and the environment act through `Event(e)`: an instance lists which
kinds of events it allows (`Events`) and how many of them (`MaxEvents`).
Without that bound the same request repeats for ever. `MaxAttempts` bounds the
attempt rows of a host, `MaxRuns` the attempts of a plan. `AttemptMax` is 2
rather than the code's 3: one retry and then the limit. In the shell `MaxSessions`
and `MaxSubjects` bound the sign-ins, `MaxPairs` the token pairs, `MaxFaults` the
expiries, revocations, losses and reloads, `MaxCalls` the requests in flight,
`MaxSeq` the fetches of the menu, `MaxPolls` the version requests in flight,
`MaxChanges` the changes of the table, `MaxVersion` the writes the middleware counts
and `MaxEvents` the searches, failures, expiries and warm-ups of a page. Losing a
refresh is no fault that `MaxFaults` bounds: it may happen to every one.

| Run | Instance | Shows |
|---|---|---|
| `deploy_all` | one task, one host, two processes, two concurrent requests; every request and fault, 4 events | types, the attempt ledger, of two workers on a host one has outlived its claim, and that the engine implements `DeployLifecycle` |
| `deploy_tasks` | two tasks on two hosts, one process, three goroutines; 5 events without pause | host leases and the finality and completeness of results |
| `deploy_reports` | a manual task on two hosts, two concurrent requests; 5 events | concurrent reports leave no task behind |
| `deploy_live` | two hosts, two steps, the continue policy; 5 events without crashes, fair | no attempt repeats or loses a step; every started task and every accepted cancellation ends |
| `plan_runs` | every submission of up to three nodes over three keys, and the three-step plans with every condition and policy; two attempts, kill, suspend, crash | admission, order, conditions, policies, checkpoints |
| `shell_session` | a plain and a guarded write, the verification and the sign-out; two sign-ins, two pairs, one fault of any kind next to any lost refresh; fair | no write is executed twice, no refresh token is spent twice, and, where refreshes end, requests settle and sign-outs end |
| `shell_caches` | two subjects, two requests in flight, every store; fair | menu, warmed data and viewpoint are the subject's; promises and spinners end |
| `list_sync` | two queries, two list requests, two polls, one change, two counted writes, two events; fair | the page shows its query, its own write, and counted changes while it is filtered |

Two hosts are what it takes for one to settle while another is open; two tasks
for a lease conflict; two processes for a claim that outlives its owner; two
goroutines per task for a resume that meets the leaving worker. Four events
reach, for example, start - expiry - crash - restart, or start - pause -
resume - cancel; both attempts of a host, the refusal after the last one and
every branch of the code are reached. In the shell two sign-ins are a boundary
to cross, two requests one to supersede the other, and two pairs one rotation;
the fault may be an expiry whose rotation is then lost.
One guarded request is a limit, not a simplification: see below. One change and two
counted writes are what it takes for a version to move without a change, before or
after the one that counts it. Every action of the modules happens in a passing run.
Deadlock is not checked: a system in which every task has ended, every request has
settled or the events are used up, stops.

Four more runs check a statement of the repository that the code does not keep.
Each shows one behaviour.

| Run | What happens |
|---|---|
| `retry_nothing` | a retried host has no attempts left, so the retry runs nothing and the task stays `running` |
| `two_workers` | a process that had crashed restarts and starts a goroutine for a task that runs in another process; the claim of the worker there outlives its five minutes, is reaped, and a second worker executes the host (two processes, two steps, 3 events) |
| `delete_race` | a delete that checked the status deletes a task started in the meantime |
| `stale_tenant` | a tenant context asked for before a sign-out arrives after the next sign-in and is shown as the new subject's; `useMenuStore` numbers its fetches against this, `useTenantSessionStore` does not |

### Outside these settings

The passing runs leave some events out on purpose: with them a property does
not hold of the code, in a way the repository says nothing about. They are:

* `ScriptHoldsLease`, `SuccessIsComplete`, `FinalMeansSettled` with pauses or
  crashes: a host that settled gives up its lease, and a resumed run executes
  its pending attempts again without taking it back, since only hosts that are
  still `running` are leased.
* `FinalIsKept` with a pause and a crash, or with a failing start after
  reports: `recomputeTaskStatus` and `failStartedTask` overwrite `canceled`.
* `OneTaskPerHost` when host leases expire: the thirty minutes are not renewed.
* `NoStepRepeated` and `CheckpointKept` when attempts expire: two workers then walk
  the same steps (`two_workers`). Their run has no crash; the theorems cover crashes.
* A pause that finds the last step already done leaves the task in
  `pause_requested` for ever: only a canceled walk completes a pause.
* `TaskEnds` when a process restarts before the old claim has expired: the
  recovered worker is refused, ends, and nothing tries again.
* An `on_changed` step runs after a resume although its row says that nothing
  changed: `Checkpointed` restores every step as changed.
* `CancelEnds` with a rotated credential (`failQueuedTask` only fails a task
  that is still `running`), with manual tasks (no worker completes the
  cancellation), with crashes (`ReconcileDeployQueue` ignores
  `cancel_requested`) and with retries of exhausted hosts.
* `TaskEnds` under fail_fast with two hosts: the hosts that wait for the
  semaphore are abandoned with their rows `running`.
* `FinalMeansSettled` with a retry concurrent with a report, or with a refused start:
  the verdict of `recomputeTaskStatus` is written over hosts that are open again, and
  `failStartedTask` fails the task before its hosts. Both overwrite a pause or a
  cancellation that was requested in between. `DeployLifecycle` says what remains
  true.
* `CancelEnds` also when the cancellation comes between the two updates of
  `failQueuedTask`: its hosts are failed, its task stays `cancel_requested`.
* `ScriptHoldsLease` when a start fails between its statements while a
  cancellation is under way: `CancelTask` has marked the task, `failStartedTask`
  ends it, `RetryTask` opens its hosts again, and only then `CancelTask` skips
  its hosts. The run of the retry finds no open host to lease, and its workers
  execute the skipped hosts without the lease (`runAsyncTaskHost` looks at the
  task, not at the row).
* `SettledIsFinal` when the CMDB writeback fails: the handler returns before
  it recomputes the task.
* A resume whose goroutine starts before the previous one has left
  `taskWorkers` is dropped.
* A pause through another process does not stop the walk: the step that is
  running ends as canceled and the next one starts.
* A skipped checkpoint stays skipped although its condition would hold in the
  later attempt.
* `RequestsSettle` while a refresh hangs: it is sent by bare `axios`
  (`request.ts:147-157`), without the ten seconds of the instance `request` (line 60),
  and holds every request that met a 401 until its connection breaks. A fetch of the
  menu that meets a 401 waits with them, so `MenuStopsLoading` takes it to be
  answered.
* A second sign-out within the 800 ms of the first finds `logoutTransition` taken back
  by the first one's timer, and its revocation may then wait for a refresh. A refresh
  answered after a sign-out sets the session hint again.
* `AtMostOnce` speaks of the writes of the pages; the password check of the
  verification is replayed after a wrong password, which is answered with a 401.
* `RowsOfQuery` after a deletion, a batch or an import during which the user has
  searched: the reload asks for the old query under a new request number
  (`DictTypeTab.tsx:208-267`), and the page rests with its rows. `outdated` marks
  the case.
* `RequestsSettle` with two guarded requests at a time: the second overwrites the
  resolver of the first (`secondaryVerifyController.ts:8`).
* The profile of an earlier subject may arrive late and be written, together with
  the mark that the page is signed in (`bootstrap.ts:24`).
* A change of someone else that the poll announces is not shown by a page that
  lists the unfiltered query while its warm entry lives: the reload is answered
  from the entry, and the version is known from then on. `FilteredCatchesUp` is
  what remains true. The other list pages behave alike where they read warmed
  data; `DictItemTab` and others number no request, so their last answer wins.

### Fairness

`FairSpec` is used by the liveness runs. A goroutine or a request that can take
its next step takes it (weak fairness of `RunStep`, `WorkerStep` and
`ControlStep`): the Go scheduler runs them and nothing in them waits for
another task. A script ends, because the executor bounds it by
`execution_timeout_seconds`; `StepSucceeds` is part of `WorkerStep` and
`StepStops` is enabled by a canceled context. A crashed process is started
again (weak fairness of `Restart`). No operator has to act, nothing has to
expire, fail or crash.

The shell modules assume that a request is answered or, after the ten seconds of
`request` (`request.ts:60`), rejected (`ServerAnswers`, `ServerReads`, `SaveStored`,
`SaveAnswered`, `Answer`). The refresh has no such bound, so nothing is assumed of
`ServerRefreshes`: `RequestsSettle` and `LogoutEnds` are stated for behaviours in
which refreshes end (`RefreshesEnd`). They also assume that JavaScript runs the callbacks of settled
promises and elapsed timers (`Receive`, `ReceiveRefresh`, `LogoutRevoked`,
`LogoutClears`, `CallSettles`, `LoadDue`, `Saved`), that an assigned location is loaded (`Unload`), and that the interval of `useRefreshPolling` fires
(`Poll`, `PollReceived`). Nothing is assumed of the user, and no fault has to
happen.

## Proofs

TLC checks small instances; the theorems hold for every number of tasks, hosts,
processes, requests and goroutines, from `DeployAssumption` (the constants are
naturals, `NoTask` is not a task). They hold under every set of events, except
where a hypothesis on `Events` is named below.

* `DeployTypeProofs`: `TypesHold`. `TypeOK` is not inductive by itself:
  `TypeInv` adds that a request or goroutine in progress has a task and a
  process, that a host goroutine exists only while its `runAsyncTask` waits for
  it, and that a worker about to report carries a result.
* `DeployLedgerProofs`, the ledger: `OneLiveAttemptHolds`, `AttemptBudgetHolds`,
  `AttemptOwnedHolds`, `AttemptVerdictHolds` and `OneClaimedWorkerHolds`, under every
  event: two workers meet on a host only when one has outlived its claim, because two
  that hold live claims hold the same attempt, and an attempt has one owner. Where
  running workers never outlive their claims this gives `OneWorkerPerHostHolds`, a
  lemma of the proofs below and not the promise of `ReconcileDeployQueue`, which the
  run `two_workers` shows broken. The inductive invariant is `LedgerInv`: the first three
  together with `HeldOpen` (the attempt a goroutine holds exists and is
  unsettled) and `HeldLive` (while claims do not expire it is also live).
  `HeldOpen` is what makes `finishAttemptWithStatus` safe although it looks at
  nothing but the row id: without it a verdict could be overwritten.

  The forty actions are first sorted by what they do to the ledger
  (`LedgerMoves`): nothing, reap, expire, claim, or finish the attempt of a
  goroutine that lets go of it. Each part of the invariant is then shown once
  per kind of move. A claim is safe because `Claimable` finds no live attempt
  and fewer than `AttemptMax` charged ones in the transaction that inserts the
  new row, whose number is unused; every other move only settles what was
  unsettled (`MovesSettle`).
* `DeployLedgerProofs`, the checkpoints: `NoStepRepeatedHolds` and
  `CheckpointKeptHolds`, both while the claims of running workers do not expire; processes
  may crash, and the claims they leave behind expire. `RunHostSteps` reads a
  checkpoint before it starts a script and clears it when the script stops, and
  neither statement is guarded, so what keeps them consistent is that nobody
  else writes in between: the invariant is `OneWorkerPerHost` and
  `NoStepRepeated` together. A step of a host goroutine touches only its own
  host (`WorkerMovesCkpt`), and requests, `runAsyncTask`, crashes and restarts
  leave the checkpoints and the goroutines in a script alone (`OtherMoves`).
* `DeploySettleProofs`, the lifecycle: `LifecycleHolds`, under every event. Every
  step of the engine is a step of `DeployLifecycle` or a stutter (`NextMoves`), with
  the host rows for its results and with the verdicts that requests, runs and host
  goroutines carry between the statements of `recomputeTaskStatus`, and the failure
  a start may still meet, for its formed verdicts. That a verdict is written over a
  pause, a cancellation or reopened hosts is part of the lifecycle; that one was
  formed on settled hosts, or that a task fails while it is running, is the promise.
  `RowsFit` and `AllRows` are what the types lack: a task that has not started, or is
  deleted, has no host rows, and any other has one for every host.
* `DeploySettleProofs`, final tasks: `FinalIsKeptHolds`, `FinalMeansSettledHolds`
  and `SuccessIsCompleteHolds`, in engines that are `Undisturbed` (and, for `FinalMeansSettledHolds`, in which no start is
  refused, since `failStartedTask` fails the task before its hosts).
  `recomputeTaskStatus` and `failQueuedTask` write a final status over whatever
  they find or over `running`; what protects a final task is that nobody is
  there to write. `DriverInv`: a task has at most one *driver*, the request that
  has started or retried it or the goroutine of its run until it has settled the
  task, and while it has one it is running, being canceled or deleted. The rows
  follow (`RowsFinal`). A success is complete because the walk of a host goes
  through its steps in order (`Walked`: every step before the current one is
  checkpointed), so a goroutine that reports success has them all (`RowFull`).
* `DeploySettleProofs`, reports: `SettledIsFinalHolds`, in engines that are
  `Answered`, which allows any number of concurrent reports next to workers,
  pauses and expiring claims. The invariant says that a recomputation is still
  due while a running task has no open host (`RestIsDue`), or while a task that
  is not yet a success has only successful hosts (`WholeIsDue`: a failed task
  may get its last success from a late report). A recomputation that finds a
  live claim leaves the task as it is, so it also needs that somebody holds every
  live claim and will recompute after it (`LiveHeld`).
* `DeployLeaseProofs`: `ScriptHoldsLeaseHolds` and `OneTaskPerHostHolds`, while
  `LeasesLast`. `ensureTaskHostLeases` takes the leases of the open hosts once,
  before the goroutines start, and whoever settles a row gives its lease back.
  `LeaseInv`: a host goroutine has the lease, or nothing left to execute (all
  steps checkpointed, or all attempts used up), or will find its task canceled or
  gone before it claims an attempt (`Leases`). The hard case is `CancelTask`,
  which marks the task first and skips its open hosts in a second statement:
  meanwhile the task may have settled, failed and been retried, and the rows it
  skips are those of the retry. `SkipInv` shows why this is harmless here: a
  task that was being canceled can only settle as failed once every host has
  used up its attempts or done all its steps, so what is skipped late would not
  have been executed. The other parts (`Rounds`, `ReadyRows`, `NotFailed`,
  `GaveUp`) relate the rows to the attempts used. The actions are first reduced
  to what each may do to one table (`RowStep`, `StatusStep`, `CallStep`,
  `RunMove`, `LeaseStep`, `WorkerTurn`).

`Undisturbed`, `LeasesLast` and `Answered` restrict `Events` and nothing else
(`Answered` also asks for a host: the code refuses a task without one). Each event
is left out because with it, and with no other of them, TLC finds one of the
properties violated on an instance of at most two tasks, two hosts and six events
(`pause` together with `resume`):

| Hypothesis | Leaves out | Because |
|---|---|---|
| `Undisturbed` | pause, report, crash | a report, a leaving or a recovered worker recomputes the task behind its driver, and a resumed run executes settled hosts again |
| | stale | a delete reconciles a running task that is being driven to `failed` |
| | attemptExpiry | a worker whose own claim has expired no longer stops its run from settling the task |
| `LeasesLast` | and leaseExpiry, service | leases are not renewed; `failStartedTask` opens the task to a retry before a cancellation has skipped its hosts |
| `FinalMeansSettledHolds` | and service | `failStartedTask` fails the task one statement before its hosts |
| `Answered` | resume, retry, cancel | they set a task with settled hosts to running (a retry when a stale verdict has failed it), or settle hosts, without a recomputation |
| | crash, cmdb, service | a process or handler ends between a result and the recomputation |

* `ShellSessionProofs`: `SessionTypes`, `AtMostOnceHolds`, `RefreshIsFreshHolds`,
  for every number of requests, sign-ins, pairs and faults, and any number of
  guarded requests at once. `TypeInv` adds that an answer that carries a session
  carries an issued pair. `OnceInv`: a request that may still be sent has not
  been executed, and one that was executed is answered `ok`, lost or settled;
  it needs `WaiterWaits`, that the verification resolver belongs to a request
  that waits, since `VerifySucceeds` sends whoever it finds. `FreshInv`: the pair
  in the cookies is refreshable, lost, of a revoked session, or consumed by the
  rotation whose answer is on its way back, and that answer carries a good pair.
* `ShellCachesProofs`: `CachesTypes`, `MenuOfSubjectHolds`, `WarmOfSubjectHolds`,
  `ViewpointOfSubjectHolds`, `PromisesPendingHolds`, for every number of subjects
  and requests. The menu needs `MenuOwned`: the newest fetch, the only one whose
  answer is written, carries the number `menuFetchSeq`, which no boundary leaves
  as it was, so its call left under the present cookie.
* `ListSyncProofs`: `ListTypes`, `RowsOfQueryHolds`, for every number of calls.
  The invariant relates the page to its request (`CurrentFits`: the current call
  asks for the query in the toolbar, or a load is due, or the load is outdated), the
  entry to its call (`WarmEntry`: it lists the unfiltered query); the closure of a
  write holds some query of the toolbar's (`SaveFits`), and a load that asks for
  another than the present one is outdated.

The inductive invariants were checked by TLC before they were proved.

* `DeployPlanProofs`: `PlanTypesHold`, `AdmitsExactlyDagsHolds`,
  `OrderRespectsDepsHolds`, `ConditionsHold`, `FailFastStopsHolds`,
  `SuccessIsWholeHolds` and `CheckpointIsFinalHolds`, for every set of submitted
  plans, every number of attempts and every interruption, from `PlanAssumption`
  (a plan is a finite sequence of steps over `Keys`).

  Both walks of the graph keep `GraphInv`: the calls in progress are a chain of
  dependencies without a repetition, and are the keys marked as visiting
  (`PathInv`); what a call has looked at is done or is the next call of the chain
  (`LookedAtInv`); the keys that are done have only dependencies that are done,
  and no set of them waits on itself (`DoneInv`). A dependency that is being
  visited closes a cycle, the calls from its own to the last (`BackEdge`); when
  every key is done there is none (`AllVisitedAcyclic`). So a plan is admitted
  exactly when it is a graph without cycles (`ValidInv`), and `topoOrder`, which
  passes over a key that is being visited, never meets one. What it has put out
  are the keys that are done, each after its dependencies (`QueueInv`); while the
  steps are walked, those that left the queue have an outcome, so none is missing
  when `evaluateCondition` looks, which skips a missing one in silence.
  `OutcomeInv` relates the outcomes to the rows and the two flags: an outcome
  that is a success has its checkpoint, a failure or a cancel has set its flag,
  so an attempt that ends without either has every step checkpointed. That a
  checkpoint is final rests on `~Checkpointed` where a script starts, and on the
  row of a script in progress being `running`, which is all its end overwrites.

  Here the induction over a recursive function is an induction over its calls:
  that `visit` ends is not proved; that whatever it returns is right, is.

Only model-checked: liveness under fairness (`TaskEnds`, `CancelEnds`,
`RequestsSettle`, `LogoutEnds`, `LoadingEnds`, `MenuStopsLoading`,
`OwnSaveShown`, `FilteredCatchesUp`), which the prover does not reach.

## Plan

Done: the task engine, its lifecycle, the plan orchestrator; the browser's
session, its stores and the refresh of its lists. Every safety property
that a run checks is proved, and the engine's refinement of its lifecycle. What
is left, in this order:

1. `ServiceInstance`: `TransitionState` split into read and guarded update,
   reconcile, the replay by correlation id; proof that a transition applies to
   the state it was validated against when a version is given.
2. `Session`: the statements of rotation, tenant switch and revocation over the
   session row and the Redis keys, which `ShellSession` takes as one step each.
3. `DeployEvents`: `withTaskSequence`, terminal events and automatic rollback,
   composed with the host reports.
4. `Release` and the Velero reconciler: execute, polling, timeout, reconcile and
   roll back; the reconciler against the goroutine that creates the backup.
5. `FileDistribution`: transfers, the monitor, retry.

## Not modelled

* The opened tabs and the layout of the shell: a list in local storage that one
  page edits; two tabs of a browser, which share cookies and `localStorage`, are
  not modelled either.
* Templates, import and export, the low code generator, dashboards, and the
  translations, forms, tables and pages of the frontend. Most lines of the
  frontend are of this kind: about a third are translation resources and
  generators of source text, the rest renders React components whose state is
  one form or one table. A list page has the protocol of `ListSync`, which is
  modelled once, on the page that has all of it; modelling it again for every
  page would cover more lines and show nothing more.
* The HTTP layer and CRUD services: relational data without a protocol of their
  own.
