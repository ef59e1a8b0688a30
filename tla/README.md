# Verification of OctoHubs

TLA+ models of the parts of OctoHubs where threads, processes, databases and
other servers meet, the TLC configurations that check them on small instances,
and TLAPS proofs for every value of the constants. Paths below are relative to
the repository.

Contents: 1 the system, 2 the modules, 3 the runs, 4 the proofs, 5 findings,
6 observations, 7 plan, 8 what is not modelled, 9 how to run.

## 1. The system

OctoHubs is one FastAPI application (`asgi.py`, uvicorn with one worker) over
one PostgreSQL database, beside a React front end. It manages several Emby
servers: it scans their libraries, probes media, collects and announces new
publications, synchronises users and collections, and searches for releases.
Nearly all of the long work runs in daemon threads of the process. Although the
image starts one worker, the code is written for several processes on one
database (a rolling restart, a second container): every long activity is fenced
by an advisory lock, a lease row or a claim row as well as by a mutex.

| Component | State | Operations | What is hard | What makes it correct |
|---|---|---|---|---|
| Update workflow (`core/tasks.py` WorkflowManager, `core/storage/storage_workflows.py`) | process mutex, advisory lock, execution row with `active_slot`, `heartbeat_at`, `stop_requested`; `_status`; worker and heartbeat threads | start, run steps, stop, shutdown, finalize, heartbeat, recover | three layers of ownership that fail separately; late heartbeat calls; finalization that raises | one active execution, no overlap, durable success, a final outcome, no lock left behind, a stop is honoured, a run ends |
| Automatic scheduler (`core/tasks.py` AutoScheduler, `core/auto_scheduler_workers.py`, `services/scheduler_occurrences.py`) | `_next_run`, `_occurrence_retries`, `_occurrence_runs`; pool; one key-value row per kind; renewal threads | evaluate, claim, trigger, finish, renew, lose, stop | three threads may end a claim; processes compete; commits that raise | one consumer, recorded only if done, no orphaned run, consumed in the end |
| Notifications of Latest Publications (`emby_latest/notification*.py`, `core/storage/storage_latest_notifications.py`) | batch cache, announced state, ledger of deliveries, guard | plan, claim, send, record, checkpoint, reset | crash between message and record; lost guard; lost answers | announced once, recorded only if sent, settled in the end |
| Event Bridge credential (`emby_runtime/event_bridge_*.py`) | record in the settings, journal file, two dictionaries, the plugin's own copy | Connect, push, promote, cancel, remember a refusal, authenticate, reconcile | a push may be refused, lost or applied silently; the process may die between any two writes | a shared generation, refusals that last, rotations that settle |
| Event Bridge sockets and limits | counters, leases, settings | acquire, release, forward | admission at a limit | bounded, never negative |
| Operations centre and background jobs (`core/operations.py`, `services/background_jobs.py`, `core/tasks.py` ScanManager) | registry row, heartbeats, tracked ids, sweeper, job threads | start, update, finish, fail, renew, reap, recover, fence | every write may raise after its commit; a sweep races the end of a job; shutdown | live work is shown, abandoned work ends |
| Media probe (`emby_probe/`, `core/storage/storage_probe.py`) | queue rows with token and claim time, monitors | discover, claim a batch, renew, complete, release, stop | only the current item of a batch is renewed; stop while committing | one worker for a row, no row lost |
| Collector of Latest Publications (`emby_latest/batch_processor.py`, ...) | cache, state, cursors | collect, compare, publish, prune | the film is renamed, cards meet older cards, state merges | nothing announced is news again, a card keeps its meaning |
| Users (`emby_users/`) | groups, playback state, trackers, ordered locks | sync, mutate, apply settings | echoes between servers, nested locks | convergence, no deadlock |
| Collections (`emby_collections/`) | definitions, last results, lock | sync, schedule | external lists change | one sync of a collection at a time |
| Library scans (`emby_libraries/`, `emby_runtime/library_poller.py`) | jobs, tracked libraries, poller, records | start, detect, poll, publish, reset, stop | poller and detection publish side by side, cancelled tasks leave threads behind | records only advance, quiet after a stop, a scan ends |
| Emby sockets (`emby_runtime/websocket_manager.py`, `streams.py`) | connection, its threads, fences, cached streams | connect, replace, remove, refresh | a close that races the next connect, threads that outlive a join | one connection, the cache only advances |
| Realtime (`realtime/`) | snapshot cache with generations, subscriber queues, change feed | invalidate, build, publish, drain, poll | a build that outlives an invalidation, events during a refresh, a journal that restarts | no stale answer, no lost signal, nothing missed |
| Transcode guard, search and downloads, accounts, settings, Telegram, web, front end, scripts | see `PROJECT.json` | | mostly requests, formatting, transactions | |

How the modelled components interact:

- The scheduler starts a workflow or a notification dispatch as a *task* and
  hears of its end by a completion callback. `Workflow` models that callback as
  `told`; `SchedulerOccurrence` models the task as `TaskSucceeds` or `TaskFails`.
- A workflow has four steps (scan, probe, cache, notify); the last one calls
  `send_notifications`, the action `Begin` of `NotificationDelivery`.
- The cache step publishes under the same guard as a dispatch: `Publish`.
- Removing a server deletes its Event Bridge record (`Delete` of
  `EventBridgeRotation`), stops its probes (`ProbeLifecycle`, the deletion), its
  library scans (`BeginStop` of `LibraryScan`) and its socket (`BeginRemove` of
  `EmbySockets`).
- The socket of a server (`EmbySockets`) delivers the events that ask for a
  refresh of its sessions (`SessionStreams`); what changes is told to browsers
  (`StatusSnapshot`) and to external clients (`ChangeFeed`).
- Scans, probes and syncs run as background jobs that own an operation of the
  operations centre (`Operations`).
- The cache step of a workflow refreshes Latest Publications (`LatestFeed`); the
  dispatch that follows announces its cards (`NotificationDelivery`).

`PROJECT.json` lists every component with its sources and, under `hazards`, what
is hard to test in this code, at its line, with the property that covers it or
the reason why none does.

## 2. The modules

| Module | What it is |
|---|---|
| `Workflow` | the singleton workflow: every process, its worker and heartbeat threads, over the database |
| `WorkflowLedger` | the abstract promise of the workflow tables; `Workflow` implements it |
| `SchedulerOccurrence` | one kind of scheduled task: scheduler thread, pool worker, renewal threads, the row of claims |
| `Operations` | the operations centre: registry, heartbeats, sweeper, recovery, background jobs, lifespans of processes |
| `NotificationDelivery` | dispatches, ledger, state, guard |
| `AnnouncementLedger` | the abstract promise of the ledger of deliveries and the state; `NotificationDelivery` implements it |
| `LatestFeed` | one film of Latest Publications: versions, cards, what is remembered of it |
| `EventBridgeRotation` | one server's credential: record, journal, process, plugin, wire |
| `ProbeQueue` | the rows of the media probe, batches of claims, renewals, discoveries |
| `ProbeLifecycle` | which probe threads may run: workers, combos, runs, sequences, deletions, shutdown |
| `LibraryScan` | scan jobs, poller, detections and records of one server |
| `UserSync` | one group of linked users: the sync of their favorites, baselines, links, clone |
| `StatusSnapshot` | the shared status: single flight, generations, cache |
| `SessionStreams` | socket events, the dispatcher that coalesces them, the cache of streams |
| `EmbySockets` | the connection to a server, its threads, and the operations that replace it |
| `ChangeFeed` | the journal of changes and a client that polls it |
| `MCWorkflow`, `MCEnds`, `MCClaims`, `MCSettles`, `MCRuntime`, `MCScheduler`, `MCNotification`, `MCEventBridge`, `MCUserSync` | the instances for TLC |
| `WorkflowProofs`, `ProbeProofs`, `RealtimeProofs`, `JobProofs`, `UserSyncProofs` | the theorems about one component or a few |
| `ClaimsProofs`, `RuntimeProofs` | the theorems about the other components of the runs `claims` and `runtime`, and about those runs |

Most modules have a constant that names the faults and requests an instance
explores (`Events`, `OccEvents`, `BridgeEvents`, `ProbeEvents`, ...). An action of
the environment is guarded by its event, so one specification serves several
runs, and the theorems hold for every choice. A definition preceded by
"Mutation of X" is a plausible bug in X; the property named with it in
`PROJECT.json` must fail when X is replaced by it. Names carry a prefix (`Occ...`,
`Bridge...`, `Probe...`) where modules are checked together in one run.

### Workflow

| Code | Model |
|---|---|
| `workflow_executions` rows: `status`, `owner_id`, `active_slot`, `stop_requested` | `outcome`, `owner`, `slot`, `stopReq` |
| `heartbeat_at` within 15 s (`_heartbeat_is_fresh`) | `fresh` |
| `_workflow_process_lease`, `pg_try_advisory_lock` | `mutex`, `advisory` |
| `_status["status"]`, `_status["workflow_id"]`, `_accept_workflows` | `status`, `cur`, `accept` |
| the worker's place in `_run_workflow` and `_finalize_workflow` | `pc`, `step`, `verdict` |
| `stop_event` of a run, its heartbeat thread | `stopEv`, `hb`, `hbStop`, `misses` |
| entry of the operations centre, argument of the completion callback | `op`, `told` |

`start` is `AcquireLease` or `LeaseRefused`, then `ClaimRun`, `ClaimRefused` or
`ClaimForgotten` (the commit took effect although it raised), then `StartWorker`
or `AbortStart`. A step is a boundary check (`SyncStop`), the decision
(`SkipStep`, `BeginStep`) and its end (`StepDone`, `StepRaises`); the polling
steps look at the row again (`PollStop`). The finalization is `JoinHeartbeat`,
`Persist` or `NotPersisted`, `PublishOutcome`, `CloseRun`, `Notify`. The manager
lock is not a variable: `Locked` says when `start` or its cleanup holds it, and
each other critical section is one action.

`Recovered` is `_recover_workflow_execution`: a stale row becomes failed, both
in `InsertRun` and in `Boot`. `late` is a history variable: the steps that a
worker began without its row since the last check that raised.

Abstractions: an id is a number handed out in order; progress rows of steps,
messages and pruning are left out; a failed start of the heartbeat thread is
`ClaimForgotten`; storage that lacks the lease functions (a fallback for tests)
is left out.

### SchedulerOccurrence

The row of `SchedulerOccurrenceCoordinator` is `rowStatus`, `occSlot`,
`occOwner`: the *latest* claim of the kind and nothing else. `OccClaim` is `claim_with_status`
with the registration in `_occurrence_runs` and the start of the lease;
`Trigger` or `TriggerRefused` is the pool. `Report` is the completion callback.
`_finish_scheduled_occurrence` is one critical section (`Pop`), then
`SchedulerOccurrenceLease.finish` without the lock (`Complete`, `ReleaseClaim`,
`NotFinished`), then another critical section (`Write`). Three threads run it,
and `by` says which one. The renewal thread is `OccRenew`, `OccNotRenewed`,
`OccRenewRaises`; a loss (`Lost`) cancels whatever worker the kind has and
finishes the run *registered at that time*, compared by value as the code does.

Abstractions: one kind; an occurrence is the number of its schedule time and the
clock counts those; the one minute retry is due at once (`Soon`); settings do
not change; the 120 s of a claim make it live or expired; `Kept` says when a
claim is still looked after.

### NotificationDelivery

`Begin` enters `latest_refresh_guard`; `Plan` reads the cache and the state
once; for each publication `Claim`, `ClaimRefused` or `ClaimRaises`, then
`SendAccepted`, `SendRefused` or `SendUnanswered`, then `RecordSuccess` or
`RecordFailure`; `Checkpoint` merges what was announced into the state and
leaves the guard. A claim of 15 minutes becomes `stale`, and the next dispatch
that meets it makes it `unknown`. `accepted` is a history variable: what
Telegram accepted since the last reset. `KeepsAnnouncements` maps it all to
`AnnouncementLedger`: `Attempted` is what nobody may claim, `Accepted` what Telegram
took, `RecordedAs` what the state or the ledger says was announced.

Abstractions: one server, one rule and one recipient, so a delivery is a
publication (destinations share nothing but the loop); the throttle and the
second attempt after `retry_after` are part of the send; the ledger is not
pruned. The photo of a message is fetched before the request, and its failure
counts as a refusal.

### EventBridgeRotation

A credential is its generation number. `BeginRotation` is
`begin_event_bridge_credential_rotation_if_server_exists` with
`_rotation_base_digests`; `Push`, `Apply` and `Drop` are the request and the
plugin; `Confirmed`, `Refuse` and `Unanswered` are what
`_push_and_finalize_credential` concludes. A confirmed credential is promoted
(`Promote`). A refusal is remembered in the process and the journal
(`RememberInJournal`), in the record (`RememberInRecord`), and then cancelled
(`Cancel`); each write can fail alone. An event is `Send`, `Authenticate` (what
the record and the journal say when it is read) and then `PromoteByEvent` or
`Reconcile`, with a record that may have changed in between. `Readings` is what
`load_rejection_journal` may return: the journal, or that it is unreadable.

Abstractions: one server and one process (the locks and dictionaries are of the
process, and the deployment has one); one event in flight; pushes reach the
plugin in the order sent; a push and the authentication of an event last less
than the grace period of five minutes (`Age`).

### Operations

The registry is one key-value row that is read, changed and written in one step
(`_mutate_registry`): `Saved` replaces some operations and prunes the ended ones
to `MaxRecent`; `ended` is the place of each ended row, the latest first. A write that raises was committed or
was not (`Raises`). A job is `StartJob` (the operation is made, tracked, and the
thread started), `StartRaises` or `SweeperFails`, then `JobBegins`, `JobUpdates`,
`JobReturns`, `JobFinishes` or `JobFails`, `JobLeaves`. The sweeper copies the
tracked ids with its lock (`SweepTakes`), renews them in one write
(`SweepRenews`) and interrupts what is old (`SweepReaps`). `Boots`, `Recovers`,
`LifespanOpens`, `LifespanCloses`, `Fences`, `InterruptsMine`, `SweeperJoined`,
`Reopens` and `Exits` are the startup and the shutdown in the order of
`runtime/bootstrap.py`.

Abstractions: one process at a time; a heartbeat is old or not (fifteen
minutes); a live sweeper that is not in an outage renews what it tracks before
it is old; the work of a job is any number of steps.

### LatestFeed

A version is the moment Emby added it. `Refresh` does what a refresh does with
one film: which versions are new (`News`, over what is remembered), how the
change is called, the candidate card, and how it meets the cards that are kept
(`reconcile_publication_events`, the merge in `db_cache.py`). `Notify` adds what
was announced to the state and the history. Emby adds and removes versions and
renames the film (`drifts`); `window` is the span of dates of everything
fetched, after which batches are named.

Abstractions: one film; the cap of versions, the baseline of playbacks, media
information and series are left out; that the catalogue was expanded, or that
there is one item, is a choice (`split`).

### ProbeQueue

A row of `probe_queue` is `rowId` and `claim` (token, and whether `claimed_at`
is younger than the lease of five minutes). A worker takes a batch with one
token (`TakeBatch`), gives rows to its slots, renews a row in hand
(`run_with_claim_renewal`: before, during, and once after), commits its result
or its failure, and releases what it never began. A claim keeps the token of the
worker that made it, also when the worker is gone (`Stranded`): the rows of a batch
whose process died, whose call raised, or whose one-slot worker was ended by an
exception (`Abort`) are claimed until the five minutes are over. `retries` is the blacklist.
A discovery reads (`found`) and queues later (`Flush`). `outlived` remembers
which rows had a claim run out.

### ProbeLifecycle

`thread[s][k]` is the registered worker of a server and a key. Starts happen
under the manager's lock and only when `MayStart` allows it; a combo starts its
two phases one after the other; a sequence starts its key on every server; a run
of a workflow starts the combo on every server. A deletion (`quiesce_server`)
closes the server for starts, tells its threads to stop, joins them, and goes on
or times out; the shutdown does the same for all.

### LibraryScan

Jobs, the request that starts them, the starts handed to the event loop
(`handed`), the poller task with what Emby answered (`got`) and what it has yet
to publish (`todo`), and the detections beside it (`flows`). Publishing is: look
at the state again, tell the tracker in a thread, copy the state, write it in a
thread. `CancelFlows` leaves those threads behind as `orphans`. A reset, a stop
and a readmission fence by generations (`gen`, `life`, `blocked`).

Abstractions: one server; three answers of Emby; the limits of time are one fact
that becomes true; the keys of a reset are deleted in one step.

### UserSync

A sync reads the leader and the members (`Observe`), merges what each changed
against the baseline (delta), takes the union (bootstrap) or the leader's (one
way), writes the outcome member by member, looks at the end at what there is, and
commits all baselines at once if they are still those it read. Users, the
settings page and a clone act at any time. `dropped`, `wanted`, `touched` and
`gone` are history.

Abstractions: favorites, one group, one key of an item; the order of members is
fixed; a failure of another domain before the baselines move is `SyncDies`.

### StatusSnapshot, SessionStreams, EmbySockets, ChangeFeed

`StatusSnapshot`: a request answers from the cache, joins a producer in flight or
makes one; a producer builds in a thread and publishes only if its generations
are still current. A payload is the number of invalidations it was built after.

`SessionStreams`: `disp` is `_pending`, `_running`, `_ready` and `_closed` of
every dispatcher so far, `caller` is where each worker or request is inside
`refresh_server`, `lock` its lock. A list of streams is the number of events it
was asked for after.

Abstractions of `SessionStreams`: the servers stay configured, so that the early
return of `_handle_sessions_update` for one that is not any more, and `clear_server`,
which drops the entry and the refresh lock, are left out (section 6).

`EmbySockets`: a connection has a thread that makes a `WebSocketApp`, opens it,
handles events in the fence, and connects again; `op` is the operation of the
manager that creates, replaces or removes it, with its marks, closes, joins and
time-outs.

`ChangeFeed`: the journal is bounded (`Retention`), a page is bounded by the
limit asked for, a restart begins a new journal, and the client passes the
cursor that it was given.

## 3. The runs

| Run | Instance | Properties | Shows |
|---|---|---|---|
| `workflow_faults` | 2 processes, 2 runs of 2 steps; once with errors (database, late heartbeats, slow calls, lost connections), once with deaths (crashes, stops, shutdowns, lost connections) | `TypeOK`, `SuccessIsDurable`, `Reusable`, `OneLateStep`, `RenewedNeverOverlap`, `KeepsLedger` | success is durable, no lock left behind, a late worker begins one step at most, renewing processes never overlap, the tables implement `WorkflowLedger` |
| `ends` | workflow: 2 processes, 1 run, late heartbeats, slow calls, stops, crashes; scheduler: 2 processes, 1 schedule time; operations: 2 processes, 1 job | `SingleConsumer`, `StopHonoured`, `WorkerEnds`, `EventuallyConsumed`, `AbandonedEnds` | stops are honoured, runs end, occurrences are consumed, abandoned operations end |
| `claims` | scheduler, notifications, credential, probe queue, probe threads, user sync | `ClaimsTypeOK`, `RecordedWasDone`, `RunHasThread`, `AnnouncedOnce`, `KeepsAnnouncements`, `SharedGeneration`, `RejectedStaysOut`, `OneProber`, `NoClaimLeftBehind`, `QuietWhenAsked`, `NoUnexpectedRemoval`, `ChangesCarried` | what is claimed, recorded, shared and carried is right whatever raises, is lost, crashes or is removed |
| `settles` | notifications, credential, probe queue, probe threads with a combo and a run, socket | `EventuallySettled`, `EvidenceResolves`, `RowsSettle`, `StoppedRunEnds`, `StopConverges` | what must end does |
| `runtime` | probe threads with a combo and a run, library scan, snapshots, streams, sockets, change feed, operations, one film | `RuntimeTypeOK`, `QuietAfterStop`, `AnswersAreFresh`, `OneBuilder`, `SignalSeen`, `OneConnection`, `NothingMissed`, `LiveWorkIsShown`, `AnnouncedIsNoNews`, `RecordsOnlyAdvance`, `CacheOnlyAdvances`, `EventKeepsMeaning` | stops are final, stale work is never published, no signal is lost, live work is shown |
| `workflow_generation` | 2 runs of 1 step; slow calls, late heartbeats | `HeartbeatFencesOwnRun` (violated) | finding 1 |
| `scheduler_long_task` | 1 process, 2 schedule times, no fault | `ClaimKeptForWorker` (violated) | finding 2 |
| `notification_lost_answer` | 1 process, 1 publication; lost answers | `AnnouncedOnce` (violated) | finding 3 |
| `event_bridge_connect` | 3 credentials; lost pushes; fair | `ConnectRecovers` (violated) | finding 4 |
| `library_scan_ends` | 2 libraries, 1 job; slow detections; fair | `ScanEnds` (violated) | finding 5 |
| `user_sync_offline` | 3 users, 1 item; a server offline | `StaysRemoved` (violated) | finding 6 |
| `latest_quiet` | one film, no rename | `QuietRefresh` (violated) | finding 7 |

**Several components in one run.** `MCEnds`, `MCClaims`, `MCSettles` and
`MCRuntime` put components side by side that share nothing in the model. A
variable `focus` chooses one at the start; the others stay as they began, so the
state space is the sum of the parts, not their product. Their fairness is stated
by number: the *i*-th fair action of the component in focus. Since `focus` never
changes, fairness of the *i*-th of all is fairness of the *i*-th of the one in
focus. That every action of every component is fired was checked with TLC's
`-coverage`, component by component.

**Bounds, and why they are enough.**

- Workflow: two processes are a loser and a winner of every race; `MaxRun = 2` is
  a run and its successor, which every takeover, late call and stale row needs.
  `StepCount = 2` with `PollSteps = {1}` has a step that polls, one that does not,
  and a boundary between them. `MaxMisses = 1` lets the first error fence. Slow
  heartbeat calls are explored with the errors only. For liveness one run is
  enough, since nothing of a second one delays the first.
- Scheduler: two schedule times are a task and the one it overruns; two leases
  are an old claim and a new one. The run `ends` has one schedule time, two
  processes, failing tasks and crashes.
- Notifications: two publications with a limit of 1 have one that is left out;
  no limit (0) in `settles`, since with one `EventuallySettled` is false (section
  6). Credentials: three are needed to replace a pending one twice, and the
  fourth in `claims` lets every settled state be left again; `settles` has three.
- Probe queue: two workers, with one slot and with two; a source with an id and
  the one without, which the commit treats together; `MaxRetries = 2` instead of
  3; one fault at a time for safety. `settles` has one source, one insertion and
  no removal, because a removal ends a row in any case. Probe threads: one
  server, two starts of a key, which are a thread and its replacement.
- Users: three members, since a group of two cannot have a member that stays
  behind while the others agree; one item; the third server lacks it; two changes
  by users; a group starts with all three or with none.
- Library scan: one library, two jobs, two errors in a row, one fence. The branch
  that keeps polling because another library is left (`library_poller.py:369`)
  needs two libraries and is reached in `library_scan_ends` only.
- Snapshots and streams: two producers, requests, drainers and lifespans: the old
  one and the new one; three events are one before, one during and one after a
  refresh. Sockets: two connections, the old one and the new one; two endpoints
  where replacing matters, one in `settles`; one or two errors.
- Change feed: a retention of three and pages of one and two; eight changes
  overflow the journal twice.
- Operations: one process at a time, two owners, three lifespans; two operations
  for safety and one for liveness; one fault. With two faults `AbandonedEnds` is
  false until the next start (section 6). The last process neither closes nor
  dies: the deployment restarts it.
- Latest: versions added at three moments with a gap of one are near or far; two
  spans; one rename. With two renames between two refreshes, the item and then
  the signature, nothing is left by which the film is recognized, and
  `AnnouncedIsNoNews` is false.

Faults are divided over instances because their product is too large; the
divisions keep together the faults that interact. Where section 4 has a theorem,
it holds for all of them together.

`TerminalIsFinal` and `SlotSound` are not in a run any more: `KeepsLedger`
implies them. They are theorems.

Deadlock is checked in the workflow and notification runs. It is off where the
system really stops: schedulers, rotations, runs of probes that are over, and
the runs of several components, each of which may come to its end.

**Fairness.** Weak fairness of threads: a thread that can go on does. The code
has no lock that a thread holds while it waits for another (the manager lock is
held over database calls, which have a statement timeout), and the polling steps
give up after two hours, so that a step ends. Where heartbeat calls may be slow, as
in `ends`, nothing obliges one to return: `WorkerEnds` holds because the join of
`_stop_workflow_heartbeat` gives up, and fails when it does not. Nothing is assumed of starts,
stops, crashes or restarts, but for the processes of `Operations`, which the
deployment restarts (`restart: unless-stopped`). `SchedulerOccurrence` adds that
time passes for an unrenewed claim, and that a task tried for ever succeeds (`SF`
of `TaskSucceeds`; without it no retry could promise anything).
`NotificationDelivery` adds that dispatches recur (the workflow is scheduled)
and that no message is refused, no call raises and no process dies at the same
point for ever; `EventBridgeRotation` that the plugin sends events (it does so on
every playback), that five minutes pass, and the same for its database and
journal. `ProbeQueue` adds that workers are started again (the second step of
the workflow does) and that leases run out. `ProbeLifecycle` lets the work of a
thread that was not told to stop last for ever. `EmbySockets` adds that a close
ends when it is waited for again and again, and that somebody who was told that
the socket has not stopped yet tries again, as the message asks. `LibraryScan`
(in `library_scan_ends`) adds that libraries are due again and again and that
their limits pass.

**Where a property is limited on purpose.** `NoOverlap` needs heartbeat threads
that renew in time and a database that answers: a worker that stood still for
15 seconds finds out at its next boundary only, which is what `OneLateStep`
bounds. `SingleConsumer` speaks of the latest schedule time, and holds without
database errors and stalls (section 6). `EventuallySettled` holds without a
limit. `SharedGeneration` and `EvidenceResolves` rest on pushes that arrive in
order. `OneProber` excepts a row whose claim ran out in somebody's hands.
`NoClaimLeftBehind` excepts faults and the exception that ends a worker of one slot
(section 6). `AnnouncedOnce` holds where no answer is lost; that it fails otherwise is
finding 3.
`NothingMissed` excepts a new journal that has grown to the client's old cursor.
`RowsSettle` excepts a row that the blacklist rules out. `ChangesCarried`
excepts items that somebody moved during the sync.

## 4. The proofs

They hold for any number of processes, runs, steps, schedule times, leases,
publications, credentials, rows, workers, connections, servers and jobs, and for
any choice of events unless a hypothesis is named. They assume the named
`ASSUME`s of the modules: nobody is not a process, bounds are natural numbers,
there is a server and an endpoint (`SocketAssumption`, `CallerAssumption`), the
events are known ones, a film has a name (`LatestFeedAssumption`), a group has
finitely many users and at least two (`MemberAssumption`), and the marks for "no
record" and "no view" are neither (`TrackAssumption`, `NoViewAssumption`).

| Module | Theorem | States |
|---|---|---|
| `WorkflowProofs` | `TypeCorrect`, `OneActiveExecution`, `SuccessAlwaysDurable`, `AlwaysReusable`, `OneStepLate` | `[]TypeOK`, `[]SlotSound`, `[]SuccessIsDurable`, `[]Reusable`, `[]OneLateStep` |
| | `FirstOutcomeIsFinal` | `TerminalIsFinal`, an action property |
| | `LedgerKept` | `Workflow` implements `WorkflowLedger` |
| | `RenewedWorkersNeverOverlap`, `DeathsNeverOverlap` | `[]NoOverlap` and, over the two focuses of the run, `[]RenewedNeverOverlap`, if no heartbeat is late and no database call raises (`OnTime`) |
| | `StopAlwaysHonoured` | `StopHonoured`, if no database call raises (`~DbError`) |
| | `FencesOwnRunInTime` | `HeartbeatFencesOwnRun`, if no heartbeat call outlasts its join (`~SlowCall`) |
| `ClaimsProofs` | `OccTypeCorrect`, `RecordedAlwaysDone`, `RunAlwaysHasThread` | `[]OccTypeOK`, `[]RecordedWasDone`, `[]RunHasThread` |
| | `LatestConsumedOnce` | `[]SingleConsumer`, if no database call raises and no thread stalls (`InTime`) |
| | `PromptTasksKeepClaims` | `[]ClaimKeptForWorker`, if also no task is still at work at the next schedule time (`PromptTasks`) |
| | `DeliveryTypeCorrect` | `[]TypeOK` of `NotificationDelivery` |
| | `NeverAnnouncedTwice`, `RecordedAlwaysSent` | `[]AnnouncedOnce`, `[]RecordedWasSent`, if no answer is lost and resets and lost guards do not occur together (`Trusted`) |
| | `AnnouncementsKept` | `NotificationDelivery` implements `AnnouncementLedger` (`KeepsAnnouncements`), if `Trusted` |
| | `BridgeTypeCorrect`, `AlwaysShared`, `RejectedForGood` | `[]BridgeTypeOK`, `[]SharedGeneration`, `[]RejectedStaysOut` |
| | `EvidenceExists`, `EvidenceSuffices` | a server that Connect refuses has a plugin with a credential, and `EvidenceResolves` implies `ConnectRecovers`, if no push is lost, nothing raises or dies and the plugin forgets nothing (`NothingLost`) |
| | `ClaimsTypeCorrect` | `[]ClaimsTypeOK` |
| `ProbeProofs` | `ProbeTypeCorrect`, `AlwaysOneProber`, `ClaimsLeftByFaultsOnly` | `[]ProbeTypeOK`, `[]OneProber`, `NoClaimLeftBehind` (an action property) |
| | `LifeTypeCorrect`, `AlwaysQuietWhenAsked` | `[]LifeTypeOK`, `[]QuietWhenAsked` |
| `RealtimeProofs` | `SocketTypeCorrect`, `AlwaysOneConnection` | `[]SocketTypeOK`, `[]OneConnection` |
| | `FeedTypeCorrect`, `NothingEverMissed` | `[]FeedTypeOK`, `[]NothingMissed` |
| | `StreamTypeCorrect`, `NoSignalLost`, `CacheNeverGoesBack` | `[]StreamTypeOK`, `[]SignalSeen`, `CacheOnlyAdvances` |
| | `SnapTypeCorrect`, `AnswersAlwaysFresh`, `AlwaysOneBuilder` | `[]SnapTypeOK`, `[]AnswersAreFresh`, `[]OneBuilder` |
| `JobProofs` | `OperationsTypeCorrect`, `LiveWorkAlwaysShown` | `[]OperationsTypeOK`, `[]LiveWorkIsShown` |
| | `FirstEndIsFinal` | `EndIsFinal`, an action property: an ended operation does not run again, and its row stands |
| | `ScanTypeCorrect`, `AlwaysQuietAfterStop` | `[]ScanTypeOK`, `[]QuietAfterStop` |
| | `RecordsAlwaysAdvance` | `RecordsOnlyAdvance`, an action property |
| `UserSyncProofs` | `RemovalsExpected`, `ChangesAlwaysCarried` | `[]NoUnexpectedRemoval`, `ChangesCarried` |
| | `UserTypeCorrect` | `[]UserTypeOK` |
| | `RemovalsStay` | `[]StaysRemoved`, if every server answers and favorites change between syncs only (`AllAnswer`) |
| `RuntimeProofs` | `FeedTyped`, `EventsKeepMeaning` | `[]FeedOfFilmTypeOK`, `EventKeepsMeaning` (an action property) |
| | `AnnouncedStaysKnown` | `[]AnnouncedIsNoNews`, if Emby renames the film only after a refresh met its last name (`RenamedInTurn`) |
| | `OnceRenamedStaysKnown` | `[]AnnouncedIsNoNews`, with at most one rename, as in the run |
| | `QuietWhereShown` | `QuietRefresh`, if what is unchanged is shown whole or was announced (`ShownWhole`, `Settled`) |
| | `RuntimeTypeCorrect` | `[]RuntimeTypeOK` |

**From a component to a run.** Specifications are stated component by component;
a run composes several of them with a `focus`. The lemmas `ClaimsRunTheComponents`
and `RuntimeRunsTheComponents` record that the composition adds nothing: it is so by
the way `focus` is defined, says nothing of the code, and only serves to take the
type theorems of the components to the composite type invariants.

**Refinements.** `LedgerKept` and `AnnouncementsKept` take the detailed
specification to the abstract one, step by step. In the second, a publication is
attempted from its claim until Telegram refused it for sure; what the code does
besides (plans, crashes, raised writes, guards) maps to a stutter, the completion
and the checkpoint to `Record`, which asks that everything recorded was accepted.

**The boundaries of the findings.** A finding of section 5 shows that a promise
can be broken. Where the promise has a proof under a hypothesis, the hypothesis
is what breaks it: `FencesOwnRunInTime`
(finding 1: only a call that outlasts its join), `PromptTasksKeepClaims` (2: as long
as renewals come in time, only a task at work at its next schedule time), `NeverAnnouncedTwice` (3: only a lost answer, or a
reset under a lost guard), `EvidenceExists` and `EvidenceSuffices` (4: only a lost push, a
raised transaction, a death or a plugin that forgot), `RemovalsStay` (6: only a
server left out, or a change during a sync), `QuietWhereShown` (7: only a film not
announced whose versions no single card shows, or whose versions are far apart).
Each hypothesis is satisfied by behaviours of the code: it excludes one of the
named events, or one kind of data, and nothing else.

Each component has one inductive invariant, a lemma or a step for each action,
and theorems that follow from it.

- **Workflow** (`IInv`). `SlotSound` alone is not inductive: that `InsertRun` may
  reuse the slot needs the run of a starting thread to be unborn (`Birth`), and
  that two threads are never at the same run (`Focus`). `Reusable` needs that
  every path to idle goes through a state where the lease was returned
  (`Return`). `SuccessIsDurable` needs that a worker that is about to publish a
  success has its row in the database, and that nobody can change it (`Durable`,
  `SlotSound`: a finished row has no slot, and every statement asks for the
  slot). `OneLateStep` needs where a worker that is late can be (`Lateness`). The
  refinement uses `LedgerSteps`: which actions the ledger sees at all. For
  `NoOverlap`, `Renewing` says that who is at work has the row, that it is fresh,
  and that a live heartbeat thread renews it; it is inductive only under `OnTime`,
  since a late heartbeat or three errors let a second process take the row.
- **Scheduler** (`OccInv`, `Claims`). A run is registered by one thread and finished
  by another, so `OneFinisher` says that the thread named in `by` waits there and
  that nobody else finishes for it; `OccHonest` follows success from the task through
  the worker and the lease to the row. `Claims` says that whoever works on the
  latest schedule time has the claim of the row; `InTime` is needed because a
  claim whose renewal raised or stalled runs out under its worker.
- **Notifications** (`DeliveryInv`). `RowInHand`: a dispatch that has a publication in hand
  has its row, which is not claimable, and knows what was accepted. This survives
  a lost guard because the claim is a compare-and-set on the row, and the guard
  plays no part in it unless a reset can delete rows (`Serial`).
- **Event Bridge** (`BridgeInv`). `InOrder` and `Evidence` say what a push on its way
  and an event in flight prove; `Refusals` that a refusal can be found in the
  record or in the journal for as long as its generation is pending; `Fresh` that
  a new generation is new. `Reached`, under `NothingLost`, says that a generation that
  was pushed and is still pending has reached the plugin.
- **Snapshots** (`SnapInv`). `UpToDate` and `Begun` relate a payload to the
  generations its producer read; `Waits` and `Asks` what a request may still be
  answered with; `OneInFlight` and `OfItsKey` that an unfinished builder of the
  current generation is the one in flight; `ShutdownDrained` that
  nothing is admitted after a shutdown that waited for all of them.
- **Probe queue** (`QueueInv`). `OneHolder`: of the workers that have a row with
  the same id open, one holds its claim, unless it ran out (`outlived`);
  `JobNamesRow` ties a job to the row it came from, `BatchPlaces` a worker to its batch.
  `NoClaimLeftBehind` follows step by step (`StrandedByFaults`): an idle worker has
  no row, an exception ends the worker only with one slot, and every other way out
  of a batch goes through the release of what was not begun.
- **Sockets** (`SocketInv`). `OpKnows` says what each place of an operation knows
  of the connection it removes or replaces: that it is marked, and when it is
  joined, that its thread and its closer are over.
- **Change feed** (`FeedInv`). `InTheJournal`: what the client has not read is
  above its cursor and in the journal, or the next page resets it.
- **Streams** (`StreamInv`). `LockTyped` and `Hands`: one caller is inside the
  refresh of a server, and what it asked for is not older than what the cache
  has; `Queues` and `SignalKept`: a signal that was not yet answered is pending,
  ready or running; `DispGenerations` and `Ordered`: a retired dispatcher does not
  write once there is another.
- **Operations** (`OperationsInv`). `ShownAndTracked`: the row of a job at work is
  of the process that serves, which tracks it, or the recovery or the sweeper
  would end it. `RenewedFirst`: when the sweeper looks for old rows it has just
  renewed those at work, and an old one it has not yet renewed is in its batch.
  `NothingAtWork`: the tracker is fenced only when no thread is left. The lemma
  `SavedKeeps` says that a write never prunes a row that runs. For the types, a write
  gives every ended operation its place in the order of the ends and keeps the first
  `MaxRecent`: the places are counted, so that two of them are never equal and none is
  beyond the number of operations. `EndIsFinal` needs no more than what every write may change.
- **Probe threads** (`LifeInv`). `QuietWhenAsked` alone is not inductive: a
  shutdown may only return because everybody who lives is among those it waits
  for (`ClosingWaits`, which needs that nobody was let in since, and that a living
  thread has a number: `Numbered`); a deletion that is given up must not have
  opened somebody else's fence (`Fenced`). `RequestsKeep` is the lemma for all
  steps of threads, combos and sequences: a thread comes to life only through
  `MayStart` (`NoneRises`). The run `claims` checks `QuietWhenAsked` with plain
  keys and a sequence; the theorem has combos and runs as well.
- **Library scans** (`ScanInv`). After a stop nobody may write: `Round` says that
  what the poller still has in hand belongs to a library that is tracked;
  `HandedOnce` that a library is handed over once for a job, so that two flows
  never complete the same scan; `OneWriter`, `NewestCopy` and `NotAhead` that the one
  thread that writes a record has a copy newer than what is stored and newer than
  every wipe, which is what `RecordsAlwaysAdvance` needs.
- **Users** (`UserInv`, `GroupInv`). `DroppedIsOpen`: what is missing from a
  baseline was taken by its user. `ViewsHold`: a view that was read stays true but
  for what users moved meanwhile and what the sync wrote. `Outcome` fixes what is
  desired, `AppliedHolds` and `Found` that it is there, and found again, before
  the baselines are stored. The types are a theorem of their own, because that two
  users take part is the guard of every write and not part of the sync.
- **Latest Publications** (`FilmInv`, `Followed`). `OneEvent`: two cards of the
  same versions are the same event. `Followed`: one entry of the history knows
  every version that was shown or announced, and the name of the film leads to it
  (`Aliases`). It holds as long as the film is renamed only after a refresh met its
  last name (`RenamedInTurn`), in particular with one rename
  (`OnceRenamedStaysKnown`: before the first rename the name is up to date); it is false
  otherwise (section 6). That the newest version exists is the least element of a
  set of naturals (`LeastOfNaturals`), which stands for induction.
- **A stop in time** (`RuledOut`). From the boundary check on, the run is over
  without success or the only worker at it meets its stop: the request is in the
  row that it reads, its event is set, or it has decided otherwise. `Requests`,
  that a request leaves with the slot of its row, is the invariant beside it.
  A read that raises is ignored by the code, so the theorem has `~DbError`; so
  has the run.

Only model-checked:

- the liveness properties (`WorkerEnds`, `EventuallyConsumed`, `AbandonedEnds`,
  `EventuallySettled`, `EvidenceResolves`, `RowsSettle`, `StoppedRunEnds`,
  `StopConverges`): the prover does not treat fairness;
- that the hypotheses of the theorems can be met and the situations they are about
  occur: the mutants, TLC's coverage and the runs of section 3.

Every invariant and action property that a passing run checks is a theorem, some of
them under the hypotheses of the table. `RuntimeTypeOK`
and `ClaimsTypeOK` are the type invariant of the component in focus. `ScanEnds` (finding 5) and `ConnectRecovers` are
liveness; what is proved of the second takes a liveness of a run as its hypothesis.

## 5. Findings

Each is a run whose property states what the repository says and that TLC finds
violated.

1. **A late heartbeat stops the next workflow** (`workflow_generation`,
   `core/tasks.py:1195`). `_renew_workflow_heartbeat` sets `self._stop_event`,
   read when the renewal comes back. The join of `_stop_workflow_heartbeat` gives
   up after three seconds, so a slow call can come back when the manager already
   has another run, which is then interrupted. `core/tasks.py:1723` calls the
   workflow id a generation token; the heartbeat thread does not use it.
2. **A long task loses its claim to its own next occurrence**
   (`scheduler_long_task`, `services/scheduler_occurrences.py:99`). The next
   schedule time is claimed over the claim of the running worker before the pool
   refuses; the renewal thread of the first claim then cancels the worker.
   `services/scheduler_occurrences.py:206`: "Keep one occurrence claim alive until
   its real worker outcome is known."
3. **A lost answer of Telegram announces twice** (`notification_lost_answer`,
   `emby_latest/notifications.py:51`). A timeout is returned like a refusal, the
   claim is released as failed, and the next dispatch sends again.
   `docs/DATABASE_MIGRATIONS.md:47` promises that an outcome-unknown call stays
   claimed.
4. **Connect can lock itself out** (`event_bridge_connect`,
   `emby_runtime/event_bridge_credentials.py:243`). Two attempts that do not
   reach a plugin without a credential leave a pair of generations that only an
   event could settle. `docs/INTEGRATIONS.md:174` says "Repeat Connect".
5. **A late detection reopens a library that was over** (`library_scan_ends`,
   `emby_runtime/library_poller.py:1091`). The initial detection and the poller
   both tell the tracker in a thread, without a second look. "completed" may
   arrive before "active", the poller then stops watching the library, and the
   job never ends, although `library_poller.py:97` bounds every scan by an hour.
6. **A server that was away brings removals back** (`user_sync_offline`,
   `emby_users/dashboard_manager.py:53`). A server that does not answer is left
   out of a sync that succeeds. When it is back, the union of the baselines takes
   its user's old one, and what everybody removed meanwhile returns.
   `docs/RELEASE_CHECKLIST_ita.md:93` asks for a merge without surprises.
7. **A refresh that finds nothing new changes a card** (`latest_quiet`,
   `emby_latest/collector_movie_changes.py:480`). A film first met with two groups
   of versions gets a card of the newer one; the next refresh replaces it by
   "Nuovo film" with all of them. `publication_identity.py:326`: "Keep an existing
   event's meaning when a refresh observes no new source."

## 6. Observations

Met while modelling. No statement of the repository decides them, so they are no
runs; where they limit a property, section 3 says so.

Workflow and scheduler
- *Stop during the last step.* After it the code consults the local event only: a
  stop that another process persisted then is lost, and the run is completed.
- *Callback and outcome.* A local stop after the outcome was persisted makes the
  callback report a failure of a run that is stored as completed
  (`core/tasks.py:1552`). The reverse cannot happen (`SuccessIsDurable`).
- *Claims equal by value.* If the commit of a claim raises, the retry makes a new
  claim that equals the first one; a worker of the first then finishes the
  second (`core/tasks.py:604`), and a peer may run the occurrence beside it.
- *The row keeps the latest claim.* A completed occurrence may run again if a later
  one was claimed and released in between; this is why `SingleConsumer` speaks of
  the latest schedule time.

Operations centre
- An operation whose `fail` raises stays tracked and renewed while its process
  lives.
- Single flight joins a job that has already written its end but whose thread
  still lives.
- With two faults (the sweeper thread does not start, and a start raises after
  its commit) a row runs until the next start or the next boot.
- A lifespan that begins while the sweeper of the last one is alive leaves the
  tracker closed.
- The recovery at startup interrupts whatever another owner has
  (`app_state.py`), so a second live process would lose its operations;
  `docs/CODE_REVIEW_2026-09-01_FIFTEENTH_PASS.md` (R15-M-02) calls this solved.

Notifications and Latest Publications
- *Unknown publications use up the limit.* `_allowed_signatures` counts what is
  pending, and publications whose outcome is unknown stay pending
  (`emby_latest/notification_dispatcher.py:448`): with `per_server_limit` older
  ones may never be announced.
- After two versions were both announced, the next refresh with another span adds
  a third card of both, in a new batch, which is announced again.
- A film that gets another item and then another signature between two refreshes
  is a new film to the next one: all its versions are news and may be announced
  again. TLC finds it with two renames; `RenamedInTurn` excludes it.
- A version that Emby adds between a refresh and its notification is not later
  than the checkpoint, and is never announced.
- A version that arrives while the span stays the same replaces the earlier card
  under the same batch: the earlier card is lost if it was not sent, the new
  version is not announced if it was.
- Pruned and renamed entries come back through the merge of notification updates,
  so the state of notified films never shrinks.
- The data of a removed server may come back when a refresh copied the
  configuration before the guard was taken (`emby_latest/manager.py:247`).

Event Bridge
- *Late pushes.* If Emby applied an abandoned push after a later confirmed one,
  the plugin would present a generation that neither record holds
  (`emby_runtime/event_bridge_plugin_client.py:14`).
- *No caller.* `reconcile_rejected_event_bridge_credential_rotation` is called by
  tests only.

Media probe
- With one slot, an exception of `_handle_queue_item` leaves `_handle_queue_items`
  (`library_probe_execution.py:392`) without `_release_unstarted_claims`, and the rest
  of the batch stays claimed for five minutes; a pool turns the exception into a
  result and releases it. `NoClaimLeftBehind` names this exception, and `RowsSettle`
  shows that the rows are finished afterwards.
- Only the rows in hand are renewed: those that wait in a batch may expire before
  they begin, and then are probed by somebody else.
- The flush of a discovery queues a source again that the blacklist has just
  ruled out.
- A stop at the commit deletes a failing row although it has retries left.
- The worker of a library looks again and again without a pause while another
  worker has all its rows.
- `remove_probe_item_state` deletes a row that is being probed.
- After the deletion of a server its tombstone stays; a second DELETE lifts it.
- The pause flag may be set when no worker is there (`library_processing.py:49`
  says otherwise).

Library scans
- A start that is accepted while the poller leaves after `max_errors` is tracked
  by nobody.
- A deletion of a server that fails (409), and a reset whose database call
  raises, leave the job of the scan open with nobody to track it.
- An older answer "no progress" that is applied after the detection completes the
  scan at its start.
- One request of a detection may go out after `stop_server` has returned.

Users
- The additive bootstrap clears a favorite that was added after its member was
  read (`emby_users/favorites_manager.py:347`).
- A removal made during a sync is undone; an echo of a sync that failed half way
  is taken for a change of the user.
- The clone commits the baseline of its source outside the lock of the group, so
  that removals not yet carried are swallowed (`emby_users/routes.py:974`).
- The settings page writes back a stale `favorites_bootstrap_done`
  (`emby_users/routes.py:678`), which is also set before the baselines are.

Realtime and sockets
- A stop between the test of the loop and `run_forever` closes the previous
  application; the next attempt closes the right one (`StopConverges`).
- `connection_check_guard` has two critical sections, and `clear_server` during a
  refresh brings the streams of a deleted server back.
- A list asked for before a playback event takes away the mark that the event
  made.
- A restarted journal that grows to the client's old cursor hides the changes in
  between.

Transcode guard (read, not modelled)
- A check that began with an old snapshot can stop a session that was corrected
  meanwhile; after a successful stop the key stays "stopped", so that a replay is
  not enforced again.

## 7. Plan

Done: the modules of section 2 with their runs, and the theorems of
section 4.

Left, in this order:

1. Compositions: the steps of a workflow over the manager of the probes
   (`services/workflows.py`), a scheduled workflow whose callback arrives after
   its claim was lost.
2. The refresh of Latest Publications in time: its guard, joined refreshes,
   configuration that changes under it; series.
3. The transcode guard, collections, requests of searches and downloads.
4. An abstract ledger of operations that `Operations` implements; `EndIsFinal` is its
   core.

## 8. What is not modelled

- Progress rows of workflow steps, log lines, messages, pruning of executions
  and of the ledger, and the arithmetic of the calendar.
- Settings that change while a task runs: the scheduler drops a retry whose
  entry changed.
- The work of the callbacks (probing, refreshing, syncing): a step or a task is
  one that succeeds, fails or sees its stop event.
- Several rules, recipients, kinds of tasks, scopes and groups: they share no
  state but what is modelled for one of them. Playback positions and watched
  marks of users follow the same sync as favorites with other merges, and are
  left out.
- ScanManager, the accounts, the searches and the providers' pages.
- Signals that arrive between two bytecodes (the code guards against
  `KeyboardInterrupt` in many places).
- Components with status `not_modelled` in `PROJECT.json`, each with its reason.

## 9. How to run

    tlc -workers 2 -config Runtime.cfg MCRuntime
    tlapm JobProofs.tla

The passing runs take between half a minute and three minutes with two workers,
the runs that find a violation a few seconds; the proofs of a module between
half a minute and a few minutes.
