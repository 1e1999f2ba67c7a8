# AutoAgent: models and proofs

AutoAgent runs batches of prompts ("samples") against chat apps: over HTTP, in a
browser, on a PC or on a pool of Android phones. The back end is one Python
process with one asyncio event loop, SQLite rows and an in-memory device pool;
a React page follows batches over server-sent events. Most of what is concurrent
in it is a *task* that is suspended at an `await`: between two awaits nothing else
runs, and across an await everything that was read may be stale. That is the
grain of the modules here: **a step is the code from one await that can suspend
to the next**; a kill of the process may come between any two steps. What runs in
threads (the agent's loop, updates, backups, the phone's warm connection) is cut
where it touches something another thread or task can see.

Paths below are relative to the repository; the back end is `src/autoagent/`.

## 1. The system

| part | state | operations | interacts with | what makes it correct |
|---|---|---|---|---|
| **Device pool** `devices/pool.py` | snapshot of device rows, one `asyncio.Lock` per serial, session pins (an `OrderedDict` with expiry and a size limit) | `acquire`, `hold`, `release_session`, `update_snapshot` | called by samples of all batches and by init jobs; fed by the monitor | one user per phone; no waiter forgotten; a conversation stays on its phone and nobody else gets it; every call is answered |
| **Batch scheduler** `scheduler/batch_scheduler.py` | per batch: counters, cancel and done events, lock, results; rows in SQLite; a result file | `submit`, `cancel`, `wait_done`, `_run`, `run_one` | pool, executors, event bus, notification rules, webhooks, storage | rows, columns, events and status agree whatever finishes first; every batch ends; nothing is written to what was deleted |
| **Batch endpoints** `api/batches.py`, boot in `main.py` | none of their own | create, rerun, replay, cancel, delete, get, list, stream | scheduler, storage, bus | their status gates hold across the awaits of the scheduler; a boot settles what a kill left; filters, counts and rows say the same |
| **Event bus** `events/bus.py` | per batch: sequence number, replay buffer of 100, subscriber queues | `publish`, `subscribe`, `replay_since`, `last_seq` | scheduler publishes, endpoints subscribe | no gap and no duplicate for a subscriber |
| **Batch page** `web/src/hooks/useBatchStream.ts` | cached batch, last seq seen | load, connect, apply, reconnect | GET and stream endpoints | shows only what is committed, never goes back, shows the end |
| **Device monitor** `devices/monitor.py`, `api/_deps.py`, `storage/devices.py` | last state per serial, device rows | `sync_once` (from its loop and from `POST /devices/refresh`), connect, disconnect, delete | adb, pool snapshot, alerts, healer | the snapshot and the alerts catch up with the phones |
| **Device care** `devices/healer.py`, `expected_state.py`, `initializer.py`, `init_jobs.py`, `notifications/device_state.py` | back-off per phone, marks with deadlines, jobs, phones reported down | heal pass, mark, init job, alert | pool locks, monitor, DingTalk | a wifi phone comes back; a job can be polled and ends; loss and return are told as one story |
| **Executors** `executors/` | an attempt's prompts, clipboard, keyboard; browsers per profile; an agent's thread | supervised run with time-out and retries, drive, detect, extract | phones, browsers, models | the response is of this prompt and this attempt; nothing is left behind |
| **Outbound calls** `utils/http_retry.py`, `webhooks/sender.py`, `notifications/dingtalk.py` | attempts | send, retry | models, callback URLs, DingTalk | bounded, told truly, twice only in doubt |
| **Notification rules** `notifications/rules.py`, lists, judge | streaks (persisted), white and black list | one evaluation per sample | scheduler, configuration rows, init jobs | a streak is counted once and judged once |
| **Self-update** `system/updater.py`, `update_scheduler.py`, `api/system.py` | the checkout, dependencies, the built page | check, apply | active batches, restart | what an update pulled it has installed and built before it restarts; no batch is interrupted unasked |
| **Maintenance** `maintenance/` | archives, backups, `last_sent` | retention, backup and digest ticks | batch rows and files | nothing is deleted before it is archived; a fresh backup stays; nothing falls between two digests |
| **Anomalies** `anomalies/` | a table of slow samples | hook, backfill | scheduler, digest | a sample is recorded once, told once |
| **Synchronous calls** `services/sync_tests.py`, `api/openai_compat.py` | none | submit, wait, read | scheduler | the caller is left only where its sample was delayed |
| **Screen streaming** `api/device_stream.py`, `devices/u2_input.py` | recorders, a warm connection per phone | view, tap | adb | no recorder stays behind; a tap is carried out once |
| Profile builders, profiles, configuration, loaders, results, media, search, health, login, schema, other pages | | | | not modelled, section 7 |

Hard to test, and what the properties are for (each with its line in
`PROJECT.json`, `hazards`): decisions taken on data read before an await
(reservations, snapshots, `last_seq`, listings); a lock that is released and not
yet taken by its woken waiter; samples that finish together; errors in the one
place a `try` does not cover; deletion, rerun and cancel against running tasks; a
kill between a commit and what follows it; connections that break and replay from
a bounded buffer; overlapping syncs, updates, retention and backup runs; an
attempt that is cut off at any await and tried again on the same screen; answers
that are lost after the request has arrived.

## 2. Modules

| module | models |
|---|---|
| `DevicePool` | the pool with its locks, FIFO queues and pins, and the calls under way |
| `DeviceLease` | nothing of the code: what an exclusive lock per phone promises. `DevicePool` implements it |
| `BatchScheduler` | scheduler, batch and sample rows, the endpoints that change batches, the boot |
| `EventStream` | row, bus, GET, stream and page of one batch |
| `DeviceMonitor` | `sync_once` and what it feeds: rows, snapshot, alerts |
| `DeviceCare` | init jobs, expected reboots, alerts and the healer |
| `Recovery` | `EventStream` (extended) and `DeviceCare` (an instance) |
| `NotificationRules` | streaks, lists, judgement, alerts |
| `SelfUpdate` | overlapping updates: pull, synchronise, build, restart |
| `BatchRetention`, `Backups`, `Anomalies`, `Listing` | archives and the sweep; backups and their caps; hook, backfill and digest; the list of batches |
| `Upkeep` | `SelfUpdate` (extended) and instances of those four |
| `AndroidRun`, `WebRun`, `AgentRun` | a sample on a phone, in a browser, by an agent: attempts, time-outs, what is recorded |
| `Detection`, `Extraction` | when a reply is complete; which texts of a screen are the reply |
| `Outbound` | one request to a model, DingTalk or a callback URL, with its retries |
| `ScreenStream` | the viewers of a phone and their inputs |
| `SyncCalls` | one caller that waits for its sample |
| `SampleRuns` | instances of those eight |
| `MCDevicePool`, `MCBatchScheduler`, `MCNotificationRules`, `MCUpkeep`, `MCSampleRuns` | instances for TLC |
| `DevicePoolProofs`, `DevicePoolOrderProofs`, `BatchSchedulerProofs`, `BatchSchedulerEndProofs`, `RecoveryProofs`, `NotificationRulesProofs`, `UpkeepProofs`, `SampleRunsProofs` | theorems |

The parts meet at narrow interfaces, and each module takes the other side as a
free choice: `BatchScheduler` lets `acquire()` and the executor answer anything
that they can answer, `DevicePool` lets the snapshot become any set of phones at
any time, `EventStream` has a scheduler that commits and publishes in the order
`BatchScheduler` does, `DeviceCare` sees the pool's lock as `DeviceLease` does,
`SyncCalls` has a sample that takes any time its limits allow. What one module
shows without assumptions about the other side therefore holds in the whole.

`Recovery`, `Upkeep` and `SampleRuns` put side by side what shares no state: the
variable `part` says which part a behaviour is of, the others stay as they began.
Their invariants say what holds of every part; a composite is not a product of
its parts, and claims nothing about an interaction that the code does not have.

### DevicePool

One request slot `r` stands for a call of `acquire()` or `hold()`: `pc[r]` is
where it is suspended (`"polling"` in the 0.1 s sleep, `"queued"` in
`lock.acquire()`, `"using"` in the caller's body), `call[r]` the local variables
that the loop works with (computed once, before the loop, as in the code),
`dev[r]` its phone. A lock is what `asyncio.Lock` is: a flag, a FIFO of futures and a
"woken" head (`locked`, `waiters`, `woken`); `ReleaseLock` clears the flag and
wakes the head, which takes the lock in a later step (`Granted`) or times out
before it (`HoldTimesOut`), passing the wake-up on. `Pass` is one pass of the
`while` loop with its ways out. Pins are the `OrderedDict`, oldest first;
time is abstracted to "the oldest live pin expires" and "this call's deadline
has passed". Phones that are missing, offline or disabled are all "not in the
snapshot".

### BatchScheduler

`run[b]` is where `_run` stands and `stage[b][x]` where `run_one` of sample `x`
stands; each action is one stretch between awaits. The rows (`status`, `request`,
`callbacks`, `rows`, `saved`) survive `Restart`, the rest does not. `Fault` is an
I/O error at any of the places where the code meets one: `StartRun` before the
`try`, the result file, `upsert_sample`, `update_batch_progress`, the final
`update_batch_status`. `shown[b]` is what a subscriber that received every event
would display. `HasContext` is the condition under which the local `ctx` is bound
when the event's payload reads it.

### EventStream

The scheduler's commits and publications are separate steps (`CommitProgress`,
`PublishProgress`, `CommitEnd`, `PublishEnd`), so are the reads of
`GET /batches/{id}` (`ReadRow`, `ReadSeq`) and its answer (`Loaded`). A
connection has the events that are replayed and queued for it (`pending`). `Cut`
breaks it, `Restart` kills the process, `BeginLoad` may come again while a stream
is open because cancel and delete invalidate the query.

### DeviceMonitor and DeviceCare

In `DeviceMonitor`, `stage[s]` is where the sync `s` stands: the monitor's loop or
a refresh request. `listed[s]` is what adb told it (later its `current`),
`todo[s]` what its present loop still has to handle, `rows[s]` the rows
`_refresh_pool` has read. A sync suspends after each row, each refresh and each
alert, and others run in between. A sync whose adb call fails changes nothing and
is no step.

`DeviceCare` has one sync at a time and looks at what it does to phones that are
rebooted on purpose or fall off: `task[j][p]` is where a job's `_run_one` stands,
`mark` the expected reboots, `down` and `told` what the alerts said. A pass of the
healer begins when it is switched on (`autoheal`), with the rows that are then
offline, enabled, on the network and due (`todo`); that a user enables or disables a
phone, or the healer, is a step of its own. The mark and the lock are looked at when
the turn of a row comes (`Skips`), then `adb connect` runs in its thread
(`connecting`) while jobs hold and reboot the phone, and its end puts off the next
attempt (`resting`). How long a back-off is, is left out: it ends at some time.

### NotificationRules

`at[x]` is where `on_sample_result` of sample `x` stands. Changing and saving a
streak happens under one lock and is one step; the lists, the judgement, the log
of the phone and the alerts are steps of their own, so the streak goes on while a
verdict is awaited. `Kill` forgets `memory`, keeps the rows, and may fall between
a streak's consumption and its alert.

### SelfUpdate and maintenance

`SelfUpdate` has one checkout (`head`), one environment (`venv`) and one page
(`bundle`), and requests (`apply`) that work on them at the same time, each in its
thread. A subprocess is a step and may fail, and so may the `git rev-parse` that
says which commit is checked out (`Unknown`). Batches come and go meanwhile.

`BatchRetention`: `stage[c]` is where a call of the retention stands (the daily
tick or a request); it lists, archives, deletes rows, purges and sweeps, beside
other calls and a user who deletes; `shared` is the history of batches that two
calls had listed at once. `Backups`: runs, which may overlap, copy, write their zips
and apply the caps; a zip's `wrote` is its time of modification, its `name` the
second it was begun, and `beside` remembers who had another run beside it.
`Anomalies` counts half seconds because the table keeps whole ones. `Listing`
turns the filters (SQL), the row computed in Python and the page's mark into
operators over the same results and lets batches go on between the reads. The
clauses of the list (`Passes`) and of the cards (`Counted`) are two definitions, as
the code writes them twice.

### What happens to a sample

`AndroidRun` has a step per await of an attempt; at each of them the time-out may
cut it off. Messages are numbered over the whole run, so that a response can be
told from one of an earlier prompt or attempt. Clearing the clipboard may fail, as
often as `MaxFails` says for one message, and the error is passed over; putting the
keyboard back may fail or be cut off, and with it the attempt (`RestoreFails`).
`WebRun` has several samples on one
executor: looking for the session, launching, waiting for the lock and driving
are apart. `AgentRun` has a thread per attempt that no cancellation stops. What the
model calls an action, and the key it names, are apart from what the handler does:
a Press without a key, or with another name of Enter, sends as well, and the runtime
looks at the name alone (`IsTrigger`, `Refused`). Without a `hint` nobody is asked
whether a reply is there. The model that checks a typed text may miss it, and is
taken not to see what is not there.
`Detection` looks at a growing reply at moments the dumps leave to it.
`Extraction` is a pure function over the column of texts on a screen: TLC goes
through the screens text by text. The walk from block to block of
`_expand_winner_text` is said without a loop: a block is part of the reply if every
two neighbours from it down to the winner reach each other. `Outbound` is one request with the answers a
service or a broken connection can give. `ScreenStream` has viewers that replace
each other's recorder and inputs that use a connection while it is warmed up.
`SyncCalls` has the caller's clock and the stages of the sample up to `done_event`:
the queue, the attempts, the end of one that was cut off, the judge and the alerts of
the notification rules, the callback; `delays` remembers which of them took time
beside the first attempt.

## 3. Runs

Bounds are constants of the modules, given in the `.cfg` files: the parts of a
composite take theirs from its constants.

| run | instance | shows |
|---|---|---|
| `pool_queue` | 1 phone, 3 calls, no pins | `MutualExclusion`, `NoLostWakeup`, `QueuesAreExact`; the pool implements `DeviceLease`; `PollingEnds`, `QueueingEnds` |
| `pool_pins` | 2 phones, 3 sessions, a table of 2 pins, 2 calls | `TypeOK`, `KnownReservationsRespected`, `NeverSubstitutes`, `ReservationsLast`, `PinsAreFair` |
| `sched_one` | a batch with a phone sample, an `end_session` sample and one without profile; concurrency 2, callbacks, one kill, no I/O error | `TypeOK`, `EndIsComplete`, `ActiveIsOurs`, `ProgressNeverBack`, `NothingAfterEnd`, `Settles` |
| `sched_two` | two batches that rerun, replay and delete each other, 2 samples, one I/O error | `NoOrphanRows`, `RerunsAreSeparate` |
| `monitor_sync` | 2 phones, the loop and one refresh, 2 changes | `PoolConverges`, `NewsArrive` |
| `recovery` | a page: 4 samples, a buffer of 2, 2 cuts, 1 later load, 1 kill; care: 2 phones, one by wifi, 1 job, 1 loss | `PageIsTrue`, `ViewNeverBack`, `EndShows`, `WifiComesBack`, `CareIsTold` |
| `rules` | 3 samples on one phone, streaks of 2, 1 kill | `StreaksAreSound` |
| `upkeep` | 2 update requests over 2 commits; 2 retention calls over a batch; 2 backup runs with a cap of one; 2 timed samples; 2 listed batches | `PrunedStaysArchived`, `FreshBackupIsKept`, `AnomaliesAreTold`, `ListIsHonest`, `UpdateIsSafe` |
| `sample_runs` | every profile, 2 prompts, 2 attempts (an agent: 1); 2 web samples, 2 browsers; 2 viewers; screens of up to 4 texts; a synchronous caller's request of every kind | `TurnIsOwn`, `ReplyIsGenuine`, `SendsAreTold`, `SessionIsOwn`, `ScreenIsTidy`, `LeavesOnlyDelayed`, `ReadWhenStill`, `AgentSees` |
| `pool_strict`, `stream_absorbed`, `agent_two_loops` | the least in which it happens | counterexamples to sentences of the repository, section 6 |

Why these bounds are enough. The pool's locks are independent per phone, so one
phone with three calls (a holder, a woken waiter and one that arrives in
between) has every interleaving of the lock; pins need two phones (one to keep,
one to substitute) and a table smaller than the number of sessions to evict. The
scheduler's samples meet in `progress_lock`, in the semaphore and in `gather()`:
two at a time and a third that waits. Two batches are needed for reruns only. A
buffer of 2 with 4 samples overflows while a page is away. Two phones and two
syncs are the least in which a row is upserted between the readings of another
sync; two changes are a loss and a return. Three samples are a streak of two that
is consumed and one that begins the next while the first is judged. Two updates
over two commits are the least in which one pulls what the other has not built,
with one commit that changes dependencies and one that does not. A cap of one
backup and torn zips of a kill make the fresh one the next to go. Two retention
calls and one batch are the least that share a listing, two backup runs the least in
which one's unfinished zip displaces the other's. Two prompts and
two attempts give a response that could come from the prompt before, from the
attempt before, or from both. `MaxFails` is 2: one error of clearing is made good
by the second clear, two are not. Times of `SyncCalls` are in steps of 30 seconds:
up to 3 in the queue, 2 for an attempt to end that was cut off, 8 for the judge and
the alerts with their retries, 22 for the callback's. Two web samples share a
browser, and two launches are a browser and the one that replaces it. Four texts are
a reply with a gap in it and short texts above and below; their gaps lie on either
side of the 90 and the 150 pixels that the code compares with, and one of 2600 on a
screen of 3200 is more than the 2500 a short text loses.

`CHECK_DEADLOCK FALSE` stands where the system may really stop: a finished batch
with a stopped page, jobs and samples that have ended (`Recovery`,
`EventStreamAbsorbed`, `SampleRuns`, `AgentRunTwoLoops`, `NotificationRules`: each
sample is judged once), a service that has updated itself or was killed (`Upkeep`),
and in the configurations of section 6 that vary these. Symmetry is used in safety
runs only (`DevicePoolPins`, `DevicePoolReservationIsStrict`, `NotificationRules`,
`Upkeep`).

Each property is also run against a mutant of the code that has to violate it
(listed in `PROJECT.json`). The modules mark more definitions as "Mutant": they break
the other parts of a property that is a conjunction.

### Fairness

- `DevicePool!Fairness`: the event loop runs whatever can run (a poll's sleep
  ends, a woken waiter is scheduled), bodies of `using` end, and deadlines pass.
  The code bounds samples by `wait_for`.
- `BatchScheduler!Fairness`: weak fairness of every task of `_run` and `run_one`.
  `acquire()` has a deadline, executors are under `wait_for`, webhooks have
  bounded retries.
- `EventStream!Fairness`: weak fairness of the scheduler's writes, the GET's steps
  and the page's connect and read; the hook retries for ever.
- `DeviceMonitor!Fairness`: `run()` begins a sync for ever, awaits end, adb does
  not fail for ever.
- `DeviceCare!Fairness`: jobs go on and syncs are begun for ever; time passes for
  each phone (`Passes`): its mark expires, its back-off ends, the sample that has it
  ends, and if it boots it is up in the end (a phone that stays off is a loss and not
  booting). Nothing is assumed of the switches: `WifiComesBack` is about a healer and
  a phone that stay switched on.

`Recovery` has those of `EventStream` and `DeviceCare`, each in the behaviours of
its part. No fairness is assumed of requests, cuts, cancels, losses, restarts or of
what a user does with a phone; none is stated where only safety is checked.

## 4. What the properties mean

The properties of a run are often conjunctions of named parts, each with its
comment in the module:

| property | is the conjunction of |
|---|---|
| `PinsAreFair` | `OldestPinFirst`, `FreshTakesAreExclusive` |
| `EndIsComplete` | `FinishedIsComplete`, `EndMeansRecorded`, `ExecutedIsShown` |
| `NewsArrive` | `TypeOK`, `AlertsConverge`, `LossIsTold` |
| `PageIsTrue` | `TypeOK`, `StreamIsContiguous`, `NothingSkipped`, `ViewIsCommitted` |
| `CareIsTold` | `TypeOK`, `UnfinishedIsKnown`, `NotesComeInPairs` |
| `StreaksAreSound` | `TypeOK`, `StreakIsTrailingRun`, `StreaksAreApart`, `EveryNthEmptyAlerts` |
| `UpdateIsSafe` | `TypeOK`, `PulledIsInstalled` |
| `PrunedStaysArchived`, `FreshBackupIsKept` | `TypeOK` and `PrunedIsArchived`; `TypeOK` and `FreshIsKept` |
| `AnomaliesAreTold` | `TypeOK`, `WindowsLeaveNoGap`, `BackfillIsIdempotent` |
| `ListIsHonest` | `EmptyAgrees`, `SlowAgrees`, `CardsAgree`, `EmptyShowsNoAnswer` |
| `TurnIsOwn` | `TypeOK`, `OneAnswerEach`, `SentAlone`, `TapIsFresh`, `KeyboardComesBack` |
| `ReadWhenStill` | `TypeOK`, `StableMeansStill`, `BackMeansComplete` |
| `ReplyIsGenuine` | `BoundaryIsKept`, `GenuineWins`, `LatestRowIsWhole` |
| `SendsAreTold` | `TwiceOnlyInDoubt`, `SentHasArrived`, `PausesAreBounded`, `TapIsWhereSaid` |
| `SessionIsOwn` | `TypeOK`, `TalkIsOwn`, `RegisteredIsOpen` |
| `AgentSees` | `EnterIsConfirmedOnPhones`, `CopyIsLater`, `FinishSeesReply` |
| `ScreenIsTidy` | `NoneIsLeftBehind`, `OneWarmUp`, `TappedTwiceInDoubt` |

`EndShows` is `EndWillShow` in the behaviours of the page.

Some are read under a condition, because the code keeps them only so; a definition in
parentheses is the same without the condition, section 6:

- `EndIsComplete` and `NothingAfterEnd` without I/O errors (`MaxFaults = 0`);
  with one in the wrong place a batch publishes its end and stays `running`.
- `NothingSkipped`, `ViewNeverBack` and `EndWillShow` are about a page that
  loaded once (`LoadedOnce`) in a process that lives on; a second load or a kill
  breaks them (section 6). `StreamIsContiguous` and `ViewIsCommitted` hold always.
- `AlertsConverge` and `LossIsTold` are about the monitor's loop alone: overlapping
  refresh requests break them (`RecoveryIsTold`). `PoolConverges` needs no such
  restriction: a later sync repairs the snapshot.
- `StreakIsTrailingRun` while the row can be read and written;
  `EveryNthEmptyAlerts` while nothing was killed or failed.
- `ExecutedIsShown`, in `EndIsComplete`, is about samples that get to an executor:
  the others stay as they were shown (`LeavingRunningIsShown`).
- `PrunedIsArchived` of every batch but those that two overlapping calls had listed
  both, `FreshIsKept` of the zip of a run that had no other beside it: whatever
  overlapped before.
- `PulledIsInstalled` is about the commits between the two that an update has read.
  What an earlier failed update pulled and did not install is in neither
  (`StagedIsWhole`), and a batch that is submitted while an update runs is
  interrupted (`InterruptionIsForced`).
- `EmptyAgrees` up to two cases in which the code's own clauses differ: an answer of
  white space, and a row whose prompt was blank, which the page does not mark.
- `TapIsFresh` unless clearing the clipboard failed twice for the message
  (`TapIsAlwaysFresh`); `KeyboardComesBack` unless a switch of the keyboard failed or
  was cut off (`KeyboardAlwaysBack`).
- `EnterIsConfirmedOnPhones` and `FinishSeesReply` on phones, of an Enter that the
  model calls so and, the latter, of a prompt with a hint
  (`EnterIsAlwaysConfirmed`). A first attempt alone has the phone to itself (run
  `agent_two_loops`).
- `GenuineWins`: a text of 15 characters or more is passed over only for a response
  that stands 2500 pixels or more below it, which is what the code's penalty for
  short texts promises on any screen.
- `LeavesOnlyDelayed` names the delays for which a caller is left; that a sample was
  delayed only by the judge and the alerts is one of them
  (`NoticesStallNobody`).

## 5. Proofs

TLAPS proves the following for every value of the constants.

`DevicePoolProofs` (any phones, sessions, concurrent calls, profile
restrictions): `TypeCorrect`, `Exclusion` (`MutualExclusion`), `WakeupsKept`
(`NoLostWakeup`), `ReservationsKnownKept`, `NoSubstitute`, `LeaseImplemented`
(`ImplementsLease`). Assumption: `PoolAssumption` (the null values are no members,
the table of pins has room for one). Mutual exclusion is not inductive alone: the
grant of a lock to a woken waiter is safe only because a waiter is woken exactly
when the lock is free (`NoLostWakeup`), and a queued call must have a phone
(`HasDevice`). The inductive invariant is `IInv == TypeOK /\ HasDevice /\
NoLostWakeup /\ MutualExclusion`; `NextIInv` has one step per action of `Next`.
What a call gets is proved on top of it with a second invariant, `ArgsInv`: a call
with a live pin allows one phone alone, and a call that has found no phone
remembers none, so that the phone chosen from `allowed` less `exclude` can only be
the pinned one, or one no other session had reserved. The refinement maps
`owner[d]` to the request in `using` on `d`, unique by `MutualExclusion`; each
action maps to `Lease`'s take, give back or a stutter.

`DevicePoolOrderProofs` (the same constants): `QueuesExact` (`QueuesAreExact`),
`FairPins` (`PinsAreFair`), `ReservationsKept` (`ReservationsLast`). They are about
sequences without doubles: lemmas say what removing one element, dropping the
first and appending a new one leave in it, and in which order. `QueueIsExact` is
inductive per phone: a queue holds exactly the calls that wait for its lock.
`PinOrder` says that expired pins are a prefix of the table; a look-up, a new pin
and an eviction keep it, which is why an eviction costs a live reservation only
when all are live.

`BatchSchedulerProofs` (any batches, samples, concurrency, any number of I/O
errors and kills): `TypeCorrect`, `NoOrphans` (`NoOrphanRows`), `ActiveOurs`
(`ActiveIsOurs`), `RerunsApart` (`RerunsAreSeparate`). Assumption:
`SchedulerAssumption`. That no sample row is written after its batch was deleted is
a fact about tasks, while the deletion looks at the status only. The strengthening
`Ownership` ties them: a batch whose status is not active has no task under way
(`Quiet`), a batch that starts, runs or closes is active, a batch that closes is
quiet, and a sample that was not submitted has no task. It holds through faults
because an aborted batch keeps its active status, which is also why such a batch
can be neither deleted nor rerun before the next boot. `HasResult` (a task past
its executor has a result) is needed for the types of the events.

`BatchSchedulerEndProofs` (any finite set of samples, any concurrency and number of
kills, and `MaxFaults = 0`): `EndComplete` (`EndIsComplete`), `NothingAfter`
(`NothingAfterEnd`), `ProgressKept` (`ProgressNeverBack`). The invariant `EndsInv`
counts, per batch: the counters are the cardinalities of the sets of samples past
the point where each is counted (`CountsMatch`), the stage of a task says whether
its row is stored and shown (`TasksMatch`, `RowsMatch`, `ShownMatches`), and a
batch past its `gather()` has every row (`RowsComplete`, `EndMatches`). The saved
pair of counters never falls because the lock admits one writer at a time, which
saves what is counted then.

`RecoveryProofs` (any number of samples, any buffer, cuts, loads and kills; any
phones and jobs): `PageTrue` (`PageIsTrue`), `NeverBack` (`ViewNeverBack`),
`CareTold` (`CareIsTold`). For the page, `IInv` adds to the
property that the buffer holds the latest events (`BufferIsLatest`), that a
published event, and what a load has read, is committed (`PublishedIsCommitted`),
and that a connected page that loaded once does not load (`OneLoad`); `JInv` adds
that events are in the order of progress and none that the page has yet to see
says less than it shows (`InOrder`), that a batch ends when all of its progress is
told (`EndIsLast`), and that a connected page does not load unless it is made to
(`QuietOnceConnected`). For the phones, `CareInv == TypeOK /\ UnfinishedIsKnown /\
DownIsTold`: what is remembered of a phone that is down is what was said of it
last.

`NotificationRulesProofs` (any samples, phones, responses, threshold and kills;
`RulesAssumption`): `StreaksSound` (`StreaksAreSound`). The property speaks of the
run of empty responses at the end of what was counted, as a number that a `CHOOSE`
names, and of that run at every earlier sample; `RulesInv` says it of positions:
`RunAt(s, i, n, said)` is that the last `n` of the first `i` samples, and not the
one before, were empty. Such an `n` exists (`RunsAreKnown`) and is the only one, a
new sample makes it `n + 1` or 0, and the counter is its remainder (`CounterIsRun`)
because what is saved is what is in memory while nothing fails (`SavedIsMemory`).
That no sample is in two streaks or judgements needs to know where each call in a
streak can stand (`StreaksAreOfOne`), that what is under judgement has left the
streak (`JudgedIsOut`) and that a call is counted once (`CountedOnce`).

`UpkeepProofs` has a theorem for each part of `Upkeep`, with an invariant of its own:

- `UpdatesAreSafe` (`UpdateIsSafe`; any requests, batches, commits, any set of
  commits that touch dependencies; `UpdateAssumption`). The heads that updates have
  read are in order (`Ordered`); what one has pulled, synchronised and built stays
  at least as new however others go on (`PulledIsThere`, `SyncedIsThere`,
  `BuiltIsThere`).
- `PrunedArchived` (`PrunedStaysArchived`; any batches, kills and number of retention
  calls at once, archiving on or off). Two calls have a batch in hand at once only if
  it is in `shared` (`ListedOnce`). For the others the invariant ties the steps of a
  call to the disk: what is to be deleted was archived with its rows
  (`ArchivedFirst`), the snapshot of a batch that is archived has its rows
  (`SnapshotHasRows`), what is listed is there or was deleted by a user
  (`ToDoIsThere`), and a call has one batch in hand and will not pick it again
  (`CurIsPicked`).
- `BackupKept` (`FreshBackupIsKept`; any number of runs, any retention, cap and
  kills, `BackupAssumption`). Beside a run outside `beside` nobody is at work
  (`AloneIsAlone`), so what it has written is the newest zip, and whole, until it is
  reported (`WrittenIsNewest`); lemmas say which zips a removal, a prune and a new
  zip leave.
- `AnomaliesTold` (`AnomaliesAreTold`; any samples, interval and kills,
  `AnomalyAssumption`). The latest window ends at `last_sent`, and the next one
  begins there (`WindowsAreKnown`, `Moments`); the message has every row of its
  window, because a row that comes after the read is stamped with the second of the
  tick or a later one (`Taken`); a backfill knows the rows of the ones before
  (`FillKnowsItsOwn`).
- `ListHonest` (`ListIsHonest`; any batches, any set of results whose reviewed
  texts and errors go together, with blank prompts or not, `ListingAssumption`). That filters, marks and cards
  agree holds in every state whose rows are of samples that ran (`RowsAreRan`); the
  step from one read to the next needs that a batch listed as empty will show no
  answer, because it has ended and can only be deleted (`ListedAreAnswerless`).

`SampleRunsProofs` has a theorem for each part of `SampleRuns`. `OnePartSteps`: a
step is one of one part, and the others rest.

- `TurnsAreOwn` (`TurnIsOwn`; any profiles, prompts, attempts, taps;
  `RunAssumption`). The messages sent since the attempt began are numbered as the
  prompts are (`MessagesAreCounted`); while taps are tried the clipboard is empty, or
  clearing it has failed once for this message, so that a tap on an old text needs a
  second failure (`ClipIsClear`); and the phone has its keyboard or the attempt
  remembers it, unless a switch failed or was cut off (`KeyboardIsKept`).
- `SessionsAreOwn` (`SessionIsOwn`; any samples, prompts, attempts, launches;
  `WebAssumption`). The samples that drive pages hold the lock, so each page ends
  with what its sample has sent (`PagesAreOwn`), and browsers are registered once
  (`ContextsAreApart`).
- `AgentsSee` (`AgentSees`; `RunAssumption`), an action property as well, by an
  invariant over all loops, those left behind by a time-out included
  (`LoopsAreRight`: who has sent by a tap or a named Enter knows that a reply is
  pending), one over the clipboard (`ClipIsLater`), and one of a phone's first
  attempt (`PhoneIsAlone`): no other loop runs, so what a loop typed in part is still
  not confirmed when it presses Enter (`Guarded`, `Confirmed`).
- `ReadsWhenStill` (`ReadWhenStill`; `DetectionAssumption`): what was seen last is
  not newer than the page, and the time since it stood still not older.
- `RepliesAreGenuine` (`ReplyIsGenuine`; any number of texts of any length and
  distance on screens of any height; `TextsAssumption`). The invariant is only that texts stand below each other (`TextsInv`); the rest is
  about the functions. A block begins with its head and has no other
  (`BlocksAre`), blocks lie apart (`BlocksApart`), so that the block above one that
  was joined reaches it (`ExpandedIsNear`); there is a winner (`WinnerIs`), it is
  read (`WinnerIsRead`), a long text above it is less than the penalty away
  (`LongerWins`), and more texts have more characters (`LengthsGrow`). That a
  bounded set of numbers has a greatest one (`GreatestOf`) is derived from the
  library's theorem that strict inclusion of finite sets is well-founded, and that
  lengths add up from the cardinality of sets of characters: neither needs
  induction.
- `SendsTold`, `ScreenTidy`, `CallersStay` (`SendsAreTold`, `ScreenIsTidy`,
  `LeavesOnlyDelayed`; `CallsAssumption`, `ScreenAssumption`, `BodiesAssumption`):
  a post that was taken is the last one unless an answer left it open; an input the
  phone carried out is not taken up again but in doubt; and as long as nothing but
  the first attempt took time (`delays = {}`), no more time has passed than that
  attempt may take, which is less than the caller waits (`WaitIsLonger`).

Every safety property of a passing run is thus a theorem. Model-checked only are
the liveness properties (`PollingEnds`, `QueueingEnds`, `Settles`, `EndShows`,
`WifiComesBack`, and with them `DeviceMonitor`, whose `PoolConverges` and
`NewsArrive` say that rows, snapshot and alerts catch up in the end): they rest on
fairness, which is out of the prover's reach.

## 6. Where the code and its docs disagree

Shown by a run, each with its quotation in `PROJECT.json`, `findings`:

- `pool_strict`: reservations are read before the loop, so a call that waited
  can take a phone that was reserved meanwhile.
- `stream_absorbed`: `last_seq` is read after the row, so an event in between is
  neither in the snapshot nor streamed.
- `agent_two_loops`: the loop of an attempt that timed out goes on in its thread
  and drives the phone beside the next attempt or the next sample.

Stated as a property without the condition under which a run has it. Each has a
configuration that is not among the runs, for which TLC finds the counterexample
(`tlc -config UpkeepStaged.cfg MCUpkeep`):

| definition, configuration | what the repository says | what happens |
|---|---|---|
| `BatchScheduler.LeavingRunningIsShown`, `BatchSchedulerShown.cfg` (`scheduler/batch_scheduler.py:404`) | `sample_update` is "emitted when a sample enters or leaves `running`" (`docs/superpowers/specs/2026-04-22-plan-3-web-gui-executor-design.md:153`) | the event of a sample that never got to an executor reads a local that is not bound, and is lost |
| `DeviceMonitor.RecoveryIsTold`, `DeviceMonitorRecovery.cfg` (`devices/monitor.py:67`) | alerts on a device going down "and, paired with that, on it coming back" (`notifications/device_state.py:3`) | overlapping syncs note a phone as online that was reported down, without a recovery alert |
| `SelfUpdate.StagedIsWhole`, `UpkeepStaged.cfg` (`system/updater.py:308`) | "so a broken update aborts with zero downtime" (`system/updater.py:5`) | after an update whose synchronisation failed, the next one sees no change of dependencies in its own commits, skips it and restarts |
| `SelfUpdate.InterruptionIsForced`, `UpkeepForced.cfg` (`api/system.py:76`) | "caller must confirm interrupting in-flight batches with force=true" (`api/system.py:78`) | active batches are counted before an update that takes minutes; one submitted meanwhile is interrupted without `force` |
| `AndroidRun.TapIsAlwaysFresh`, `SampleRunsCopy.cfg` (`executors/android_executor.py:348`) | "so a previous prompt's text can't be mistaken for a successful copy" (`android_executor.py:341`) | errors of clearing the clipboard are passed over; after two of them a tap that copies nothing gives the answer of an earlier prompt |
| `AndroidRun.KeyboardAlwaysBack`, `SampleRunsKeyboard.cfg` (`executors/android_input.py:47`) | "`try/finally` 保证还原", try/finally guarantees the restore (`docs/superpowers/specs/2026-04-22-plan-4-android-executor-design.md:165`) | a switch of the keyboard that fails or is cut off leaves the ADB keyboard, and nothing remembers the phone's own; a failed restore also fails an attempt that has all its responses, and its prompts are sent again |
| `SyncCalls.NoticesStallNobody`, `SampleRunsNotice.cfg` (`scheduler/batch_scheduler.py:369`) | "a misconfigured webhook can't stall batch progress" (`batch_scheduler.py:366`) | the notification rules are awaited before `done_event`; a slow judge or webhook alone can make a synchronous call fail |
| `AgentRun.EnterIsAlwaysConfirmed`, `AgentRunEnters.cfg` (`agent_core/runtime.py:279`) | "`Press(enter)` is rejected in runtime before it reaches the device handler" (`docs/superpowers/plans/2026-05-06-agent-runtime-unification.md:20`) | a Press without a key is an Enter for the handler and none for the gate |

Further sentences of the repository that the code does not meet, each stated as a
definition in its module:

| definition | what happens |
|---|---|
| `DevicePool.CancelledGetsNoDevice` (`devices/pool.py:201`) | a call that queues behind a woken `hold()` obeys neither its cancel nor its deadline |
| `BatchScheduler.BatchDoneIsTerminal` (`docs/superpowers/specs/2026-04-22-plan-3-web-gui-executor-design.md:155`) | an I/O error while a sample is recorded publishes `batch_done` for a batch that stays `running` in the database |
| `DeviceCare.HealsOnlyIdle` (`devices/healer.py:59`) | lock, mark and row are looked at before `adb connect` runs in a thread: a job may take or reboot the phone meanwhile, or a user disable it |
| `NotificationRules.ListedStays` | two samples that add to a list at once: the later row replaces the earlier |
| `AndroidRun.CopyIsFresh`, `FinalShotIsOwn`, `LlmIsOwn` | a copy button found in the tree does not clear the clipboard; a screenshot of the attempt before is kept; a model's answers of cut-off attempts stay |
| `Detection.U2IsTried` (`executors/complete_detector.py:415-416`) | the last resort is not tried when the deadline passes right after the last failure of the CLI |
| `WebRun.NoBrowserLeaks`, `NextCallIsFresh` (`executors/web_executor.py:121-124`, `228`) | a set-up that is cut short, or two that begin together, leave a browser open; a call that waits for the lock keeps the closed one |
| `AgentRun.EnterIsConfirmedOnPhones` on a PC (`agent_core/runtime.py:274-280`, `handlers/pc.py:17`) | its handler's names of the actions are not those that the check looks for |
| `ScreenStream.OneRecorder` (`api/device_stream.py:149-150`) | two viewers at once, or a third, have two recorders |
| `BatchRetention.PrunedIsArchived` of what two calls list at once (`maintenance/batch_retention.py:138-139`) | the slower one writes an archive without rows over the good one |
| `Backups.FreshIsKept` of two runs at once (`maintenance/backup.py:160-161`) | a zip still being written is newer than one just finished, which goes |
| `SyncCalls`, the wait (`services/sync_tests.py:53`) | the wait covers one attempt; with retries (two by default, each of 180 s against a wait of 210 s), a queue, an attempt that is slow to end, the judge and alerts or a callback the caller is left while the sample goes on |

Seen while modelling: a call that waited re-pins a phone another session has
pinned since; a phone whose reservation ended stays excluded until the time-out;
`DeviceReserved` can name no session; `cancel` is accepted for a finished batch;
the rerun of an `end_session` sample runs on a phone; an overlapping second load
sets the page back; after an overrun of the buffer or a restart the page does not
load again; the stream of a deleted batch never ends and never answers 404; the
sweep removes the logs of batches whose archiving failed; the filter for empty
answers passes over answers of white space that the page marks as empty, and finds
rows whose prompt is blank, which the page does not mark; a finished
batch whose sample row was never stored is listed without one; after a failed build
a second update finds nothing to pull and answers "up to date" while the old code
runs; on a screen of more than 2500 pixels a short text far below a genuine reply
wins over it.

## 7. Not modelled

`PROJECT.json` lists every component with what is left out of it. As a whole:

- **Login**: counters of one process, read and written without an await; tokens
  and hashes are the libraries'.
- **Profile builders** (Android and web): they find out a profile by heuristics
  over screens, for one user at a time, and keep nothing others read.
- **Profiles and configuration, loaders, results, media, search, health,
  database and schema, other pages of the web UI**: validation, parsing, single
  reads and writes, presentation. Their failures are faults of the modules that
  call them.

Within the modelled parts: `_resolve_concurrency`, the wording of alerts, contents
of results and pictures, the order of the device list inside a pass (arbitrary
here), routes for labels and keyboards, the result zip, full-text search, sorting
and paging, deletion by status in bulk, a phone that is rotated while it is
watched, `close()` of the web executor (called nowhere in the service), action
scripts of profiles (one step), and the wall-clock hours of the maintenance loops.

## 8. What could follow

1. The safety half of `NewsArrive` (its `TypeOK`, and what the monitor's last state
   knows of the rows) as a theorem of `DeviceMonitor`.
2. With a lock around the retention and one around `run_backup` in the code,
   `shared` and `beside` would be empty, and `PrunedArchived` and `BackupKept` about
   every batch and every run.
3. `_resolve_concurrency` and the login throttle as operators against reference
   definitions; the life cycle of builder sessions.
4. `BatchScheduler` and `EventStream` in one module, so that the page's promises
   are checked against I/O errors of the scheduler as well.
