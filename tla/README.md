# A TLA+ model of MUAD'DIB's monitor

MUAD'DIB is a supply-chain scanner for npm and PyPI packages.  Most of its code
is sequential analysis (parsers, detection rules).  Two parts of it are hard to get
right and hard to test.  One is the *monitor* (`src/src/monitor/`): a long-lived Node
process that ingests publications, queues them, scans them in worker threads and
containers under memory and rate limits, sheds load, spills to disk and has to
survive restarts without losing a publication.  The other is the *scoring* of a scan's
findings (`src/src/scoring.js`, called by `src/src/pipeline/processor.js`): a dozen passes
over one list and one number, each undoing part of what the others did.  These modules
model both.

In the monitor everything runs on one event loop.  An action of a module is one synchronous
stretch of JavaScript between two `await`s (or a timer, a worker message, a
signal); interleavings are interleavings of such stretches.

## Inventory

| Component | State | Operations | What makes it hard | What makes it correct |
|---|---|---|---|---|
| heavy lane (`monitor/heavy-lane.js`) | slot counter, waiter queue | acquire, bail (abort, wait bound), release | a release races an abort or a timeout of the waiter it wakes | counter = owners, no lost wakeup, FIFO, bounded requeues |
| scan queue and spill (`monitor/scan-queue.js`, `monitor/spill.js`) | in-memory queue, backlog file | bounded enqueue, bulk eviction, dequeue policies, compaction, drain | eviction re-entered from the drain; a file read, then rewritten; two reordering policies | no item leaves without a ledger entry; protected items last; FIFO lanes not starved |
| scan lifecycle (`monitor/queue.js`, `monitor/daemon.js`) | queue, in-flight items, dedup set, ledger, persisted queue and dedup files | dequeue, dedup, scan, time out, requeue, interrupt, EMERGENCY purge, persist, restore, shutdown | kills, restarts and retries between the steps of one scan | every ingested version is scanned or ledgered; retries are bounded |
| deferred sandbox (`monitor/deferred-sandbox.js`) | sorted bounded queue, dedup set, worker slots, follow-up set | enqueue with eviction, expire, process, retry, persist, restore | an item is out of the dedup set while it is being processed | bounded queue, no duplicate, bounded retries, no duplicate follow-up |
| memory governor (`monitor/memory-governor.js`) | outstanding tickets, waiters, freeze flag | acquire by class, release, freeze, drain | lights always admitted, heavies wait behind carve-out | outstanding within budget, no lost wakeup |
| adaptive concurrency (`monitor/adaptive-concurrency.js`) | target, what the last samples left behind, number of workers | sample, spawn up to the target, a worker goes on or leaves | a feedback that remembers, three caps and a freeze that each stop workers | the queue is served, the target of a calm pool returns to the base |
| registry limiter (`shared/http-limiter.js`) | slots, waiters, token bucket, AIMD rate, worker proxies | acquire, release, 429 back-off, grant to a worker | grants to dead workers, clock | rate bounded, no slot leaked |
| extract pool (`shared/extract-pool.js`) | pool of extraction threads | submit, complete, worker death | death with a job in flight | every job settles once |
| tarball prefetch (`monitor/tarball-prefetch.js`, `monitor/state.js`) | line of downloads, cache on disk, its index | prefetch, cache, hit, purge, collect orphans | a key is free before its microtask; a death between a copy and the index | a capture stays for its retention, nothing stays for ever, one download per version |
| tarball archive (`monitor/tarball-archive.js`, `scripts/ops/pull-archive.sh`) | a directory per day, its copies and marks | archive, clean up, pull, mark, purge | two machines, two time zones, crashes | nothing is freed before it is copied |
| ingestion (`monitor/ingestion.js`) | CouchDB sequence, RSS cursors, poll mutex | poll, catch up, enqueue, back-pressure | a zombie poll overlaps its successor | no change skipped |
| state files (`monitor/state.js`) | ledger, alerts, stats, dedup and seq files | append, save, load, rotate | crash between two files | each file consistent with the next |
| alerts (`monitor/webhook.js`, `integrations/webhook.js`) | pending groups, daily report stamp | group, flush, retry | flush timer races a new alert | an alert is sent once |
| sandbox (`sandbox/`, `docker/`) | container slots, the line for them | take, try, wait, release, run, kill | three kinds of callers, each with its own way to give a slot back | runs bounded by the slots, every slot returned |
| health, degradation, event loop watch (`monitor/healthcheck.js`, `monitor/degradation.js`, `monitor/event-loop-monitor.js`, `monitor/worker-mem.js`) | counters | sample | - | - |
| classification, temporal, auto labels (`monitor/classify.js`, `monitor/temporal.js`, `monitor/auto-labeler.js`) | dedup of labels | decide | - | thresholds |
| scan pipeline (`pipeline/`) | one scan's findings | run scanners under deadlines | watermark kills the worker | result or error is posted once |
| scoring (`scoring.js`, `scoring/delta-multiplier.js`, `pipeline/processor.js`) | findings with their severities, score, level | reduce, decay, boost, sum up, cap, floor, weigh, adjust | the passes depend on their order and on each other's exemptions | no reduction disarms a compound, decoys hide nothing, floors keep their promise |
| scanners, rules, intent graph, response, ML | none (functions of their input) | analyse | size | out of the model: data transformations |
| IOC database (`ioc/`) | on-disk database, GHSA cursor | update, poll | partial update | - |
| CLI, output, runtime daemon, serve, integrations | - | - | I/O | - |

How they interact.  `daemon.js` owns the loop: it polls (ingestion), which calls
`enqueueScan`; it spawns up to *target* workers (`queue.js`), each dequeuing an
item, resolving and downloading its tarball (registry limiter, prefetch), taking
memory admission (heavy lane or governor), running the static scan in a worker
thread, and handing suspects to the sandbox or to the deferred sandbox queue.
Memory pressure makes the daemon evict the queue into the backlog file, kill the
workers and clear the caches.  A shutdown or a periodic timer persists the queue.

## Plan

The order is by what a mistake would cost.  Done:

1. `HeavyLane`, the limiter whose shape the other limiters repeat, with `Semaphore`
   as its abstract specification, and its proofs.
2. `ScanQueueOps`, `ScanQueue`: queue and backlog file, every eviction and dequeue
   policy (`Selection` holds what they share with the deferred queue); and their proofs.
3. `DeferredSandbox`: the second queue, its persistence and its slots; and its proofs.
4. `Alerts`: the dedup of notifications and the groups; and its proofs.
5. `ScanLifecycle`: what becomes of a publication across kills, restarts, crashes; and its proofs.
6. `Ingestion`: the change cursor, the save of queue and cursor, polls that overlap,
   the jump after a failed fetch; and its proofs.
7. `MemoryGovernor` (tickets by weight, freeze, thaw) and `ExtractPool`, composed by
   `ScanResources`, which gives both their callers; `HttpLimiter`, and its proofs.
8. `SandboxSlots`, the container slots, as the third resource in `ScanResources`; and the proofs of
   all three.
9. `RiskScore` and `Scoring`, the passes from findings to score; and their proofs.
10. `WorkerPool`, the adaptive target and the workers it steers; and its proof.
11. `TarballCache` and `TarballArchive`, what keeps a package's bytes, `ScanLedger`, the file of the
    ledger and its compaction; and their proofs.

Left:
12. The registry of degradations (`degradation.js`), the rollups of the ledger
    (`state.js:1294`).
13. The accounting of one scan's outcome in `queue.js` (statistics, ledger, alert).

## Modules

| Module | Models | State |
|---|---|---|
| `Semaphore` | the promise: a counting semaphore with a FIFO line | holders, line |
| `HeavyLane` | `heavy-lane.js` and its caller in `queue.js` | `active`, `queue` (of `_lane`), the phase, abort signal and requeue count of each scan |
| `SemaphoreProofs` | theorems about `HeavyLane` and `HttpLimiter` | |
| `Selection` | "the first n of what satisfies P", "keep these positions", a filter, the two-pass marking `Marked` and its reference definition | |
| `SelectionProofs` | theorems about `Selection` | |
| `ScanQueueOps` | the selection rules of `scan-queue.js` and `spill.js`, as operators | |
| `ScanQueue` | the queue, the backlog file, the workers' dequeues, the memory breaker, the drain | `queue`, `file`, `taken`, `recent`, `seq`, `pressure`, `fate` |
| `ScanQueueProofs` | theorems about `ScanQueue` | |
| `DeferredSandbox` | `deferred-sandbox.js` and the daemon's restarts | `queue`, `seen`, `running`, `active`, `disk`, `up`, history `durable` |
| `DeferredSandboxProofs` | theorems about `DeferredSandbox` and `Alerts` | |
| `Alerts` | `trySendWebhook`, scope groups, follow-ups, daily reset, shutdown flush | `tracked`, `groups`, `sends`, `phase`, histories `notes`, `alerted` |
| `ScanLifecycle` | the worker loop and the daemon around it | `scanQueue`, `lane`, `zombies`, `scanned` (`recentlyScanned`), `backlog`, `queueFile`, `recentFile`, `phase`, histories |
| `ScanLifecycleProofs` | theorems about `ScanLifecycle` and `WorkerPool` | |
| `Ingestion` | one feed's poller, the poll scheduler, the saves of cursor and queue, stops and restarts | `head`, `cursor`, `half`, `current`, `queue`, `queueFile`, `stateFile`, `cursorFile`, `phase`, `restored`, histories |
| `IngestionProofs` | theorems about `Ingestion` | |
| `MemoryGovernor` | `memory-governor.js` | `gov`, `waiters`, `sampled`, `budget`, `frozen` |
| `ExtractPool` | `extract-pool.js` | `pending`, `running`, `idle`, `pool` |
| `SandboxSlots` | the semaphore of `sandbox/index.js` | `slots`, `slotLine` |
| `ScanResources` | the scans that use the three, from `queue.js` | the above, `stage`, `aborted`, `retries` |
| `ResourceProofs` | theorems about `ScanResources` | |
| `WorkerPool` | `adaptive-concurrency.js`, the worker loop and `ensureWorkers` of `queue.js` | `depth`, `active`, `outstanding`, `frozen`, `strain`, `ctl` |
| `RiskScore` | `calculateRiskScore`, as operators on a list of findings | |
| `Scoring` | the other passes of `scoring.js`, in the order of `process()` | `findings`, `score`, `level`, `stage`, the context |
| `TarballCache` | `tarball-prefetch.js`, the cache of `state.js`, the scan that uses it | `pending`, `downloads`, `inFlight`, `files`, `index`, `indexFile`, `scan`, `booting`, history `captured` |
| `TarballArchive` | `tarball-archive.js` and `pull-archive.sh` | `utc`, `ahead`, `dirs`, `saving`, `copies`, `pull`, histories `archived`, `lost`, `hasty` |
| `ScanLedger` | the ledger's file in `state.js` | `ledger`, `since`, `compaction`, histories `appends`, `damaged` |
| `Stores` | the three stores on disk together | that of the above three |
| `OutcomeProofs` | theorems about `Scoring` and `Stores` | |
| `HttpLimiter` | one host's bucket of `http-limiter.js`, `fetchWithRetry`, the worker proxies | `slots`, `slotLine`, `bucket`, `net`, `attempt` |

`MC*` modules only give constants their values.  A definition that follows a comment
starting with *Mutant* is a plausible mistake in the definition below it; nothing uses
it, it documents what the properties would notice.  Five of the `MC*` modules put machines side by side
that do not interact: `MCScanQueue` the queue and the lifecycle, `MCProgress` these two and the
worker pool, each on an instance small enough for liveness, `MCSemaphores` the lane and the
limiter, `MCScanResources` the resources and the alerts, `MCStores` what is kept on disk: cache, archive, ledger.  A behaviour is one of a single machine, as a
machine moves only while its neighbours rest (are in their initial state; for the limiter also
once its host is idle again), where the neighbours' fairness asks for nothing.

### HeavyLane

A scan goes `out -> waiting / granted / free -> holding -> out`.  `granted` is the
interval between the call of a waiter and the microtask in which `scanPackage` sees
the slot, during which an abort or a timer may come too late.  `AcquireWait`,
`Abort` and `WaitTimeout` are the three ways through the promise of
`acquireHeavySlot`; the last two leave the queue through `LeaveQueue` (the `bail`).
`Release` is `releaseHeavySlot`: it hands the slot over or counts it down.
`Requeue` is `computeHeavyRequeue`.

### ScanQueueOps and ScanQueue

`Marked` (in `Selection`) is the two-pass marking of `evictFromScanQueueBulk` and of `_compactBacklog`,
`Victim` the window scan of `enqueueScan`, `NextIndex` and `PullNewest` the dequeue
policies, `DrainOrder` the order of `drainBacklog`.  `Enqueue` returns the set of
possible results of one `enqueueScan` (the spill of its victim may fail), and
`AllEnqueued` those of the drain's loop over its batch, which `Batch` and `Fresh` select.  A
handler is synchronous, hence one action.  An item is one version; `fate` records what the
ledger or a result says of it.  `Levels` are the levels of memory pressure: the queue tells
only "none" and "emergency" apart from the rest.  `SelectionsMeetReference` compares the rules of
eviction, compaction and drain with reference definitions; it depends on no state, so TLC evaluates
it once.

### DeferredSandbox

`Tick` is one firing of the worker's interval: `pruneExpired`, then as many
`processDeferredItem` as there are free slots, up to their `await`.  Which entries have
expired is chosen freely.  `Succeed` and `Fail` are the two continuations.  `Start` is
a new process with `restoreDeferredQueue`.  A crash can come at any moment.

### Alerts

A note is a notification that passed the dedup; it is in a group, in an awaited webhook
call, or settled.  A call keeps the reference it read from the map before its `await`
(`ref`): no entry, the live entry, or one the map has dropped since.  Nothing here is
persisted, so a crash is an exit without its flush.  Which findings deserve an alert and
the memory of past false positives are decided before `Alert` and left out.

### ScanLifecycle

`lane[w]` is a worker loop: free, over, or at a stage of a scan - `resolving` (before
the dedup), `waiting` (download, extraction, admission), `static` (in its worker thread),
`killed` (told to terminate, not yet exited), `after` (reputation, sandbox, alert).
Items carry the two retry counts because they are what the backlog and the snapshot
keep or lose.  Queue, backlog and snapshot are sets: their order and bounds are
`ScanQueue`'s.  `MemoryEmergency` may spill or drop any part of the queue, which includes every
choice of `evictFromScanQueueBulk`.  `zombies` are the keys of scans whose timeout
fired while they resolved the tarball: they still write to the dedup set.

### Ingestion

A behaviour follows one feed.  Change `n` is the n-th entry the filters let through.
`half[p]` is what poll `p` is doing for that feed: `init` (first anchor), `fetch`, `probe`
(a long answer: how far behind are we), `push` (chunk by chunk into the queue), `reinit`
(npm anchors itself anew after a failed fetch), `rss` (the fallback), `hung`, `done`.  The
half carries over its awaits what the code keeps in locals: where it started, where its
batch ends, what it has not queued yet.  `current` is `pollInProgress`; a poll the watchdog
gave up on goes on without being it.  `SaveAll` is what follows a poll in the daemon: the
queue's snapshot, npm's cursor file, `STATE_FILE`.

`settled` is the set of changes a worker has taken or a catch-up has passed over.  It also
takes in what the code loses in three windows, each added by the one action in which it
happens: a crash between a restore (which deletes the snapshot) and the next save (`Crash`),
a start from a cursor file that is ahead of the snapshot (`Boot`), a poll that advances
while the shutdown sends alert groups (`Exit`).

### MemoryGovernor, ExtractPool, SandboxSlots, ScanResources

The governor, the pool and the slots are operators on their own state; `ScanResources` calls
them from the stages of a scan: `extract` (a job in the pool), `fetch` (registry metadata),
`wait` (a waiter of the governor), `scan` (holds a ticket, static worker running), `slot`
(awaits a sandbox slot), `first` and `inline` (a sandbox run), `out`.  A static result sends
a first version of a maintainer at risk to the sandbox, which it waits for
(`queue.js:1090`), and a suspect of tier 1b or 2 only if a slot is free (`queue.js:1393`);
every other end of a scan, a deferral included, is `out`.
`Granted`, `Returned`, `CanAdmit` and `Pass` are `_grant`, the counters of a release,
`_canAdmit` and `_drainWaiters`; `TicketRefused` is the `bail` of an aborted or timed out
waiter.  `Dispatch` is `_dispatch`: which threads are busy, how many idle, who still waits.
The outer abort does not interrupt an extraction, so an aborted scan still ends its
extraction first.

### HttpLimiter

`net[c]` says which await the request of scan `c` is in; a client's requests come from the
main thread (slot, then token) or from its worker thread (a token by message).  `bucket` is
the token bucket with its pause, its line of waiters and the grant timer.  Every take of a
token refills the bucket first, as `_refillTokens` does, and `TimerFires` is
`_drainRateWaiters`.  `Threaded` are the clients that may also ask from a worker thread.  The slots
alone, without tokens, pause and network, are a `Semaphore` (`SlotsAreSemaphore`).  `gone` marks the waiter of a worker that left; it stays in the line.

### WorkerPool

Workers are alike, so the pool is a number: `EnsureWorkers` adds to it under the caps of memory
(any headroom), of the IOC database's fallback and of the queue's length, and `Finish` is one turn
of the worker loop, which takes the next item or leaves.  `MayPump` is the check of the
governor's freeze; of the governor only the freeze and the number of tickets matter here.
`strain` is the first of the conditions that `computeTarget` finds, in its order; `ctl` is the
target with the module's memory of earlier samples.  How many scans a sample counts is
an input of `AdjustTarget`, as every branch brings the counters up to date.  The
purge of the queue at EMERGENCY is in `ScanLifecycle`.

### TarballCache and TarballArchive

A publication of the cache is its cache key.  Time is the two retentions of the code: a file
and an entry are of age 0, past 7 days or past 30 days, and `Tick` lets one pass.  `Pumped` is
`_pump` with the probe of `_runTask`: tasks whose tarball is cached end at once, in microtasks
no handler can come between.  A tarball on disk is `whole`, or torn by a death in the copy.
`Purge` is `purgeTarballCache`, which comes first after a start (`booting`).  `Die` is a death
at any moment, also in the copy, between copy and index, or half-way through a purge; the
loaded index is the saved one or, if it cannot be read, empty.

The archive has a directory per day.  `utc` is the day of the workstation, `ahead` says that
Paris is in the next one already.  In a directory, `whole` tarballs have their record; those in
`part` are being written or were when the process died, or have a record that is not theirs, so
that the pull cannot verify them.  `saving` is what each call of `archiveSuspectTarball` keeps over
its awaits: the file it named before the first.  The code looks for the file, not for another
call that is about to write it, so two calls may be on one file; each truncates it when it
opens it and unlinks it when it breaks off, whatever the other did (`Shared`).  A pull is three steps - the copy with its verification, the marks, the removals -
between which the monitor goes on.  `Cleanup` frees what was pulled, and logs as lost what it
has to free without (`Hard` ceiling, full disk).

### ScanLedger

The file is a sequence of records and newlines, so that a torn append glues the next record to
its line.  A compaction reads the snapshot it began with in two passes, each of which ends in an
await (`Count`, `Swap`), and takes the appends in between over in the stretch that
replaces the file.  The copy of the snapshot closes a line that was torn, as `readline` does; if the
record that was glued to it comes with the live tail, it is readable again.

### RiskScore and Scoring

A behaviour is one package's way through `process()`, after the scanners and the dedup.  Each
pass is an action:

| Action | Code |
|---|---|
| `Correlate` | the compounds `process()` adds itself: `detached_credential_exfil`, `lifecycle_file_exec` |
| `Reduce` | `applyFPReductions`: plugin loaders, counts, dilution floor, sink coupling, then per finding bundles, reachability and benign messages, then the lifecycle guard |
| `Decay` | `applyDeltaMultiplier`: what the last versions all had |
| `Boost` | `applyCompoundBoosts` |
| `Calculate` | the corroboration of string matches, the intent pairs, `calculateRiskScore` |
| `Cap`, `Mature`, `Floor`, `Weigh`, `Sandbox` | `applyContextualFPCaps`, `applyMatureStableCap`, `applySingleFireCriticalFloor`, `applyReputationFactor`, `applySandboxVerdict` |

A finding keeps what the code keeps on it: the severity it was reported with (`orig`), the one a
count took (`was`), the compound that scores for it (`by`).  `note` says what a message or
pattern tells the passes: benign, sensitive, dangerous, dead, degraded.  The tables (types,
exemptions, thresholds, compounds, confidences) are constants.  `MCScoring` gives them the
rows of the code for the types that occur, with the code's thresholds, weights and caps.

What the passes read from elsewhere is chosen when it is read: the import graph, the targets
of the install scripts, the registry's word, the history, the verdict of the sandbox.  Of the
contextual features only the lowest cap that applies matters, and it is any number of a
set.  Sums of points are exact, in millionths, and rounded where the code
rounds its floating-point numbers.

Left out: weights from the configuration, the two count rules of `prototype_hook`, the
exception for `.d.ts` files, the boost of a lone suspicious file, and the correlations of
phantom gyp files and native drops.  `EXFIL_SINK_TYPES` stands for the proven sinks and the
hosts alike, as the passes here treat them alike.

## Runs

| Run | Question | Bounds and why they are enough |
|---|---|---|
| `semaphores` | lane: counter, queue and owners agree; FIFO; every wait ends; refinement of `Semaphore`.  Limiter: slots are accounted and refine the same `Semaphore`, a timer is armed for whoever waits, one probe after a pause, everybody waiting is answered | 4 heavy scans and a light one for 2 slots, 1 requeue: two owners and two waiters, each of which may leave while the other is woken, and a scan that passes beside the lane; 4 clients, two of them also with a worker thread, 2 slots, 2 tokens, 2 attempts, 1 request whose worker is gone: a line of two for the slots, a token line and both kinds of waiters at once |
| `scans` | no silent loss, protected last out and first in; selection rules against reference definitions; no version is lost | queue: 3 items (one protected, one known to the IOC index), cap 2, backlog 1 with room for one more line before its compaction is certain: evictions, compactions and drains all happen, also with failing and torn writes; the rules on all sequences up to length 5, every batch size.  Memory pressure is none or an emergency.  Lifecycle: 2 publications of one version (one heavy), 1 loop, 1 crash, 1 retry instead of 2 |
| `progress` | the oldest item is served; the backlog empties in a calm; each publication comes to an end, and no version is lost; the pool goes on serving, and recovers its target | queue: 2 items and 1 worker suffice to keep the newest lane busy for ever, with a level of pressure between none and emergency; lifecycle: 2 light publications, 2 loops, no crash; pool: 2 items, minimum 1, base 2, maximum 3, up by 2 and down by 1, fallback cap 1, 0 or 1 scans per sample (a negative number behaves as 0): a target below, at and above the base, and a plateau of two windows |
| `deferred` | order, dedup set, retries, eviction, restarts, service | 4 keys over both tiers and both sides of the score floor, queue 2, 1 slot |
| `lifecycle_requeue` | (violated) a requeued version is kept | 2 publications, one heavy, 2 loops, no crash |
| `lifecycle_shutdown` | (violated) no version is lost when the shutdown awaits | extraction threads alive |
| `ingestion` | nothing at or below a cursor is forgotten, in memory and on disk; the cursor catches up | both feeds, 2 changes, 2 polls (the scheduler's and an abandoned one), chunks of 1; npm's answers carry 1 change and its catch-up limit is 0, PyPI's carry 2 and its limit is 1, so that every arm of the two catch-up rules is taken; 1 crash, shutdown, hang or abandoned poll |
| `resources` | counters are sums over the holders, no waiter or job is forgotten, sandbox runs stay within the slots, light scans are served.  Alerts: every notification is in one place until settled, suppression only of what was told | one scan of each class, sizes 1, 2, 3, carve-out 1, budgets that fit all but the carve-out, only the heavy alone, or nothing; 1 extraction thread, 1 pending job, 1 requeue, 1 sandbox slot; the light and the heavy scan may wait for it, the medium one takes it if it is free.  Alerts: 2 names (one scoped), 1 rule, 1 follow-up kind, 3 notifications, map of 1 |
| `sandbox_slots` | (violated) a slot that is taken has a run | as above |
| `scoring` | reductions disarm no compound, decoys bury nothing, compounds do not lower, floors hold | every package of one or two of 21 groups of findings (a hook, decoys up to and over each count, a bundle, deep files, string matches, parts of each compound), 4 import graphs, 2 install scopes, 4 registry profiles, 2 histories, 2 intent pairs, 3 caps, every sandbox verdict; at most 12 findings, which passes the thresholds of loaders, data flows, harvests, evals, environment reads and hex patterns |
| `scoring_hash` | (violated) the match of a known payload is worth 75 | as above |
| `stores` | cache: captures stay for their retention, no file stays for ever, one download per version.  Archive: nothing archived is freed without a copy or a logged loss.  Ledger: no recent record is lost | cache: 3 versions (one kept 30 days, two 7), room for 2, 1 download at a time, 2 in flight, 1 death: evictions by size, a line behind the download, lost and stale indices; archive: 1 suspect (suspects share only their directory), 2 downloads (on one file, or one after the other), 3 days in UTC, retention 1, ceiling 2: each day is written, pulled, aged and over the ceiling, in both orders of pull and cleanup; ledger: 8 appends, a cap of 2, a compaction every 2: appends and a second trigger during a compaction, and three compactions after each other |

The retry bound 2 of `computeInterruptDisposition` is the constant `MaxInterrupts`, 1 in
the runs: the third interruption of the code is the second of the model.  `MaxNotes`,
`MaxCrashes`, `MaxFaults`, `MaxGhosts`, `MaxDay`, `MaxSaves`, `MaxAppends`, `Last` and `SpillCeiling` are bounds of the models; every other constant is one of
the code.  `DrainThreshold` is at most `MaxScanQueue` in the passing runs, as it is with
the default values (25 000 and 50 000).  Deadlock is checked in every run.

### Fairness

* heavy lane: a holder releases (the static timer bounds the scan) and microtasks run.
  Nothing is assumed of aborts, timers or newcomers.
* scan queue: a worker that finds an item takes it, a scan ends, a drain tick comes when
  the drain stays allowed.  Ingestion, memory pressure and disk failures are free.
* deferred sandbox: the interval fires and a run ends at its deadline.
* alerts: a group's timer fires and a webhook call ends (its retries are bounded).
* lifecycle: every stage of a scan ends (each has a timer), the steps of a shutdown
  follow each other and the service manager restarts the process.  Dequeue and drain of a
  publication are strongly fair: calm moments come back again and again, and `QueueServed`
  and `BacklogDrains` of `ScanQueue` show that in a lasting calm every item leaves.
* ingestion: a request is answered or times out, the watchdog ends a poll that hangs, the
  poll timer ticks, workers take items, a stopped process is restarted.  Answers are
  strongly fair: a registry that is asked again and again answers sometime.  Deletions of
  cursors by `report --now` and further publications are free.
* resources: an extraction thread answers or is removed at the job timeout, the registry
  fetch, the static scan and a sandbox run have timeouts.  Nothing is assumed of aborts, wait timeouts,
  memory samples or new scans, so a governor may stay frozen for good.
* worker pool: a scan ends at its timeout and returns its ticket, the sample's timer fires, and
  the main loop comes back when no worker is left.  Memory, freeze, fallback, samples and
  new items are free; a heap at HIGH for good keeps the loop from spawning, and is the
  only thing `PoolServes` excludes.
* scoring: none, a behaviour has one end.
* tarballs and ledger: none.  That a purge comes is a timer; what it must leave and take is a property of
  its step (`StaleReclaimed`).
* http limiter: the grant timer fires, a pause and a second pass, a request and a sleep
  end.  Nothing is assumed of new requests.

### Known divergences

Where the code does not do what it says, or does what its reader may not expect.  The first four
are runs.

* A wait timeout requeues a heavy item without removing its key from the dedup set
  (`queue.js:1784`), so its next pass is skipped as already scanned
  (`lifecycle_requeue`).  `NoVersionLost` exempts the versions requeued this way.
* Worker loops go on while the shutdown awaits `destroyExtractPool` (`daemon.js:1080`),
  between the list of what is in flight and the save of the queue
  (`lifecycle_shutdown`).
* A suspect's sandbox run takes a slot (`queue.js:1393`) and runs with `skipSemaphore`, under
  which `runSandbox` does not give it back (`sandbox/index.js:953`); nobody else does.  After
  `SANDBOX_CONCURRENCY_MAX` such runs every later suspect is deferred because "all sandbox
  slots busy" (`queue.js:1400`), and the run of a first version waits in
  `acquireSandboxSlot` until the process ends: its abort is not looked at there
  (`sandbox_slots`).  `SandboxBounded` holds all the same, as a lost slot only lowers the
  bound.
* The match of a known payload (`known_malicious_hash`) is in neither of the two lists that
  exempt types from the bundle and the reachability reduction (`scoring.js:449`,
  `scoring.js:548`), so that a carrier nothing imports, or one below `dist/`, makes it LOW or HIGH; unreached, it
  no longer arms the floor of 75 (`scoring_hash`), although `scoring.js:2312` says it "remains
  CRITICAL".  A carrier that is no script is always unreached, as `scoring.js:571` says of
  another type.  `DecisiveNotBuried` speaks of the types that are in every list.
* A sandbox run of a first version that is aborted, inconclusive or failed counts as CLEAN
  (`queue.js:1113`), in the statistics, the ledger and the training labels, although
  `sandbox/index.js:942` says "INCONCLUSIVE, never CLEAN".
* The statistics of one scan may be counted twice: a static timeout, an out-of-memory or a
  watermark first as inconclusive (`queue.js:1030`), then as suspect (`queue.js:2329`); an
  LLM suppression as benign (`queue.js:1610`), then by the outcome of its sandbox run, or as
  suspect, and with two ledger entries (`queue.js:1532`, `queue.js:1611`).  A clean scan with
  a temporal anomaly takes one from `stats.clean` (`queue.js:2366`) that a tier 3 never
  added, and a size skip adds one that is no clean outcome of the ledger, although
  `state.js:1087` says each one is.
* A sandbox verdict relabels every training record of the package's name, the other versions
  included (`jsonl-writer.js:310`).
* A scan worker that exits with code 0 before its message leaves its promise unsettled
  (`queue.js:748`): only the outer timeout ends that scan.
* A torn append to the backlog swallows the first record of the next one
  (`spill.js:148`), although `spill.js:49` and `spill.js:99` let a torn line cost only
  itself.  `scans` tears appends; the record that disappears gets the fate "glued",
  which `NoSilentLoss` (a part of `ItemsAccounted`) exempts, and no other does.
* With the drain threshold above the queue cap, the drain's enqueues append to the file
  the drain then overwrites (`spill.js:279`): `DrainThreshold = 3` and `MaxScanQueue = 2`
  violate `NoSilentLoss`.  The default values keep the threshold below the cap.
* The dedup set saved every minute holds the keys of scans in flight; after a crash their
  copies are discarded unscanned (`daemon.js:1230`).  `NoVersionLost` exempts the versions
  a crash puts at risk: in memory only, or on disk under a key of the saved dedup set.
* A failed sandbox run re-enters the deferred queue without the cap and the dedup check
  (`deferred-sandbox.js:281`): the queue may exceed its cap by the runs in flight.
* The runs in flight at a shutdown are in no snapshot (`daemon.js:1086`), and a crash
  between a restore and the next save loses the snapshot (`deferred-sandbox.js:521`),
  although `queue.js:1382` calls the queue crash-safe.
* A deferred queue full of T1a items evicts one for a T1a newcomer of a higher score,
  although `queue.js:1380` says never.
* The daily reset drops the buffered groups its comment says it flushes
  (`webhook.js:1598`); at the exit, a group whose timer fired a moment before is
  cut off (`daemon.js:1099`); a failed webhook leaves its rules recorded
  (`webhook.js:788`); two runs of one package may both send their follow-up
  (`deferred-sandbox.js:299`), and a follow-up may replace the entry an alert made during
  its await (`deferred-sandbox.js:316`).
* PyPI's serial file is saved before the queue's snapshot (`ingestion.js:1573`): a crash in
  between, with a `STATE_FILE` that has no cursor, skips the batch.  `STATE_FILE` has none
  after `report --now`, another process, which rewrites it (`webhook.js:1727`).  A shutdown
  saves the queue (`daemon.js:1082`) and the state (`daemon.js:1096`) with awaits in between,
  in which a poll may advance, although `daemon.js:1131` wants queue and cursor saved
  together.  These are the windows `settled` names in `Ingestion`.
* After any failed fetch, a timeout included, npm's poller anchors itself at the present
  (`ingestion.js:973`), and what lay between is not counted as skipped, unlike at the
  catch-up (`ingestion.js:998`).
* The initial poll has no watchdog (`daemon.js:1129`): one that hangs keeps the daemon from
  starting its workers.
* The governor admits everything when the first sample leaves no budget, and never a heavy
  whose ticket is larger than the heavies' share; mediums and heavies may be overtaken for
  ever by smaller ones, and only their wait timeout or abort ends the wait.
* The limiter's grant timer is armed once: a waiter with a deadline that comes while a long
  pause is being waited for is denied when the pause ends, not at its deadline
  (`http-limiter.js:264`).  A grant to a worker that is gone costs a token.
* A package over `MAX_TARBALL_SIZE` is counted as scanned and has no ledger entry
  (`queue.js:777`, `queue.js:834`), although `queue.js:1683` wants no silent caps; the fate
  "ended" of `ScanLifecycle` includes it.
* The recomputation of a package's score after the boost of deep files leaves out the floor of
  75 for co-occurring CRITICAL findings (`scoring.js:1715`).
* Reputation can take a package with a decisive match that is not of confirmed malice from 75
  to 8 (`scoring.js:238`), and a factor below 1 lifts one of confirmed malice from 1 to 20.
* `_hasConfirmedMalice` calls itself the same definition as the monitor's bypass, but has a
  compound more (stealth and obfuscation, `scoring.js:2080`).
* The dilution floor gives back the first finding of a type, not the most severe one; the
  lifecycle guard raises findings that were LOW as reported to MEDIUM.
* A clean sandbox verdict can take a package below the alert threshold again: the floor of
  confirmed malice is not applied after it.
* The server names an archive day by the date in Paris (`tarball-archive.js:94`), the workstation
  decides by the date in UTC which day is still open (`pull-archive.sh:50`).  Between the two
  midnights, an hour or two each night, the open day counts as past: what it holds is verified,
  it is marked and removed, with the tarballs that came after the copy.  `pull-archive.sh:13`
  says "never today's", and lines 18 to 20 free the server only of what was verified.  `hasty`
  names these days; `ArchivedIsKept` exempts them and fails without the exemption.
* The dedup of the archive (`tarball-archive.js:167`, "skip if already archived") sees a file, not a
  download on its way.  A second call for the same file - a killed scan that goes on next to
  its retry, or the same name and version on the other registry - truncates what the first
  archived, and unlinks it when its own download breaks off (`download.js:230`), after the first was
  reported as archived.  `archived` forgets a report when a second download is on its file;
  without that `ArchivedIsKept` fails.
* The key of the cache (`state.js:495`) and the file name in the archive leave out the ecosystem: an
  npm and a PyPI publication of one name and version share a tarball, although
  `tarball-prefetch.js:71` wants the worst case to be a plain download.
* A death while a tarball is copied into the cache leaves a torn file that the scan and the
  prefetch take for cached, until the collection of orphans after 30 days (`ScanHits` does not look at
  `whole`).  A torn download in the archive keeps its whole day from being verified until the ceiling.
* `state.js:1213` says that appends write whole lines and a compaction's snapshot is aligned to
  them; a torn append breaks both, and costs the record after it (`damaged`) but no other.
* The archive downloads from the registry again, although the cache may hold the bytes
  (`queue.js:1300`).
* The plateau of the adaptive target asks for two "consecutive" flat windows
  (`adaptive-concurrency.js:132`), but the branches for heap, memory and timeouts keep the count,
  so that a first window of long ago counts.  The target stays at the
  minimum a strain left while the queue is between the two thresholds (`:166`), although
  `:160` says "normal traffic needs BASE capacity".  `resetDeltas` is called by nobody: the first sample after
  the daily reset of the statistics (`webhook.js:1551`) sees a negative number of scans.

## Proofs

`SemaphoreProofs` proves every safety property of `HeavyLane` for every finite set of
scans, every width and every requeue bound (`HeavyLaneAssumption`), and that the lane
implements `Semaphore`.  Type correctness does not follow by itself: `active` stays
within the width only because it counts owners, so the inductive invariant joins the
types, the accounting (`active` = number of `granted` and `holding` scans), the exactness of the
queue (every waiter once, nobody else), the wakeup condition (a queue only when all slots
are taken), aborted scans not waiting, and the requeue bound.  Each action is a lemma;
the two facts about cardinality they share (a scan enters or leaves the owners) are
lemmas too.  The refinement then maps each action to a step of the semaphore or a
stutter.

Its second half is about `HttpLimiter`, for every number of clients, slots, tokens, attempts and
lost workers (`LimiterAssumption`): the slots are accounted for and a timer will look at whoever
waits for a token (`RegistryKept`), after a pause no step lets two clients send (`OneProbe`, an
action property), and the slots implement `Semaphore` (`SlotsAreFifo`): owners are the clients past
`acquireRegistrySlot` that have not released, and no grant, denial, retry or pause is more than a
stutter of it.  The accounting is not inductive.
A release hands its slot over without counting, so the line for slots must hold just the clients
that wait for one (`LineIsWaiting`).  A grant only moves a client that waits for a token, whether
or not it owns a slot, so every waiter of the bucket must have a client that waits for just that
grant, and no client two, except for the waiters whose worker is gone (`Promised`).  The timer
settles several waiters in one step; that it moves only their clients, and none across the
ownership of a slot, is `LimiterTimer`.

`SelectionProofs` is about the index arithmetic that both queues share.  `MarkedFacts` says
that the two passes of an eviction or a compaction meet their reference definition
(`EvictsLooseThenOldest`) for every array, batch size and kept set; `scans` compares them on
short arrays.  `FilteredIsKeepAt` says that a filter, defined by a loop over the array, keeps the
entries at the indices that pass it, and `KeepAtFirst` that the first indices of a set keep the
opening of what the set keeps.  `FirstOf` and `KeepAt` count how many indices of a set come before one, so the proofs
rest on a lemma about ranks: those of a finite total order are 1, 2, ... without a gap (`Ranks`).
The order of the deferred queue uses it too.

`ScanQueueProofs` proves, for every set of items and workers and every cap, window, batch and
policy, that no item gets lost without an entry (`NothingLostSilently`) and that protected
items are displaced last (`ProtectedLast`), and, without an assumption, that a drain takes the first n
of "all protected entries, then the others", each in file order (`DrainInOrder`), so that every
selection meets its reference (`SelectionsCorrect`).  The invariant is the types and `NoSilentLoss`: each
handler takes an item from one place and puts it into another or into the ledger, and a
lemma per handler says what its selection leaves behind.  The drain enqueues its batch item by
item; `Drains` proves that each turn of the loop adds its item and nothing else, by taking the
first position of the batch at which it would not.  The first two theorems assume
`DrainThreshold <= MaxScanQueue`, as in the default values, so that the loop stays below the cap:
otherwise its own evictions append to the file the drain then overwrites, and TLC finds the
loss (see *Known divergences*).

`DeferredSandboxProofs` proves the safety properties of `DeferredSandbox` for every set of keys,
scores, tiers, capacities and retry bounds: its types, the consistency of order, dedup set and retries
(`DeferredConsistent`), that a saved item is not forgotten (`SavedKept`), and the rule of
eviction (`LowestEvicted`), which is an action property.  The invariant adds that an active slot is a run
(`Slotted`), without which a run's end could take the count below zero.  `SortedFacts` says that the
sort permutes the queue into the order of the ranks, `InsertFacts` that it puts a newcomer between the
others and leaves their order; that the evicted item, the last one, is the lowest follows from the order.

Of the alerts it proves, for every set of names, scopes, rules and follow-ups and every cap of the map
(`AlertsAssumption`), that the notifications are accounted (`NotificationsKept`), and that the outcome of a notification is
final (`SettledOnce`), so that nothing settled is sent again.  The count of places is not inductive by itself:
the invariant says that no notification is in two calls or in a call and a group (`Apart`), that groups
and calls hold open notifications only (`GroupsFilled`, `SendsMade`), and that an open one has a home
(`Homed`).  What a late answer may write follows from `SendsMade`: a call that refers to a live entry is for a name
the map still has, so the answer adds to the entry, and when the map forgot the name the reference
dangles and the answer writes nothing.

`ScanLifecycleProofs` proves the types of `ScanLifecycle` and `NoVersionLost` (together
`VersionsAccounted`) for every set of
publications, keys and worker loops, every retry bound and number of crashes.  `NoVersionLost`
alone is not inductive.  A publication may be dropped as a duplicate because its key is
in the dedup set, so the invariant must say of each key in that set, and of each key a zombie may still write to
it, that a scan has it in hand or that it was scanned, ledgered or exempted
(`RecentOwned`, `ZombiesSafe`); the saved dedup set needs the same for the next process
(`SavedSetGood`), and a shutdown must have put what only memory held into a file before it saves
(`LeftoversSpilled`).  The theorems assume `~ExtractPool`: with extraction threads alive at a
shutdown the property is false, as the run `lifecycle_shutdown` shows.  The last section of the
module is about the pool these loops belong to: the target of `WorkerPool` stays between its minimum and maximum, and the workers within the
maximum, for every bound, step, threshold and cap (`PoolAssumption`); no arm of
`computeTarget` leaves the range, and no spawn passes the target it is given.

`IngestionProofs` proves the types of `Ingestion` and both cursor properties, for every feed
length, answer size, catch-up limit, chunk size, number of polls alive at once and number of
faults (`IngestionAssumption`).  Neither cursor property is inductive.  A poll carries the
rest of its batch across its awaits, so the invariant says of every poll, abandoned ones
included, that everything up to the end of its batch is queued, settled or still in its
hands (`HalvesCovered`): then its `Advance` is safe whenever it comes.  A save replaces the
snapshot the saved cursor relies on, so the invariant says that memory knows all that the
disk knows (`SnapshotFresh`), and that a stopped process holds nothing (`Stopped`).  What
the steps of one poll have in common (they only add to what is accounted for, and restore
the invariant of that poll) is a lemma, and so is each kind of step of the daemon.

`ResourceProofs` proves the types of `ScanResources`, the books of its three resources
(`ResourcesAccounted`) and that nobody waits for the governor without a reason (`GovernorMoves`), for
every set of scans, every weight and size, budget, number of threads and of slots.  The invariant
has a part per resource, which says that its counters and lines agree with the stages of the scans
(`GovOK`, `PoolOK`, `SlotOK`), and what a scan may carry with it (`ScanOK`).  The counters of the
governor are sums of sizes by class, so a grant or a release changes a sum by one size (`SumAdds`),
and the clamps of the release never act.  `_drainWaiters` is a loop over the waiters; `PassedSoFar` is
its loop invariant: after n turns, the counters are the sums over the holders and those woken so far,
and whoever was passed over does not fit, and will not, because counters only grow in a pass.

`OutcomeProofs` proves all invariants of `Scoring`, for every package, every table of types,
exemptions, counts, confidences and compounds, every graph, scope, history, cap and profile.  It
assumes of the tables (`ReportsAssumption`, `TablesAssumption`, `CompoundsAssumption`) what the code's tables
have: a compound has a type of its own, which is no compound's part and no scanner's finding, its
`fileFrom` is one of its parts, benign messages set severities, and no dynamic load has a floor.

What carries the proofs is a relation between two lists, `Follows`: the second has the findings of
the first in their places, of the same type, file, note and reported severity, and an unreducible one
of the same severity; more findings may follow.  It is transitive, each pass is shown to
keep it (one lemma per pass; the two that are loops by induction over their turns, `PathsPass` and
`BoostsPass`), and so the findings always follow the scanners' (`Traced`).  From that:

* `TypeCorrect`: score, level and every finding keep their types; each pass clamps its score.
* `DecisiveKept`: the floors hold where they apply (`NextFloors`: no pass after `Calculate` writes what a
  floor depends on), and by `Traced` a decisive finding of a scanner is still a trigger.
* `NotDiluted`: `FloorSurvives` follows the first of the counted findings of a type through
  the seven passes; `Guarded` holds of what the last of them returns.
* `CompoundsSurvive`: a compound asks for types, files and reported severities, which `Follows` keeps; the
  findings the correlations add (`Later`) and the compounds fired before are none of its
  parts, or leave the exemption of bundles as it was (`DueKept`).  So it is due at its turn (`Due`), and its type is
  among the findings afterwards; what bears that type was added by it (`CompoundOf`, `OneCompound`).

What the sums of a score come to stays opaque: `BoostsNeverLower` is model-checked.

Of the archive it proves the types and `ArchivedIsKept` for every set of suspects, number of
downloads, retention and number of days (`ArchiveAssumption`).  The property is not inductive: a mark and a removal
rely on a verification made steps earlier.  The invariant adds that each day under a mark or in
the hands of the pull is hasty, or is over in Paris and has all its tarballs on the workstation
or logged as lost; a day that is over gets no new download, so no
later copy replaces a whole tarball there by an unfinished one.  It adds that no report stands on
a file a download is on, so that one which breaks off takes nothing with it that was reported.

Of the cache it proves `CaptureKept` and `StaleReclaimed`, and the accounts of the download pool,
for every set of versions, retention, budget, concurrency and number of deaths (`CacheAssumption`).
A purge judges an entry and removes a file, so the invariant relates the two ages (`Aligned`): no entry, in memory or
saved, is younger than its file, and that of a capture which still counts is no older.  The first
makes a purge reclaim what is stale although its entry was written again; the second makes it spare
what is young.  `PumpStops` says that the pump finds a place to stop, `PumpAccounts` that the line
it leaves, the downloads and the keys in flight agree again.

Of the ledger it proves `RecentKept` for every cap, interval and number of appends
(`LedgerAssumption`).  The invariant says that the records rise, that no line is empty, that the
snapshot of a compaction is still the beginning of the file and ends with a line, and that a recent record
has its own line.  `SwapIsRest` says that what a compaction writes is the ledger without its first
lines, whatever was appended since; `DroppedIsOld` that each line that is kept ends in a later record than
any that is gone, so that `MaxLedger` appends were tried after it.

The proofs assume what the modules assume of their constants (the named `ASSUME`s), and
nothing else but what is said above.

Only model-checked: liveness (fairness and ENABLED are beyond the prover) and `BoostsNeverLower`, which
needs the value of folds over sets of findings.

## Not modelled

* The size limits of the queue's snapshot, its expiry after 24 hours, and the FIFO cap of
  the dedup set (`Prune` and `Forget` forget more).
* Failing compaction writes, and failing saves of snapshots.
* The adaptive target outside `WorkerPool`: it is a constant in the drain lanes of `ScanQueue`,
  and spawns are free in `ScanLifecycle`.
* A version resolved only at scan time: an item's key is fixed.
* Of ingestion: the parsing and the filters of the feeds, the pre-alerts, the pre-resolution
  of tarballs, and the delay of the poll back-off (the timer ticks sometime).
* Of the limiter: the arithmetic of the back-off levels (a refill yields any amount up to
  the rate) and the other hosts, which share no state with this one.
* That a scan goes on, on the word of the registry's metadata, when the quick look into an
  archive over the size cap fails.
* Of the sandbox: what a container does, and the checks of Docker before a slot is taken.
* Of the tarballs: failing removals and saves of the index, what the archive's records say,
  colliding cache keys.
* The registry of degradations: a re-entry under the cooldown is silent, is never alarmed later,
  and its recovery is still announced.
* The components the inventory shows without state: planned, or without anything to interleave.
* What a scan finds: the scanners, detection rules, the rest of the pipeline, the IOC database,
  command line and integrations.  They are functions of one package, or plain input and
  output, and they are most of the repository's lines: the modules cover a small share of the
  code by size, and that share is where the concurrency and the interplay of rules is.
* Of the scoring: what is named above, and the texts and tiers made from a score.
