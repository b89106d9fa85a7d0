# Verification of AgentUsage

AgentUsage shows how much of their quotas, tokens and money a developer's coding
agents use. Its core is a daemon that polls provider accounts, collects usage
events from log files, databases and hooks of other tools, keeps them in a SQLite
database, and serves a computed view of it to terminal and web dashboards. This
directory holds TLA+ models of that core and of what surrounds it - hooks, the
socket, the hub, the dashboard's message handling and the configuration file -,
TLC configurations that check them on small instances, and proofs for every
instance of the properties that matter most. `PROJECT.json` maps every definition
to the lines it translates.

Run `tlc -config MCWritePath.cfg MCWritePath` (and so on, see *Runs*) and
`tlapm TelemetryStoreProofs.tla` (and the other `*Proofs` modules) in this
directory.

## Inventory

| component | state | operations | what is hard |
|---|---|---|---|
| telemetry store (`internal/telemetry/store.go`, `dedup.go`) | `usage_raw_events`, `usage_events` | `Ingest` with merge and repair, three prunes | the same event over several channels in any order; prunes of two loops around ingests |
| opening the store (`store.go`, `sqlite.go`, `daemon/server.go`) | the file at the path, snapshots of corrupt ones, `_migrations` | `OpenStore`, `recoverCorrupt`, `pruneCorruptBackups`, `RunMigrations` | daemons and hook commands open without a lock; a check and a rename apart; repairs and their record apart |
| rollup and retention (`rollup.go`, `daemon/server_collect.go`) | `usage_rollup_daily`, the watermark | `RollupDaily`, `PruneOldEvents`, the retention loop | midnight between two transactions; re-imported history; passes cut short |
| spool and pipeline (`spool.go`, `pipeline.go`, `daemon/server_spool.go`) | a directory of files | `Append`, `ReadOldest`, `Ack`, `MarkFailed`, `Cleanup`, `FlushInBatches` | three kinds of flushers, of which one takes the lock; one temporary name; crashes |
| hooks (`daemon/hook_ingest*.go`, `server_http.go`, `server_spool.go`, `integrations/assets`) | the hook spool's files and temporary files, requests in the socket | three kinds of senders; `handleHook`, `processHookSpool`, `cleanupHookSpool` | half-written files; fallbacks after a failure; a crash between ingest and removal |
| read-model cache (`daemon/server_read_model.go`, `types.go`) | cached views, refreshes in flight, the flag of new data | cache loop, poll publication, `handleReadModel` | slow computations outside locks; stale results; missed refreshes |
| usage view and its cache (`usage_view*.go`) | aggregates by key, fingerprints | probe, hit, materialise, store, evict | rows that come and go while an aggregate is computed; rowids used again |
| balance observations (`balance_observations.go`, `balance_spend.go`) | one series of readings a metric | record, thin, windowed spend | top-ups, counters that reset, thinned anchors |
| poll scheduler (`daemon/poll_scheduler.go`, `server_poll.go`) | generations, backoff, rate limits, last snapshots | poll loop, kicks, `handlePoll`, `pollSingleAccount` | coalescing; callers that wait; backoff against rate limits against force; failing fetches |
| daemon and clients (`server.go`, `process.go`, `client.go`, `service_linux.go`) | the socket path, processes, the service unit | start, stop, `EnsureRunning`, systemd's restart, an upgrade | every test and unlink goes by name; two starts at once |
| hub and exporter (`internal/hub`, `internal/exporter`) | the last push of each machine | push, refuse, prune on read | late pushes, lost pushes, restarts |
| frames to the dashboard (`daemon/runtime.go`, `cmd/agentusage/dashboard.go`, `tui/model_input.go`) | client, last good frame, message numbers | broadcaster, refreshes, timers, windows | goroutines that overtake each other; skipped equal frames |
| moving about the dashboard (`tui/model_input.go`, `model_commands.go`, `model.go`) | ids of the tiles, cursor, filter, screens | keys, mouse, frames, settings | the ids change under the cursor |
| entering credentials (`tui/settings_modal*.go`, `add_account_modal.go`, `config/credentials.go`) | editor, pickers, commands under way, stored keys | edit, validate, save, delete | answers to a question that is no longer asked |
| settings file (`config/config.go`) | `settings.json`, the configs in memory | saves of dashboard, web server and daemon | read-modify-write by three processes |
| collectors, providers, pricing, detection, integrations' installers, rendering, web pages, status lines, reports | none of their own that matters | parsing, rendering | nothing for a model |

How they interact: collectors, hooks and pollers hand requests to `Ingest`; what
fails goes to the spool and comes back by a flush; a commit is followed by
`markDataIngested`, which lets the cache loop and readers recompute views; the
poll cycle ingests snapshots as quota events and publishes a view itself; the
retention loop rolls up and prunes the same tables. Locks: `spoolMu` (collect
cycle and cleanup only), the cache's mutex, the scheduler's mutex, `pollMu`.

What makes each one correct is stated as the properties below; every hazard found
in the code is listed with its line under `hazards` in `PROJECT.json`, the ones
no property covers with the reason.

## Modules

**EventMerge** (constant operators). `Enrich` is `enrichEventByDedupKey`: one
field-wise merge for all columns that the code treats alike (`chooseField` stands
for `chooseString`, `chooseInt64` and `chooseFloat64`), with the special rules of
tool name and status. Note that the override compares the request's channel with
the channel of the raw event *the row was created from*.

**TelemetryStore**. Each action is one SQLite transaction: `Ingest` (insert, or
merge and repair), `RollupDaily`, one batch of `PruneOldEvents`, the orphan prune,
the payload prune; and `Tick` and `AbandonPass`, by which a retention pass ends
early for whatever reason. A failed transaction is rolled back and is no step, a
crash between transactions is `AbandonPass` or nothing. `passDay` is control state
of the retention loop: the day on which the pass under way rolled up. Dates are
compared as the code compares them, that is, as text: the hot window's cutoff
falls on whole days (a `T` sorts after a blank), and the payload cutoff, an hour
ago, keeps the payloads of the whole date it falls on. A day has `HoursPerDay`
hours, since the hour decides which date that is. `LogicalOf` gives the logical event of a dedup key, which
the ranking partitions by; ties are broken by event ids, drawn anew on every
insertion, as in `dedupedUsageCTEWhere`. `offered` is a history variable. The
rollup is the set of rows its sums add up, so that "counted once" can be said;
`Quality`, which the code sums column by column, is the cardinality of a set with
as many elements as each filled column weighs, and event ids are ranked without
ties, as they are different texts.

**StoreOpening**. A file is an inode, which whoever has it open keeps when the
path names another; connecting, the quick check, the rename, the removal of the
log and the second connecting are steps, as are each repair, its check and its
record. A process opens, now as a daemon, now as a hook command, and may die or
fail anywhere. What SQLite makes of a log removed under it is any loss of that
file's rows. `lost` is a history variable: a file that another opening took for
the one it had judged. The repairs act on what they look at: source, provider,
account, and whether a row's time was unknown. An open process ingests: `Incoming`
may be any rows, clean or not, for accounts come from configuration or hooks,
spooled requests may be an older version's, and a row may be dated when it came;
`AddRow` inserts one and `MergeRow` merges its columns into a row of the same
source. `ran` and `late` are history too: a row is late if it was written after
the first repair ran in its file.

**SpoolPipeline** and **Delivery**. Files are names with an inode; `Append` uses a
fresh name and is one step, but `MarkFailed` is four (open and truncate the shared
`<name>.tmp`, write, rename, deferred remove), and an inode knows who has it open,
since a write goes to the inode even after another flusher renamed it. Actors are
the collect cycle (under `spoolMu`), the maintenance loop (without) and hook
processes. `Kill` is the death of the daemon or of a hook process at any step. A
blank file is one that was truncated and not yet written: unreadable. `Bytes` is
the cardinality of a set with `Size[e]` elements an event. `Delivery`
is the abstract promise - owed until delivered or given up - and `DeliverySpec`
the refinement, with `owed` mapped to the events of recoverable files.

**ReadModelCache**. The database is the number of committed ingests and a view the
number it was computed from. Time stamps are compared only with each other, so
an entry carries one bit, "a mark came after this entry was stored", and entries
stand in order of `updatedAt`. Every computation is split into start, database
read, store and (for background refreshes) end, the points at which others run.

**PollScheduler**. Time is in units of which the poll interval is `Base`; an
account has the age of its last poll and the rest of its rate limit. A cycle
fetches its accounts concurrently; a caller leads it or follows it. Answers of
providers, `HasChanged` and the hash of metrics are nondeterministic.

**HookDelivery**. A sender is identified with its one event. The three kinds take
the steps of the installed scripts (`claude-hook.sh.tpl` and `codex-notify.sh.tpl`
open and write a file; the OpenCode plugin posts without reading the answer and
spools by temporary file and rename; `agentusage daemon hook` reads the answer and
falls back). `processHookSpool` is listing, ingest and removal of one file after
the other, so that a crash or a sender can come between; the clean-up sweeps old
and surplus files. `fate` is a history variable: why an event was given up.

**DaemonSocket**. The system calls of a start (stat, dial, unlink, bind) and of a
shutdown (close, which unlinks, and remove) are steps; the path names a daemon, a
stale file, another file or nothing. A daemon is a process that lives once.
systemd's `Restart=always` starts a dead managed daemon again.

**UsageView**. Which rows an account is shown (`applyCanonicalUsageViewWithDB`,
its fallback and the guard of it) and the cache of aggregates, whose entries are
trusted while the largest rowid and the count are unchanged. A reader probes,
materialises and stores in separate steps.

**BalanceSpend**. Minutes as numbers; the account at the provider is the
environment, `total` what was really spent. `windowedSpendBalance` walks from one
reading to the next; here `RunningSum` adds up, minute by minute, the drop to each
reading from the one before it.

**HubExporter**. A push is in flight until it is handled, also after its sender's
time-out; the hub forgets with a restart and drops stale machines when read.

**Navigation**. One step is one message of Bubble Tea's `Update`. The cursor is
the code's index from 0, and negative where the code's is. `snapshots` has, of each
account with a snapshot, the filter texts that find its provider or its status;
`Named` has the accounts whose id a text finds. `Passes` is the test of
`filteredIDs`, so a frame changes the filtered tiles by a status alone.

**KeyEntry**. Commands run beside the user interface and answer with a message.
`validated` and `excused` are history variables.

**Settings**. A save is queued, takes its process's mutex, reads, and writes by a
rename; processes do not exclude each other. `Put` overrides a map at one key, or
adds the key.

**FrameFlow**. Data is a version number; the broadcaster and each refresh have the
steps start, read, number, deliver. It composes what `ViewRuntime`, the
dispatcher and `Update` keep, with the daemon's cache as "what is served".

**Composition.** Components that share state are in one module: flushers and the
spool, the retention loop and the tables, the cache and the loops that fill it,
the runtime, the dispatcher and the dashboard. `MCWritePath`,
`MCUpkeep`, `MCService` and `MCDashboard` put modules that share *no* variable under one run: a behaviour
chooses a `part` (or `path`) at first and only that part moves. They extend the modules of their parts; in a module that shares
a run so, names that others have too are told apart by the component
(`SocketInit`, `HubNext`, `NavSpec`). That is the sum of their state spaces, not the product, and shows nothing about interactions; the
liveness properties and the fairness are those of the chosen part.

**`*Proofs`**: see *Proofs*.

The definitions marked *mutant* are used by nothing: each changes one definition
of the model as a plausible bug would, and substituting it makes a property fail.

## Runs

| run | checks | bounds |
|---|---|---|
| MCWritePath, merge | `TypeOK`, `EventsHaveTheirRaw`, `OutrankingChannelWins`, `UsablePayloadSurvives` | 2 keys, 6 requests over 4 channels, 2 ids, 3 days of 2 hours (`MCStoreMerge`) |
| MCWritePath, spool | `NothingLost`, `DeliverySpec` | 2 files, collect cycle, maintenance loop and 1 hook process, no crash |
| MCWritePath, opening | `RecordedMeansRepaired`, `HealthyFilesStay` | 2 processes, 2 files, 1 damage, 2 rows of an earlier version and 1 new one, which two repairs match, added or merged |
| MCUpkeep, retention | `PrunedDaysAreSettled`, `AggregateKept`, `SettledDaysAreFinal`, and `BacklogIsPruned` (`ExpiredDetailIsPruned`) under fairness | 3 keys of 2 logical events on 2 days, 4 requests, 3 ids, batches of 1 row, a hot window of 2 days, 4 days |
| MCUpkeep, spool | `LossIsBounded`, `CleanupKeepsTheNewest`, and `BacklogIsDelivered` (`EventuallyDelivered`) under fairness | 2 files, one always refused, 1 crash, 1 tick, limits by age, count and bytes |
| MCReadModel | `TypeOK`, `RefreshesKeepOrder`, `ViewsCatchUp` under `FairSpec` | 2 keys, 1 client, 1 ingest by a collector or a hook, 1 failing computation |
| MCPoll | `TypeOK`, `RateLimitsHold`, `WaitersReturn`, `AccountsKeepBeingPolled` under `FairSpec` | 1 HTTP and 1 local account, 1 waiting client, rate limits of 3 intervals |
| MCService, hook | `LossIsExplained`, `HookFilesAreConsumed` | 1 sender of each kind, 2 names, batches and clean-up of 1 file, 1 crash |
| MCService, socket | `OneDaemonUnlessUnlinked`, `SocketHeals` | 2 daemon processes, 1 client, 2 versions |
| MCService, view | `SiblingsDoNotShare`, `CacheIsBounded`, `HitsSeeInsertsAndPrunes` | 2 accounts of a provider, 2 rows of 3 ever, 2 days, 1 reader, a cache of 1 entry |
| MCService, balance | `SpendNeverOverstates`, `AnchorsSurviveThinning` | 3 readings and 3 movements in 12 minutes of 2-minute hours and 4-minute days |
| MCService, hub | `OnlyLatePushesGoBack`, `HubCatchesUp` | 2 machines, 2 versions, 1 time-out, 1 fault |
| MCDashboard, tiles | `CursorWithinTiles`, `FramesKeepSelection` | 3 accounts, of which 1 known; 1 filter text, which finds one account by its id and another while its status or provider fits; 2 layouts with pages of 2, help only over the first tile of the whole list (`MCHelp`) |
| MCDashboard, keys | `SavedKeysAreExplained`, `WaitingEnds` | 1 account with a key, 1 with a browser session, 2 keys, 1 command at once |
| MCDashboard, settings | `SavesKeepOthers` | 3 processes, 1 account, 2 themes, 2 saves |
| MCDashboard, frames | `AwaitedIsUnderWay`, `FramesCatchUp` | 2 windows, 2 versions (of which 2 look alike), 1 act of the user or the daemon |

Six runs show a disagreement between the code and what a comment, document or
test says of it; each is a finding with the quoted line:

| run | violates | in short |
|---|---|---|
| MCStoreHookPrecedence | `HookPrecedence` | a log file's value in a row a hook created stays, though a hook reports another |
| MCStoreLateArrival | `DetailOutlivesNoAggregate` | an event for a day before the watermark is pruned without an aggregate |
| MCStorePayloads | `PayloadsGoAfterAnHour` | a payload two hours old outlives the prune that keeps "1 hour", since texts of two formats are compared |
| MCReadModelStale | `ReadersCanTellStale` | data marked while a view is computed is older than the view's stamp |
| MCPollLastUsage | `LastUsageIsKept` | the second failing fetch in a row shows no usage at all |
| MCNavPanic | `CursorNotNegative` | a page key while no tile is shown sets the cursor to -1, and it stays there |

### Why the bounds are enough

The merge depends on the order of at most three observations of a row (the one
that created it, one that fills a hole, one that overrides), and the run has four
over three channels, each repeatable. With two hours a day a payload's row of the
last hour of a day meets the prune of the first hour of the next, when it must
stay; `MCStorePayloads` has days of 24 hours. Retention needs a day to be counted, left
behind by the watermark, pruned, re-imported and pruned again: four days with a
window of two reach that, and a pass may straddle one midnight. Two rows of the
first day expire at once and a batch takes one, so that the other waits for the
pass to be begun again, beside re-imports. Two openings and
one damage are a rotation that meets another, and two daemons that repair one
file; of the two old rows one needs two repairs in their order, the other is
changed and removed; the new row is one that the first two repairs match, so that
a recorded repair would have work if the property spoke of late rows. Two flushers
suffice for every race on a shared temporary name; the third makes the lock
matter. A hook spool that admits one file makes every second file a case for the
clean-up and for a later batch. Two daemons are one start against one shutdown or
two starts. One cache entry makes every second key an eviction. Three accounts are what it
takes for a frame to list one before the cursor that the order does not know yet:
with two, `FramesKeepSelection` was checked without the case that makes it
conditional (see *What else*). Three readings
are an anchor, one to be thinned and the latest; three movements are a counter
that is spent, reset and spent again. Two pushes of one machine can
overtake each other once the first has timed out; the second machine shows that
they do not touch. One command at a time still meets an editor that was closed,
reopened or changed. `MaxAppends`, `MaxNow`, `MaxCrashes`, `MaxData`,
`MaxFailures`, `MaxDamages`, `MaxInodes`, `MaxUnchanged`, `MaxAsked`, `MaxRows`, `MaxSerial`, `MaxObserved`,
`MaxMoves`, `MaxTimeouts`, `MaxFaults`, `MaxRunning`, `MaxSaves`, `MaxInFlight`,
`MaxActs` and `MCHelp` bound histories and are named in the modules. For the properties
listed under *Proofs* the proofs lift the bounds of the instance.

What the bounds leave out: `MaxEntries` of the read-model cache is not exceeded in
a run (the proofs of `CacheTyped` and `RefreshOrder` cover eviction); `Oversized`
is empty (such a record is spooled and unreadable, and the code promises nothing
about it); `MaxAsked` is 1, and without any bound on manual polls
`AccountsKeepBeingPolled` would be false: a cycle of one account swallows the
loop's tick; `ExpiredDetailIsPruned` supposes `ImportsFitBatches`, that from some
time on a re-import never leaves more expired rows than a batch (5000 in the code).
The run needs that: its two expired rows and batches of one, without the
supposition, show the starvation, in which the older row is imported again and
again and each batch, and with it each pass, ends at it. Nothing in the code
prevents that. `AggregateKept` needs a hot
window longer than a retention pass lasts in days: with `retention_days = 1` and
midnight between rollup and prune, the boundary day is deleted and the next rollup
recomputes it without its rows. Runs of one part with `CHECK_DEADLOCK FALSE` stop
where histories are used up (no more hooks to fire, saves to start).

### Fairness

Each conjunct stands for a loop or goroutine of the code. *TelemetryStore*: the
retention loop's timer is always reset, so passes begin again and again. That a
rollup ends within its two minutes (weak fairness of `RollupDaily`) and that not
every pass runs out of its budget before the `DELETE` (strong fairness of
`PruneOldEvents`) is assumed, and not guaranteed by the code: the prunes' 30
seconds start before a rollup that may take longer (`server_collect.go:217`).
`BacklogIsPruned` says what happens when it does not. *SpoolPipeline*: the maintenance ticker;
a started flush goes on; and the database accepts an acceptable event if it is
offered again and again (strong fairness of `IngestOK`). A killed daemon is
restarted by its service. *ReadModelCache*: goroutines and handlers run on, since
every computation has a timeout; the poll cycle comes round; clients keep asking
for the keys that only they refresh, as dashboards poll every five seconds
(strong fairness of a request for such a key). *PollScheduler*: time passes,
fetches end (eight second deadline), generations end, the loop takes a waiting
signal. *HookDelivery*: the hook spool loop's ticker, and systemd's restart.
*DaemonSocket*: a start or shutdown goes on, systemd starts what it owes, and a
client's `EnsureRunning`, whose steps have timeouts, goes on. *HubExporter*: the
exporter's ticker; a handler that holds a push ends; the hub is read (a dashboard
polls it); time passes. *KeyEntry*: a command ends, as its request has a timeout
(weakly fair by kind). *FrameFlow*: the broadcaster's ticker, a refresh's
goroutine, the auto-refresh timer, the throttle's 1.2 seconds and the daemon's
cache loop. *StoreOpening*, *UsageView*, *BalanceSpend*, *Navigation* and *Settings* have only
safety properties. Nothing is assumed of ingests, kicks, failures, crashes, users,
upgrades or the file watcher.

## Proofs

Every invariant and every action property that a passing run checks is stated by a
theorem, for every value of the constants under the modules' named assumptions and
those in the last column, and so is the refinement of `Delivery`.

**TelemetryStoreProofs**

| theorem | property | invariant and argument | assumes |
|---|---|---|---|
| `Typing` | `TypeOK` | inductive as it stands; `EnrichType` and `RepairedType` for the merge | |
| `EventsKeepTheirRaw` | `EventsHaveTheirRaw` | `TablesInv`: keys, raw ids of events and ids of raw rows are unique and every event has a row. The cardinality is 1 because ids of raw rows are unique, which the property does not say | |
| `MergeIsSound` | `OutrankingChannelWins` | `MergeInv`: every column obeys `ColumnOwed`, stated for the channel of the row's raw event; `MergeKeepsDebt` is the case analysis of one merge, `OtherKeys` frames the other events. Needs `TablesInv`, for the channel must not change | |
| `PruningIsSafe` | `PrunedDaysAreSettled` | `PassInv`: while a pass is under way, `watermark = passDay - 1` and at most `MaxPassDays` midnights have passed | `RetentionDays > MaxPassDays`, without which it is false |
| `SettledAggregatesStand` | `SettledDaysAreFinal` | only the rollup writes, and what it inserts comes from rows of days not before the watermark | |
| `AggregatesAreKept` | `AggregateKept` | `RollupInv`: there are finitely many events, and behind each contribution from the watermark on stands an event of its logical event, which the next rollup will find. That the rollup then counts one of them is `DedupKeepsOne`: the ranking is a strict total order, and a finite set has a first in one (`FirstExists`) | `RetentionDays > MaxPassDays`; `RanksDiffer`, no two event ids are alike |
| `UsablePayloadsStand` | `UsablePayloadSurvives` | by action, with `TablesInv` for "the row with that id"; `ExpiredIsOlder`: a row that the prune of payloads takes is of a date before the one of an hour ago, so more than an hour old, for any number of hours a day | |

**StoreOpeningProofs**, **SpoolPipelineProofs**, **HookDeliveryProofs**

| theorem | property | invariant and argument | assumes |
|---|---|---|---|
| `RepairsStand` | `RecordedMeansRepaired` | `OpeningInv`: a recorded repair has nothing to do in the file's early rows and all repairs before it are recorded too; who repairs has found the earlier ones recorded, who records has left nothing. What one repair leaves clean no later repair dirties (`RepairKeepsLate`, `EarlyIsEarlyRows`). Ingested and merged rows are arbitrary: once a repair ran they are late, and before that nothing is recorded | |
| `HealthyStay` | `HealthyFilesStay` | the same: who is about to rename judged a file that is damaged, and a file does not heal | |
| `LossBounded` | `LossIsBounded` | an event that is neither stored nor given up is in a file, and a file is unreadable only while *hollow*: truncated, and nobody has it open. Only a kill makes hollow files, one a flusher, since a flusher has one file open at most (`OneFileOpen`); a rename moves one and makes no second (`RenameHollow`). So there are never more than kills (`HollowPaidFor`) | |
| `NothingIsLost` | `NothingLost` | the same invariant with no hollow file | `MaxCrashes = 0`: with crashes it is false |
| `SpoolDelivers` | `DeliverySpec` | every system call is a step of `Delivery` or none; while nothing is hollow, what is owed is the events of the files | `MaxCrashes = 0` |
| `CleanupIsFair` | `CleanupKeepsTheNewest` | a file goes when it and the newer ones exceed a limit; fewer files are fewer and have fewer bytes (`FewerFit`), so what goes is older than what stays, and what stays fits | |
| `HookLossesExplained` | `LossIsExplained` | `HookInv`: a sender that is done is stored, on its way, in a file, or has an excuse of its kind; names in the daemon's hands are of files it alone may remove | the kinds of senders are disjoint |

**PollSchedulerProofs**, **ReadModelCacheProofs**

| theorem | property | invariant and argument | assumes |
|---|---|---|---|
| `PollTyped` | `TypeOK` | `PollInv`: one caller leads at most, and accounts have work only while one does, so that a cycle cannot end twice or count an age past its bound. The interval an account is due after, a recursive function, is shown to exist and to be a number within the limits | |
| `LimitsHold` | `RateLimitsHold` | `LimitsAreLearned`: the gate alone does not make it hold, since an account without a snapshot is fetched whatever the limit; but an account learns of a limit together with its first snapshot, and never loses the snapshot | |
| `CacheTyped` | `TypeOK` | `Inv`: one entry a key, at most `MaxEntries`, the keys in flight are those of the refreshes under way, one of each | |
| `RefreshOrder` | `RefreshesKeepOrder` | `Ordered`: what a refresh stored is from the past of the database, and what the key's refresh under way is about to store is no older | |

**ServiceProofs**

| theorem | property | invariant and argument | assumes |
|---|---|---|---|
| `OneDaemonServes` | `OneDaemonUnlessUnlinked` | `SocketInv`: until an unlink hits an open listener, the path names every open listener, so there is one at most | `NoFile` is no daemon |
| `LatePushesOnly` | `OnlyLatePushesGoBack` | `HubInv`: the one push a machine waits for is its newest, and nothing the hub has of it is newer | |
| `HitsAreFresh` | `HitsSeeInsertsAndPrunes` | `ViewInv`: a fingerprint, in the cache or in a reader's hands, was taken of some set of rows; rows that came since have a larger rowid, so the same largest rowid and count mean the same rows (`Trusted`), and what was computed from them is what a load would give | |
| `CacheKeepsLimit` | `CacheIsBounded` | `Queued`: the entries are those of the eviction queue, each once | |
| `SiblingsApart` | `SiblingsDoNotShare` | the case analysis of the scopes and the fallback, for any links | |
| `SpendIsNotOverstated` | `SpendNeverOverstates` | `BalanceInv`: readings of increasing minutes have increasing rows; a balance is what was deposited and not spent; between two readings a counter rises by no more than was spent (`Flow`). The walk over the readings telescopes, by induction over the minutes of the window | |
| `ThinningKeepsWindows` | `AnchorsSurviveThinning` | thinning keeps the first reading of every hour, or day, of those old enough, so the last before a window's start goes only for an earlier one of the same bucket (`EarliestIsFirst`: the earliest has the lowest row; `HoursMakeDays`: the same hour is the same day) | |

**DashboardProofs**

| theorem | property | invariant and argument | assumes |
|---|---|---|---|
| `SavedKeysExplained` | `SavedKeysAreExplained` | `EntryInv`: a validation whose editor has not changed is of what the editor holds, or the editor was emptied meanwhile, and an empty key is not saved; a save of an unchanged editor is of an accepted key | |
| `SpinnerIsAnswered` | `AwaitedIsUnderWay` | `FrameInv`: inductive together with the types; a frame that is late or equal must not be the one the spinner waits for | |
| `CursorStaysWithin` | `CursorWithinTiles` | `NavInv`, with the lengths of filtered and concatenated lists | |
| `SelectionStays` | `FramesKeepSelection` | `NavInv`: as long as every tile has a place in the order, the tiles stand in that order (`TilesInOrder`), so a frame that adds only behind them moves none; the accounts up to the selected one pass the filter as before, so the filtered list is the same up to it (`FilterKeepsStart`) | |
| `SavesLeaveTheRest` | `SavesKeepOthers` | `SaveInv`: a process holds its mutex once; a save that holds it undisturbed has the file's content with its own change; a repair of the file's tail holds what the file holds | |

TLC checks the same properties on the instances above; the invariants in the
third column were found by trying the properties alone and seeing which facts of
the pre-state the steps needed. Each proof that a step keeps an invariant has one
step, or lemma, per action. The last step of each theorem is propositional
temporal logic.

Sums and recursion. The library's induction theorems cannot be used, so an
induction here takes the least number for which the claim fails (`LeastNumber`,
from the well-foundedness of `<` on the naturals) and shows that it cannot be one.
That is how the recursive functions `httpPollInterval` and `RunningSum` are shown
to exist and to be unique, how a finite set is shown to have a largest number and
a first element, and how the balance walk telescopes. Where the code adds a weight
per element of a set (quality of an event, bytes of files) the model takes the
cardinality of a set, about which the library has theorems.

Only model-checked: the liveness properties `BacklogIsDelivered`,
`BacklogIsPruned`, `ViewsCatchUp`, `WaitersReturn`,
`AccountsKeepBeingPolled`, `HookFilesAreConsumed`, `SocketHeals`, `HubCatchesUp`,
`WaitingEnds` and `FramesCatchUp`, since the prover reasons about neither fairness
nor `ENABLED`; and the six properties that are violated.

## What else the modelling showed

Facts that no run states, because no line of the repository promises otherwise or
because a property names them as the exception:

- A daemon killed between truncating a spool file's shared `.tmp` and writing it,
  while another flusher renames it, leaves an unreadable file. `LossIsBounded`
  says what it costs; `docs/user-flow-diagram.md:1222` says "no usage data is ever
  lost".
- Two openings that both find the database corrupt rename twice: the second moves
  the healthy file the first has made, with what was written to it meanwhile, among
  the snapshots, which are deleted as "corrupt by definition and never read again"
  (`telemetry/store.go:101`). `HealthyFilesStay` names the exception.
- Of two daemons that start at once the second's record of a repair fails on the
  primary key, and it serves with the other repairs undone if the first dies
  (`telemetry/store.go:406`); the next start does them.
- A row that is ingested after a repair was recorded and that it would have
  changed stays as it is: a spooled request of an older version, an account named
  `codex`, a hook's time of now. A second daemon that still runs an earlier repair
  may even change such a row into one that a recorded repair was made for.
  `RecordedMeansRepaired` speaks of the rows from before the first repair.
- A duplicate that repairs the payload of an old quota row leaves its time of
  ingestion, so the next prune may blank the payload at once
  (`telemetry/store.go:682`); `UsablePayloadSurvives` counts from that time.
- A running daemon keeps writing to a file that a hook command has renamed.
- Hook events whose ingest fails are answered 200 and not spooled; a shell hook's
  file read half-written is removed. `LossIsExplained` names both.
- A key typed in the add-account modal before switching to an environment
  variable is saved without validation, as is one whose editor changed while the
  old one was validated: the `excused` of `SavedKeysAreExplained`
  (`tui/add_account_modal.go`, `tui/model_input.go`).
- The browsers of the add-account modal's picker go to the settings' picker
  (`tui/model_input.go:143`), so `WaitingEnds` speaks of the latter only.
- A frame can move the selection to another account: one that came while a refresh
  was pending brought a tile without a place in the order, which is shown behind
  the others; the next frame gives it its place, behind other new accounts of
  smaller names (`tui/model.go:1099`). `FramesKeepSelection` excludes such tiles;
  proving it without the exclusion failed, and three accounts show why.
- With a filter set, a frame that changes only the status or the provider of an
  account above the cursor may take it into the tiles or out of them, and the
  cursor, an index, is then on another account (`tui/model.go:1121`).
  `FramesKeepSelection` is about frames that leave the accounts up to the selected
  one in or out of the filter as they were.
- A saved key leaves the spinner on with no request behind it, which also stops the
  refresh timer (`tui/model_input.go:472`); `FramesCatchUp` excludes it.
- The web server saves what it worked out from the configuration it started with,
  and a save of the dashboard's preferences drops `hide_costs` of entries
  (`tui/model.go:1027`): `SavesKeepOthers` says which fields are kept.
- Saving a credential on an unreadable file starts from an empty one
  (`config/credentials.go:128`). The model has readable files only.

## Not modelled, and why

Providers, pricing, detection, integrations' installers, rendering, web pages,
reports and packaging are parsers, tables and output without a protocol: their
state is their input, and what a model could say of them is what their tables
say. They are the larger part of the source by lines, which is why the share of
lines the map covers is small. SQLite is taken at its word: transactions are
atomic and durable. What identifies an event (`BuildDedupKey`, the `CASE` of the
logical event id) is abstracted to constants; a merge that changes the columns a
logical event id is made of is not modelled. Clocks go forward. Disk errors of the
spool other than a failing append are left out, and so are VACUUM,
the log throttle and the collect loop's back-off. The data race on the map of
snapshots that the exporter and the dashboard share (`cmd/agentusage/dashboard.go:134`)
is one of memory: the models treat a frame as a value. Settings tabs for widgets,
themes and integrations, the experimental analytics screen, launchd and Windows
services are left out. See the components' notes.

## Plan

Done: EventMerge and TelemetryStore; Delivery and SpoolPipeline; ReadModelCache;
PollScheduler; HookDelivery, DaemonSocket, UsageView, BalanceSpend, HubExporter,
Navigation, KeyEntry, Settings, FrameFlow and StoreOpening; a theorem for every
invariant and action property of the passing runs, and the refinement of Delivery.

Left, in this order:

1. What a theorem could say beyond the runs' properties: the types of
   SpoolPipeline, HookDelivery and StoreOpening as theorems of their own (they are
   conjuncts of the proofs' invariants); the refinement of other components.
2. FrameFlow against ReadModelCache itself instead of "what is served".
3. The collect loop's back-off and the log throttle, which gates the orphan prune.
4. Larger instances: two commands at once in KeyEntry, two clients in DaemonSocket.
