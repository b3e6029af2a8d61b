# RAOfflineProxy: verification project

RAOfflineProxy sits between an emulator and RetroAchievements. It caches what
the emulator needs, answers for the server while the device is offline, and
keeps the achievements earned meanwhile until they can be sent. There are two
implementations: Python for Linux handhelds and Windows
(`linux/raofflineproxy/`), and an Android app in Kotlin (`app/`). These modules
model the Python one by its components, and of the Kotlin one the queue of
offline awards, which is a design of its own.

## Inventory

| Component | State it keeps | Operations | Hard behaviours | What makes it correct |
|---|---|---|---|---|
| Award queue (`proxy_service.py`, `flusher.py`, `storage.py`, `pending_awards.py`) | table `pending_awards`, two locks | queue, flush (verify, repair, send, record, purge), delete, clear | three writers in two processes, each with stale copies; a hash chain over a clock that jumps; crash anywhere; lost answers | an acknowledged award is kept or settled; flushed means accepted; a broken chain heals |
| Connectivity monitor, service start (`proxy_service.py`, `network.py`, `rate_limit.py`) | last poll, reachability, throttle, pause | probe, flush at start and at a reconnection, retry after a 429 | outages between polls, exceptions in threads, probes that report late | what is queued is delivered; who is told "online" can rely on it |
| JSON store, legacy import (`storage.py`) | one JSON file, or SQLite | rewrite, set aside, import, report | two processes, damage, a crash inside the import | no award is lost; none comes back |
| Cache queue and budget (`cache_queue.py`, `cache_budget.py`, `rom_browser.py`) | queued ROMs, request window, two file locks | enqueue, drain, record failure, pause | a drain from a copy while others enqueue; games, 429s and refused logins in between | a queued ROM is cached, given up after its attempts, or still queued; the budget is kept |
| Smart Cache (`smart_cache.py`) | none: reads what six emulators leave | find, estimate, queue | files moved, lists of other versions, codes that are not unique | what was played is found, once |
| Offline answers (`proxy_service.py`, `rom_cache.py`, `periodic_refresh.py`, `rom_browser.py`) | cached responses | forward, serve, merge, cache, refresh, evict, remove | five threads write one entry from old answers | what is shown was earned; a cached game is served |
| Folder watcher (`watch_folders.py`, `proxy_service.py`) | seen marks, last scans | scan, queue, mark, forget | files that come and go, manual runs, switching off in a scan | a file is queued or has an answer |
| Images (`image_cache.py`) | files by name, pending sets | download, copy the icon, remove | three downloaders of two processes on one temporary name | an image asked for is worked on or can be asked for again |
| Usage counters (`usage_stats.py`, `usage_report.py`) | counters in memory and in a file | count, merge, report | a lost answer, merging while a report is out | nothing is counted twice |
| Configuration patching (`config.py`, `*_cfg.py`, `state.py`) | the patch state | patch, restore, at boot again | a power cut between any two files | emulators follow the proxy; RetroArch is left as it was |
| Login (`auth.py`, `storage.py`, `windows/account.py`) | tokens, a mark | log in, mark, log in again | settings, menu, flush and emulators disagree | a withdrawn token heals |
| Lifecycle (`service.py`, `main.py`, `boot.py`, `darkos_service.py`, `windows/*`) | pid file, port, stop file, unit | start, stop, status, adopt | starts and stops at once, stale pid files, ports taken | a stop stops; a start serves, where the emulators look |
| Update (`update.py`, `windows/update.py`) | app folder, backup, status | check, swap, roll back | failure or power cut at any step | a version that starts, the data somewhere |
| Check at sign-in (`windows/autostart.py`, `windows/launch.py`) | a Run entry or a task, a launcher | enable, disable, move, copy | cuts between two steps, letters that change | what the user chose is what a sign-in does |
| Android's award queue (`ProxyServer.kt`, `AwardFlusher.kt`) | Room table | queue, flush, delete, clear | database calls given up that happen later, two flushes | as the award queue |
| Menus (`menu_sdl.py`, `windows/menu.py`), platform scripts | screens | - | - | - |
| `lambda/`, `infra/`, `third_party/`, test tools | - | - | - | - |

Components meet in the storage: the request handlers (one thread a connection),
the monitor and the other workers are threads of one process and share one SQLite
connection under a lock; the menu is a process of its own that opens the same
database. Every storage call is one transaction, and nothing spans two calls.

## Modules

| Module | What it is |
|---|---|
| `AwardPromise` | abstract specification: what "queued_offline" promises |
| `PendingAwards` | the table, its hash chain, and all that writes it |
| `PendingAwardsProofs` | theorems about `PendingAwards` and `AwardService` |
| `AwardService` | the queue inside its service: link, monitor, starts and stops |
| `AndroidAwards` | the Kotlin queue, which implements `AwardPromise` too |
| `BudgetWindow` | the budget's window as operators |
| `CacheQueue` | the caching queue and all that fills and drains it |
| `CacheQueueProofs` | theorems about `CacheQueue` |
| `WatchedFolders` | a watched folder file by file |
| `SmartCache` | which games were played lately |
| `OfflineAnswers` | what an emulator is answered, and all that fills the cache |
| `UnlockCounts` | the three computations of what is unlocked |
| `ServiceLifecycle` | starts, stops and status of the service process |
| `SignIn` | the tokens and the mark on a rejected one |
| `JsonStore` | the JSON store and its import into SQLite |
| `AppUpdate`, `WindowsUpdate` | the two updates |
| `ConfigPatch` | the emulators' configuration files |
| `ImageCache` | one image and everything that downloads it |
| `SignInCheck` | what the portable folder leaves in Windows |
| `UsageReport` | the counters and their report |
| `RaLink` | reachability, throttle, retries and pause |
| `AndroidAwardsProofs` | theorems about `AndroidAwards` |
| `OfflineAnswersProofs` | theorems about `OfflineAnswers` |
| `WatchedFoldersProofs` | theorems about `WatchedFolders` |
| `ServiceLifecycleProofs` | theorems about `ServiceLifecycle` |
| `StoredDataProofs` | theorems about `JsonStore`, `AppUpdate` and `WindowsUpdate` |
| `ComponentProofs` | theorems about `ImageCache`, `RaLink`, `SignInCheck`, `UsageReport`, `ConfigPatch`, `UnlockCounts` and `SmartCache` |
| `MC*` | small instances for TLC |

`MCComponents`, `MCProcesses` and `MCCacheWatch` check modules that share no state in
one run: a behaviour is one module's and the others stay as they start, so the states
are a disjoint union and not a product. `MCAnswers` and `MCAndroidAwards` split one
module in the same way into situations, each with the requests and failures it needs.
Fairness is that of the modules, guarded by the part.

In the modules of the code an operator that stands just before a
definition of the code, takes the same parameters and is used nowhere
(`PurgesAll` before `Purged`, `NeverRepairs` before `Repairable`, ...) is a
mutation of the definition that follows. With it in place of that definition the
properties fail, which shows that they depend on what the code does.

### PendingAwards

`table` maps an achievement id to its row, as the UNIQUE column does; leaderboard
entries carry no achievement id and share the key `Board`. A row keeps which
submission it holds, its `queuedAt`, status, `prevHash` and whether the stored
request still matches the stored hash (`intact`). The hash of a row is the pair
of what is hashed: hashing is taken to be injective. Signatures cover the same
data with a secret that never changes here, and are left out.

One action is one storage call with the code around it up to the next:

| Code | Actions |
|---|---|
| `handle_award_request` | `RefuseHardcore`, `Forward`, `FallBackToQueue` |
| `queue_award` under `pending_award_lock` | `QueueKnown`, `QueueNew`, `QueueUnlocked`, `QueueNotUnlocked`, `QueueReadLatest`, `QueueWrite` |
| `cache_unlocks` | `RefreshUnlocks` |
| `flush_pending_awards`: read, verify, repair | `FlushStart`, `FlushRepairRow`, `FlushReread` |
| ... nothing to send, no login, live data | `FlushNothingPending`, `FlushAbandon`, `FlushRefresh` |
| ... the loop | `FlushMarkStale`, `FlushSend`, `FlushSendRaises`, `FlushRecord` |
| ... the end, `purge_processed_awards_if_safe` | `FlushSync`, `FlushCheckPending`, `FlushPurge` |
| `delete_pending_award` (menu) | `MenuRead`, `MenuDelete` |
| Clear database (Windows) | `ClearDatabase` |
| the disk; death and start of the service | `Corrupt`, `Restart` |

Writes are whole rows, so `FlushRecord` and `MenuDelete` put back what was read
long before. That is what the code does, and most properties are about it.
RetroAchievements is the set `server` of accepted submissions. It accepts one
unlock per achievement and answers a second one with an error. An answer may be
lost after the award was accepted.

The history variables `acked`, `removed` and `staled` exist for the properties.

### AwardService

Adds where the thread stands that starts flushes (`monitor`), what its last poll
found (`wasOnline`) and the `link`. Each action of `PendingAwards` is taken only
when the link and the place allow it. `Faults` lists what else may go wrong, so
that a run can say which fault a claim survives. `calm` is an oracle: it marks a
start of the service whose flush nothing disturbs, which is the assumption of
the liveness property, and it forbids faults only while that flush runs.

### CacheQueue

Three kinds of process share the queue, the budget and two file locks: the
service with its worker and its folder watcher, a folder or Smart Cache run
(`Bulks`), and a ROM cached by hand (`Adds`). Each caller has a record in `run`
with its place in the code (`pc`) and its local variables; the rest is storage. A
step ends where another process can come between: at a storage call that decides
something, at a request, at a lock.

| Code | Actions |
|---|---|
| `run_cache_paths`, the filling | `BulkStart`, `Skip`, `EnqueueRead`, `EnqueueWrite`, `FillEnd` |
| `scan_folder` | `ScanStart`, then as above, `ScanReport` |
| `add_rom_to_cache` | `AddStart`, `AddFinish` |
| `CacheQueueWorker.process_once` | `WorkerStart` |
| `_FileLock` | `TakeLock`, `StopWaiting` |
| `_drain_locked`, before a request | `DrainPaused`, `DrainLimited`, `DrainTimeLimit`, `DrainGoOn`, `NothingLeft`, `AnsweredLocally`, `BudgetExhausted` |
| ... its pace | `PaceBegin`, `PaceEnd`, `PaceGivenUp` |
| ... `cache_queued_rom` | `Request`, `AnswerFailed`, `AnswerAuthRejected`, `AnswerNoMatch`, `AnswerKnown`, `AnswerCached` |
| ... after it | `ChargeGame`, `SettleLimited`, `SettleAuthRejected`, `SettleFailed`, `SettleDone` |
| `run_cache_paths`, the end | `Cancel`, `BulkReport` |
| 429s met by other threads of the service | `ServiceLimited` |
| the user, the clock, the end of a process | `Abort`, `RemoveGame`, `Play`, `PlayEnds`, `Tick`, `MissExpires`, `RunDies`, `ServiceDies` |

Time is relative: now is always 0, and `Tick` moves every stored time one back, down
to `Past`, where nothing looks at it any more. That keeps the state space
finite without a bound on how long a behaviour lasts. A 429 is known to the process
that met it (`limited`) before the drain stores it (`budget.paused`).
`busy` stands for a game that is played and for the service being offline; a scan
is stopped by either here, by play alone in the code. Requests are not refused
while offline: they fail like any other.

The history variables (`fate`, `sentAt`, `fetched`, `removed`, `lost`, `quiet`)
exist for the properties.

### AndroidAwards

A row is keyed by its own id, and only pending rows count as queued or chained; sent
rows stay as the history. A handler thread waits three seconds for the database and
goes on without it, so each look at it may count as "not found" and each write may land
later (`late`). `requestFlush` checks and sets `flushJob` without a lock: `Flushes` run
at once.

| Code | Actions |
|---|---|
| `handleAwardRequest` | `PhoneForward`, `PhoneFallsBack` |
| `queueAward` under `pendingAwardLock` | `TakeRequest`, `LookAtUnlocks`, `BuildAward`, `WriteAward`, `LateWrite` |
| `cacheUnlocks` | `CacheUnlocks` |
| `flushPending` | `FlushBegins`, `RepairsRow`, `GivesUp`, `GetsLiveData`, `MarksStale`, `Sends`, `Records`, `AllHandled`, `Purges` |
| the screens | `PicksAward`, `DeletesAward`, `ClearsHistory`, `ClearsDatabase` |
| the disk, the end of the process | `BreaksRow`, `AppDies` |

### WatchedFolders and SmartCache

`WatchedFolders` knows the files of a folder, their marks, and the rows they have in
the queue; what the queue does with a row is one step (`Drained`). Its scan
(`ScanBegins`, `Scanning`, `ScanStop`), a manual run (`ManualQueue`, `ManualEnds`,
`ManualAborts`) and switching off and on (`ForgetMarks`, `ForgetScan`, `Unwatch`,
`Watch`) meet files that come, go and are still being copied.

`SmartCache` derives what each emulator has recorded from when a file was played with
it, reads it back as the code does (`load_*`, `find_content_history_lpl`, serials,
title ids, disc headers in their containers), and walks the menu's prompt to a run.

### OfflineAnswers and UnlockCounts

| Code | Actions |
|---|---|
| a request, step by step | `Ask`, `AskAward`, `RequestStep` |
| caching, the refresh, award follow-ups, the flush's | `JobStep` of each worker, `StartCaching`, `StartRefresh`, `StartFlush`, `FlushSend`, `FlushRecord` |
| removing a game, the cache, an award | `StartRemoval`, `RemoveStep`, `ClearCache`, `DeleteAward` |
| the network, the player, time | `LinkChanges`, `GoesIdle`, `WeekPasses` |

Each worker fetches an answer in one step and stores it in another; the answer may be
old by then. What a request meets without a link depends on when the outage is noticed: a ping
is told it succeeded when the service knew before (`OfflinePlace`), and is looked up like any
other request when it was forwarded and got no answer (`ForwardFails`, `Lookup`), where only the
answer of an earlier ping may help (`MayHold`; those are not counted). `UnlockCounts` has the page of a game, the list of games and the list of
waiting awards as operators over the same rows, with the code's different ways of
matching users.

### ServiceLifecycle and SignIn

A caller (menu, command line) is in an operation, step by step (`BeginStart`,
`BeginStop`, `BeginStatus`, `Operation`), a process in its life (`ServiceStep`), and they
share only what is on disk and in the system: pid file, identity file, stop file, ports,
the unit, the addresses written into the emulators. `platform` picks the code of Linux,
ROCKNIX, dArkOS or Windows. `overlap` is a history variable: whether operations ran at
once.

`SignIn` numbers tokens; the server accepts the latest of each user (`Withdraw`). The
flush picks a token, asks for the patch of a game with it, marks it when that is refused, and
sends an award (`FlushStep`). With no waiting award's game cached (`gameCached`, which
`OtherAwards` changes at any time) it only sends the award, and a refusal then marks nothing.
The patches of several games are one request here. The cache worker only picks a token.

### The other components

| Module | Code | Actions |
|---|---|---|
| `JsonStore` | `_json_file_lock` and the `_..._unlocked` calls under it, `record_incident` | `Call`, `TakeStoreLock`, `Load`, `SetAside`, `SetAsideFails`, `RecordIncident`, `WriteFile`, `Unlock` |
| | `_import_legacy_json`, and the table after it | `ImportRead`, `ImportCommit`, `ImportRename`, `ImportFails`, `TableQueue`, `TableSettle` |
| | `retry_storage_corruption_report`, the menu's notice | `ServiceLooks`, `MenuLooks`, `Upload`, `MarkReported` |
| `AppUpdate` | `update_status`; `install_onion_update_archive` and muOS's | `CheckRelease`, `BeginInstall`, `Extract`, `SwapOut`, `SwapIn`, `SetDataAside`, `DropShipped`, `PutData`, `RescueData`, `DiscardNew`, `PutBack`, `Tidy` |
| `WindowsUpdate` | `check`; `UPDATER_SCRIPT` | `WinCheck`, `LaunchScript`, `StopAll`, `MoveAside`, `CopyIn`, `Undo`, `Undone`, `DropOld`, `Restarts` |
| `ConfigPatch` | start, stop, boot | `StartProxy`, `StopProxy`, `Boot`, `PatchFile`, `RevertFile`, `SaveState`, `StoreState` |
| `ImageCache` | `_download_pending_image`, `download_static_image` | `Take`, `LookForImage`, `Fetch`, `OpenTmp`, `WriteTmp`, `RenameTmp`, `Clean`, `LookForIcon`, `CopyIcon`, `PutIcon`, `FinishImage` |
| `SignInCheck` | `refresh_location`, `ensure_sign_in_check`, `enable`, `disable`, `remove_sign_in_check`, the launcher | `Refresh`, `Decide`, `Ensure`, `Enable`, `Enabling`, `Disable`, `RemoveCheck`, `Removing`, `SignIn` |
| `UsageReport` | `record_request`, `_flush_locked`, `_report` | `record_request`, `WindowEnds`, `Flush`, `Flushed`, `BeginReport`, `TakeSnapshot`, `Send`, `Commit` |
| `RaLink` | `is_online`, `http_get` | `AskOnline`, `LookForInterface`, `HeadUpstream`, `MarkProbe`, `TakeAnswer`, `BeginGet`, `CheckPause`, `TakeTurn`, `PassThrottle`, `Answered`, `RateLimited`, `BackOff` |

The remaining actions of each are what the user, the disk, the network, the clock and
power cuts do.

## Runs

| Run | Shows | Distinct states |
|---|---|---|
| `PendingAwards.cfg` | `NoAwardLost`; `FlushedMeansAccepted`; `FlushedNeverRequeued`; the queue implements `AwardPromise` (`KeepsPromise`) | 1.9 M |
| `PendingAwardsDisk.cfg` | `RepairHeals`, `PendingNeverVanishes`, `HardcoreNeverSent` with a clock that jumps, damage, Clear database and a hardcore award left by an earlier release | 3.4 M |
| `AwardService.cfg` | `EventuallyDelivered` under every fault of the service, a withdrawn achievement, and deletions in the menu | 0.7 M |
| `AndroidAwards.cfg` | the phone's queue implements `AwardPromise` request by request (`PhoneKeepsPromise`): two flushes at once, late writes, awards earned again, board entries, a damaged row, both kinds of clearing | 0.6 M |
| `CacheQueue.cfg` | `OneDrain`, `NoRomForgotten`, `NeverOverdrawn`, `BudgetKept`, `PauseKept`, `FetchedOnce` for a run, a ROM cached by hand and the service, two ROMs being dumps of one game that the user may remove | 2.6 M |
| `CacheQueueWatch.cfg` | `QueueDrains` for a watched folder's rows; `NothingSlips` (a marked file waits in the queue or left it for a reason) and `TakenUp` (a file that stays is taken up) | 0.6 M |
| `CacheQueueRuns.cfg` | `RunsEnd` for a run and a scan that wait for each other, their pace and the service | 0.1 M |
| `Components.cfg` | `AwardsSafe`, `DeliveredStaysOut` (JSON store); `UpdateSafe` and `FolderSafe` (updates); `EmulatorsFollow` (configuration); `ImagesGetDone`; `CheckAsChosen` (sign-in); `CountsKept` (usage); `LinkKept`; `CountsAgree` (unlocks); `RecentFound` (Smart Cache) | 2.6 M |
| `Processes.cfg` | `StopStops`, `EmulatorsReachIt`, `StartedIsKnown`, `StartServes` on four platforms; `RejectedHeals` (a withdrawn token, while a waiting award's game is cached) | 1.1 M |
| `Answers.cfg` | `CacheHoldsTruth`, `NoAwardDropped`, `ShownIsTrue`, `CachedIsServed`, `CatchesUp` | 0.8 M |

Two more runs check what a comment or a test says and find it violated by what the
code does:

| Run | Claim | What happens |
|---|---|---|
| `DeadMonitor.cfg` | network failures are retried | an exception in a flush ends the monitor thread |
| `StartLost.cfg` | a start that succeeds leaves a service that runs | the start at boot holds the port, to try it, while the service of a start before has yet to bind it: that service ends, and the start at boot, which counts on it, reports success |

### Refuted claims kept beside the runs

These configurations are run by hand (`tlc -config X.cfg M`); each finds its claim
violated. Where a file names several claims, keep one at a time (`-continue` goes on to
the others, in `ClaimsRefuted.cfg` only after minutes).

| Configuration, module | Claim | What happens |
|---|---|---|
| `AwardClaims`, `MCPendingAwards` (`DeletedStaysDeleted`) | a removed award is removed | the flush writes its older copy over the deletion |
| `AwardClaims` (`AnsweredMeansStored`) | an acknowledged award is stored | a deleted row that is not purged yet counts as queued |
| `AwardClaims` (`EntryKept`) | leaderboard entries are queued | the second overwrites the first |
| `HeldForever`, `MCAwardService` | a queued award leaves the queue once flushed online | an award whose answer was lost is refused as a duplicate, taken for a rejected login, and stays |
| `AbortUndone`, `MCCacheQueue` | an aborted run takes its ROMs back | another drain's failed attempt writes the removed row back |
| `HalfCopied`, `MCCacheWatch` | a file copied into a watched folder is queued | one that is read half-copied is marked |
| `AnswersRefuted`, `MCAnswers` (`LaunchSurvives`) | a cached launch survives an outage that starts during it | the `startsession` that meets the network error is refused (a ping then as well, unless an earlier one's answer is cached) |
| `AnswersRefuted` (`CachedIsComplete`) | a ROM counts as cached with all its game needs | its unlocks fail to load after the patch was stored |
| `ReportLost`, `JsonStore` (`SetAsideFirst`) | a damaged file is set aside before a write goes over it | the rename fails, that is only logged, and the next write puts an empty state over what the file held |
| `ReportLost` (`ReportGotThrough`) | an incident is reported until that gets through | a second incident is marked by the first one's report |
| `ProcessesRefuted`, `MCProcesses` (`ChainGoesToo`) | ROCKNIX's proxy does not stay in front | a service that is stopped while it starts, and killed in the end, leaves it |
| `ProcessesRefuted` (`AlwaysHeals`) | a withdrawn token is got over with the password | with no waiting award's game cached no patch is asked for, and the token the award is refused with is not marked |
| `ProcessesRefuted` (`MenuLoginUsed`) | the account signed in with in the menu is used | the row of an older account is found first, and signing in has cleared the mark on its token |
| `SentTwice`, `UsageReport` | the same counters are not sent twice | without `fcntl` the report lock locks nothing |
| `NotPutBack`, `ConfigPatch` | the values captured first come back; no emulator stays pointed at a stopped proxy | a start over patched files captures the proxy's own values; a stop from the menu passes over the second RetroArch |
| `ClaimsRefuted`, `MCComponents` | the app's data survive every update; a game that was played makes the menu offer Smart Cache; a moved game is found; a cached image is complete; a backup copy is not started instead | muOS's installer loses them to a failure; games of PCSX2 or DuckStation alone are not counted; a stale first entry of a serial hides the new one; two downloaders share a temporary name; the launcher looks at letters, not at drives |

### Types

Each module has a type invariant. Those of `PendingAwards`, `AndroidAwards`, `CacheQueue`,
`WatchedFolders`, `OfflineAnswers`, `ServiceLifecycle`, `JsonStore`, `AppUpdate`,
`WindowsUpdate`, `ConfigPatch`, `ImageCache`, `RaLink`, `UsageReport`, `UnlockCounts`,
`SmartCache` and, for a folder that was not copied, `SignInCheck` are proved; those of
`AwardService` and `SignIn` were checked with TLC on the instances of the runs. None is in the
configurations.

### Bounds

For the award queue:

- Two achievements and at most one submission more: two rows are what a wrong
  link, a purge of one row beside another, and a repair that is overtaken need;
  a second submission for one achievement is what being earned again needs.
- `Times` (`Clock` on Android) has at most two readings, read in any order: enough for
  equal readings and for a clock that goes back. It is not a bound on the length of a
  run.
- Every submission is made once. That is the bound on the length of a behaviour:
  `fresh` only shrinks. Flushes, deletions, polls, outages, restarts and starts of the
  service are not bounded.
- Row ids start over in an empty table; they only order rows with equal readings.
- On Android five situations restrict which mishaps meet: two flushes at once with one
  request each for two achievements; a slow database with an achievement earned
  twice; the same without; a board's entry beside an achievement; a damaged row.

For the caching queue:

- Three ROMs and two games, one of which has two dumps and may be removed: with
  it fetched again there is one game more than the budget of two allows. `Limit` is 1
  or 2 (100 in the code), `Burst` 1 (20), so that every second request paces.
- `MaxAttempts` is 2 in `CacheQueueWatch`, where a row is written back after its first
  failure, and 1 in the others (3 in the code).
- `Window` is 1 or 2 ticks, `PauseTicks` 1: half an hour and ten minutes have the
  same order, and with two ticks a window can be half over. A pace lasts any number
  of ticks.
- Each `Bulk` and `Add` runs once; the service, its scans and its restarts are not
  bounded, but `MaxFaults` allows one of: a 429, a refused login, a crash, a game
  played. Failed requests are not bounded.
- A watched folder has two files of different names; it is explored beside a manual
  run, switched off and on, and with one scan that is stopped (`MaxStops`), each apart.

For the others:

- `Components.cfg` names what may go wrong, and how often: one damaged or unwritten JSON
  store (`StoreFaults`; that it cannot be set aside is not counted), two mishaps in an update (`UpdateFaults`; what is promised
  after one, and that a second is still told), three in the Windows script
  (`ScriptFaults`), one power cut and one edit by the user among the configuration files,
  one killed process or full disk for an image, one cut at the sign-in check, one lost
  report. Requests, starts, stops, checks, downloads and probes are not bounded, except
  by `MaxRequests`, `MaxDay` and the clocks.
- Two awards, two games with one achievement each, three ROMs of three containers (two
  of one folder and name), two drives and two letters, two copies of the folder: two of
  a kind show what one that is taken for another does.
- `Processes.cfg`: two processes, three operations (a start beside a start, with a stop
  after) and one mishap; two accounts, one of which loses its token once.
- `Answers.cfg`: two games, one of them with two discs, one achievement; the link may
  change at every step. Four situations: the first use, games coming and going, awards
  of a cached game, awards sent from the queue.

No symmetry is declared: the instances are small, and the liveness runs forbid it.

### Deadlock

TLC checks for deadlock in all passing runs but `Components.cfg` and `Processes.cfg`,
where the system may really come to rest: an update given up, an image that is there,
the last report of the last day, a service that is stopped. Elsewhere nothing stops:
the unlocks may be fetched again at any time, the link or the monitor always has a
step, and time always passes.

### Fairness

`Scheduled` is weak fairness of the handler threads, of the thread that flushes
and of the exit of a process whose main thread has raised: the operating system
schedules runnable threads, and every network call has a timeout. Nothing is fair
that the user, the network or RetroAchievements does. `EventuallyDelivered`
assumes, as its hypothesis, that the service is again and again started online
and left to finish one flush. `OutageSpec` is used for one refuted claim only:
it assumes that the link changes for ever and that polls see it both ways, which
gives that claim its best case.

In `CacheQueue` the steps of a run, the worker and the scans are weakly fair, time
passes and a game that is played ends. A drain that took the lock goes on to its
first ROM before its half hour is over: that is strong fairness of
`DrainGoOn(Worker)`, because with a clock of one or two ticks nothing else says that
a computer is faster than a window. Nothing is fair that the user or RetroAchievements
does: every request may fail, and `QueueDrains` holds because attempts are counted.

In `WatchedFolders` the service's thread (`ScanBegins`, `Scanning`), time, and the end of
a manual run are fair; in `OfflineAnswers` the workers, the handling of a request, and
that the emulator rests at times (`GoesIdle`), which the refresh waits for; in
`ServiceLifecycle` the steps of a service process and systemd's restart; in `SignIn` the
flush and the writes of logins that have begun. What the property needs of the
network and the user is in its hypothesis (`RejectedHeals`, `CatchesUp`, `TakenUp`).

## Proofs

`PendingAwardsProofs` holds for every set of submissions and ids, every clock and
every choice of the other constants that satisfies `AwardsAssumption` (the types of
the constants, at most one legacy row) and `SentinelAssumption` (the
sentinels are no values).

| Theorem | States |
|---|---|
| `TypesHold` | `TypeOK` always |
| `NoAwardIsLost` | `NoAwardLost` always |
| `FlushedAreAccepted` | `FlushedMeansAccepted` always |
| `RepairAlwaysHeals` | `RepairHeals` always |
| `PendingRowsRemain` | `PendingNeverVanishes` |
| `HardcoreIsNeverSent` | `HardcoreNeverSent` always |
| `QueueKeepsPromise` | `KeepsPromise`: `PendingAwards` implements `AwardPromise` |
| `FlushedStaysFlushed` | `FlushedNeverRequeued` |
| `ServiceIsAQueue` | `AwardService` implements `PendingAwards` |
| `ServiceKeepsPromise` | `KeepsPromise`, `NoAwardLost` and `FlushedMeansAccepted` of the queue in its service |

`NoAwardLost` speaks of the table, but steps write copies: the snapshot of the
flush and the row in the menu. It is not inductive, because nothing in it says
that writing an old copy is harmless. `AwardsInv` does: every row, and every copy
wherever it is held, has *earned* its status, flushed by being accepted, deleted
by the user's deletion, stale by a flush that found it withdrawn
(`HonestTable(table)`, `HonestTable(snapshot)`, `HonestMenu`). These three sets
only grow (`StepGrows`), so what was true when a copy was read is true when it is
written. `HonestAnswer` ties an answer of success to the one row the loop records
next (`OneFirst`: the order of rows is strict), `HonestUnlocks` says that cached
unlocks are on the server, and `IdlePhase` where the loops and the answer are empty.
Then a row that vanishes or changes leaves its achievement pending or settled.
`RepairAlwaysHeals` follows from what a link depends on: the order and the
requests of the rows before it, neither of which a repair changes.

`QueueKeepsPromise` is a refinement: `AwardsInv` holds before and after a step, so what is
promised is kept or settled at both ends, and `StepSettles` shows that a step acknowledges
only what it queues and settles only what RetroAchievements, the user or a withdrawal
settled. `FlushedStaysFlushed` needs two facts more: a submission is on its way to the table once, and
then it is in the table and its copies (`QueuedOnce`, for which the handlers take
`pending_award_lock`), and what a flush has still to send is not recorded as sent
(`NotSentYet`, for which flushes take `pending_awards_flush_lock`).

`AwardService` takes the steps of the queue under conditions of its own and adds steps
that leave the queue alone, so what is proved of the queue holds in its service.

`CacheQueueProofs` holds for every set of ROMs, games and callers, every limit, window
and bound that satisfies `BudgetAssumption` and `QueueAssumption`.

| Theorem | States |
|---|---|
| `DrainsExclude` | `OneDrain` always |
| `WindowsHold` | `NeverOverdrawn` always |
| `WindowsBound` | `BudgetKept` always |
| `PausesKept` | `PauseKept` |
| `GamesFetchedOnce` | `FetchedOnce` |
| `RomsRemembered` | `NoRomForgotten` always |
| `QueueTyped` | `TypeOK` always |

`NeverOverdrawn` is about one number, but the look at it and the charge are steps
apart. `BudgetInv` carries the look to the charge: who drains holds the lock
(`LockKept`), and from the request to the charge a window that is open has room for
one more (`RoomLeft`). Every other step is one of four kinds, outside the
drain, taking the lock, letting it go and going on with it, each with a lemma
of its own; time only closes windows (`TickFacts`), and a caller that dies
leaves `Draining` with its lock.

The other four rest on the types, on `BudgetInv` and on `DrainInv`, which says what the
drain's local variables are worth when they are used. `AnswersTrue`: what a caller holds
as an answer is so, and the games it takes for known are cached and fetched. `PauseStored`: a
pause that still runs is in the budget or known to the caller about to store it.
`WindowCounted`: the games sent since the window opened are those charged, those between
their request and their charge, and those lost with a process, and no more.
Nothing is charged twice, because only who holds the lock is in between. For
`NoRomForgotten`, a step either leaves the rows alone, writes the row it
read, or takes rows out, and then each one taken has a `fate`.

`AndroidAwardsProofs` holds for every set of requests and flushes and every clock of natural
numbers.

| Theorem | States |
|---|---|
| `PhoneKeepsItsPromise` | `PhoneKeepsPromise`: `AndroidAwards` implements `AwardPromise`, request by request |
| `PhoneTypes` | `PhoneTypeOK` always |

Rows are a sequence of any length, written late, and two flushes hold copies of it. `PhoneInv`
says that they cannot be wrong about what matters: a row stays what it is or leaves
(`SubsStay`), a copy that a flush is to send is of a row that waited, and of the same
request as the row of that id now (`JobsFit`), and an answer is about the one row that is due
(`OneOldest`). So each step keeps what is promised among the rows, the late writes and
what was settled (`PromisesStand`).

`StoredDataProofs`:

| Theorem | States |
|---|---|
| `StoredAwardsSafe` | `AwardsSafe` of `JsonStore` always: an award stored is in the file, the table or a file set aside, unless a damaged file held it and could not be set aside; and only damaged files are set aside |
| `DeliveredStaysAway` | `DeliveredStaysOut`: the import brings back nothing that was settled |
| `UpdateTyped`, `UpdateKeepsData` | `UpdateTypeOK`, `UpdateSafe` of `AppUpdate` always |
| `WinTyped`, `FolderStarts` | `WinTypeOK`, `FolderSafe` of `WindowsUpdate` always |

In `JsonStore` who holds the lock is alone, and the copy it works on is the file, or empty where
the damaged file could not be set aside; no file is left beside a used database unless an import
failed. In `AppUpdate`, `UpdateInv` has where each
step of the installer leaves the folders (`Progress`), that without a mishap nothing is missing
(`Undisturbed`), where the data are after one (`DataSaved`), and that an offer is newer
than what runs (`OfferIsNewer`); a newest release exists because releases are published one by
one (`SomeNewest`). In `WindowsUpdate` each part is in one place (`EachSomewhere`), as far as
the script has moved (`MovedSoFar`), of one version (`OneVersion`), and the script undoes only
what failed (`UndoneForAReason`). The assumptions say that the sentinels (`NoDir`,
`NoVersion`, `NoFile`, `NoIncident`, ...) are no real values.

`OfflineAnswersProofs` holds for every set of games, dumps and achievements, and of workers at once.

| Theorem | States |
|---|---|
| `AnswersTyped` | `AnswerTypeOK` always |
| `CachedIsTrue` | `CacheHoldsTruth` always |
| `NoneDropped` | `NoAwardDropped` always |
| `OnlyWonIsShown` | `ShownIsTrue` always |
| `CachedAreServed` | `CachedIsServed` |

The three invariants depend on each other and on the answers that are under way: what each
job was told was so when RetroAchievements said it (`JobTold`, `FlushTold`), and what is unlocked
there stays so; what a request merged was in the queue or the cache (`RequestTold`), and
both hold only what was won (`Earned`). Together they are inductive (`AnswersTrue`).
`CachedAreServed` has an invariant of its own, `ServesKept`: an entry a cached game
needs is there, unless the menu is removing the game.

`WatchedFoldersProofs`:

| Theorem | States |
|---|---|
| `FolderTyped` | `FolderTypeOK` always |
| `NothingSlipsBy` | `NothingSlips` always: a marked file is queued or left the queue for a reason, unless it was read half-copied (`HalfCopied.cfg` shows what becomes of that one) or has a namesake |

A mark is written at the end of a scan, from what was listed at its start. `FolderInv` says
that the scan's sets are still right then: it starts with nothing dealt with (`ScanFresh`), fills from unmarked files and deals
with those that have an answer (`FillSorts`), what waits for its end has a row
(`WaitingQueued`), no mark rests on a row it has added and may still take back (`MineUnmarked`),
and what it is about to mark is accounted for (`HandledAccounted`), all of which the drains and
the manual runs leave so.

`ServiceLifecycleProofs`, for every number of ports, operations and mishaps and all four platforms:

| Theorem | States |
|---|---|
| `LifeTyped` | `LifeTypeOK` always |
| `StopEnds` | `StopStops` always |
| `EmulatorsArePointed` | `EmulatorsReachIt` always |
| `StartedStaysKnown` | `StartedIsKnown` always |

All three properties are about operations that did not overlap (two starts at once do break
them, see below). Unless operations overlap just now, at most one caller is at work (`Alone`), on
the steps of its own operation (`OwnWays`), and a stop waits for whatever is alive and puts the
emulators back when nothing is (`Stopping`). If they never did, at most one service is
alive and a start has found none (`OneService`); on Windows, where only files are looked at, the
service is the one that the pid file and the identity file name (`Known`); and callers, services
and emulators use the configured port (`PortsAgree`).

`ComponentProofs`:

| Theorem | States | The invariant |
|---|---|---|
| `ImagesTyped`, `ImagesAreDone` | `ImageTypeOK`, `ImagesGetDone` | `ImageInv`: while nothing was killed, who holds the temporary name is still to rename it or clean it up, and who broke a file is still to write it (`FilesHeld`); a pending image is worked on (`PendingIsWorkedOn`) |
| `LinkTyped`, `LinkIsKept` | `LinkTypeOK`, `LinkKept` | `LinkInv`: a pause is as long as the rest, and who has sent in it is not on its way to another request (`Resting`); an answer was heard when the tracker says (`HeardWhen`) |
| `CheckTyped`, `CheckIsAsChosen` | `CheckTypeOK`, `CheckAsChosen` | `CheckInv`: no two folders are in one place (`OwnPlaces`), only the first was ever undecided (`AloneUndecided`), and what the process has made sure of at each step (`ProcKnows`) |
| `CountsAreKept` | `CountsKept` | `UsageInv`: who is not writing has taken nothing out of memory (`NothingTaken`), and one report is under way (`OneReport`) |
| `ConfigsTyped`, `EmulatorsFollowTheProxy` | `PatchTypeOK`, `EmulatorsFollow` | `PatchInv`: see below |
| `CountsTyped`, `CountsAlwaysAgree` | `CountTypeOK`, `CountsAgree` | `CountInv`: at most one row of a game and an account |
| `RecentTyped`, `PlayedGamesAreFound` | `RecentTypeOK`, `RecentFound` | `RecentInv`: a list of games is of the version that is read, or of none |

The theorems about `SignInCheck` have the hypothesis `~TwiceUnpacked`: a folder is copied only
after its first start. Two copies of one that was never started make their choices apart and
share what Windows knows. `Components.cfg` has the same choice.

`CountsKept` compares sums over processes. They are taken as the sizes of sets of pairs
(process, n-th request), so that a step moves elements from one set to another, and
`IsFiniteSet(Counters)` is all it assumes of the processes.

`EmulatorsFollow` speaks of the end of a start or a stop. That the files point at the proxy after a
start, and all but the second RetroArch's away from it after a stop, holds whatever power cuts came
before, in the middle of a job too. That RetroArch has back what its user had is said only where no
job was cut short (`~muddled`) and the proxy's address never moved: a start cut off before it saved
the patch state has lost what it captured, in the code too. `PatchInv`
says how the pass gets there: every file that is still to be patched or reverted is ahead of it
(`JobRuns`), what was captured since the last save is in the job (`GotSince`), nobody has seen the
next port before it is taken (`PortsKnown`), and each RetroArch file that points at the proxy has
its user's value in the patch state or in what was just captured (`RetroArchKept`).

`RecentFound` is about what a state's records are turned into, so its proof is about the
functions that do it, for lists of any length: what filtering keeps (`ThoseFacts`,
`FirstsFacts`), that a finite set can be listed by time (`ListExists`), which file a serial or a
code stands for (`FilesBySerialFacts`, `LibraryFacts`), and so what each emulator's reader
finds. That a run queues no more than the menu said is `RunFits`: the menu counts
whoever is new by name, and a file that is new by content only is one it took for a known file of
the same folder and name. The estimate leaves those out (see below), so the property adds them
to its bound; in `Components.cfg` two files are such namesakes.

Induction over data is out of the prover's reach as a theorem that takes a predicate, but an
instance is within it: a set of natural numbers has a least element (`SmallestIn`, from
`NatLessThanWellFounded`). With that, the recursive functions that remove a game's rows
(`WithoutGame`) and filter a list (`AtPlaces`) are known to keep what they should, and a set
that cannot be listed by time would have a smallest counterexample.

Every safety and action property of the passing runs is a theorem. Only model-checked: the
liveness properties (`EventuallyDelivered`, `QueueDrains`, `RunsEnd`, `TakenUp`, `StartServes`,
`RejectedHeals`, `CatchesUp`), which the prover does not reach, and with them `SignIn`,
whose only property is one.

## Read against the documents

Where code and documents, comments or tests differ, beyond the refuted claims:

- `docs/pending-awards.md` says that stale awards remain in the queue and are not
  silently deleted, and that sending is tried up to five times. The purge deletes stale
  rows, and sending goes on after five failures.
- Of the claims refuted for Linux, two do not fail on Android: only pending rows count
  as queued, so an award earned again after a deletion is stored, and each entry of a
  leaderboard has a row of its own. "Already unlocked" is recognised before a refused
  login there, and a network error does not raise. That a deleted award may come back
  holds there too: flush and repair write whole rows back.
- `linux/README.md` says that `startsession` answers are not cached; they are
  (`proxy_service.py:551-560`). A removed game comes back through a refresh or flush that
  is already under way.
- The list of games counts the server's warning achievement, and does not count
  waiting awards of a user spelled differently
  (`test_linux_rom_browser.py:689` and `:763` have it so); with two accounts the page and
  the list disagree. `CountsAgree` is stated for one account.
- A duplicate request for an image drops its game, so that game's icon is not made
  then.
- Only the flush marks a refused token, and only when the patch of a cached game is refused
  with it; a token in the settings is never compared with the mark.
- Requests that POST skip the throttle.
- A damaged store that cannot be set aside is only logged; the call goes on with an empty state,
  and the first write puts it over what might have been salvaged (`storage.py:364-373`, `352`, `389`).
- A nightly that could not be fetched counts as none, and the answer is saved for a day
  (`update.py:185-186`).
- After a port was moved, a second start captures the old proxy address as the
  user's own. A stop with autostart off lets every boot apply stale values again.
- A file whose queue row was given up, or taken back by a manual run's abort, keeps its
  mark. Files beyond the first `MAX_SCAN_ENTRIES` are never listed.
- `estimate_queue` calls itself an upper bound (`cache_queue.py:101-103`). It takes files of the same
  folder and file name for one (`normalize_cached_rom_path`): after a game is removed whose
  namesake of other content waits in the queue, a run adds it and the queue is longer than the
  menu said: by no more than such namesakes (`RecentFound`).
- Clearing the cache deletes the row of the budget, so a fresh window begins. muOS's
  history is read in the order of names, not of time.
- On Windows two overlapping starts leave two services, one of which no pid file names;
  on dArkOS a stop of more than ten seconds raises before the emulators are put back.

## Not modelled

- Signatures and secrets, and rows without a hash.
- A storage call that raises (database locked for more than five seconds). In a
  handler thread nothing is acknowledged then; in the flush it is a `Restart`.
- `retryCount` and `lastError`, which no code reads to decide anything.
- The five seconds a stopping service grants its workers: `Stop` may end them at
  any step.
- Of the caching queue: clocks that go back (`Current` handles them, no action makes one),
  the length of a pace, ROMs with several hashes or none, `draining_lock` (for the menu's
  display), the moment for which `held_elsewhere` takes the lock itself.
- Of the folders: that two processes rewrite `config.json` or the row of last scans.
- Of the answers: hardcore requests, the periodic refresh's pause after a 429, user
  agents. Of Smart Cache: the hashing of archives, and Windows' background process.
- Of the images: that removing a folder takes several steps; Windows, where a name that is
  open cannot be replaced. Of the usage counters: read time-outs; without `fcntl` the
  passing run says nothing.
- Of the configuration: writes of an emulator's file that stop half way. Dolphin's code is
  taken for PPSSPP's, and that of DuckStation and Flycast for PCSX2's, which they follow.
- Of the check at sign-in: two folders that run at once, a half-written `location.json`.
- Of Android: everything but the award queue. Its rows marked hardcore are treated as
  withdrawn ones are; clearing is one step.
- The menus' screens (`menu_sdl.py`, `windows/menu.py`): dialogs and drawing, with what
  they do to the state as actions of the modules above. Reading them shows stale
  indices between a refresh and a key press, which no module here states.
- `main.py`'s parsing, platform packages, `lambda/` and `infra/`, the test tools and vendored
  code: no state of the system that the properties are about.

## Plan

1. Done: the award queue, its service, its theorems; the Kotlin queue against the same
   promise, both refinements proved.
2. Done: the caching queue, its runs, its worker, the watched folders, Smart Cache, and their
   safety properties proved. Left: clocks that go back, in a machine
   of the budget alone.
3. Done: answers and cache, lifecycle, logins, JSON store, updates, configuration, images,
   sign-in check, usage, link, counts, and the theorems that their safety properties hold.
4. `AwardChain`: `verify_chain` and `repair_pending_chain` as functions of a sequence
   with unhashed rows and signatures, against a reference definition; the lost secret.
5. The menus as a state machine of their dialogs.
6. Proofs left: the types of `AwardService`.
