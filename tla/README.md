# Verification of vscode-extensions

TLA+ models of the concurrent and persistent parts of this repository, checked with TLC, with every
safety property and refinement that a run checks proved for every value of the constants with TLAPS.

The repository holds several independent projects: **workspace-timing**, a VS Code extension in daily use
that counts working hours and promises to survive crashes; **auto-refactor**, an analyser of source text with a daemon
that keeps it warm; **fractal-git**, Rust crates around git worktrees with a block store of their own; **WebGames**, a Godot
prototype; scripts and documents. Most models are of workspace-timing: it is the part that makes promises about state over time (no second
lost, none counted twice, none counted while nobody is there), and it makes them across timers, awaits,
failed writes and killed processes. Of the other projects, the models take the two places where several processes share files: the daemon's
registry and socket, and the block store's directory.

Paths below are under `workspace-timing/src/` unless they begin with another project's name.

## Inventory

The code of an extension, of the daemon and of each of its clients runs on one thread. Between two awaits a handler is atomic; at every await every other
handler may run. A timer fires late when the thread or the computer was not available. The process can be
killed at any point, and the host waits for `deactivate` only for a few seconds. The block store is used by any number
of processes, each with threads of its own.

| component | state | operations | interacts with | what must hold |
|---|---|---|---|---|
| `cache/RingBuffer.ts` | array, head, tail, count | push, peekAll, peekLast, peekOldest, peekNewest, advance, consume, clear | journal writer | evicts only the oldest item; queries agree with the window between the pointers |
| `cache/JournalWriter.ts`, `persistence/JournalStorageProvider.ts` | ring buffer, promise mutex, strategy, file | push, tryFlush, flushAll, truncate | heartbeat, end of session, idle pause | one file operation at a time; no slice lost, written twice or resurrected |
| `domain/TimerEngine.ts` | running or paused, session and segment start, two accumulators, totals, records, counters of today | start, stop, switchMode, pauseForIdle, resumeFromIdle, rotateSession, resumeFromSleep, snapshot | session manager | total = manual + ai; the display follows the clock |
| `integration/ActivityWatcher.ts` | mode, lock, last activities, two debounce timers | editor events, external signals, locks, tick | orchestrator, by callback | idleness is dated from the last activity, and reported |
| `application/TimerOrchestrator.ts` | state, queue of operations | start, stop, enable and disable, handleActivity, handleIdleTimeout, saveNow, newPeriod, reset, clear, restore | everything | counts when enabled and somebody is there, and only then |
| `application/SessionManager.ts` | sessionActive, checkpoint count | start, end, checkpoint, rotate, wake-up, idle pause and resume | engine, journal, storage, recovery | saves before it truncates, watermark covers what is saved |
| `application/Scheduler.ts` | two intervals, last tick, day, guards | heartbeat, checkpoint, flush, stop | session manager, journal | notices sleep and midnight once each |
| `application/RecoveryService.ts` | none | recover: load, replay, truncate, compensate, save | storage, journal file | restores what was counted, once |
| `persistence/StorageCoordinator.ts` and providers | backup counter, two stores | save, load, restore, snapshot, deleteAll | session manager, recovery, orchestrator | what was written is read, what was erased is not; the backup is never half a file |
| `application/GlobalAggregator.ts` | one record shared by all windows, cache | sync, snapshot, reset | orchestrator, other windows | no window's entry lost, none back after a reset |
| `application/DisableManager.ts`, `integration/ConfigWatcher.ts` | two flags | update, resolve | orchestrator | disabled means not counted |
| `domain/aggregator`, `domain/history-folder.ts`, exporters, i18n, presentation | none of the timing's | pure functions, user interface | read the engine's data | folding keeps the total |
| `auto-refactor/src/daemon`, `auto-refactor/src/cli/daemonCmd.ts` | per daemon: phase, idle timer, pending scans, connections; registry file; socket | start, stop, hello, scan, shutdown, idle exit, signals | clients, commands, other daemons, by files and sockets | one daemon serves and can be found; answers reach their request; nobody is cut off, no daemon stays |
| `auto-refactor/src/resilience`, worker scheduler, caches | queues, timers | hibernation, retries | processes | candidates for later modules |
| `fractal-git/crates/fg-storage/src/cas_backend.rs`, `delta_codec.rs` | block files, staging files, a cache per process | put, put with a base, get | other processes, by the directory | what was reported stored can be read; reads end |
| `fractal-git/crates/fg-topology`, the log, refs and index of `fg-storage` and `fg-index` | workspace states, promotion ledger, log, refs | transitions, append and replay | file system | candidates for later modules |

`PROJECT.json` lists every component with what is modelled of it (a component that is a whole directory by its longest files),
and the hazards, each at its line.

## The models

    EvictingQueue  <--implements--  RingBuffer        TimerOrchestrator   StorageCoordinator
         |
    JournalWriter                                     GlobalAggregator    SessionRecovery

              +- TimerEngine -----+
    WorkClock-+                   +-ActivityTracking  WarmScanDaemon      CasBackend
              +- ActivityWatcher -+

**RingBuffer** has the array, both pointers and the count, and **EvictingQueue** is what it promises: a queue
whose oldest item makes room. `ImplementsEvictingQueue` is the refinement, with `PeekAll` as the queue.

**JournalWriter** is built on the queue. A call of `flushNow` or `truncate` is at one of five places (`pc`):
idle, waiting for the mutex, or with its file operation in flight; `Resume` is the `while (this._flushingMutex)`
loop waking up, `IOCompletes` the rest of the method after its await. `PushSlice` is the heartbeat, which can run at
any of these points. A failed append has written any prefix of the batch, and perhaps a piece of a line; the next
append continues that line. Slices are numbered in the order they are pushed. History variables account for
what may be lost. Left open: when the strategy agrees to flush.

**WorkClock** has the clock and the two modes, which the next three modules extend.

**TimerEngine** is one record, and each method a function of record and clock, so that **ActivityTracking** can
compose the several calls one handler makes. Its own `EngineNext` makes calls in any order with any past timestamp
wherever the code takes one from a caller. A session is an interval; `resumeFromSleep` splits one at midnights when it
records it, which changes no total, and the model keeps it whole. The counters of today are not in it.

**ActivityWatcher** is one record too; a handler yields the new record and what the listener is told. The unit of time is a
second, the period of the tick and of both debounce windows.

**ActivityTracking** extends both classes and puts a running session together: watcher, heartbeat (`WakeUp`, `Beat`), and the handlers of the orchestrator
and the session manager, each split where it awaits. `pausing` counts the pauses in flight, `resuming` the modes of the
resumes in flight; their completions come in any order. What is
written to disk is not in it; that a truncation of the journal fails is (`PauseFails`). `mishaps` remembers what the properties make exceptions for.

**SessionRecovery** is about the disk. Durations are bags of heartbeats (`total[t]` is how often tick `t` is in `totalMs`), so that
a lost tick and a doubled one cannot cancel out. Every asynchronous method is a record in `calls` with
the operations it has yet to do (`flush`, `truncate`, `primary`, `backup`, `read`, `clear`), done one at a time in any
interleaving with the others; an operation that starts is seen by those issued after it, as VS Code's storage and the
file system keep the order of one process. What a call will write is captured when it is called, as the code does by spreading the
data. The journal's file is a bag of lines (`file`) with perhaps an unfinished one at its end (`openLine`): an append that fails has written any number of its lines and perhaps a piece of the next, which the
following append continues, and what is in memory is written whole again, so that a replay, which adds up every line (`RecoveryService.ts:106`), adds some slices twice. A heartbeat may be late: up to `SleepGap` (15 s in the code) it pushes one slice
of one tick, as `Scheduler.ts:206` does, however long the stall was; beyond it is a wake-up. Two history variables say what these cost: `rewritten` has the slices a failed append had written and kept,
`uncovered` the ticks of the session that no slice stands for. `Crash` may come anywhere; `Start` recovers. What goes wrong besides is an incident: an operation that fails, a pause dated too early, a save by command. A crash in the middle of an
append is an append that fails and a crash behind it. Operations are prompt: the clock waits for
the calls in flight. Recovery goes straight to the journal file, without the writer's mutex. A
process starts a session only when the calls of an earlier one are over. Modes, idle records and folding, none of which the total depends on, are left
out, and so are `journalEnabled = false`, the 24-hour cut-off of compensation, and reads that fail (`readJournal` and `load` then return nothing).

**TimerOrchestrator** is how sessions begin and end. Each call has a thread (`op` for the queue `_opQueue`, `quit` for the deactivation,
`Switches` for calls of `onDisableStateChanged` outside the queue, `Handlers` for idle pauses and resumes), and `pc` is what it awaits:
`recovering` in `start`; `parking`, `flushing`, `ending` in `stop` (the scheduler's checkpoint, `flushAll`, the final save and truncation);
`snapshotting` and `replacing` in the period operations; `pausing` and `resuming` in the handlers. Between awaits a step is what the code does there,
the assignment of `state` after the await included. Of the engine and the watcher only what the orchestrator can be wrong about is kept: stopped, counting or paused,
and whether the watcher has reported idleness. `Closed` is the end of the window, so that deadlock can be checked. Left out: the ERROR state (`recover` does not
reject), and what the operations do to the data, which is in StorageCoordinator.

**StorageCoordinator** has the two stores at the grain at which they can be torn: `workspaceState`, the JSON file and its staging file, which a save opens,
writes and renames. Data has an age: `old` has something of what there was before an erasure, `new` nothing. One operation runs at a time (`op`: start, disable,
newPeriod, clearHistory, resetAllData, restoreFrom, each with its awaits), beside the periodic checkpoint and saves by command, which take every third save to the file.

**GlobalAggregator** is the record in `globalState` that every window loads, changes and saves. `held` is the record a window's `doSync` has loaded and changed and not saved yet;
`reset` has the record deleted, which VS Code may refuse without `reset` being told (`DeletionFails`), and then forgets `_lastSyncedTotalMs`, with an await between. Entries carry the time they were written at, for the pruning, and the number of
resets before. The sum over the entries and the dashboard's copy, computed from them, are left out.

**WarmScanDaemon** is auto-refactor's daemon on a POSIX system, with the processes around it. `registry` says who wrote the registry file, `endpoint` whose socket the path
leads to, which both daemons and commands remove whoever owns them. A daemon goes from `starting` (remove the path) over `cleared` and `bound` to `serving` and
`stopping`; `sent` and `received` are the two directions of each client's socket, in order; `pending` is `pendingRequests`, keyed by the request id alone, `work` the
scans that run. A client is `tryWarmScan` (one scan, then close) or a holder that keeps its `DaemonClient`. The commands probe, spawn, poll and stop as
`daemonCmd.ts` does. Timeouts may fire whenever the wait has not been answered, but a boot is taken to last less than the fifty polls, and the idle time (ten minutes) to be
longer than every wait. Left out: Windows' named pipes, protocol versions, malformed lines, a registry that cannot be written.

**CasBackend** is fractal-git's block store, in Rust. A block is its hash; `file` is what each of its three places holds (the whole encoding, the delta encoding with the
extension `pfx`, and the staging file `tmp`, which both share), and a read follows deltas to a whole block through cache and files. A put is split where another process can come
between: the test for existence, the choice of the encoding with the read of the base, the opening of the staging file, the write, the rename. An open file stays open
when it is renamed or replaced (`handle`). `PowerLoss` tears a file or undoes its rename, since nothing is synced; `Crash` ends a process. A process makes one call at a time, and a
read is one step, because the files it reads change only under racing puts. The system may refuse a put its directory, its staging file, the writing (which has then written a part, or nothing) or the renaming (`Refused`). Left out: what the codec computes (the model tells apart what it accepts and rejects), and
reads that the system refuses.

## What the runs check

All bounds are constants of the configuration; sums, counters and clocks are bounded by them in guards or in a named
constraint (`SumsBounded`, `FewInFlight`). Views drop only what influences no later step and what
no property of the run reads, but for its type.

| run | asks | bounds, and why they are enough |
|---|---|---|
| `ring_buffer` | Does the array implement the queue, and do all queries agree? | 4 slots, 3 items: every pointer position, full and empty at each |
| `journal_writer` | Exclusion, accounts of every lost and of every repeated slice, order, no resurrection; does every call settle? | 3 calls in flight (the code can have a flush, an ending session's flush and a truncation), 2 slots and 3 pushes so that the buffer overflows, 2 failures so that a retry fails as well |
| `timer_engine` | Accumulators, conservation, display | clock to 6: a session cut, paused, resumed and cut again, with late timestamps; rounding with unequal shares |
| `activity_watcher` | Dating of idleness, throttling of beats | limits of 2 seconds, clock steps of 1 and 3 so that timers also fire late; locks on either mode |
| `tracking` | No second worked twice or asleep; the session lies in today; the orchestrator follows the engine; no report of idleness lost | clock to 6, in steps of 1, of 2 (a stall, so that timers and heartbeat are late) and of 3 (sleep); a midnight, which a stall or a sleep can cross; limits of 2 seconds, so that a sleep, a midnight and an idle limit fall together and a session is cut and resumed again after each; saves take up to a second, two at a time; truncations fail; locks on either mode. The view drops what the watcher keeps for a mode in which it is never read again. Without any one of the exceptions that the properties make, TLC finds them violated here |
| `timer_orchestrator` | When every call has settled, does the engine count exactly when the workspace is enabled and somebody is there, and does the state say so? | two handlers, a queued operation and a deactivation beside a call outside the queue: every pair of calls can overlap; both toggles and two kinds of period operation (reset and restore differ from `clearHistory` only in the data); both failures of the journal |
| `session_recovery` | Is anything counted twice? What does a crash cost? Is all there after stop? | clock to 5, in steps of one, of two (a stall, after which one slice stands for both ticks) and of three (a sleep); a midnight that a stall can cross; a checkpoint every second tick; two calls in flight; a crash and a restart, and one incident of any kind: an append cut short needs one failure, the retry and a crash to be counted twice. The view drops the times of the last heartbeat and checkpoint where none is running, and what a backup holds while `load` does not read it |
| `storage_coordinator` | Does erased data stay erased, is other data found again, is the backup whole? | an operation, a checkpoint and a save by command in flight together (three writers), one crash, both stores may refuse; every operation that erases |
| `global_aggregator` | Is an entry kept, is a reset final, is a total published in the end? | two windows, one reset, one new period, one save or deletion that fails, an entry that can be stale: the overlaps are between two windows, and a third adds none |
| `warm_scan_daemon` | Can a serving daemon be found, does start succeed, are answers and clients kept apart, does the daemon leave? | two daemons and two commands (the second daemon is where a path is taken over), two clients, one of which keeps its connection, one kill. With `MaxScans = 2` a client scans twice on a connection and the late answer of `keptAfterTimeout` is met, which with one scan does not occur; the safety properties hold there as well (4 million states), and without its condition `AnswersOwnRequest` is violated in 15 steps; the liveness property takes TLC too long at that bound, so the configuration has one scan |
| `cas_backend` | Can what was stored be read, do reads end, when do puts fail? | two processes, two blocks, each of which may be a delta on the other, one loss of power. Longer chains and circles need a third block, which takes TLC beyond minutes with two processes; `cas_delta_depth` has three blocks and one process |

Deadlock checking is off where a bound stops the model (the clock in the tracking, watcher, recovery and aggregator runs, the numbers of processes in the daemon's).
In the others it is on; in `journal_writer` and `timer_orchestrator` this means that a state in which every call waits and none can go on would be reported.

Fairness is assumed in three runs. In `journal_writer`, for `CallsSettle`: a file operation that was started completes or fails, and a
call woken by the release of the mutex gets its turn (strongly fair: promise reactions run in the order of their registration,
so that a waiting call is not overtaken for ever). The event loop and the operating system give both. No claim is made
that failures stop: a failed operation settles its call too. In `global_aggregator`, for `TotalsArePublished`: the scheduler goes on to sync, a save settles (it may fail, but only
`MaxFaults` times in a behaviour), and a reset that has deleted the record goes on. In `warm_scan_daemon`, for `DaemonsLeave`: something that can go on by itself does (`WF_vars(System)`: processes
run, messages are read, timers fire). Nobody has to start, scan or stop, and a client may keep its connection for ever: ten minutes without a message end the daemon all the same. One condition on the system as a whole is enough, as the bounds let no process run for ever.

Type invariants are stated in every module (`TypeOK`; `EngineTypeOK`, `WatcherTypeOK`) and can be added to any of the configurations; where they are part of an inductive invariant they are proved.

Each property has a mutant in `PROJECT.json`, a plausible mistake in the code it is about (a retained pointer, a missing
reset of the watermark, a dropped `Math.max`) under which TLC finds it violated. Mutants stand in the modules just before what they change.

### Conditions

Several promises of the code do not hold without a condition. Where that is so, the model has the event that breaks the promise as a step of
its own, remembers in a history variable that it happened, and the property names it. The runs then show that nothing else breaks it.

| property | holds unless |
|---|---|
| `IdleDatesFromLastActivity` | a tick under a lock on `manual` has taken the lock for activity (`integration/ActivityWatcher.ts:488`): idleness is then dated from the last manual activity, before activity the watcher heard |
| `NothingLostWithoutCause` | the buffer overflowed, or an append continued a line that a failed append had torn (`JournalStorageProvider.ts:79`) |
| `WrittenOnceInOrder` | an append failed: its retry writes the lines that had reached the file again (`JournalWriter.ts:95`), once for each failure (`RepeatedOnlyByRetry`) |
| `DriftOnlyFromLateCut` | a session was cut at a boundary before the latest switch of mode |
| `StateFollowsEngine` | the truncation inside an idle pause rejected (`pauseFailed`, `TimerOrchestrator.ts:207`): the state stays running over a paused engine; or idleness came while a resume was being saved (`pausedResuming`): the pause and the resume then assign the state in the order in which their saves end |
| `IdlenessIsNoticed` | those, a report of idleness that came while a resume was being saved and was dropped (`reportDropped`, `TimerOrchestrator.ts:205`), or a debounce timer that fired late (`lateFlush`, `integration/ActivityWatcher.ts:457`): after a stall the tick finds the watcher idle and the engine already paused, and the timer, which passes on an activity of before the stall, resumes the counting while the watcher stays idle |
| `SleepIsNotWorked`, the non-overlap in `NothingCountedTwice` | a lock was released before the heartbeat had seen the wake-up (`lateUnlock`) |
| `NoDoubleCounting` | an idle pause was dated from before the watermark (`earlyPause`, `SessionManager.ts:341`), or a command saved before or after a session (`lateSave`, `SessionManager.ts:239`); and but for the slices a failed append had written and its retry wrote again (`rewritten`, `cache/JournalWriter.ts:95`), each of which `RecoveryService.ts:106` adds |
| `CrashCostsOnlySlicesInMemory` | the primary save or a truncation failed, `lateSave`, or the crash comes between the truncation and the save of a pause or of a recovery (`Exposed`). What it may cost is named: slices in memory, what came after the last heartbeat, and `uncovered`, the ticks no slice stands for: those of a stall of at most 15 s but the last (`Scheduler.ts:206`), those a rotation after a stall adds before the start of a session resumed since midnight (`SessionManager.ts:269`), and those whose line an unfinished line has spoilt (`JournalStorageProvider.ts:79`) |
| `StopLosesNothingUnlessPrimaryFails` | the write to workspaceState failed |
| `DisabledCountsNothing` | a start and a stop outside the queue overlapped (`overlap`, `TimerOrchestrator.ts:258`); the workspace was disabled while paused, which `onDisableStateChanged` ignores (`disabledPaused`, `:161`); a stop rejected (`stopFailed`, `:145`) |
| `EnabledIsCounting` | `overlap`, `stopFailed`, or a pause or resume assigned its state after a stop or start had changed the engine (`lateHandler`, `:207`) |
| `StateIsTrue` | those, `disabledPaused`, or a pause whose truncation failed (`pauseFailed`) |
| `AbsenceIsNotCounted` | those without `pauseFailed`, or a report of idleness that found the state other than running, or a session begun after it: the watcher does not repeat it (`absenceMissed`, `:205`, `:315`) |
| `ErasedStaysErased` | a save of the old data was in flight when it was erased, or a command saved an engine that had kept it (`oldSaved`, `:324`); the engine kept it because start was refused (`oldKept`); a store refused to write |
| `KeptUnlessErased` | a command saved an engine that was still empty (`emptySaved`, `SessionManager.ts:239`) |
| `BackupIsWhole` | two saves wrote the staging file at once (`twoWriters`, `FileStorageProvider.ts:95`) |
| `EntryKept`, `TotalsArePublished` | two windows synced at once, so that the later save overwrote the earlier (`overlap`, `GlobalAggregator.ts:102`); the entry was pruned; a reset ran beside a sync (`resetOverlap`). It is also silent about entries that a reset has deleted since |
| `ResetIsFinal` | `resetOverlap`, or VS Code refused the deletion, which `delete` logs and does not report (`resetFailed`, `persistence/GlobalStorageProvider.ts:66`): what was counted before the reset stays in the record |
| `ServingIsReachable`, `StartSucceeds` | two commands ran at once (`overlap`); a command took a daemon that was busy for a dead one or for one that had stopped (`busy`, `auto-refactor/src/cli/daemonCmd.ts:131`); for `StartSucceeds`, a daemon was killed meanwhile |
| `AnswersOwnRequest` | a scan timed out on a connection that is kept (`keptAfterTimeout`, `auto-refactor/src/daemon/client.ts:206`) |
| `StoredIsReadable` | two puts raced for the block or one it rests on, or a loss of power damaged one of these |
| `ReadsTerminate` | two puts raced for a block on the circle, or a loss of power undid the rename of one |
| `PutFailsForACause` | two puts of the block were in progress together, or the system refused that put a directory, a write or a renaming (`cas_backend.rs:146`, `:111`, `:116`). What a refused put leaves behind is not an exception: it makes no later put fail |

`MaxIncidents` bounds how many incidents of SessionRecovery happen in a behaviour: one, in `session_recovery`; that no combination
or repetition of them does more harm is proved.

What a race in the block store does: both encodings of a block are staged in `<hash>.tmp`, so one put can publish the half-written file of another, publish it under the
wrong name, or find it gone and fail; and since a put that finds a file reports success without reading it (`cas_backend.rs:138`), no later put repairs what was torn. With a delta published for each of
two blocks on the other, a read recurses until the stack overflows.

### Where the code and its documents disagree

One run ends in a counterexample: `cas_delta_depth`. `put_block_with_base` passes 0 as the depth of the candidate base (`cas_backend.rs:152`), so that the "strict depth guard"
of `delta_codec.rs:10` never refuses, and a block put on a base that is a delta on another becomes the third link of a chain with a limit of one.

Other claims of comments and documents are stated in the modules as well, and TLC refutes them. To see the counterexample, add the name to the configuration.

| claim | configuration | what happens | says who |
|---|---|---|---|
| `AdvanceRemovesOnlyConfirmed` (PROPERTY) | `MCJournalWriter.cfg` | A push overflows the buffer while an append is in flight; `advance` (`cache/JournalWriter.ts:96`) then drops slices nobody wrote. | `cache/JournalWriter.ts:8`, "Two-phase commit invariants guarantee zero data loss on I/O failure" |
| `ConservationOfDuration` (INVARIANT) | `MCActivityTracking.cfg` | A switch of mode between waking up and the heartbeat makes manual + ai exceed the total (`domain/TimerEngine.ts:503`). | `domain/TimerEngine.ts:8`, "Conservation of Duration — totalMs === manualTotalMs + aiTotalMs" |
| `AwayIsNotWorked` (INVARIANT) | `MCActivityTracking.cfg` | Idle time before a midnight or a sleep is counted as worked and as idle (`domain/TimerEngine.ts:386`). | `workspace-timing/README.md:14`, the waiting time of an absence is cut off |
| `IdleRecordsAreAbsences` (INVARIANT) | `MCActivityTracking.cfg` | Two activities during one resume record an absence since the epoch (`application/TimerOrchestrator.ts:197`). | `domain/TimerEngine.ts:432`, which records an absence |
| `CountedOnce` (INVARIANT) | `MCSessionRecovery.cfg` | An append that wrote some lines and was rejected is retried whole (`cache/JournalWriter.ts:95`); after a crash the replay adds the repeated lines (`application/RecoveryService.ts:106`). | `application/SessionManager.ts:8`, "journal replay recovers uncheckpointed deltas on restart without double counting" |
| `StallsSurviveCrash` (INVARIANT) | `MCSessionRecovery.cfg` | A heartbeat that is up to 15 s late pushes one slice of one second (`application/Scheduler.ts:206`): after a crash the rest of the stall is missing from what was counted. | `application/RecoveryService.ts:7`, "Guarantees zero data loss across abrupt IDE termination" |
| `WorkSurvivesCrash` (INVARIANT) | `MCSessionRecovery.cfg` | A crash between an idle pause's truncation and its save loses the session (`application/SessionManager.ts:343`). | `workspace-timing/docs/architecture.md:241` |
| `StopLosesNothing` (INVARIANT) | `MCSessionRecovery.cfg` | After a failed primary save, the next start reads the older primary, not the newer backup (`persistence/StorageCoordinator.ts:89`). | `persistence/StorageCoordinator.ts:51`, `extension.ts:7` |
| `IdleExitOnlyUnconnected` (PROPERTY) | `MCWarmScanDaemon.cfg` | The idle timer shuts a daemon down under a client that keeps its connection and is silent: `scheduleIdle` counts messages, not connections (`auto-refactor/src/daemon/server.ts:470`). `DaemonsLeave` relies on it, with section 5.1 of `auto-refactor/docs/01-architecture/03-daemon-and-ipc.md`, which contradicts the header. | `auto-refactor/src/daemon/server.ts:21`, "idle 10min with no connections or a shutdown signal exits gracefully" |
| `NoOrphanScan` (INVARIANT) | `MCWarmScanDaemon.cfg` | The scan of a client that has left goes on: `handleScan` is called without the signal that `abortSocketPending` raises (`auto-refactor/src/daemon/server.ts:408`). | `auto-refactor/docs/01-architecture/03-daemon-and-ipc.md:176` |

## What is proved

**JournalProofs** is about the ring buffer and the journal writer.

*The writer.* It proves, for any number of calls, slots, pushes and failures, that file operations exclude each other, that no slice is
lost without an overflow or a torn line, that without failures every slice is written at most once and in order, and that
what a truncation erased does not come back. None of these is inductive. `IInv` adds what makes them so:

- `QueueInv`: the buffer is a run of consecutive slices that ends with the newest, so that everything behind it is in the file or accounted for.
- `BatchInv`: while an append is in flight, its batch begins no later than the buffer does and no further back than evictions explain; with a truncation, `EraseInv` says which slices it will erase.
- `OpenLineInv`, `FileBehindPushed`: an unfinished line is the last one, and the file holds only slices that were pushed.
- `AccountInv`, `OrderInv`: the two properties restated over what lies behind the buffer, and over file and batch together.

There is a lemma per action, and lemmas for what the queue's operations and an append to a file with an open line return.

`RepeatedOnlyByRetry` has an invariant of its own on top of these (`RetryInv`): a slice is in the file at most `failures + 1` times, and at most `failures` times while
it is still to be written, so that only an append that fails and has written it can use the difference up.

*The ring buffer.* The array implements the evicting queue, for any capacity and any items, and all queries agree. The invariant `RingIInv` adds to the types that
the write pointer is `count` slots after the read pointer (`PointersAgree`) and that exactly the slots between them hold items (`WindowOccupied`): without the second, `clear` and `consume` could
leave an item that a later window takes in. Every slot the code computes is at most the capacity of places after a slot, so one lemma, `SlotIs`, replaces the modulus by a subtraction; after that the pointers are
linear arithmetic, and the window is a sequence whose change under a push, an eviction and a consumption there is a lemma for each.

**SessionRecoveryProofs** proves the three properties of `session_recovery` for any length of time, any days, any number of calls in flight, of crashes and of incidents. The invariant `IInv` says:

- `Control`: which calls are in flight together (at most one start, one end, one pause; a start beside nothing but saves by command), where each may be (`InPlace`), and what the session then is; and that every tick of the running
  session up to the last heartbeat has its slice in the journal, or is `uncovered`.
- `AllPast`: no data record, in memory, stored or carried by a call, has anything from the future.
- `Filing`: a line is in the file once, and none that is still to be written is there, except those in `rewritten`.
- `AllClean`: every such record counts no tick twice, unless a failed append wrote it and wrote it again, no tick after its watermark that has a slice, and none after the start of its open session, so that neither a replay nor a compensation adds one again. `NoDoubleCounting` follows, whatever save is served last.
- `AllComplete` and `AllSurvive`: what the next process starts with depends on the order in which the saves in flight are served. `Line` says that each of them, and what is stored, has what is owed, except those with a save
  of the end (or of a pause) behind them in the line. For the first that is the whole total (`Complete`); for the second, each tick counted up to the last heartbeat, in the total, as a slice after the watermark, or `uncovered` (`Surviving`).
- `Recent`, `AllWritten`, `AllStarting` are what those rest on: a heartbeat that is due comes after all that is stored, so that its slice is replayed; the backup is only written after the primary; and a recovery is alone and stores what the next one would come to.

Steps are first reduced to what they do to the calls, the session and the disk (`ReadIs` to `HeartbeatIs`), once; each part of the invariant is then preserved by cases over these.

**ActivityTrackingProofs** is about a running session, and about the two classes it is made of.

*The engine.* The properties of `timer_engine` hold for every clock. The argument is one relation, `GoodStep`,
that a call of the engine keeps: the record stays well-typed, the accumulators and the open segment fill the session
(`Filled`), the times per mode do not fall short of the total, and the displayed total does not outrun the clock. There is a lemma per method,
which the handlers' calls use as well. `Filled` alone is not inductive: it needs that idleness began in the past
and that pointers are not in the future. The share of a session's time that a late pause takes from each mode is rounded; a lemma bounds the rounding.

*The watcher.* Both properties of `activity_watcher` hold for every clock, idle limit and cooldown, whatever modes commands lock.
`Dated` is what makes the dating inductive: a lock keeps the mode on the locked one, and in manual mode the last activity was manual or a tick under a lock, so that activity heard under a lock on `ai` cannot leave the two times apart.
`Debounced` is the same for the beats: in both windows a pending timer is later than the beat before it. So a mode that has been passed on once since the clock moved has a beat of that moment, and only the tick, once, passes it on again (`Throttled`).

*The session.* All five properties of `tracking` hold, for any clock and its steps, idle limit, cooldown, length of a sleep, midnights, locks and number of handlers in flight. The invariant `TInv` has four parts.

- `Observing`: what the watcher remembers is no later than the last heartbeat, or is now; a debounce timer that an idle watcher has left is late (`Fresh`); an agent's silence found late began before the stall (`AgentSilent`).
  A lemma for each method of the watcher (`ManualSteady` to `TickSteady`) keeps it and says what the listener is told (`Answers`).
- `Geometry`: the recorded sessions, the open one and the sleeps on the line of time. Recorded sessions and sleeps do not meet and end before the open one starts, and the total is the sum of their lengths.
  A lemma for each way to change them (`PauseGeometry`, `ResumeGeometry`, `CutGeometry`, `SleepGeometry`, `ClockGeometry`), over any timer; the sum is `MapThenSumSet`, a fold, whose step (`SumWith`) is proved by
  induction over finite sets, with a least counterexample in the place of the induction scheme. The sum is right with every mishap; that nothing overlaps needs that no lock was released beside a late heartbeat (`Orderly`).
- `Today`: the open session began in the day of the last heartbeat, as a day goes on until a midnight is past (`DayGrows`).
- `Followed`, `Noticed` and `HeardSince`: at most one pause is being saved, beside no resume; an idle watcher's report is being handled or has been; and while a pause is being saved the watcher has heard somebody within the wait, or is idle.

The last of these needs `QuickSaves`, a hypothesis of `StateFollows` and `IdlenessNoticed`: a save takes less than the cooldown (at least 10 s) and the idle limit (at least a minute, or off). Otherwise the watcher can fall idle a second time during
a pause. `IdlenessNoticed` also needs an idle limit other than one unit, of a second, which the setting in minutes cannot give: a debounce timer would then be due, without being late, when the watcher falls idle.
Two of the mishaps were found by this proof. The runs of an earlier configuration, with a longer idle limit, were too short for a pause being saved, a signal, a stall and a late timer in one behaviour.

**StorageCoordinatorProofs** proves, for any number of saves, crashes and failures, that the backup is all or nothing (`BackupIsWhole`) as long as no two saves have been in the staging file
together. That is inductive only with `WriteDiscipline`: at most one save is between the opening of the staging file and its renaming, and the staging file of one about to rename is whole. A crash between the two leaves
half a staging file, which the next save truncates.
The other two properties rest on what a call holds while it runs (`CallInv`): data exactly while a save is in flight, or what was recovered until its session starts. For `KeptUnlessErased` (`KeptInv`), the primary
has old data until an erasure begins, as whatever is saved comes from an engine with a session or from the primary itself. For `ErasedStaysErased` (`ErasedInv`), an erasure that no save crossed leaves no old data in flight
(`NoOldInFlight`), takes it from the primary, then from the backup when the eraser's own save or another has renamed the staging file (`StoresErased`), and it is gone from both and from the engine when the operation is over (`NothingOld`).

**TimerOrchestratorProofs** proves the four properties of `timer_orchestrator` for any number of handlers and of calls outside the queue. They are about settled states, so the invariant says what the calls in flight still owe:
a session that should not be is stopped or will be (`StopComes`); one that should be is there, or a start or a period operation will begin it (`StartComes`); the state is behind the engine only while a handler saves (`Following`); and an
absence that was reported has paused or stopped the engine, or its stop is on the way (`Away`). What the threads may do at the same time (`Places`) and that the queue runs one operation at a time come before all of it.

**WarmScanDaemonProofs** proves the four safety properties of `warm_scan_daemon` for any numbers of daemons, commands, clients, scans and kills. As long as no commands overlap and none mistakes a busy daemon, there is one command and one daemon at a time
(`OneCommand`), who wrote the registry file is who holds the socket path, and a command that waits for a daemon waits for one that nothing is there to shut down (`Fresh`, `Awaited`), which is why start succeeds. Messages on a
connection take turns (`InTurn`): nothing of a client is under way but what its call waits for, so that request ids that are the same for all clients do no harm. `Unhurried` says that an idle timer that has run down finds no scan
somebody waits for: the wait of a client is shorter than the idle time.

**CasBackendProofs** proves, for any blocks, processes, refusals, crashes and losses of power, that a put to which the system refuses nothing fails only when two puts of the block were in progress together. `Discipline` is what makes it inductive:
of two puts of one block in progress, the later has recorded the race; and what an unraced put has staged is there until it renames it. So nothing that a crash or a refused put leaves behind in the staging file can make a later put fail.
`StoredIsReadable` and `ReadsTerminate` speak of chains of deltas of any length. The chain of a block is the least closed set with it (`IsReach`), and a read's steps through the places it looks at cannot exceed the number of blocks: both by induction,
through a least counterexample. The invariant is `Sound`: whatever anything rests on (a confirmed, cached or filed block, or the base of a delta in a file or in progress: `Relied`) leads a read to an end. A put that no other races with
has found no file of its block (`Alone`), so the file it publishes cannot close a circle or replace what a chain went through; one that is raced, or that a loss of power damages, is itself the end (`ReadEnds`).

**GlobalAggregatorProofs** proves `EntryKept` and `ResetIsFinal` for any number of windows, resets, periods, and saves and deletions that fail. The invariant is about the record a window has loaded and not saved: as long as no two syncs overlapped and
nothing was pruned or reset beside one, it is the stored record but for the window's own entry (`HeldIsCurrent`), and it has nothing from before a reset whose deletion worked (`HeldIsRecent`), so that saving it neither takes away nor brings back.

The assumptions are those on the constants (`CapacityAssumption`, `RingCapacityAssumption`, `UndefinedAssumption`, `BoundsAssumption`, `NoOneAssumption`, `TornAssumption`, `MaxTimeAssumption`, `WatcherAssumption`, `TrackingAssumption`, `OrchestratorAssumption`, `RecoveryAssumption`, `StorageAssumption`, `DaemonAssumption`, `CasAssumption`);
TLC evaluates them in every run of the modules that extend these. The theorems about the engine rest on `MaxTimeAssumption` alone, those about the watcher on that and `WatcherAssumption`.

The library's induction theorems take an operator as a parameter and cannot be used; where a proof needs induction (sums, counting, chains) it takes a least counterexample from the well-foundedness of the natural numbers (`Least`, `WFMin`).

Only model-checked: the liveness properties `CallsSettle`, `TotalsArePublished` and `DaemonsLeave`, which are out of the prover's reach.

## Not modelled

- The counters of today in TimerEngine, `replaceData` and `reset` inside the engine. They are a second view of the sessions, and a module of their own.
- Snapshots, their pruning, and a restore that fails. The operations are in TimerOrchestrator and StorageCoordinator for their order and for the age of their data.
- Folding, aggregation, export, dashboard, localisation: pure functions or user interface.
- auto-refactor's analyzers, scoring and native operators, which are most of the repository's lines: functions of source text, with their own corpora of tests and no state between calls.
- auto-refactor's resilience layer and worker scheduler; fractal-git's topology, write-ahead log, references and index: they have state, see the plan.
- WebGames, scripts, documents and archived code.

## Plan

1. Done: RingBuffer and EvictingQueue, JournalWriter, TimerEngine, ActivityWatcher, ActivityTracking, SessionRecovery, TimerOrchestrator, StorageCoordinator, GlobalAggregator, WarmScanDaemon, CasBackend; proofs of the safety properties of all of them.
2. `TodayCounters`: the incremental counters of the day as a refinement of sums over the records, across midnights, sleeps and folding.
3. fractal-git's promotion ledger over its write-ahead log and workspace states; auto-refactor's hibernation machine and worker scheduler.
