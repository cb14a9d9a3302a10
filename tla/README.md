# rrjj in TLA+

rrjj records one directory tree: it watches it for activity, takes checkpoints of
the complete tree into a jj repository, and emits a numbered timeline of events
that a reader can follow, open and materialize. This directory models the
recorder and its sinks in TLA+, checks them with TLC and proves their safety
properties with TLAPS. Paths below are relative to the repository.

## 1. The system

### Components

| Component | Code | State | Operations | What makes it correct |
|---|---|---|---|---|
| Audit accumulator | `rrjj-core/src/lib.rs` 99-219 | paths touched, raw count, overflow notices, limit flag | `observe`, `report_overflow`, `drain` | nothing is folded in without leaving it dirty; its caps are kept and reported |
| Coordinator task | same, 310-601 | sequence, retained audit window, retained snapshot event, pending and force flags, paused flag | the commands Snap, Mark, Flush, Pause, Resume, Shutdown, Status | the sequence has no gap; no change and no audit count is lost; marks and flushes name a published checkpoint; an overflow forces a full scan |
| jj recorder | same, 785-960 | current operation, previous tree and commit | `capture`: scan, commit, finish | an operation is published or unknown to every event |
| Handle | same, 221-283 | command channel, `paused` watch channel | one method per command | every request is answered; a pause holds until resumed |
| Watcher task | same, 603-708 | native watch, deadlines, retry deadline | deliver, arm, fire, retry, stop | a change is eventually checkpointed |
| Path filters | same | the filter | keep or drop a notification | - |
| Durable session sink | `rrjj-sinks/src/durable.rs` | - | `emit`, `flush_session` | a flush is Ok only when all three parts are durable, checkpoints first |
| NDJSON journal | `rrjj-sinks/src/journal.rs` | spool file, accepted events | open, append, sync, `events_through` | the file holds what was accepted, and a later daemon does not damage it |
| Git checkpoint sink | `rrjj-sinks/src/git.rs` | last pushed commit, cursor file | tip read, push with lease | the ref only advances, and never over another writer's |
| HTTP event sink | `rrjj-sinks/src/http.rs` | delivered cursor | batches, attempts, acknowledgements | the cursor is never ahead of the endpoint; the watermark ends at a flush |
| Directory session sink | `rrjj-sinks/src/local.rs` | spool, manifest, session directory | `emit`, `flush_session` | what a flush promised survives a power failure |
| Reader | `rrjj-reader/src/lib.rs` | none | `open`, `diff`, `materialize` | a session that can be found can be read |
| Broadcast sink, SSE bridge, live view | `rrjj-sinks/src/broadcast.rs`, `rrjj/src/main.rs`, `ui/scrubber` | subscribers' queues, the view's timeline | send, lag, reconnect, append, load a file | the view shows accepted events of one recording without a gap, or asks for a resync |
| Daemon and control socket | `rrjj/src/main.rs` | socket path, shadow, connections | start, serve, stop, be killed | an active socket is kept, a stale one is no obstacle, one recorder per shadow; requests and stops end |
| Schema | `rrjj-schema/src/lib.rs` | - | event types | - |

### How they interact

The daemon builds a sink (directory, or journal + Git + HTTP), wraps it in the
broadcast sink and calls `start()`. The coordinator captures the baseline, emits
`session_start` and only then registers the native watch. The watcher's callback
thread fills the accumulator under a lock; the watcher task sees that it is dirty
and sends Snap. Control clients send commands over the same channel and wait for
a one-shot reply. The coordinator serves one command at a time and awaits the
sink (`emit`, `flush_session`) and the recorder (`capture`) in the middle of it.
Readers and subscribers look at what the sinks publish while they publish it.

### What is hard

- Between any two awaits of one command the tree changes, callbacks fold in
  notifications and calls fail; the coordinator keeps the retained snapshot event,
  the retained window and three flags in step with that.
- Two owners of "paused", set in different orders.
- A deadline that exists only while somebody remembers why.
- Requests and answers lost, late and repeated between three stores that must be
  updated in an order.
- Power failures between writes, renames and directory syncs, with incremental
  publication that skips what is already there.
- A reader beside all of that, and a browser that misses messages and reconnects.
- Daemons that meet the files of earlier ones: spools, cursors, sockets, shadows.

`PROJECT.json` lists each hazard at its line with the properties that watch it.

## 2. The modules

| Module | Models | Used by |
|---|---|---|
| `DurableTimeline` | the abstract promise: a timeline that only grows, and a watermark that only advances over stored checkpoints | refined by three modules |
| `Coordinator` | accumulator, coordinator task, recorder; the sink as the contract of its trait | `MCCoordinator`, `Coordinator_proofs` |
| `CoordinatorHandle` | extends `Coordinator` with the command channel, control clients, the watcher task and fairness | `MCCoordinatorHandle` |
| `RemotePublication` | `DurableSessionSink` over journal, Git and HTTP, with the network and both servers | `MCRemotePublication` |
| `DirectorySession` | `DirectorySessionSink` with power failures and a reader | `MCDirectorySession` |
| `LocalJournal` | the spool file of all three durable modes over several daemons: open, append, sync, failures, power failures | `LiveFeed`, `MCLocalJournal` |
| `LiveFeed` | extends `LocalJournal` with `BroadcastSink`, the SSE bridge and the browser's timeline | `MCLiveFeed` |
| `ControlSocket` | daemons on one socket path: start-up, service, shutdown, kill; control requests | `MCControlSocket` |
| `Coordinator_proofs` | theorems about `Coordinator`: types, sequence, changes, audit counts, retries | `CoordinatorOrder_proofs`, `CoordinatorHandle_proofs` |
| `CoordinatorOrder_proofs` | theorems about `Coordinator`: marks, overflows, the watermark, the refinement | - |
| `CoordinatorHandle_proofs` | theorems about `CoordinatorHandle`, and what is proved of `Coordinator` behind the channel | - |
| `RemotePublication_proofs` | theorems about `RemotePublication` | - |
| `DirectorySession_proofs` | theorems about `DirectorySession` | - |
| `LiveFeed_proofs` | theorems about `LocalJournal` and `LiveFeed` | - |
| `ControlSocket_proofs` | theorems about `ControlSocket` | - |
| `NaturalSets` | lemmas on the greatest element of a set of numbers | two of the proof modules |

### Coordinator

One command is several actions, because every `.await` and lock lets others move;
`pc` names the await.

| `pc` | the task is |
|---|---|
| `idle` | in `recv()` |
| `loop` | at the test of `while self.pending_snapshot` |
| `snapshot` | at the start of `snapshot()`, before the test for a retained event |
| `audit` | in `emit_overflows()` and `emit_audit()`, then about to scan |
| `commit` | in `capture()`, the tree scanned and not committed |
| `emit` | offering the new snapshot event to the sink |
| `final` | after the loop of `mark()`, `flush()`, `finish()` |
| `flush`, `session` | in `flush_durable()`, before its event and before `flush_session()` |

`audit` is the coordinator's window: `touched_paths`, `raw_events`,
`pending_overflows` (counted; `own` is the place among them of the coordinator's
own path-limit notice, 0 for none), `path_limit_reported` (`limited`),
`force_full_scan` (`force`) and `pending_snapshot` (`pending`). `audit_started_at`
is Some exactly when paths are held, because a path is what starts it.
`pendingEvent` is `pending_snapshot_event`, `recorder` the fields `repo`'s operation,
`previous_tree` and `previous_commit`. A version of the tree is a number; a jj
transaction and the commit it writes share one. `DrainAudit` gives a set of
windows because the order of a path map decides which paths a full window keeps.
`CallFails` is the `?` of any awaited call; the error class (`Errors`) matters to
the watcher only.

Two constants switch behaviours of the code off: `CleanSnap` (a `snap` request
when nothing is pending) and `TornCapture` (a capture that fails after its commit).
Both are behaviours the code has. The run `order` switches them off to show that
they are the only ways to break its properties; section 3 says what each of them
breaks, and section 4 which theorems need which of them off.

### CoordinatorHandle

`rx` is the channel, `serving` the sender of the command being served, `client[c]`
where a connection is inside `pause()` or `resume()` or waiting for a reply
(`refused` is idle after a request that failed),
`watchPaused` the `paused` watch channel, `watcher` and `retryDue` the watcher
task. Deadlines are untimed: an armed one may fire at any later moment, so nothing
depends on 1500 ms and 10 s being far apart. `Serve` is a step of `Coordinator`
composed with the delivery of its reply.

### RemotePublication

`pc` follows `flush_session()`: `tip` (journal synced, tip being read), `push`,
`pushed` (cursor about to be written), `post`, `await`. Commits are numbered along
the recorder's line of descent, so a ref at commit *c* makes every commit up to *c*
reachable. An event is the commit it names and its size; `BatchEnd` is `take_batch()`,
the most that fits both limits, with brackets and commas counted into the sizes.
`net` holds posted batches the endpoint has not handled: a batch stays
there when its sender has given up, which is how late and repeated requests arise.
The endpoint is honest and as `schema/v0.md` describes it. `LostPushReply` and
`ForeignWriter` switch the two environments the code distinguishes; `Cursors` says
what the HTTP cursor file may hold when the daemon starts.

### DirectorySession

The file system is modelled by what a power failure may take: a rename or a link
is visible at once and safe once its directory is synced. `store`, `safe`, `intact`
and `lost` are the immutable repository objects placed, with a safe directory
entry, with safe content, and with lost content; `manifests` are the manifests a
power failure may leave. `promised` is the watermark of the last flush that
returned Ok and has no counterpart in the code. `LinksSynced` and `TornSync` are
the two conditions the guarantee rests on; section 3 says how it fails without. The other mutable files of the repository are left out: the
reader loads operations by their id and looks at no head.

### LocalJournal

`lines` are the file's complete lines, `frag` what follows its last newline, `safe` how
many lines a power failure cannot take. A line is an event or `Torn`, which is no JSON;
`frag` is nothing, `Torn`, or an event that lacks only its newline, which `parseNdjson()`
reads (`Text`) and `parse_event_spool()` refuses (`Parses`). `Open` is the three ways to
open a spool, `AppendLine` the write, `Accept` the sync and what follows it; `WriteFails`
may leave part of a line, `SyncFails` the whole of it. `Allowed` is the limit, which the
spool of a daemon without durable backend does not have (`main.rs` 426). `backend` is the durable mode:
`NdjsonSink` without a session (`spool`) and with one (`remote`), and
`DirectorySessionSink` (`local`); where they differ the definitions say so (`Takes` is
their different test before a write). The coordinator appears as what it does to a
spool: it numbers events from 0 in every daemon and offers a refused number again,
with the same or another body.

`sound`, `vouched` and `offered` are history: `offered` are the events whose `emit()`
returned Ok, `vouched` those accepted while nothing had happened that the sink does
not claim to handle, which is a file continued without looking at it, and a torn
write in a sink without a failed state.

### LiveFeed

`published` counts what this daemon has sent; `queue` is what the broadcast channel
and the connection hold for the one `EventSource`, `lagged` tokio's memory of what it
dropped. `view` is `timeline-model.mjs`'s timeline, `loads` the texts, line by
line, whose `await file.text()` has not returned. The page's own attempt to connect is a click.
The death of a daemon loses what its connections still carried.

### ControlSocket

`phase[d]` is how far `run()` is: `lstat`, `probe`, `remove`, `validate`, `init`, `starting`,
`bind`, `serving`, `stopping`, `finishing`. `path` is the socket's directory
entry, which outlives its daemon; a probe finds it active when its owner is `serving`.
`chan[d]` is the coordinator's bounded command channel with requests of connections,
the watcher and the stop itself. The coordinator's work is one step (`Execute`), as
`Coordinator` has it in full. No HTTP address is configured: its listener, bound
before everything else, would be one more thing that keeps two daemons apart.
`alone`, `refused`, `killed` and `met` are history for the properties.

## 3. What TLC checks

All bounds are on what comes from outside (writes, commands, failures); what the
code does with it is explored completely. `CHECK_DEADLOCK FALSE` is set because a
coordinator that has shut down, and one out of inputs, may stay where they are.

| Run | Question | Bounds |
|---|---|---|
| `wide` | do the sequence, changes, audit counts and the retained event survive everything, is an overflow answered by a full scan, and is `DurableTimeline` implemented? | 2 paths, both caps 1, 2 writes, 3 commands, 2 failures, both switches on |
| `order` | do marks, flushes and the watermark name published checkpoints, and can a retained event always be retried? | 2 paths, a path cap of 1, 2 reports, 2 writes, 3 commands, 2 failures, switches off |
| `watcher` | are requests answered and changes published while calls fail, and do status and watcher agree? | 2 writes, 2 failures of either class, 2 requests of a pausing and a snapping client |
| `remote` | what the endpoint, the ref and the cursors may hold at any time | batches of 2 events and 2 units of size, events of size 1 to 3, 1 retry, 3 snapshots, 3 flushes, 3 failures, foreign writer |
| `publish` | does a flush survive power failures and a half-done flush, and can a reader always read? | 3 operations, 6 events, 2 failures |
| `feed` | what do the sinks promise of a spool several daemons were given, and what may a browser show? | all three modes, 2 daemons of 3 events, 2 bodies (symmetric), spool of 3 lines, 1 failure, channel of 1, one file being read |
| `socket` | can two daemons on one path, or one shadow, harm each other, and does everything end? | 2 daemons, 2 shadows, 3 launches, 2 clients, channel of 1 |

The remaining runs expect a violation; each is a disagreement between the code and
a sentence of its documentation or one of its assertions, quoted in `PROJECT.json`:

| Run | Property | What happens |
|---|---|---|
| `stalepending` | `PendingStaysNext` | a snapshot retained without a pending flag is overtaken by a mark, can then never be emitted, and makes every later snapshot fail |
| `lostpush` | `NoSelfConflict` | a lost push answer and one more snapshot leave the sink in conflict with itself |
| `stalecursor` | `FlushMeansDurable` | a daemon with a new spool beside an old HTTP cursor reports durable what it never sent |
| `resync` | `FlushSurvives` | a file placed by a failed flush is never made safe by the next |
| `tornretry` | `SpoolHoldsAccepted` | the retry after a torn write is glued to the fragment and accepted |

The same cfg files with another value show what else the conditions of the passing
runs are for:

| Cfg | With | Breaks | Because |
|---|---|---|---|
| `MCCoordinator_order` | `CleanSnap = TRUE` | `NamesLastCheckpoint`, `PendingStaysNext` | the mark that overtakes the retained snapshot (`lib.rs` 487, 454) names its operation |
| `MCCoordinator_order` | `TornCapture = TRUE` | `OpsAreIndexed` | a capture that fails after its commit (`lib.rs` 893) leaves an operation that later events name and none publishes; a flush can make them durable |
| `MCCoordinatorHandle_watcher` | `Roles` giving both clients `pause` and `resume` | `PauseAgrees` | one client's late `resume()` (`lib.rs` 263) undoes another's pause in the watcher, while status says paused |
| `MCCoordinatorHandle_watcher` | `mark` or `flush` in `Roles` | `EventuallyPublished` | the run `stalepending` again: the watcher retries for ever |
| `MCRemotePublication_lostpush` | `LostPushReply = FALSE` | nothing | every other failure can be retried |
| `MCDirectorySession_publish` | `LinksSynced = FALSE` | `FlushSurvives`, `ReaderNeverFails` | hard-linked files (`local.rs` 380) are only as durable as jj and Git made them |

A paused coordinator may take one automatic checkpoint whose deadline fired before
the pause: `Fire` does not look at `watchPaused`, nor `Receive("snap")` at `paused`,
as the code does not.

What the properties leave open, and why:

- `EventuallyPublished` ends with `ToldClient`: a client's own `snap` or `resume` takes the
  changes out of the accumulator, and when it fails no deadline is left to the watcher;
  the change waits for the next notification. The client has been told.
- A capture that fails after its commit (`TornCapture`) is in `wide` and not in `order`: no
  property that holds speaks of the operation it leaves. The next snapshot names it as its
  `parent_op` (`lib.rs` 862), a flush makes that durable, and the reader refuses it with
  `UnknownOperation` (`rrjj-reader/src/lib.rs` 218), where `README.md` 7-9 has every
  operation through the watermark opened and diffed.
- `OverflowForcesFullScan` speaks of the notices that a drained batch brings, which set
  `force_full_scan` (`lib.rs` 443). When the retained window reaches its own path limit
  (`lib.rs` 434) the coordinator adds a notice of its own, whose event announces the recovery
  `full_scan_snapshot` too and forces none, where `README.md` 67-72 and `schema/v0.md` 78-81
  have every limit and every overflow recovered by a full scan.
- Every run sets `LinksSynced`: what a hard-linked file holds after a power failure depends
  on jj and Git, not on this code, and no property here speaks for them.
- The passing run of `DirectorySession` excludes flushes that fail between placing files
  and syncing directories (`TornSync`), and that of `RemotePublication` cursor files of
  other sessions (`Cursors`); the runs `resync` and `stalecursor` show what they do.
- `PauseAgrees` excepts a failed resume, which unpauses the coordinator (`lib.rs` 390)
  and leaves the watcher paused.
- `LoneDaemonServes` speaks of daemons started while no other process of the path
  existed (`alone`). A daemon started while another is stopping takes its socket for
  stale, binds its own, and loses it to the other's `remove_file()` (`main.rs` 485).
- `ViewIsSegment` excepts a daemon that was given an earlier session id and continues
  with the very number that comes next: the timeline compares session and number only.
- `SpoolWithinLimit` speaks of the directory sink. `NdjsonSink` counts a line after its
  sync, so a failed append that left something lets the file pass `max_spool_bytes`; and
  without durable backend it has no limit: `main.rs` 426 opens that spool with
  `NdjsonSink::create()`, which passes `u64::MAX` (`journal.rs` 30-32), so
  `--max-spool-bytes` is accepted and ignored in the one mode whose "bounded NDJSON spool"
  `README.md` 106-107 speaks of.

Why the bounds are enough. Two paths and a cap of one reach both path limits and
the merge that drops a path; two failures let a retry fail again and let two
different calls fail; three commands are what it takes to retain an event, overtake
it and meet it again, and every action of the module fires in `wide`. Three flushes and three
failures let a batch of a failed flush arrive during the next one, twice; sizes 1 to 3
against 2 make a batch end by either limit and an event fit into none. Two daemons on a
spool are a recording and one that meets its remains, a third line is where two daemons'
numbers can first interleave, one failure is a torn append, a refused sync or a power cut (the
theorems of section 4 say that no number of them matters), and a channel of one event lags at the second. Events with one number differ in a
body that is only compared, so the bodies of `feed` are interchangeable (`BodySymmetry`;
the properties are all invariants). Three launches
let a daemon be killed, its successor find the stale socket, and a third come between. Three
operations and two failures give a failed flush between two successful ones with a
power failure after each. In the run of the handle the coordinator's own command
counter (20) is a cap that no behaviour reaches.

Mutants. Each property of a passing run has a mutant: a definition replaced by the
slip a plausible bug would be (`..._Unchecked`, `..._Skipped`; they stand before the
definition they replace, marked "Slip"), for which TLC finds the property violated.

### Fairness

`HandleFairSpec` assumes weak fairness of the tasks tokio runs (`Recv`, `Serve`, the
watcher's `Arm` and `Fire`, the second half of a `pause()` or `resume()` already
begun) and of the OS delivering the notifications it has queued. Nothing is assumed
of the workload or of what clients ask. Calls fail at most `MaxFaults` times, so a
call retried for ever does succeed in the end; with failures for ever no
checkpointing can be promised. Writes are finite in number too: under a workload
that never rests the loops of `mark()` and `flush()` need not end, which is listed
as a hazard and not yet checked.

In `ControlSocket` every step of a daemon that is alive is weakly fair. Two steps wait
for room in the command channel, a connection's and the stop's; tokio's channel
hands room out in the order it was asked for, so these are strongly fair. Launches,
signals, kills and clients' requests are never assumed to happen.

## 4. What is proved

Every invariant and every action property of a passing run is a theorem, and so are the
three refinements of `DurableTimeline`: for every value of the constants that satisfies
the modules' assumptions, so for any caps, numbers of clients, daemons, failures,
snapshots, flushes and events. Some theorems assume more, and say so in their statement:

| Assumption | Theorems | Why |
|---|---|---|
| `~CleanSnap` | `RetryStaysNext` | the run `stalepending` violates it otherwise |
| `~CleanSnap`, `~TornCapture` | `MarksNameNewest`, `OperationsIndexed`, `WatermarkNamesCheckpoint` | section 3: either of them lets an event name an operation that is not the newest, or none that is published |
| `Cursors \subseteq {0}` | `CursorHonest`, `FlushIsDurable` | the run `stalecursor` |
| `LinksSynced`, `~TornSync` | `ReaderSucceeds`, `PromiseSurvives`, `SessionImplementsTimeline` | the run `resync`, and section 3 for hard links |
| `OnlyPauser(P)` | `PauseFlagsAgree` | section 3: with two clients that pause, one's late `resume()` undoes the other's pause |

These are the conditions the passing runs are set to, and what a violation run, or the
second table of section 3, shows the property to fail without.

The invariants the inductions go over are defined at the end of each component's
module, where TLC has checked them on the component's run.

### Coordinator

From: caps positive, paths finite, switches Boolean, bounds natural numbers.

| Theorem | States | By |
|---|---|---|
| `TypeCorrect` | `TypeOK` | - |
| `SequenceContiguous` | `JournalContiguous` | `EventInv` |
| `ChangesKept` | `NoLostChange` | `ChangeInv`, `EventInv` |
| `AuditContextKept` | `AuditConserved` | `AuditInv`, `EventInv` |
| `PendingRetried` | `PendingRetriedExactly` | `EventInv` |
| `CoordinatorImplementsTimeline` | `ImplementsTimeline` | `CommitInv` |
| `LossForcesFullScan` | `OverflowForcesFullScan` | `ScanInv` |
| `RetryStaysNext` | `PendingStaysNext` | `OrderInv` |
| `MarksNameNewest`, `OperationsIndexed`, `WatermarkNamesCheckpoint` | `NamesLastCheckpoint`, `OpsAreIndexed`, `WatermarkIsCheckpoint` | `OrderInv`, `IndexInv` |

The first four and the last ones rest on `Invariance`, an induction over `Inv == TypeOK
/\ ChangeInv /\ EventInv`. `NoLostChange` is not inductive: it speaks of the newest
checkpoint in the journal, while a step may hold a scanned tree not yet committed, a
commit not yet published, or a window not yet emitted.

- `EventInv` ties the journal to the task: the sequence counts the journal; in the
  `emit` phase an event is retained, in `audit` and `commit` none is; when none is
  retained the recorder's tree is the newest published one, and otherwise it is the
  tree of the retained event.
- `ChangeInv` says who still knows. `Current(t)` means that tree *t* is the tree as it
  stands or a notification is queued or folded in. The recorder's tree is current or a
  snapshot is pending; while an event is retained it is current or the window holds
  something, which is what `snapshot()` recomputes the pending flag from; a scanned tree is
  current; from the scan on the window is empty.
- `AuditInv`: the journal's count is the size of a set, `Reported`, that an accepted
  `touched_paths` event extends by as many pairs as it counts.
- `CommitInv`: no event, and no watermark, names a commit that is not made; the journal's
  commits never pass the recorder's.
- `ScanInv`: while the journal has told of lost notifications and no full scan has
  followed, the forced and the pending flag are set and a retained event is a full scan;
  every notice held forces one, but for the coordinator's own (`NoticesForce`); and the
  loops of `mark()`, `flush()` and `finish()` end with nothing pending.
- `OrderInv`: who holds an event, or is about to take a checkpoint, has a snapshot pending;
  so no mark gets between a checkpoint and its event.
- `IndexInv`: the recorder's operation is that of the newest checkpoint in the journal or
  of the event retained for it.

The lemmas below them say what the operators do: `FoldDirty` (a notification always
leaves the accumulator dirty), `DrainHolds` (draining hands everything over, sets
pending exactly when something is held, and forces a scan for every notice it was handed),
`AcceptStep` and `PublishedIsNewest` (the journal's newest checkpoint),
`ChangeAfterSnapshot` (both ways out of `snapshot()`), `AcceptReports` (what an event adds).

### CoordinatorHandle

| Theorem | States | By |
|---|---|---|
| `PauseFlagsAgree` | `PauseAgrees` | `HandleInv(P)` |
| `ServedSequence`, `ServedAudit` | `JournalContiguous`, `AuditConserved` | `EventInv`, `AuditInv` |
| `ServedChanges` | `NoLostChange` until the watcher has stopped | `WatcherInv`, `ChangeInv` |

`PauseFlagsAgree` is for any clients of which one, P, pauses and resumes and asks for
nothing else. `HandleInv(P)` follows its one request: `RequestInv` says that a
request in the channel or being served has its client waiting and is its only one, so
that no other request of P can overtake it; `PauseInv` that the watch channel is set
before the coordinator is told and cleared after it has answered. `TaskSeen` reduces a step
of the coordinator task, whichever of fifteen it is, to what its clients see of it.

The other three carry theorems over `Spec` to the composition: each of its steps is one of
the coordinator's, or none of them, or a write that nobody is told of (`HandleDrives`).
Such a write comes only after the watcher has stopped, and `WatcherInv` says that it
then never runs again, because it has one request under way at most.

### RemotePublication

From batch limits, sizes and retries that are numbers, the first two positive.

| Theorem | States | By |
|---|---|---|
| `PublicationTypes` | `TypeOK` | `FlushInv` |
| `StoredCommitsNamed` | `EventsNameStoredCommits` | `FlushInv`, `RefInv`, `StoreInv` |
| `WatermarkAtFlush` | `WatermarkEndsAtFlush` | the same |
| `RefNeverBack` | `RefAdvancesOnly` | the same |
| `PublicationImplementsTimeline` | `ImplementsTimeline` | the same |
| `CursorHonest`, `FlushIsDurable` | `CursorIsHonest`, `FlushMeansDurable` | and `ClientInv` |

`FlushInv` says where a flush stands: the journal ends with its event, past the push the ref
is the recorder's and at the newest commit, and while a batch is posted there is
something to send. `RefInv`: no commit is named or pushed before it is made. `StoreInv`
extends this to the network: what a batch still under way, whichever flush posted it,
tells the endpoint is in the journal and stored on the ref, and a watermark it carries
ends at a flush. `ClientInv`: the cursor, and any answer under way, are behind the
endpoint. The lemmas of `NaturalSets` are needed for `take_batch()`, the greatest batch that
fits, and for an endpoint that keeps the greater of two positions.

### DirectorySession

| Theorem | States | By |
|---|---|---|
| `DirectoryTypes` | `TypeOK` | `SpoolInv` |
| `ReaderSucceeds` | `ReaderNeverFails` | `EventsInv`, `RepoInv`, `ManifestInv` |
| `PromiseSurvives` | `FlushSurvives` | the same |
| `SessionImplementsTimeline` | `ImplementsTimeline` | the same |

`SpoolInv` numbers the spool and ties its length to what the sink counts, `EventsInv` says
that an events object holds what its name says, and that the name a flush will use is new,
`RepoInv` that outside the repository pass every object in place is safe and behind it every
operation is there, and `ManifestInv` that every manifest a reader may find, now or after a power
failure, is `Secured`: its events object is safe and so are the operations it names.
The order of the writes is what makes `ManifestInv` inductive: a manifest appears only
when all it names is secured, and nothing secured is taken back.

### LocalJournal and LiveFeed

The first four are about `JournalSpec`, the journal alone, and hold of the feed because
`FeedSpec` implies it (`FeedIsJournal`). From `JournalAssumption` and `MarkAssumption`: what
stands for a torn line, and for none, is no event, and the two differ.

| Theorem | States | By |
|---|---|---|
| `AcceptedSurvive` | `AcceptedStayReadable` | `DaemonInv`, `SoundInv` |
| `NumberedFilesAreRecordings` | `NumberedIsOneRecording` | `OwnFileInv`, `PrefixInv` |
| `OneDaemonPerJournal` | `JournalOfOneDaemon` | `OneDaemonInv` |
| `SpoolBounded` | `SpoolWithinLimit` | `LimitInv` |
| `FeedTypeCorrect` | `FeedTypeOK` | `ChannelInv`, `FileInv` |
| `ShownWasAccepted` | `ShownIsRecorded` | `ChannelInv`, `FileInv` |
| `ViewHasNoGap` | `ViewIsSegment` | `FileInv`, `JoinInv` |
| `ViewCatchesUp` | `LiveViewComplete` | `ChannelInv`, `JoinInv` |

`JournalInv` is the conjunction of the journal's invariants. `SoundInv`: as long as
nothing has happened that the sink does not claim to handle, the file holds what
was accepted and at most one line more. `OwnFileInv` and `PrefixInv`: a file numbered from 0
without a gap up to some line is up to there one daemon's, because a later daemon starts at 0 again,
a cut takes only the end, and what is appended to a part of a line is no event. `OneDaemonInv`: a journal's daemon
found it empty or can write nothing. For the page, `FileInv` says what a file still being read may
yield, `ChannelInv` that the channel holds the newest events sent, in order and without a
gap, and `JoinInv` that a view which joined and was not told of a loss ends where the
channel begins.

### ControlSocket

From `SocketAssumption` (nobody is no daemon, the capacity is positive, `"stop"` and
`"watcher"` name no client):

| Theorem | States | By |
|---|---|---|
| `TypeCorrect` | `TypeOK` | `Typed /\ ChannelInv /\ ClientInv /\ OtherTypes` |
| `OneRecorder` | `OneRecorderPerShadow` | `RecorderInv` |
| `StopLeavesNothing` | `OrderlyLeavesNothing` | `SocketInv` |
| `ActiveSocketKept` | `ActiveSocketIsKept` | `MetInv` |
| `LoneDaemon` | `LoneDaemonServes` | `AloneInv` |

`StepCases` splits a step into one of a daemon's own (`OwnStep`) and one that leaves all
that the daemons share alone (`Silent`), so that each proof speaks of the former only.
What each property lacks to be inductive:

- `RecorderInv`: whoever records has made the repository of its shadow, so that a
  second `create_dir()` finds it.
- `SocketInv`: while the path holds a daemon's socket, the daemon serves, is on its way
  down, or was killed after it bound it; the way down ends with the path empty.
- `MetInv`: the decision to remove is taken at the probe, and holds at the removal only
  because those met at the launch have served since: none of them can come back to the
  path, and a path that changes hands goes to a daemon that was not met.
- `AloneInv`: with one process up at most, the path is free from the removal to the bind.
- `ChannelInv`: a stop is in a channel only while its daemon finishes, so a
  coordinator that is told to stop has a daemon that waits for it, and no channel of a
  coordinator that has returned is written to.

### What the proofs leave

Only model-checked, because liveness under fairness and ENABLED are out of the prover's
reach: `EventuallyPublished` and `RequestsAnswered` of the run `watcher`, `RequestsEnd` and
`StopEnds` of the run `socket`. Proved under conditions only, because the code fails
without: the theorems of the first table.

## 5. What is not modelled

- `project_diff()`, `classify()` and change truncation; filters and ignore globs;
  the JSON forms: they fill payloads or decide on path strings.
- A later daemon in the session directory of an earlier one: its spool is in
  `LocalJournal`; its manifest, which starts again without a watermark
  (`local.rs` 77), and its events objects, which keep an older file of the same name
  (`local.rs` 272), are not.
- The directory entry of a new spool, which is never synced (`journal.rs` 62): a power
  failure could take the file with it.
- Git commands, and the cached remote ref between the fetch and the push.
- Argument parsing, the choice of backends, file modes, static pages, the rendering of
  the view. `ctrl_c()` is created anew in every turn of `serve()` (`main.rs` 606); the
  model's signal is one that arrives.
- Benchmarks, examples and scripts, which keep no recorder state.

## 6. Plan

1. Done: `Coordinator` with its proofs, `CoordinatorHandle`, `DurableTimeline`,
   `RemotePublication` with both batch limits, `DirectorySession`, `LocalJournal`,
   `LiveFeed`, `ControlSocket`.
2. `DirectorySession` over a restart in the same session directory.
3. `CoordinatorHandle` under an unbounded workload (notification storms).
4. Algorithms as functions against reference definitions: the change truncation,
   `Timeline::read()`.
5. Proofs: the safety properties of the runs are done. Left are the other properties of
   `Coordinator` carried over to `CoordinatorHandle`, as three of them are, and those of
   whatever items 2 to 4 add.
