# TLA+ models of Trekker

Trekker is a web file manager for a handful of hosts: a NestJS backend
(`nest-api`) that reaches remote machines over SSH/SFTP and its own over the
local filesystem, keeps its rows in MySQL and its sessions and counters in Redis,
a Next.js front end (`front`), and the scripts that ship both. This directory
holds models of the parts whose correctness depends on the order of things: who
runs when, what fails half-way, and what is read before an `await` and used after
it. TLC checks them on small instances; TLAPS proves the main safety properties
for every value of the constants.

Paths below are relative to `src/nest-api/src/` unless they start with `src/`.

## 1. The system

### Components, their state and their operations

| Component | State | Operations | What makes it correct |
|---|---|---|---|
| Transfer queue `transfers/transfer-queue.service.ts` | `waiting` (a line), `running` (id to controller and hosts), `stopping` | `enqueue`, `cancel`, `pump`/`start`, boot reclaim, shutdown | two caps never exceeded; no slot idle beside a job that fits; no job lost or started twice; an interrupted job is picked up again |
| Transfer requests `transfers/transfer.service.ts` | `TransferJobs`, `TransferItems` rows | `create`, `cancel`, `retry`, previews | a job that ended stays ended; a retry reruns what failed and nothing else |
| Transfer runner `transfers/transfer-runner.service.ts` | one job in hand: phase, items, the file being written | `run`, `execute`, `renameInPlace`, `copyOne`, `settleName`, `removeSources` | no file lost; nothing replaced nobody agreed to; DONE means arrived |
| SSH connection pool `hosts/drivers/ssh-connection.pool.ts` | `entries` by host and user: client, `inFlight`, `waiting`, idle timer; `evictedWhileConnecting` | `acquire`, lease `release`, handshake, `close`, `evict`, idle timer | caps per connection; slots kept for people; an evicted handshake discarded; every borrower answered |
| SSH and local drivers `hosts/drivers/` | a spec per driver, a lease per call | SFTP and filesystem calls with a timeout, exec streams | a lease is given back on every path |
| Host keys, hosts `hosts/` | rows, sealed credentials, pins | pin, refuse, accept; create, update, remove | a pin is a person's decision; a member's host keeps a root |
| Metrics, disks, summary `hosts/host-*.service.ts` | caches with a shared read in flight, a history | `forHost`, `forget` | one reading at a time; nothing stale after `forget` |
| Sudo windows, sign-in `hosts/sudo/`, `users/` | passwords with an expiry, by session and host | open, use, sweep, drop; sign in, sign out, recover | nothing as root but with a password of an open window; a window ends with its session |
| Audit trail, rate limit `audit/` | audit rows, Redis counters | open and settle a row; count and expire | every change has a row; a limit holds and lifts |
| Disk scans `scans/` | `DiskScans` rows with a unique running slot, queue, aggregator | start, cancel, finish, reap, boot sweep | one scan per host; the last finished scan survives; the treemap adds up |
| Hash jobs `hashes/` | FIFO in memory, cached digests | enqueue, cancel, finish | a cap; every job has a terminal frame; a digest belongs to the bytes it names |
| Directory sizes `fs/dir-size.service.ts` | workers over one listing, what was learnt of the host | open, take, settle, abort | every directory answered once, truthfully |
| Live tail `fs/tail-registry.service.ts` | an entry per file: ring of lines, subscribers, reaper | subscribe, deliver, replay, linger | a resumed reader misses no line without being told |
| Uploads `fs/upload.service.ts` | partial files named by a token | receive, resume, settle, sweep | a resumed file is the bytes of one client |
| Rename, delete, permissions `fs/` | none; snapshots in rows | a plan, then its steps, then roll-back or report | all or nothing; only what was surveyed goes; what changed can be undone |
| Downloads, compare `fs/` | signed links, cached digests | plan, stream, settle; walk two trees | what is told complete is complete |
| Panes of the page `src/front/src/` | upload tray, transfer strip, tail and size feeds, pane memory and URL, terminal, dialogs | what the operator does and what is answered, in any order | a thing asked once is done once; what is shown is of where the pane is |
| Deployment `src/scripts/`, `deploy-*.sh` | the live version, its backup, a marker of a check | build, switch, reload, roll back | a failed ship leaves the old version served |
| Path guard, secrets, views and bookmarks, events, rendering, configuration | none, or single rows | | not modelled (section 6) |

### How they interact

A request handler writes rows and puts work in a queue of the same process. The
transfer queue starts `TransferRunnerService.run`, the scan and hash queues their
runners; each runner reads and writes the same rows as the handlers do, and talks
to a driver per machine. Each driver call borrows a lease of the connection pool
and gives it back. Deleting a host, changing its credential or meeting a key that
does not match evicts its pooled connections and makes the caches about the host
forget. A call that was refused for want of permission may be repeated under the
session's sudo window. The interceptor of the audit trail brackets every handler,
and the rate limit comes before it. The page learns of all this from answers, polled lists and event
streams, which arrive in any order. Of the backend nothing but the rows, the
Redis keys and the files survives the process: at boot the transfer queue reads
back what was queued or running, the scan service sweeps, and hash jobs are gone.

One Node process runs the backend, and one thread runs a page. Two handlers
interleave at every `await` (in the page also at every commit) and nowhere
else, so **an action of a model ends where the code awaits**.

### What is hard here

* a row, a listing or a name read before an `await` and acted on after it;
* a process that ends between a driver call and the row that records it, and the
  job that is then run again from its rows;
* driver, database and Redis calls that fail half-way through;
* state kept by key (a lease, a timer, a mark, a cached plan) that hits whatever
  the key holds by then;
* connections that die with an answer on the way, and the retry that follows;
* frames and lists that arrive late, twice or in the wrong order;
* things that must happen in the end: an interrupted job settles, a queued
  borrower is answered, a password is erased.

`PROJECT.json` lists each hazard at its line, with the properties that cover it.

## 2. The modules

### The transfers and the pool

**TransferQueue**: the queue, the three requests that change jobs, the job-level
half of `run`, and restarts. One action per stretch of code between two awaits.

| Model | Code |
|---|---|
| `row`, `item`, `born`, `gone` | `TransferJobs.status`, `TransferItems.status`, the order of `createdAt`, deleted hosts |
| `line`, `running`, `held`, `abort` | `waiting`, `running`, the hosts and the controller kept with an entry |
| `run`, `todo`, `outcome` | where `run()` stands, the items it loaded, its local outcome |
| `create`, `cancel`, `retry`, `asked` | where a request handler stands and what it read |
| `up`, `stopping` | the process and `onModuleDestroy` |
| `Fits`, `Scans`, `Pump`, `Enqueue` | `countOn`, the loop of `pump`, `start`, `enqueue` |
| `CreateRow`, `CreateItems`, `CreateEnqueue` | `create`: the row, the batches of items, the enqueue |
| `CancelRead`/`Act`/`Write`, `RetryRead`/`Items`/`Row`/`Enqueue` | the two handlers, cut at their awaits |
| `RunLoad` ... `RunLeave`, `RunEscape` | `run()` from its first read to the `finally` of the queue; `RunEscape` is a rejection |
| `Shutdown`, `Exit`, `Boot`, `BootUnreclaimed` | `onModuleDestroy`, the end of the process, the reclaim, and a boot whose reclaim fails |

The line is kept as the place of each job (1 is the head) rather than as a
sequence: a job cannot be twice in it by construction of the variable, but it can
be both in line and running, and places can collide or leave gaps, which is what
`LineIsALine` rules out. Whether a scan of the line starts a job is a fixed point
(`Scans`), shown unique in the proofs.

**SlotPool** is the abstract admission control that the three queues share: tasks
wait, run and end, slots are given in turns, and no turn leaves a slot beside a
task that fits. `TransferQueue` (`RefinesSlotPool`), `ScanJobs` and
`HashJobs` each carry their own mapping onto it (`ScanQueueRefines`, `HashQueueRefines`).

**TransferRun**: `execute` on the files of one job: directories, files copied to
`.part` and renamed into place, the sources of a move verified and unlinked, the
shortcut that moves each top-level entry by one rename, and all of it again after
a crash, an abort or a retry. `TransferQueue` sees only that an item was settled;
this module shows what settling did. A driver call and the row that records it
are two steps.

| Model | Code |
|---|---|
| `status`, `final` | `TransferItems.status`, `finalName` |
| `src`, `made`, `dst`, `parts` | what is at the source, the directories and files at the destination, the hidden partials |
| `pc`, `plan`, `left`, `hand` | the phase of `execute`, its items, and the item in hand with the name settled for it |
| `Mounts`, `RenameTop`, `RefuseTop`, `MarkTop` | `renameInPlace` |
| `MakeDir`, `SettleName`, `Open`, `Land`, `MarkDone`, `CopyFails` | `execute`, `settleName`, `copyOne` |
| `Verify`, `Unlink`, `RemoveDir`, `RemoveFails` | `removeSources` |
| `End`, `Retry`, `Abort`, `Crash` | the outcome, the retry request, the two kinds of interruption |
| `SettleBlind` | `exists()` when `stat` fails for another reason than absence |
| `Meddle`, `Vanish` | other writers at the two ends (external) |

Simplifications: the content of a file is `copy` (this job's bytes) or `other`,
and an `other` never has the size of a copy, which is all `removeSources`
compares; modes and times are left out; directories are handled before files and
files in any order, one at a time; the discard of a `.part` is one step with the
failure that led to it, and may itself fail, as `discard` swallows that: `parts` counts
the partials there are of each file, and the history `strays` those that nothing will
remove any more, because the discard failed or the process died. `Replaces` says whether the destination's
`rename` replaces a file (the local driver) or refuses (plain SFTP version 3); it
is a fact about the host and external.

**SshPool**: the pool for one key. Keys share no state, so one is enough.

| Model | Code |
|---|---|
| `entry`, `conn` | `entries.get(key)`; a connection is `new`, `shaking`, `broken` (connect threw), `open`, `ending` (`client.end()` called), `closed` (`dead`) or `failed` |
| `mark` | the key is in `evictedWhileConnecting` |
| `inFlight`, `waiting`, `timer`, `stray` | the fields of a pooled entry; timers that run with no reference left |
| `who`, `at` | where each call of `acquire` stands and on which connection |
| `Connect`, `Join`, `Borrow`, `Joined`, `Woken`, `Take` | `acquire`, cut at its awaits, and the loop of lines 244-247 |
| `Release` | `release(key)`, on whatever the key holds |
| `Ready`, `Fail`, `Drop`, `Close` | the handlers `connect` installs |
| `Evict`, `IdleFires`, `EvictEntry` | `evictHost`, the timer of line 290, `evict` |
| `foreign`, `revoked` | history: releases of other connections' leases, evicted handshakes |

Socket events and timers are turns of the event loop: they come only when every
settled promise has resumed (`TurnOver`). Requests, releases and evictions run in
resumed promises themselves and may come in between. Resumptions are taken in any
order, which includes the first-in-first-out order of the engine.

### The disks

| Module | Code | State | Actions |
|---|---|---|---|
| `ScanJobs` | `scans/scan-queue`, `scan.service`, `scan-runner` | rows with `supersedesId`, the line, the run, each start and cancel request | `ScanAsk`/`Previous`/`Create`/`Enqueue` (start), `ScanWalk`/`Save`/`SaveRefused`/`Trim`/`Leave` (the run), `CancelRead`/`Act`/`Write`, `ScanShutdown`/`Exit`/`Boot` |
| `ScanTree` | `scans/scan-aggregator.ts` | what `du` printed, the levels, the cut | `TreeStart`, `TreeAdd`, `TreeEmit`, `TreeFinish`; files are told from directories by what the rung of the ladder prints |
| `HashJobs` | `hashes/` | the line, each run with its chunks, the cached rows, the files that somebody writes | `HashWalk`/`Enqueue`, `HashRun` (look-up, chunk, sum, stream, keep, leave), `HashCancel`, `HashTouch`, `HashShutdown`; the time of a file is the number of its writes |
| `DirSizes` | `fs/dir-size.service.ts` | the cursor, the rungs learnt, each worker's walk, the frames | `SizeOpen`, `SizeTake`/`Settle`/`Throw` per worker, `SizeCancel`, `SizeWindow` |

### The files

| Module | Code | State | Actions |
|---|---|---|---|
| `TailRegistry` | `fs/tail-registry.service.ts`, its route | entries, ring, subscribers, reapers, counts, what each stream was told | `TailOpen`/`Join`/`Slow`/`Close`, `TailPublish`/`Rotated`/`Fatal`, `TailReap`; every handler is synchronous |
| `RenameBatch` | `fs/rename.service.ts` | the directory, what is pending and from which name, the round, what was done; a round takes its moves in any order that the names allow | `RenameAsk`/`Round`/`Park`/`Move`/`Fails`, `RenameUndo`/`UndoFails`/`Undone` |
| `DeleteTree` | `fs/delete.service.ts` | the tree shared by the requests, each one's surveys, what is left of the walk in hand and the report; paths and entries are taken in any order that has an entry before its directory | `DeleteAsk`/`Survey`/`Allow`/`Target`/`Entry`/`Elevated`/`Answer`; `DeleteOther` is somebody else |
| `PermissionUndo` | `fs/permissions.service.ts`, `permissions-undo.service.ts` | the modes, what is left of the walk in hand, what was recorded before, the rows | `PermAsk`/`Path`/`Throw`/`Entry`/`Answer`/`Crash`, `UndoAsk`/`Entry`/`Answer` |
| `Ancestry` | `path.dirname`, applied again | none: the directories above an entry, as the closure that every module with a tree on disk uses | |
| `Picking` | `Array.prototype.filter` | none: what a predicate keeps of a list, in its order, for `ScanTree`, `Downloads` and `CompareTrees` | |
| `UploadResume` | `fs/upload.service.ts` | names, partials and inodes, the attempts | `UploadAsk`/`Begin`/`Check`/`Open`/`Write`/`Breaks`/`Ends`/`Settle`/`Rename`/`Discard`, a rival writer |
| `Downloads` | `fs/download.service.ts`, `link`, `preview`, `download-response`, `zip-stream` | the plan, the bytes sent, the manifest, the audit row | `LinkMint`/`Lapses`, `DownAsk`/`Stat`/`Walk`/`Record`, `DownOpenFile`/`Archive`, `DownRead`/`Zip`/`Ends`/`Cut` and their failures |
| `CompareTrees` | `fs/compare.service.ts`, `compare-tree.ts` | the two trees, the walk, the pairs judged, the digests | the walk directory by directory, the digests, and others writing to both trees |

### The hosts, and who may act on them

| Module | Code | State | Actions |
|---|---|---|---|
| `HostReadings` | `hosts/host-metrics`, `host-disks`, `host-summary` | the caches, `inFlight`, the history, the edit each reading is of | a reader asks, collects, waits, is done; an edit commits, then is told |
| `HostEdits` | `hosts/hosts.service.ts` | the home, the roots, what each edit read | create, update, remove, cut at their awaits |
| `HostKeys` | `hosts/host-key.service.ts` | the pins, the key the server offers, each connection's judgement | pin, relabel, refuse, accept, the form of an update, deletion |
| `AuditTrail` | `audit/audit.service.ts`, `audit.interceptor.ts`, `rate-limit.service.ts` | each request, its row and answer, the counter and its expiry | `TrailStep` (count, expire, read the ttl, open, handle, settle), `LimitFails`, `WindowRolls`, `TrailCrash` |
| `SudoWindows` | `hosts/sudo/`, `users/users.controller.ts` | the windows and the clock, the sessions, the requests, a sign-in | `SudoAsked`/`Opened`/`Refused`/`Dropped`/`Runs`/`Starts`/`Ran`, `SudoSweeps`/`Erases`/`Tick`/`Restart`, `SignIn*`, `SignOut` |
| `SshCalls` | `hosts/drivers/ssh.driver.ts` | each call, its lease, its channel, what it told | SFTP answers, channels open, commands exit or hang, timeouts, aborts and the grace |
| `Deploy` | `deploy-api.sh`, `deploy-front.sh`, `src/scripts/deploy-common.sh` | the tree, the marker, `live`, the backup, what is served, the run | one action per command; any may fail (`ShipFails`), and the run may be killed (`ShipKilled`) |

### The page

| Module | Code (under `src/front/src/`) | State | Actions |
|---|---|---|---|
| `UploadTray` | `uploads.tsx` | the rows, where `start()` stands, the request on the wire | `TrayStep`, the wire drops, the route refuses, a part lands after its connection died, × |
| `TransferStrip` | `transfers.tsx` | the list, the feed, the toasts; the queue as its row and frames | polls, frames, answers, × and retry, in any order |
| `TailFeed`, `SizesFeed` | `use-tail.ts`, `use-dir-sizes.ts` | the stream and what is on its way, what is shown | streams open, cut, fail and end; the pane moves |
| `PaneMemory` | `pane-state.ts`, `explorer.tsx` | the reducer, the URL and the writes to it under way | moves, tabs, Back, clicks; the URL lands later |
| `Terminal` | `terminal-panel.tsx`, `helpers/terminal.ts` | the lines, the panes, the dialogs asked for | lines typed or handed over, beside panes that move |
| `PageDialogs` | `transfer`, `delete` and paste dialogs of the explorer | panes and listings, the clipboard, the dialogs, plans and requests | keys, marks, plans answered, submit, jobs that run, directories that change |

### Composition

Modules of one area share no state in the code either, so one MC module lists
them side by side: `MCDisks`, `MCFiles`, `MCHosts` and `MCFront` declare a variable
`part`, and a behaviour of `PartSpec` is a behaviour of one of the parts (`EachPart`
in `HostProofs`). Their invariants are conjunctions of the parts' own, which the
comments name. `MCTransferQueue` and `MCTransferRun` do the same with several
constants of one module (`kind`). The modules that compose by reference are
`SlotPool` (implemented by three queues) and `TransferQueue` with `TransferRun`,
which meet in the status of an item.

Where a property is true but for a race the code has, the model keeps a history
variable for exactly that race and the property exempts it: `foreign` and `revoked`
in the pool, `late`, `lost` and `strays` in a run, `deaf` in `SshCalls`, `left` in
`SudoWindows`, `mixed` and `litter` in `UploadResume`, `orphan` and `unsettled` in `AuditTrail`, `torn` in `Deploy`, `skipped`,
`missed`, `early`, `overtaken`, `astray`, `rival`, `strayed`, `crossed`, `hasty` in the
page. Section 5 says what each of them is. `took` in `SudoWindows` exempts nothing: it is when a
host last took a password, until somebody gives it up or its time is over, and the
property about root is stated with it.

## 3. The runs

Twelve runs: eight that pass and four that show a disagreement between the code
and what it says of itself.

| Run | Instance | Question |
|---|---|---|
| `queue_slots` | three jobs on two machines, the middle one on both, two slots, one per machine; one shutdown or crash (476k states) | the caps and the absence of idle slots, also while a boot reclaims job by job; that the queue implements `SlotPool` |
| `queue_jobs` | a copy and a move for one slot with a cancel and a restart (fair), and beside them one job of two items with two cancels, two retries, a restart, a failing database call and a deletable host (299k) | what a DONE row hides, what a retry reruns, a row without a run, and that every job settles |
| `run` | a file and a directory with a file: a move between machines (skip, overwrite, a blind stat; fair), a copy (keep both, two faults) and a move by rename, onto a host whose rename refuses to replace and onto one whose rename replaces; a crash, an abort, a retry and a meddler each (902k) | what arrives, what is replaced, what is lost, and that a move settles |
| `pool` | two panes and two scans, two slots with one reserved, three handshakes; one throws, one drop, one eviction (710k, fair) | the slots, revocation, and that every borrower is answered |
| `disks` | three scans of two hosts with a cancel, a failing call and a restart; a tree of seven nodes; two checksum jobs over shared files; the sizes of three directories by two workers (1.01M) | a RUNNING scan has an owner, a panel keeps a scan, the queues give their slots, the figures are true |
| `files` | three streams of one tail; a batch over five names with a cycle; two deletions of a tree of six; a change of modes over a tree with a directory the account may not enter, and two undos; two upload attempts at one name; a download; two trees compared (1.12M, attempts symmetric) | what they report is what they did |
| `hosts` | two readers and an edit; two edits of a home and roots; two connections to a server that changes its key; two calls through failures and a crash; two sessions and a sign-in; two driver calls for one slot; two ships of one script (194k, fair) | what is kept of a host is of the host, what changed is on record, root only with a password that was let in, whoever waits is answered |
| `front` | three files in two requests; one job over two runs; a tail of three lines; two directories' sizes; a pane of two tabs; two lines of the terminal; two dialogs' worth of posts (838k, fair) | done once, told once; what is shown is of where the pane is; what waits ends |
| `queue_retried` | one job | violated: a queued job has a place in the queue |
| `run_partial` | a move with one crash | violated: a DONE job has settled all items |
| `scan_refused` | three starts of one root | violated: a start that is refused as already running has a scan that runs |
| `delete_link` | one request | violated: nothing behind a link is removed |

Why these bounds. Every hazard of the transfer queue involves at most three jobs: one that
ends, one that starts in its place and one that is overtaken; two machines are
needed for a job to wait for one cap while another waits for the other. A second
cancel and retry let one request overlap the consequences of the previous one.
The hazards of a run involve one directory, a file in it and one beside it: the
three kinds of item `execute` tells apart. One crash and one retry rerun the job
once each; the second rerun starts from rows the first could leave. Two names
make keep-both choose a number. In the pool, an orphan needs three handshakes, an
overfull connection a releaser, two holders and a waiter. A third scan supersedes
the second while it is cancelled; a digest goes stale with two jobs and one write
between them; a tree of three levels with two children each has a level that is
cut and one that is not. Three streams are one that goes, one that comes back for
it and one of another session. Two of everything else that can race (edits,
connections, deletions, attempts, workers, sessions, ships) is a pair that
interleaves; the sets of names hold one of each kind the code tells apart (key
material, a link, what root owns, what appears later, what cannot be listed).
`MaxBad`, `MaxDrops` and the other `Max` constants of that kind are bounds on the
environment, not on the code; `MaxRefused` is one more than `MaxWaits`, so that an upload is
told to wait and then refused for good; no partial is whole when a page begins, and where
one cannot be appended to the files are to be overwritten (`MCFront`); `MaxStrays` is 0 because a key that reaches the panes
under a dialog is a known deviation. All runs switch deadlock checking off: with
the bounds spent and the work settled the system rests, and the properties that it
gets there are stated as liveness.

### Fairness

All of it is weak fairness, of steps the code or its runtime owes:

* Transfer queue: a handler that was entered is finished, a run advances, a
  process that is stopping exits and one that is down boots again (the service
  manager restarts it). Nobody need cancel, retry, delete or crash.
* Transfer run: a run advances, because every driver call answers or times out
  (`operationTimeoutMs`), and a boot reclaims it.
* Pool: a settled promise resumes, a lease is given back (every borrower in
  `ssh.driver.ts` releases in a `finally` or when its stream closes), a handshake
  ends by the connect timeout or a lost keepalive, and a client that was ended
  closes. It is stated once for all borrowers and once for all connections, which leaves
  open who is next: less than the event loop gives, and enough because a borrower
  goes through a bounded number of steps.
* `SizeFair`: a worker that is free takes the next directory and a `du` ends, by
  itself or by its deadline. `ReadFair`: a reading under way ends. `TrailFair`: a
  request that arrived goes on, and the counter's expiry passes. `SudoFair`: the
  sweep runs (an interval). `CallFair`: a driver call goes on where its timeout, its
  grace or the closing of its channel makes it (`CallMustGoOn`); one condition
  stands for all calls since each takes each step at most once.
* `TrayFair`: the loop of `start()` goes on, as each request of the browser ends by an answer or
  an error. `StripFair`: the poll fires, lists and posts are answered, frames are
  read.

The server need not drop connections, the operator need not do anything, and no
failure need happen.

## 4. What is proved

TLAPS checks, for any constants that satisfy the named assumptions of the modules:

| Theorem | Says |
|---|---|
| **TransferQueueProofs** | |
| `QueueInvariant`, `TypeCorrect`, `CapsAlways`, `LineAlways`, `NoIdleSlotAlways` | the inductive invariant of the queue and its parts |
| `RunningRowAlways` | a RUNNING row of a live process has a run, a place in line or a cancel about to overwrite it, as long as no database call failed |
| `DoneAlways` | a job is DONE only when none of its items is FAILED |
| `EndedAlwaysStays` | what a copy settled is not run again; the end of a job nobody retried is written over only by a cancel that read the row before |
| `QueueRefinesSlotPool` | every behaviour of the queue is one of `SlotPool` |
| **TransferRunProofs** | |
| `RunTypeCorrect`, `NothingLostAlways`, `WorkAlways`, `SettledStays` | types of a run; a move loses no file; a settled row is rewritten only while sources are removed |
| `RunKeepsOthers` | on any path: nothing is replaced that no answer allowed, except under a name taken after it was settled (`late`), after a `stat` that lied (`used.blind`), or under the name of a selected file on the rename path where the rename replaces |
| `ArrivedAlways` | on any path, an item that is DONE is at the destination under the name of its row, and between runs there is no part but those of a process that died and those whose discard failed |
| `CoveredAlways`, `CompleteAlways` | assuming `~(IsMove /\ SameHost)`: a DONE job has settled all its items and a move has removed their sources |
| **SshPoolProofs** | |
| `SlotsCounted`, `CapAlways`, `BackgroundAlways`, `SlotsAlways` | the counts of the pool and its two caps, but for foreign releases |
| `PoolTypes`, `RevokedAlways` | the types; a revoked handshake that is pooled was traded for one that failed |
| **DiskProofs** | |
| `ScanTypes`, `RunningScanAlwaysOwned`, `PanelAlwaysKeepsAScan` | types; a RUNNING scan has an owner; a panel that has a finished scan keeps one |
| `HashTypes`, `DigestsAlwaysCurrent` | types; a digest shown for a file is of its bytes, and a DONE frame covers its files |
| `LevelsAlwaysSum` | for any tree and bounds: a level of a finished scan adds up to its directory, one that is missing is told, and a record is a directory exactly when something of it was printed |
| `SizesAlwaysTrue` | a size streamed is its directory's, no directory is streamed twice, and a stream that ended whole has answered for all |
| `ScanQueueRefinesSlotPool`, `HashQueueRefinesSlotPool` | both queues implement `SlotPool` |
| `DiskTypes`, `ShownAlways` | the type invariants and what is shown of a disk, over the composed specification that the run `disks` checks |
| **HostProofs** | |
| `CallsAlways` | a slot is held by a call under way and by no other; a command told done has exited or was stopped |
| `TrailAlways` | the row is there before the change and says what was told; the limit holds |
| `WindowsAlways`, `RootAlwaysLetIn` | a sudo window is a ceiling and has its session; what goes on as root does so with a password the host took within the window's length and that nobody had given up |
| `ShipsAlways` | the version that was well is live or is the backup; a success is served, checked and named |
| `PinsAlways`, `RootsAlways`, `ReadingsAlways` | pins do not spread; a member's host keeps a root; one reading at a time, forgotten with an edit |
| `HostTypes`, `HostsAlwaysKept`, `ActsAlwaysOnRecord`, `NothingIsEverGranted` | the invariants and the action property of the run `hosts`, over its composed specification |
| **FileProofs** | |
| `UploadsAlwaysWhole`, `PartsUploadWhole` | an upload nobody got in the way of put the whole file under the real name; the partials that are left can be found, but for those whose discard failed |
| `RenamesAlwaysWhole`, `PartsRenameWhole` | a batch of renames is the whole simultaneous renaming, cycles included, or is put back; it replaces nobody's file and moves no key material |
| `ModesAlwaysUndone`, `PartsUndoModes` | the rows of a change hold the modes there were, and an undo of all of them restores every mode |
| `DeletionsAlwaysSurveyed`, `PartsDeleteSurveyed` | a refusal touches nothing; what goes was surveyed; the report is what was removed |
| `TailsAlwaysTrue` | a source that can be found is watched, sessions are charged for the streams they have not closed, entries stay within their cap, a subscriber misses no line without being told how many |
| `DownloadsAlwaysTrue` | an archive told complete is the tree, a window is answered with its bytes, a failure is short, nothing protected leaves |
| `ComparisonsAlwaysTrue` | files told identical are, and no name that stayed is left out unless the walk says so |
| `ReadingsTold`, `FileTypes` | these three, and all the types, over the composed specification that the run `files` checks |
| **PageProofs** | |
| `PaneAgrees` | the open tab is where the URL is once its writes are in; what is selected is of here and is no parent |
| `TerminalTellsTrue` | a finished `cd` stands where it says, a dialog names one place, an answer is under its own echo |
| `CutMovedOnce` | a cut is moved by one accepted request |
| `DialogsSendWhatTheyShow` | a paste goes where its key was pressed; a request is for what its answers were given for |
| **FrontProofs** | |
| `FilesSentOnce`, `EndsToldOnce`, `FinishedAlwaysLeaves` | the tray puts a file on the host once, the strip tells an end once, a job that ended leaves the strip |
| `FeedAlwaysReadsOn` | what a tail shows is one run of the file, over streams that are cut, resumed and replaced |
| `FiguresAlways` | the figures of a listing are of the directory it shows, and a stream that finished has left none in its buffer |
| `OnceAlways`, `ScreenAlways`, `FrontTypes` | the invariants of the run `front`, over its composed specification |
| `OverAlways` | the action property of that run: a cancelled upload is not sent again, a tail that ended is not taken up, Back goes somewhere, what is held is held until it is let go, moved or gone, what was taken is not selected |

Of each pair of `FileProofs` the first is about the component's own specification, the
second about the composed one that the run `files` checks. With these, every
invariant and every action property of a passing run is a theorem, and what is left to
TLC alone is liveness.

The hypotheses of `CoveredAlways` and `CompleteAlways` exclude a
move within one host, which may take the rename path: there they are false, and
`run_partial` shows it. What a property itself exempts is part of its definition
and listed in section 5.

### The arguments

* **Queue.** `NoIdleSlot` is not inductive alone. `QueueInv` adds the types, the
  line without ties or gaps, that a job whose row does not exist is nowhere, that
  rows are numbered in the order they were born, that a process that is down has
  an empty queue, and that a run about to write has an outcome. It splits into
  `PoolInv`, about the line and the running set, and `DataInv`, about the rows.
  The heart is a pair of lemmas on one scan of the line: `ScanWithin` (what it
  starts stays within the caps, by the last job it starts on a machine) and
  `ScanFull` (what it leaves does not fit), which use that a nonempty set of
  places has a last one. A boot is covered by the same lemmas, because reclaiming
  job by job is shown to leave a line.
* **RUNNING rows.** `RowInv` adds that only a stopping process aborts with the
  shutdown reason and that a run about to leave the queue has rewritten its row.
* **DONE hides no failure.** `DoneInv`: a run that has read its items and found no
  failure comes to write DONE with none there, and the row it writes over is not
  DONE; requests only take failures back, and nobody but a run writes DONE.
* **Ended stays.** What a run loaded and has not settled is not settled (`TodoOpen`), so
  a run settles an item once. Of a job nobody retried, whoever may still write its
  row finds it without an end: the request that creates it, its place in line, and its
  run until the terminal row is written (`Unended`); the line is reached once, from
  the create request or from a reclaim, and only a row that had not ended is
  reclaimed. `OnceInv` says that of every job while no retry was spent.
* **The slot pools.** Each step of a queue is a turn of `SlotPool`: who leaves, who
  is given a slot, who is put in line. What is needed of the queue is that a turn
  leaves nothing that fits; for the hash queue the caps are strengthened with
  "nobody is in line while a slot is free", for the scans per machine.
* **Nothing lost.** `NothingLost` needs `VerifiedHasCopy`: between the check of
  the destination and the unlink of the source the copy is there, unless somebody
  else destroyed it, which the history variable `lost` records. A rename of a
  top-level entry moves everything under it at once.
* **Settled stays.** The item in hand and the items left are not settled, outside
  the phase that removes sources (`WorkInv`).
* **Others are kept.** The name in hand is free, or the answer was to
  overwrite, or somebody took it since (`NameIsOurs`). A rename of a top-level entry
  replaces nothing but a file under its own name, and that only where the
  destination's rename does; a selected directory is refused when there is one already.
* **DONE is complete.** `FirstNames` (the row's name is the one that was settled),
  `LeftFits` (items left are of the phase), `AllArrived` and `PartsCounted` (a file has one
  part more than its strays while its bytes are in hand, else as many)
  together are inductive. For a job that copies, `Covered` says that every item is settled or
  left, phase by phase, through every crash and retry, and `Removed` the same of the
  sources of a move.
* **Pool.** A cap on leases is not inductive, because `release` goes by key. The
  invariant counts: the leases of a connection are at most its `inFlight` plus the
  foreign releases it took, and `inFlight` of a live connection is at most the
  cap. An admitted background borrower found the count below its own ceiling, so
  the same inequality bounds the scans. `EntryLives` (the map never holds a closed
  connection) keeps a closed connection from being revived. For `RevokedIsTraded`,
  `RevokedInv` says that a revoked handshake is under way with the key marked, has
  ended, or another handshake of the key has failed since: the failure of any of them
  takes the mark away.
* **Scans.** `ScanInv` carries, per scan, where its request, its run and its line
  may stand together (`ScanStands`), who answers for its row (`ScanOwned`), and that
  what a scan supersedes and what a cancel names are rows of the same host.
* **Digests.** Times only grow: of a cached row, the time it is filed under is no
  newer than the bytes it was read from, and those no newer than the file
  (`HashRows`), so a row that has the file's time is of its bytes. For DONE frames,
  what is counted and what is in hand covers the selection on every route
  (`HashCounted`).
* **Calls.** A call holds its slot from the lease to its end and exactly then
  (`CallInv`).
* **The limit.** `CountInv`: the counter is at most the requests past counting; the
  requests let through, with the one that created the key, are at most the
  counter and at most the rule; at most one request is about to set the expiry,
  and until it does the key has none. The last part is what keeps a window from
  rolling between the two calls.
* **Sudo windows.** `SudoInv` ties each request, the sign-in and its sweep to the
  sessions that were given out, and exempts in `left` exactly the windows that the
  three races of section 5 leave. `TookInv`: a window in time is one whose
  password a host took, and runs out its length after that; every step that takes an open one
  away gives its password up (`ClosesBoth`).
* **Ships.** `ShipInv` says where the versions are by where the run stands: before
  the switch the live one is what it was (`ShipPlace`), from the first move on the
  version that was well is the backup (`ShipKept`), and what was sent is what was
  checked and named as long as nobody moved the tree (`ShipNamed`).
* **Uploads.** `UplInv`. There is always an inode to create: those in use were made by a
  rival's write or by an attempt that opened its partial (`UplRoom`). An inode that two
  streams were never on has at most one, and holds what that one wrote (`UplAlone`); so an
  attempt nobody got in the way of is on a partial that holds the file up to what it has
  sent (`UplOwn`). A partial has one name and its streams one token (`UplNamed`), and what
  is left under either kind of name has its attempt, or something to go on from
  (`UplLeft`, `UplLitter`).
* **Renames.** `RenInv`. What is pending of a plan that was not refused is still part of
  it: an entry is where it was or parked, and nobody's new name was taken by another
  (`RenPlan`). So the directory half-way is a function of the plan and of what is pending
  (`RenHalf`). The renames done can be taken back, last first, through the directories
  they led through (`RenBack`, by a witness for each step), unless an answer was lost or a
  step back failed.
* **Permissions.** `PermInv`. A walk is taken from below, so whatever is under a directory
  that was changed is settled: changed, locked or gone (`PermBelow`, `PermWalk`). With
  that, what is still to be changed for the first time had its mode read before
  anything was done to it (`PermFirst`), so its row is right (`PermRows`), and a row the
  undo is past has its mode back (`PermUndone`).
* **Deletions.** `DelInv`. Once removed is removed for good, and what is there is in a
  directory that is (`DelHost`); so a path whose root was removed has nothing under it.
  Per request: what is left is of the path in hand (`DelTarget`), an entry is reported
  when it is gone and for one path (`DelCounted`), and a path that is past without a
  failure has lost its root (`DelDone`). None of it is disturbed by the other requests
  (`DelFrame`): all they do is remove.
* **Upload tray.** `TrayInv`. What is pending is of the batch in hand (`TrayBatch`), and
  batches share no file, which `pack()` sees to (`TrayAssumption`). What a file came to
  follows from where the loop of `start()` stands (`TraySent`): before a request nothing
  that is pending has landed or may land, and on the wire nothing that is still to come
  has. What has landed has its name, and what may still land, the bytes of a dropped
  request (`ghost`), has not (`TrayLanded`); a file that lands while the survey asks is
  `overtaken`. `CancelInv`: a cancel that met a request ended the upload, and one that met
  a pause has, or the pause is not over yet.
* **Transfer strip.** `StripInv`. Until the list was read nothing is told (`StripFirst`).
  The end of a run is told no more (`Told`) when it is announced and no answer to a retry
  will take that back, or when the job has gone on and no reading of that end is
  under way; that holds of whatever was told and of what had ended before the page was there,
  and an end listed before its retry was answered has one more to go (`StripTold`).
* **Live tail.** `EndInv`: a feed that ended has no link, so nothing more is heard.
* **Pane.** `PaneInv` types the tabs and the two stacks. Only a replay takes from the stack
  of Back, and where it goes is by choice not where the pane stands (`TargetsAre`).
* **Dialogs.** `DlgInv`, as long as nobody was `hasty`: one paste at a time is looked for,
  shown or on its way (`OnePaste`), it is of what was taken (`PasteIsOf`), and what a
  request has moved is nowhere any more (`MovedIsGone`). `LateInv` holds of the hasty
  too: requests are told apart by number; what is looked for, shown and on its way
  is what is held unless something was taken in between (`HeldOnes`); and a request is of
  the active pane while its dialog is up, and of the pane it froze when that went
  (`LeadStays`).
* **Strip, to the end.** `LeavesInv`: an end that was published is on its way, with nothing
  active behind it, or was the last thing heard (`EndIsOnTheWay`), unless frames of it were
  missed; what is owed is the job's end or that of the run before (`StripOwed`).
* **Tail, on screen.** `FeedInv`: what is on its way is in order up to the last line that was
  sent (`WireReadsOn`), what is shown up to the id the browser has (`EntriesReadOn`), and the
  first goes on from the second (`FeedGoesOn`), unless the opening that is on its way starts
  the strip anew.
* **Sizes, on screen.** `SizesInv`: only the closure of the last stream holds or awaits anything
  (`SizesOneStream`), and what is on screen or in its buffer is what that stream has
  answered (`SizesOnScreen`).
* **Where a pane is.** `HereInv`: once all writes to the URL that are under way lead where it
  is, the open tab is there (`TabAgrees`); what is selected was picked here (`RowsAgree`).
* **Terminal.** `TermInv`: a line that no other runs beside keeps the prompt, and its pane stays on its host
  (`TermAlone`); what was said last is of it (`TermSaid`); what `chmod` or `rm`
  names is of one directory, and what it was asked about so far was there (`TermAsks`).
* **Aims.** `AimInv` adds to `LateInv` that a dialog that was answered is up and aimed at what it
  was answered for, less what went meanwhile (`GivenHere`), and that a paste is aimed at
  where its key was pressed.
* **Levels.** `TreeInv`. du prints whole directories from below, and the record before belongs
  to the one that comes next (`WalkInv`); a level holds entries of its directory, whose
  bytes are in once it is printed (`ParentsInv`); and a level is in the result whole or not
  at all, and one that is missing is still to be emitted or was cut (`RowsInv`). That the
  entries kept and the rest add up to the directory needs sums over finite sets:
  `MapThenSumSet` of the community modules is unfolded to a function on the subsets of
  a set, shown to exist and to be the only one, and additive over disjoint unions.
* **Sizes, streamed.** `SizeInv`: a directory the cursor has passed is on a worker or was told, once.
* **Tails.** `TailInv`. `NoLineIsMissed` is strengthened to every subscriber that is not closed:
  what it was told, with what it will be told was dropped, is not less than there is
  (`TailTold`). A join is told of all of it by replay, whether the id it brings is of the entry or not
  (`TailReplays`). `TailCount` says what a session is charged for; a stream that has not
  asked has opened nothing (`TailNew`), so that an entry it opens is new.
* **Downloads.** `DownInv`. The window in hand is the whole or is within the file as it was
  planned, and what is promised is of it (`DownPlan`). What was there to be seen from the first walk on is
  there at the second, so it is in the archive or still to come (`DownTree`), unless that
  walk stopped at the ceiling. What a walk lists is what can be seen (`DownWalks`), because a filter
  keeps the places it is given, in order and once (`PickedSeq`).
* **Comparisons.** `CmpInv`. What was listed of a path nobody touched is so or its directory is
  named (`Heard`), a verdict is of what was listed (`Judged`), a digest filed under a
  file's stamp is of its bytes (`CmpCached`), and a name that is owed a row is in one, behind a
  directory that is named, or at or under what is still to be judged (`CmpCovered`). When a
  directory is listed, the name that leads on to such a path is among those listed,
  which is an induction over the tree (`UpInduction`).
* **Side by side.** `EachPart`: a behaviour of `PartSpec` satisfies each part's own
  specification without fairness, because a step of one part leaves the variables
  of the others alone. The composed theorems follow from the parts' by temporal
  logic.

Induction over data is done where it is needed by a least counterexample, since the
library's induction theorems cannot be cited: the least size up to which a sum does not exist
(`SumExists`), the least subset on which one fails (`LeastSubset`), the last place of a line that
a scan took (`ScanWithin`). Over a tree it is an assumption on the constants that says what a tree is, in `ScanTree`,
`CompareTrees` and the others with an ancestry: a set of nodes that has the root and, with a node, what is directly in
it, is all of them.

The proofs changed the models in a few places, none of them in what a step does. What was
recursive and was needed in a proof is a set or a function: the ancestors of a node
(`Ancestry`), what a filter keeps (`Picking`), the words of a terminal's line. Assumptions that the instances
met without saying so were stated (the trees are rooted, the entries of a tree are a
sequence, `"none"` is no stream). The verdict on a pair was a `CASE` with guards that overlap,
which means any of its arms; it is a chain of `IF`s now, as the early returns of
`decide` are (`compare-tree.ts`). `Terminal` has the history `Entered`, what was typed as it was typed.

Every inductive invariant was model-checked on the instances of the runs before
it was proved.

### What is only model-checked

* Liveness (`JobsSettle`, `MoveSettles`, `AcquireAnswered`, `DiskWorkSettles`,
  `WaitsEnd`, `PageSettles`): fairness and ENABLED are out of the provers' reach.
* The four violations.

## 5. Known deviations

Where the code does other than what it says, or than a user would expect. The
first four are runs with a finding each; the others are steps of the models that
no run asserts against, or exemptions written into a property.

**Runs.**

1. A retry between the terminal row and the end of the run is dropped by
   `enqueue`; the job stays QUEUED until a restart (`queue_retried`).
2. `renameInPlace` does not check that nothing is done already (`run_partial`).
   For the same reason a move that falls back to the general path, is interrupted
   and is reclaimed onto the rename path keeps the sources of what it had copied.
3. After one cancelled or failed re-scan every later start of that root hits the
   unique `supersedesId` and is refused as already running (`scan_refused`).
4. A link selected for deletion is resolved first, so what it points at is
   removed and the link stays (`delete_link`).

**Transfers.** A cancel between the row of `create` and its enqueue writes
CANCELLED and the job runs. `cancel` writes CANCELLED over a DONE it did not see,
or is forgotten by a crash before the runner wrote it. A crash between two batches
of items leaves a job that is DONE with part of its plan. A failing database call
outside the runner's `try` leaves a RUNNING row (exempt in `RunningRowHasRun`). A
crash between the rename into place and the DONE row makes the rerun meet its own
copy: keep-both copies it again, ask skips it and leaves the source. A rerun of
`removeSources` calls FAILED what it had removed. The name of a file is settled
before its bytes are down; a file that appears meanwhile is replaced (`late`).
`exists()` reads every failing `stat` as absence. The rename path trusts the
conflicts of the plan for as long as the job waited: on the local driver the rename of a
selected file replaces what appeared under its name meanwhile
(`transfer-runner.service.ts:394`), against the comment at 357-360 ("neither is a
conflict answer anybody gave"); `OthersKept` exempts exactly that step, and the run takes
it. A `.part` whose discard fails, say because the connection is what failed, stays
behind a live process (`discard`, line 793; against the comment at 430, "the `.part` they
were in is already gone"), and its random name is found by nothing but the sweep
of some later upload into that directory (`strays`).

**Pool and calls.** Two releases in one turn can strand a slot beside a waiter. An
idle timer can be set under a waiter that was just woken, is left running by a
connection that closes, or is overwritten; either ends a connection in use. A
lease is released by key: after a reconnect it frees a slot of the new connection
(`foreign`); on a placeholder it throws. The mark of an evicted handshake is taken
by whichever handshake of the key ends first (`revoked`). `fail` removes whatever
entry the key has. `acquire` has no deadline, as its comment says. A driver keeps
the spec it was built with. An abort during the acquire or the opening of a
channel is never heard (`deaf`; `ssh.driver.ts:462`, likewise in `tail-source.ts:307-330`,
where an endless `tail -F` then holds a slot). A command that times out leaves its
channel open, and the opening of a channel has no deadline.

**Disks.** A cancel that races the end of a scan takes its DONE. On the rung that
prints directories only, a leaf directory is taken for a file, and dropped
duplicates count files. `filesDone` and `filesFailed` of a frame need not add up to
the selection (`hash-runner.service.ts:197-222`). A readable directory may go unmeasured
when a rung is learnt while its walk is under way.

**Files.** A source that ends while the entry is joined can be left without an
entry or an entry without a source; a join that must replay throws after the
implicit headers; the id of an earlier incarnation is resumed past lines
(`tail-registry.service.ts:345-390`; `skipped`). A batch may report as stranded a name that is
there (`StrandedIsThere`; `rename.service.ts:340`). A chmod that throws or crashes
half-way records no snapshot of what it changed, and an undo after a change of
shape is not complete. A recursive chmod of a path that the account cannot
`stat`, made by root, records mode 0 for it (`describeRoot`, `tree-walk.ts:175`), and an undo
would write that: entries out of the account's reach are exempt (`OutOfReach`). The discard of an upload's partial may fail
unheard (`upload.service.ts:795-815`) and leave one under a random name, which no attempt
can find, until a sweep a week later (`litter`). A third
attempt that goes on from a partial which two streams were on is exempt as they are
(`mixed`). `request.pipe(parser)` never ends the part's stream when
the client drops (`upload-multipart.ts:109-115`); a partial that cannot be created
errors unheard; a name settled is taken before the rename. A file that shrinks
after the plan is sent short and settled as a success; a stream that throws leaves
its audit row open; a link whose path became a directory is served as an empty
zip; the second walk's ceiling cuts an archive silently, directories that cannot
be listed are silently empty, and an entry that cannot be opened is an unheard
`error` (`zip-stream.ts`). The first directory below the depth bound ends the whole
comparison (`compare-tree.ts`; `compare-limits.ts:22-30`).

**Hosts.** A reading under way at the edit is kept (`late` of `HostReadings`). Two edits
can leave a home outside the roots. A rate-limit key is left without an expiry by
a crash or a failure between `incrBy` and `expire` (`orphan`), and a failure at the
`ttl` read lets a request over the limit through. A sudo window opened by a request
under way while its session ends, and windows of sessions ended by a sign-in
elsewhere or a recovery, stay until they run out (`left`); a command that found the
window open takes its password and then waits for a connection without a deadline
(`sudo-runner.service.ts:54`, `ssh.driver.ts:368` and `468`), so that it may start as root after the
window ran out or was dropped, by sign-out too, and so does the chmod after an
elevated write: `RootWasLetIn` says when the password was taken, not when the command starts; two
overlapping sign-ins both keep a session. Two claims of one chord at once report a
name conflict (`views/views.service.ts`).

**Deployment.** A failure or a lost answer inside the switch leaves nothing or a
part live and is reported "production was not modified", and the next run removes
the backup (`torn`). A killed run leaves a half-built version that the next one
keeps as the backup. A reload that fails after the roll-back is still reported as
rolled back (`deploy-api.sh:137-139`); `ecosystem.config.js` and migrations are not
rolled back. Edits between checking, naming and sending ship unchecked, and a
marker written while the tree moved is believed later. A manual roll-back does not move the changelog
marker. Runs of both scripts share `deploy-logs/.entry.tmp`, and there is no lock
against two runs of one script.

**The page.** The survey after a lost answer takes a pre-existing name for a landed
file; × during a claim or an offset question still sends; a part that lands after
the survey is sent twice under keep-both (`overtaken`). The strip keeps a stale frame
over a newer list (`missed`; × on a stale FAILED row dismisses instead of
cancelling); a retry whose run ends before its answer is told twice or late
(`early`). A late diagnosis of an earlier attempt overwrites the message of the
end. A selection survives a switch to another host at the same path, and rows
clicked while the URL lags are of the other place; two URL writes in one render
are one to the effect that watches (`astray`); Back pressed twice pushes a stale path
on forward, and a pane's history holds paths without hosts. A terminal's `cd`
moves a pane that was rebound meanwhile and compares with the path at submission;
a palette line runs beside a typed one and its end clears `busy` for both
(`rival`); after `rm` or `chmod` opened its dialog a second line can stack another
or retarget the first. Two pastes in flight replace the target under an answered
dialog (`hasty`); `overlayOpen` omits the upload and compare dialogs; pane keys act under
dialogs (`strayed`); plans are reused when a dialog is opened again, and its button
is live while it leaves; what is cut while a paste is under way may be released
with it (`crossed`). A rename preview keyed by count shows another selection's
plan; permissions' half-failed call is not refreshed; compare's five-minute stop is not evaluated
on an answer that does not change (`compare-modal.tsx:43-49`).

## 6. Not modelled, and the plan

`PROJECT.json` lists every component with its status, and what is left out of
those that are modelled partly. Left out for good: rendering and form state (most
of the lines of the front end), cryptography, CRUD of single rows (views,
bookmarks, most of hosts and users), wiring and configuration, development
fixtures, parsers (`du` lines, multipart, zip), and reads of a host that keep no
state (browse, mounts, ids). The path guard is containment of one resolved path in
another; what follows from its resolution is in `DeleteTree`.

What the plan has left:

1. Model: the panel of disk usage (`disk-usage.tsx`), the fan-out of progress
   frames (`transfers/` events, `scans/` events), the rename and permissions
   dialogs, the creation and recovery of an account, the restore of a view.
2. Composition: a transfer that borrows from two pools, for the absence of
   deadlock between a copy's two leases and the caps.
3. Proofs: `TransferRun` over a move within one host, for the part of `CoveredAlways` that
   survives the rename path; the types and the counts of the models of point 1.
