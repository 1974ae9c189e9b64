# codexmux in TLA+

codexmux is a web server that shows tmux sessions, coding agents and their transcripts in a
browser. This directory holds TLA+ models of the parts of it where steps of several actors
interleave, TLC runs that check them on small instances, and TLAPS proofs of what should
hold on every instance. Source paths below are relative to the repository, so
`lib/x.ts` stands for `src/lib/x.ts`.

## 1. Inventory

| Component | State it keeps | Operations | Talks to | What makes it correct |
|---|---|---|---|---|
| Worker client, `lib/runtime/worker-client.ts` | child, pending requests, restart timer and back-off, readiness promise | `start`, `request`, `waitUntilReady`, `shutdown`; exit, error and message listeners | forked worker over IPC | every call settles once; nothing is taken from a late reply; a dead worker is replaced, none is leaked or spawned after shutdown |
| Terminal attach, `lib/runtime/{terminal-ws,supervisor}.ts`, `terminal/` | socket phase and input queue; subscribers, attach attempt, detach in flight; attached session and pty | connect, input, close; attach, detach, write, kill, create | Storage and Terminal Worker | one stream per session, none without a subscriber; no live subscriber without its worker; a deleted tab is quiet |
| Instance lock, `lib/lock.ts`, `server.ts` | `~/.codexmux/cmux.lock`, the port | acquire, release, exit handler | other server processes, through the file and `/api/health` | one server per data directory; a leftover never stops a start |
| Governed scaffold, `lib/governance/project-write-transaction.ts`, journal, backup | documents, stages, manifests, backups, `writeState` | confirm, rollback, recovery | Governance Worker, editors | all or none of an action is visible; a crash needs no hand; an edit that was seen survives |
| Supervisor: start, tabs, workspaces, `lib/runtime/supervisor.ts` | started flag, clients, pending and ready rows | `ensureStarted`, `shutdown`, create, restart, delete | Storage and Terminal Worker | rows and tmux sessions agree after every failure |
| Storage Worker, `lib/runtime/storage/` | SQLite: workspaces, groups, panes, tabs, mutation events | one transaction per command | Supervisor | each command is atomic |
| Uploads, `lib/upload-*.ts`, `uploads-store.ts` | reservations, active transactions, timers, staged files | admit, stream, link, abort, clean up, sweep, shut down | outer server, disk | each lease is counted once and given back once; a file is published whole or not at all, before the answer; nothing staged stays |
| Install WebSocket, `lib/install-server.ts` | slot (idle, starting, active), input queue, lease reads | connect, input, delayed command, watch, close, shut down | installer pty, setup state | one shell, owned by the connection in the slot; nothing typed after the setup reaches it |
| Outer server, `lib/server-http-dispatcher.ts` | start and shutdown promises, listening | start, shutdown, upgrade | uploads, runtime, WebSockets | nothing outlives the shutdown, and it ends |
| Timeline Worker and WebSocket, `lib/runtime/timeline/worker-service.ts`, `timeline-ws.ts` | watchers with offset and pending text; generation, subscription and session watch of a socket | subscribe, unsubscribe, file change, retry, session change, close | Supervisor, transcript files | entries come once, in order, without holes; the newest request wins; a closed socket leaves nothing |
| Status Worker, `lib/runtime/status/`, `lib/status-manager.ts` | per-tab state, file watches | subscribe, poll, notify | Supervisor, transcript files | a subscriber converges to what the screen and the files say |
| JSON stores, `lib/{layout,workspace,config}-store.ts` | one JSON file each | read, write under one promise chain | HTTP handlers | operations are serial, files are replaced by rename |
| Governance read side | projections of documents | refresh, query | disk | a projection is rebuilt from the files |
| Legacy servers, session index, parsers, tmux adapter, auth, push, stats | caches, connections | see `PROJECT.json` | | |
| Clients: React, Electron, Android | UI state, reconnection | | the server | |

How they meet: a browser connects to the outer server; the Supervisor owns one worker client
per worker and forwards commands over a FIFO IPC channel per worker; workers never talk to each
other. Terminal output goes Terminal Worker -> Supervisor -> every subscribed socket. All JS
processes are single event loops, so a step of a model is what runs between two awaits.

What is hard: promise reactions after a map has changed; commands that time out and were
carried out anyway; workers that die with calls in flight and come back empty; several server
processes and one file; a journal that may stop at every write; an editor beside the worker.
`PROJECT.json` lists each such hazard at its line with the properties that watch it, or the
reason why none does.

## 2. Plan

Order: what the whole of Runtime v2 rests on first, then what users lose data or processes by.

| Step | Modules | State |
|---|---|---|
| 1 | `WorkerRpc` (abstract), `WorkerClient`, `WorkerClientProofs` | modelled, checked, proved |
| 2 | `TerminalAttach`, `TerminalAttachProofs` | modelled, checked, proved |
| 3 | `InstanceLock`, `ServerProofs` | modelled, checked, proved |
| 4 | `AtomicDocuments` (abstract), `ScaffoldTransaction`, `ScaffoldTransactionProofs` | modelled, checked, proved |
| 5 | `TabLifecycle`, `TabLifecycleProofs`: rows and tmux sessions, startup reconciliation | modelled, checked, proved |
| 6 | `AtomicUpload` (abstract), `UploadServer`, `OuterServer`, `ServerProofs` | modelled, checked, proved |
| 7 | `InstallSlot`, `InstallSlotProofs` | modelled, checked, proved |
| 8 | `TimelineWatch`, `TimelineWatchProofs` (the worker), `TimelineSocket`, `TimelineSocketProofs` (socket, Supervisor, worker) | modelled, checked, proved |
| 9 | `StatusLive`: the counted live subscription of the Supervisor and its debounced polls | open |

Composition: `TabLifecycle` and `TerminalAttach` both stand on what `WorkerRpc` promises of a call: at
most one performance, a failure that says nothing about it, one answer. They take that
promise as the shape of their calls instead of instantiating the client, whose back-off
and processes would only multiply their states. `TerminalAttach` looks at the subscribers of
one session, `TabLifecycle` at the rows of all. `OuterServer` EXTENDS `UploadServer` and puts it under the start and the
shutdown of the outer server: the same step of `shutdown()` closes the gate, the admission and the port. `TimelineSocket`
follows one connection through the Supervisor into the worker's books, and `TimelineWatch` what the worker does
with a subscription it has; they meet in `held`.

Abstract specifications: `WorkerRpc` is implemented by `WorkerClient`, `AtomicUpload` by `OuterServer`, and
`AtomicDocuments` by `ScaffoldTransaction` where no call fails and nobody edits.

## 3. Modules

| Module | Models | Proofs |
|---|---|---|
| `WorkerRpc` | abstract specification: what a call through a worker client may do | |
| `WorkerClient` | the client, its timers, its children | `WorkerClientProofs` |
| `TerminalAttach`, `MCTerminalAttach` | one session, its connections, Supervisor, both workers | `TerminalAttachProofs` |
| `TabLifecycle`, `MCTabLifecycle` | tabs of one workspace from intent to deletion, and the start of the Supervisor | `TabLifecycleProofs` |
| `InstanceLock`, `MCInstanceLock` | server processes around the lock file and the port | `ServerProofs` |
| `AtomicDocuments` | abstract specification: documents that actions change, and leave, all at once | |
| `ScaffoldTransaction` | one project's governed writes | `ScaffoldTransactionProofs` |
| `AtomicUpload` | abstract specification: what a client and the directory see of an upload | |
| `UploadServer` | admission, upload transactions, staged files, sweeps, drain | with `OuterServer` |
| `OuterServer`, `MCOuterServer` | start and shutdown of the outer server around `UploadServer`, upgraded sockets | `ServerProofs` |
| `InstallSlot` | the installer's slot, connections, lease and shell | `InstallSlotProofs` |
| `TimelineWatch`, `MCTimelineWatch` | the Timeline Worker's watch of one transcript | `TimelineWatchProofs` |
| `TimelineSocket` | one timeline connection, the Supervisor's callbacks, the worker's subscriptions | `TimelineSocketProofs` |

An `MC` module adds the symmetry of its runs, or the value of a function-valued constant, and nothing else. In every module the operators marked
"Mutant" are variants of the definition after them, with a mistake the code could have; no specification
uses them, and each property of a run is known to fail when one takes its definition's place.

### WorkerClient

State: `stopped`, `child`, `restartTimer`, `backoff`, `pending` and `readyPromise` are the fields of
`RuntimeWorkerClient`; `outcome[r]` is the promise of request `r` and `target[r]` the child it was made on;
`probes` are the requests `waitUntilReady` awaits. Children have a life of their own
(`spawned`, `running`, `connected`, `listening`, `killed`), and `stage` and `performed` follow a request
through the two channels and the worker. Each method, each listener and each timer is an action
that runs to its end; the catch handler of `waitUntilReady` is an action of its own that must run
before the next event (`EventLoopIdle`), as a promise reaction does. A call refused because too many wait (`RequestOverloaded`) may
have spawned the child first. `WorkerRpc` says what a caller
may rely on: a call is performed at most once, resolves only if it was performed, and settles once.

Left out: event messages and diagnostics counters, which touch no field of the above.

### TerminalAttach

One session is enough because every map of the code is keyed by session. A connection has its socket
(`ws`), its place in `handleRuntimeTerminalConnection` (`phase`), queued frames and a frame being
written. `subs`, `attempt` and `detaching` are the Supervisor's three maps. The worker takes commands from a
FIFO channel, but its handlers await tmux (`busy`), so their ends interleave; `strays` are ptys its own map has
lost. `op` is one deletion or restart of the tab in progress. `Operations` and `Faults` are constants, so that a
run says what may happen in it. The variable `joinerClosed` is history: it records the one known way to an
orphaned stream (section 7), so that `OrphanOnlyByEvent` can say there is no other.

Left out: sizes and contents of frames, resize (it changes no map), heartbeats.

### TabLifecycle

`row[t]` is `lifecycle_state` of a tab's row, `tmux` the set of sessions. `op[c]` is what one request, or the start of
the Supervisor (`Boot`), waits for: one action per continuation of an `await` (`IntentRecorded`,
`SessionCreated`, ...), one for the worker that carries a command out (`WorkerPerforms`), with
the transactions of `repository.ts` and the tmux commands of the Terminal Worker as its cases. A call may fail
and be carried out later (`late`); a kill may also be reported as done and not be (`Excuses`), because
`killRuntimeSession` swallows tmux's error. `ServerDies` ends the server and perhaps the machine with its sessions.
`disturbed` is history: tabs about which a call failed, and tabs of which a restart met another operation.

Left out: session names that do not parse, several panes and workspaces, the subscribers of a session
(`TerminalAttach`), shells that end by themselves, and a tmux command that outlives the worker that ran it.

### InstanceLock

Processes are pids, each at one await or system call of `start()` (`pc`); the file is named by its creator,
because an `unlink` removes the name and not the inode a slow creator still writes to. The lock is given back twice, by the shutdown
before the WebSockets are ended and once more by the exit handler; both read the file and unlink it in two steps (`ReleaseRead`, `ReleaseUnlink`). `Events` is a
constant: kills, SIGTERM, failing boots, pid reuse, slow health checks, a taken port, overlapping
starts. `disorder` and `killed` are history: the first is set by a taken port, a late health check of the listener and starts
or stops that overlap, the second by a kill; the properties say what holds until then.

### ScaffoldTransaction

Files carry the number of the action whose output they hold. A step is one await that touches a file
or the journal; `Crash` may come between any two and keeps the disk only. The recovery is the same
undo the code uses, driven by the journal's pending actions. A target is undone in two steps, the document (`Undo`) and its staged copy (`Clean`). A
failing journal write may fail before its rename or after it (`WrittenThenFails`), when the state it announced is already on disk. `job` is what the worker does under the per-project
lock, `writeState` its gate for new writes. `AtomicDocuments` has three actions: an action happens to all its documents, it is taken
back from all while it is the last on each, or it is given up before it happened. It is told what a reader of the documents and the
journal may believe (`Visible`): an action whose manifest is pending has not happened, and its targets hold their base.

Left out: directories that were created, tokens, digests, file modes, and the `progress` of the manifest, which no code
reads back.

### UploadServer and OuterServer

Per request: the connection, where the handler is (`at`, one value per await of `handleRequest`), its answer, where the
transaction is (`tx`, one value per await of `execute` and of `streamUploadArtifact`), who aborted it first (`cause`), the
body, and on disk a staged (`part`) and a published (`stored`) file. `leases` and `reservedBytes` are the two books of
the admission service; what the second should be, a sum over requests, is written as the number of pairs of a request and one of its bytes
(`Bytes`), so that the provers can reason about it. `End` is the `catch`/`finally` of `execute`: it gives the lease back, unless the shutdown released all of
them already. The end of the pipeline is an action of the system (`PipelineEnds`: the signal or the end of the body), its failing (`PipelineFails`) one of the environment.
The idle and absolute timers are `TimeOut`; the sweeps of stale parts are `maint`. `OuterServer` adds
the promises of `start()` and `shutdown()`, the port with its pending `listen`, upgraded sockets and the runtime, one
action per continuation. `AtomicUpload` has two actions: a file is
stored whole, and the one answer is given, which is "ok" exactly when it was.

Left out: which contract an invalid request breaks, headers, expiry of published files, the fallback port (`InstanceLock`).

### InstallSlot

Per connection: where `handleConnection` is (`pc`), the socket, `aborted`, its pty, the queue of frames, each with the state of
the setup when it came, and the two reads of the lease that may be under way (`read`). Whatever is written to the pty may be thrown back, which ends the session. `slot` is `TInstallSlot`. The delayed command
and the lease watcher are `command` and `watch`. `setup` is completed by somebody at any moment. `tooLate` is history:
a frame that came after the completion was typed.

Left out: how a request is authorized, which commands there are, resizing, the colours of the output.

### TimelineWatch

`live` holds every watcher object ever made, because timers and reads of a watcher that was removed go on; `current` is the
map's entry. A line of the file is three units (head, rest, newline), so that a read may end inside a line, before its
newline or after it; `ParseIncremental` splits pending text and new bytes as the code does. A watch may fail to open, at once or on a retry. `leaked` marks a watcher that was
removed while its retry was due. `torn` is history: lines
a read ended inside of; `noticed` and `sent` of a watcher are history: the size of the file at its last event, and the entries of
each append it sent.

Left out: transcripts that shrink, what an entry contains, session detection, paging.

### TimelineSocket

Each run of `subscribeLive` is a process (`run[r]`) with its generation; `conn` is the state object of the connection, `opening` its own
start, one value per await of it. `subs` are the Supervisor's callbacks, `ipc` the commands on their way, `held` what the worker keeps (it may refuse a command, and keeps nothing then), and
`lost` the subscriptions whose unsubscribe will not reach the worker. An answer is taken one step after it came, so that
everything may happen in between.

Left out: contents, heartbeats, the delays of the claim refresh.

## 4. Runs

| Run | Question | Bounds |
|---|---|---|
| `client` | is no worker leaked, is `WorkerRpc` implemented, does every call settle, is a dead worker replaced? | fair; 2 requests, 2 children, back-off 1..2 |
| `attach_session` | is there one stream, with a subscriber, and does a deletion leave nobody? | 3 connections; deletion or restart, worker exits, shell ends, backpressure |
| `attach_faults` | the Supervisor's maps under commands that time out; does everyone settle? | fair; 2 connections, deletion, timeouts, worker exits |
| `tabs` | do rows and sessions agree, is no intent forgotten, is every start complete? | 2 tabs, 2 requests at a time, 1 failing call, 2 deaths |
| `lock_starts` | every event at once: does one instance run until the disorder begins, is a leftover ever fatal or left behind, do racing starts all lose? | 4 pids, all seven events |
| `lock_fallback` | violation, section 7 | 3 pids |
| `scaffold_crash` | is nothing left to repair by hand after deaths at any step; is `AtomicDocuments` implemented; does the recovery end? | fair; 3 actions, 2 deaths, 2 documents of which one is new |
| `scaffold_faults` | failing calls and an editor: what is undone, what survives? | 2 actions, 1 death, 2 foreign writes, 2 documents |
| `uploads` | are leases counted and given back once, files whole, answers true; do uploads end although clients stall, and the shutdown without their timers? | fair; 2 uploads of 1 and 2 bytes, which both fit, 1 retry of the link, 1 WebSocket, all faults |
| `install_sessions` | does a shell have the slot, is the lease honoured, does the shell end? | fair; 2 connections, 1 queued frame each |
| `timeline_live` | are entries sent once, in order, without holes; is a change or a watch forgotten? | 2 subscribers, 2 watchers, 3 lines of which one makes no entry, appends of 3 or 4 units, 1 fault, 1 retry |
| `timeline_socket` | does the newest change win, is it served, does a closed connection leave nothing? | fair; 2 runs over 2 transcripts, 3 generations, 1 fault |

Why the bounds are enough: the client's interesting cases need a request on an old child, one on the
current child and one more child to restart into. Three connections give a last subscriber, one that joins and
one that comes after; the Supervisor tells apart only "first", "joining" and "last". Two requests on one tab show
every pair of operations in every order, and the second tab makes the lists of the reconciliation and of the
workspace deletion longer than one; the first death leaves the mess, the second interrupts the start
that cleans it up. Two racing starts, a holder and a leftover pid make four. Two documents make a half-published
action, one of them new because creation and replacement differ; the third action meets the leftovers of
two others, and the second crash hits the recovery of the first. In `uploads` both
transactions may be under way at once, in every pair of stages, and both books sum two different leases. Nobody is refused for want of room there: that the limits
hold when the books are right is a matter of one test in `reserve`, and is proved for all requests and limits (`AdmissionIsExact`). Two calls do not reach the limit
of pending ones in `client`; a call refused for it settles at once and touches no other, which `WorkerClientProofs` covers for any limit. Two connections show a slot that changes hands at any await.
Two watchers show a path that is left and watched again while timers of the first are still armed; three lines leave one that is silent,
one that is torn and one after it. Two overlapping runs and an unsubscribe give every order of three generations.

Runs stop where the bounds end (no more requests, no more children, nobody connects), so deadlock is not checked;
that the code never waits for good is what the liveness properties are for.

## 5. Fairness

- `WorkerClient`: timers fire and promise reactions run (Node's event loop); a child that got
  the SIGTERM of `child.kill()` ends, since no worker installs a handler for it, and Node reports its exit. No worker has to answer, nobody has to call.
- `TerminalAttach`: the time limits of commands fire, the tab operation continues when it was answered, a
  socket that is closing closes. No worker has to answer, no client has to send or leave.
- `UploadServer`, `OuterServer`: handlers and transactions go on, file operations come back (well or badly), the continuations of `start()` and
  `shutdown()` run. No failure is owed: `PipelineFails` has no fairness, so a stalled upload is ended by its signal or not at all. No client has to
  send, read or leave. The timers fire as long as nobody shuts the server down, which is what `UploadsEnd` rests on (it fails without that fairness); once it is shutting down
  nobody owes a timer either, so that `ShutdownEnds` shows what `Drain` aborts and not what a time limit would have ended anyway.
- `InstallSlot`: handlers and timers run and a read of the setup state comes back; a socket that was closed reports it; the shell
  need not exit.
- `TimelineSocket`: awaits come back, the worker takes its commands, a socket that was told to close closes.
  No refusal, time-out or exit is owed.
- `ScaffoldTransaction`: the worker goes on with the job it has begun, the recovery included. Nobody has to
  confirm or roll back.
- `InstanceLock`, `TabLifecycle` and `TimelineWatch` are checked for safety only.

## 6. Proofs

`WorkerClientProofs` proves the client's invariants and action properties for any number of requests and
children and any limit and back-off, from the assumptions in `WorkerClient`. The inductive invariant is
`TypeOK /\ CallInv /\ ChildInv`: `CallInv` ties a promise to its pending entry and its channel, `ChildInv` ties
`child`, the timer and the processes together. Neither half is inductive alone: a reply settles a promise only if
its child is the current one, and a child may be dropped only when its requests were rejected.
`ImplementsRpc` maps each step to a step of `WorkerRpc` or a stutter.

`TerminalAttachProofs` proves all five safety properties of `TerminalAttach` for any number of connections, any bound on queued input and any set of
operations. Under every fault: `TypeOK`, `SubscriptionsAreLive`, `DetachSparesSubscribers` and `DeletedSessionIsQuiet`. None is inductive. `FanOut`
ties the subscriber map and the attach attempt to the phases of the connections; `Order` says that an attach is sent once, that every detach
in the channel to the worker stands before the attach that is awaited, and that none is on its way while somebody is served, which keeps a detach
from meeting a subscriber; `Deletion` says what each step of a deletion has already closed, so that a check that was answered earlier is caught.
`OneStream` and `OrphanOnlyByEvent` are proved where no command times out (`"timeout" \notin Faults`, as in
the run that checks them; with timeouts the first is false, section 7). `OneStream` has two parts, `NoSecondStream` and `SubscribersHaveStream`: `OneAttach` counts the attaches that may still be
under way, `Tended` says that a stream is watched, or a detach, a message or a close event will give it up, and `Streamed` that a connection that was told
it is attached has its stream or an event on its way that ends it.

`ServerProofs` is about the server process: the lock file it takes, and its listener with the uploads in it. The two modules share
no variable and are proved side by side. Of the lock it proves, for any set of pids and events, `LockTypeOK`; `OneInstance` and `LeftoverNeverFatal`, through kills and pid reuse, for as long as
nothing put the lock in disorder; `NoLeftoverLock` for as long as nobody was killed, in every interleaving; and `SomeoneServes` without any of these
conditions. The invariant `OrderlyInv` says who may be busy, that the listener owns the port and the file, and that a leftover file
names no live server. `RaceInv`, for `SomeoneServes`, says that
who has the port listens, that who is past reading its own file does not hold the lock, and that a start that lost left somebody behind who has not.

`TabLifecycleProofs` proves, for any number of tabs, requests, failing calls and deaths, `TypeOK`, `PendingIsOwned`,
`StartReconciles`, `NoLeakedSession` and `ReadyHasSession`, from the assumptions that `Boot` is not a request and `NoTab` no tab. `PendingIsOwned` is not
inductive: a call that was given up may still write a pending row, and a start has to vouch for every row before it. The
invariant `Inv` adds who waits for what (`Shape`, `Named`), that every row a start has not settled is still ahead of it
(`Reconciling`), that a start gave up commands of its own only and no kill of a ready tab's session (`StartGivesUp`), and that a
storage command is given up only by a storage fault (`LateIsFault`). The steps of requests are covered by one lemma, `MovesKeepInv`:
whatever they wait for next, they go on settling the row they own. For the sessions `TabIsSound` says, of a tab that is not excepted, which states of
its row go with a session, and which request or start will make the two agree when they do not.

`ScaffoldTransactionProofs` proves the safety of the governed writes for any catalogue and any number of actions, deaths and edits.
`TypeOK` and `SeenEditSurvives` hold whatever fails. `AllOrNone` follows from three invariants that hold as long as the editor writes nothing:
for every document there is a chain of actions, the newest of which it holds, each with the one before it for its base
(`Chains`); a backup holds what was confirmed (`Backups`); and the targets a job has dealt with hold its output, those before it what was found
(`Progress`). Publishing adds the newest action to a chain and undoing takes the newest away, wherever the worker dies in between; `Staged` adds that
nothing staged outlives its action. `CrashNeedsNoHand` is proved where no call fails and nobody edits (`MaxEdits = 0`, `Faults = {}`, as in the run that checks
it; an edit or a failing call may well need a person): one action at most is pending, and all its targets can be undone (`OnePending`).
Under the same hypotheses `ImplementsAtomicDocuments` maps each step to a step of `AtomicDocuments` or a stutter: a publication and an undoing write
only over the base or the output of the one pending action, and neither shows; the commit finds its output on every target (`Progress`), and the record of a rollback
is written only when the action is the last on each (`Chains`, `Backups`: its output is never its own base). The hypotheses are needed: a call that fails
inside an undoing leaves a pending action behind open writes, and the next action takes its output for a base.

Of the listener `ServerProofs` proves, for any number of requests and sockets, any sizes and limits: `TypeOK`; `LeasesExact`, both books, and `AdmissionExact`, both limits with them, by what a
lease more adds to the sum of the declared bytes and what the leases given back take from it (`BytesAdded`, `BytesTaken`);
`NoStagedFileLeft`; `NothingAfterShutdown`; and that the uploads implement `AtomicUpload`. Only the safety part of the refinement is at stake:
`AtomicUpload` states no fairness. The invariants relate where a handler is to where its transaction is, who still
holds a staged file, and, for the shutdown, what each of its stages has already ended.

`InstallSlotProofs` proves `TypeOK`, `ShellHasSlot` and `LeaseHonoured` for any number of connections. `LeaseHonoured` needs that a frame
still waiting was queued before a read that will notice the completion; `ShellHasSlot` that a spawn under way belongs to
the connection that has the slot or to one that will kill what it gets.

`TimelineSocketProofs` proves `TypeOK`, `NewestIsHeld`, that every callback in the Supervisor is owned (`CallbacksAreOwned`), and that the worker
holds nothing for nobody but what was given up (`WorkerHoldsNoMore`), for any number of runs. The last needs the order of the channel:
whatever it still carries into the worker is known to the Supervisor, given up, or followed by its unsubscribe.

`TimelineWatchProofs` proves `TypeOK` and all four safety properties of `TimelineWatch`, for any number of subscribers, lines, watchers,
retries and faults and any way the agent cuts its writing. It has three layers. The first is about `ParseIncremental` alone: which lines a read from
an offset yields behind a pending text that fits it, and that what it leaves pending fits the new offset, unless a line is torn. The second
says what each action does to its watcher and its subscriber, and sums it up: whoever takes the step, the text of a watcher rests, starts
to be read, is parsed, is missed (the read failed) or is sent (`Move`). The third is the invariant `WatchInv`, whose parts on the texts need only look at these five.
None of the properties is inductive. `Ordered` needs that the pending text lies behind everything sent and holds no whole line, `Passed` that the offset
and the pending text fit (`Readable`) and that the maker of a watcher sets the offset before anybody is owed anything (`Held`), `Noticed`
that a watcher that rests or is about to has no change pending. TLC checked the parts on the instance of the run before they were proved.

Left to TLC: all liveness (the prover handles no fairness). The hypotheses without which some theorems are not proved are
those of their runs: no time-outs for `OneStream` and `OrphanOnlyByEvent`, no editor and no failing call for `CrashNeedsNoHand` and `DocumentsAreAtomic`.
The type invariants are proved and in no run.

## 7. Findings

- **Lock after a port fallback** (`lock_fallback`). The lock records the port that was asked for. When another
  program has it, the server listens elsewhere, the next start gets no healthy answer from the recorded
  port, takes the lock for stale, and two servers run. `landing-src/docs/data-directory.md:72` says the lock is deleted only when there is no process.

Other disagreements with a document, without a run of their own:

- **Orphaned stream**. A backpressure event names the session, not the stream (`supervisor.ts:342`). When the last
  subscriber has left and a new one waits for the detach, an event of the old stream closes the new
  subscriber; its attach then succeeds with nobody in the map and is never detached, against
  `docs/superpowers/specs/2026-05-02-runtime-architecture-redesign-design.md:134`. `NoOrphanStream` of `TerminalAttach` fails on it;
  `OrphanOnlyByEvent` shows that it is the only way.
- **Rollback without the receipt**. A rollback on request also accepts a target that is absent
  or back at its base (`project-write-transaction.ts:93`), where `docs/superpowers/plans/2026-08-21-governed-project-scaffold.md:122` demands the committed
  fingerprint.
- **A half line read twice**. When a read ends inside a line and makes no entry, the pending text is kept and the offset is not moved
  (`timeline/worker-service.ts:285-287`); the next read puts the pending text before the same bytes and the line does not parse. Its entry
  comes late or never. The design (`docs/superpowers/specs/2026-08-14-purplemux-selected-adoption-design.md:260`) keeps a partial last line
  in the buffer for the next read, which only helps if that read begins behind it. `NoEntrySkipped` and
  `NoNoticedLineLost` except these lines (`torn`).

Seen in the models, and documented here because no doc makes a claim a run could refute, or because the
case needs events a reader may find unlikely:

- An attach that timed out at the Supervisor while the worker still awaits tmux may be repeated; both commands
  find no pty in the map and both open one (`terminal-worker-runtime.ts:217`). `OneStream` holds without
  timeouts and its part `NoSecondStream` fails with them.
- A connection whose readiness check precedes a restart may attach to the session the restart kills and stays without a
  stream until its next input; hence `SubscribersHaveStream`, a part of `OneStream`, speaks of a session that exists and is not being restarted.
- A start takes the lock of a server that boots or answers its health check late (`lock.ts:122`), and an empty
  lock file for a leftover while its creator is about to write it.
- Two releases of a lock (the shutdown's and the exit handler's) read the file and then unlink the name; a start that took the lock over in between loses its fresh
  file (`lock.ts:138`), and the next start runs beside it.
- Two operations on one tab of which one is a restart: the catch clause of a creation fails the other's pending
  row or kills its session, which can leave a ready tab without session, or a session whose row has failed.
  `ReadyHasSession` and `NoLeakedSession` except these tabs.
- A crash between the deletion of a row and the kill of its session leaves the session for good: the start looks at rows,
  not at tmux. `NoLeakedSession` excepts exactly this.
- `killRuntimeSession` swallows every error of tmux, so a deletion never reports a session that survived.
- Timeline Worker: the retry timer of a watch is not cancelled when its watcher is removed and opens a watch nobody closes
  (`worker-service.ts:322`), the one watcher `UnusedWatchCloses` excepts (`leaked`); a transcript that does not exist at the first subscribe is never watched; a subscriber that joins before the first one
  has set the offset may miss lines; a change between the tail read and the start of the watch is unseen until the next change.
- Timeline connection: a subscribe that times out is forgotten by the Supervisor and kept by the worker (`supervisor.ts:1190`); a failed
  subscribe that was not the opening's is swallowed or unhandled (`timeline-ws.ts:224`, `:174`, `:264`), and `currentJsonlPath` still names the transcript
  that was dropped; appends of a subscription that was superseded are sent without a look at the generation (`timeline-ws.ts:126`).
- Supervisor, status subscription: a first subscriber that fails stops the live stream although a second one has come meanwhile
  (`supervisor.ts:1384`); read in the code, not modelled.
- A backup is not compared with the confirmed fingerprint (`scaffold-backup.ts:61`): a text that was there for a moment
  may become what a rollback restores.

## 8. Not modelled

Every component without a module is listed in `PROJECT.json` with the reason. The largest is the Status Worker: most of it decides what a
screen or a log line means, and its live subscription is the one behaviour there still worth a module (section 2). The JSON
stores serialise on one promise chain. Parsers, statistics, notifications and the clients are data
or presentation, and most of the repository's lines are theirs. The legacy terminal path is being replaced by Runtime v2.
