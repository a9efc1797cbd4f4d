# Kari: TLA+ models and proofs

Kari (`src/README.md`) lets a team run coding CLIs on one server, `karid`, and
keeps project files in sync between the server and the desktops. Files travel
two ways: through a private Syncthing process beside `karid`, which `karid`
steers over its REST API, and through the older gRPC file-sync session that the
desktop's daemon `kari-syncd` still uses for staged transfers and control. Over
the same session a remote agent may run commands on the user's desktop.

This directory holds TLA+ models of the parts where concurrency, retries,
restarts and stale state decide whether the system is correct, the TLC
instances that check them, and TLAPS proofs of their main properties.
`PROJECT.json` maps each definition to the lines it models and lists components,
runs, mutants, hazards, findings and theorems.

Contents: [1 Inventory](#1-inventory) · [2 Modules](#2-modules) ·
[3 Runs](#3-runs) · [4 Fairness](#4-fairness) · [5 Proofs](#5-proofs) ·
[6 Findings](#6-findings) · [7 Abstractions](#7-abstractions-and-limits) ·
[8 Plan](#8-plan)

To check: `tlc -config Reconciler.cfg MCReconciler` (and so on, see the table of
runs), `tlapm KaridSyncProofs.tla`.

---

## 1 Inventory

For each component: its state, its operations, whom it talks to, what is hard
about it, and what makes it correct. *Modelled* parts name their module.

### 1.1 Server side: Syncthing control

**Reconciler** — `internal/syncthing/reconciler.go` → `Reconciler`.
State: the desired configuration, the fail-closed latch (`blocked`,
`blockReason`, `coldSafetyFailed`), a one-slot request channel, the last tick's
error; and Syncthing's own configuration, which others can edit.
Operations: `Run`/`Reconcile`/`reconcileLocked` (a tick: read, then options,
quarantine, cleanup and forward writes, each retried), `SetDesired`,
`RequestReconcile`, `OperatorRetry`, and the in-place updates of the desired
state. Called by `karid`; calls the REST client.
Hard: a tick is a long sequence of REST calls over a snapshot that goes stale;
answers get lost; a retry ladder can be cancelled; an operator's tick and the
loop's tick share the latch.
Correct when: nothing is exposed that the desired state does not ask for; a
folder found unsafe is not widened in the tick that repairs it, nor while
latched; the latch, its reason and its counter agree; signals are not lost; the
configuration converges.

**REST client** — `rest_client.go` (partly in `Reconciler`, `KaridSync`).
`PutFolder` overlays Kari's fields on the stored folder; an empty type means
"leave it alone". Correct when the overlay never erases what it does not own.

**karid's Syncthing start and pairing** — `cmd/karid/syncthing.go`,
`syncthing_pair.go` → `KaridSync`, abstractly `Sharing`.
State: the in-memory desired state, `pairMu`, the handlers in flight.
Operations: start (pin options, adopt stored folders, run the loop), the pair
handler, crash and restart. Hard: concurrent read-modify-write, a restart that
has only what Syncthing persisted. Correct when no answered pair is lost, no
device gains a folder it was not granted or loses one, and an answered pair
takes effect.

**Lease and membership** — `lease.go`, `membership.go` → `LeaseMembership`.
State: a store of (membership, generation, active) per folder; per session a
lease (active, grace, paused) with its timeout goroutine and its close hook.
Operations: allocate a generation, validate, revoke, revoke-if-current; new
lease, touch, stream error, force close, timeout check. Hard: three mutexes and
no common one, so hooks of earlier sessions run late. Correct when a session
that has been taken over can do nothing to its successor, every close is done
once, no lease outlives its timeout, and a close ends the membership.

**Syncthing sidecar** — `sidecar*.go` → `Sidecar`.
State: the manager's status and child under its mutex, the pidfile that outlives
`karid`, the processes of the machine. Operations: `Start` (judge the marker a
dead `karid` left, evict or refuse, spawn, mark, poll health), `Stop` (signal in
stages, wait, remove the marker), the goroutine that goes on waiting for a stuck
child. Hard: `karid` dies between any two steps, pids are reused, a binary is
upgraded, `Stop` waits without the mutex. Correct when two Syncthings never run
on one home and the marker names the one that runs.

### 1.2 Desktop daemon: kari-syncd

**Sync tasks** — `internal/syncd/sync_task.go` → `SyncTask`.
State: the task table and the last task per project name. Operations: `Create`
(idempotent), `Cancel`, `Tick` (the completion barrier), look-ups. Hard: a tick
judges by a snapshot that was taken before the table's mutex. Correct when a
project has one live task per direction, a verdict is never undone, somebody can
always answer for the last task of a project, and success means what its
comments say.

**Task requests and status** — `sync_task_service.go`, `status.go` →
`SyncBarrier`. The status fields sessions write and polls copy. Hard: the
fields are written in several steps and outlive their session and their bind.

**Bind, run loop, sessions** — `service.go`, `session.go` → `SyncService`.
State: the bound workspace and epoch, `running`/`cancel`, the connection status,
`activeSession`, the paused downloads; each run loop's locals. Operations:
`Bind`, `Start`, `Stop`, the loop (`runLoop`/`runOnce`, back-off, kicked,
revoked), create and cancel. Hard: a cancelled loop is not waited for, so an old
loop and its successor write the same status. Correct when one loop is alive,
the status is true of it, handlers reach its session, a cancelled download stays
paused, and a running daemon connects.

**Auto-release and auto-snapshot** — `sync_task_service.go:198-300`,
`service.go:520-600`. A staging bind is released when idle; a dirty flag drives
snapshot uploads. Not modelled (section 8).

**Other daemon requests** — bootstrap, PTY, clipboard, verification, ignore
files. Not modelled: they run commands or read files.

### 1.3 File-sync session (`internal/filesync`)

**Engine, queue, receive and send** — `engine.go`, `manifest.go`, `receive.go`,
`send.go`, `tombstones.go`, `watch.go`, `outbound_queue.go` → `FileEngine`.
State: the files, their staging files, the index in memory and on disk, the
tombstones, the hashes of received files whose watcher echo is to be swallowed.
Operations: scan and snapshot, building and comparing manifests, receiving
(begin with a kept prefix, write, commit), deleting, sending (record, roll
back), classifying a failed transfer. Hard: what is recorded as sent may not
arrive, a commit echoes as a watcher event, a prefix may belong to another
content, a missing file may have been deleted here or never have been here.

**Session** — `session.go` → `FileSync` (two sessions over a stream).
State: per side the outbound queue, what each sending goroutine has in hand, the
fallback timer, pending transfers, error reports, the stopped and cancelled
flags; the two wires. Operations: `Run`'s opening, the manifest exchange and its
fallback, `sendLoop`, `recvLoop` for files, deletes, errors, cancel and resume,
the watchers, the debounced index flush. Hard: four goroutines a side, a stream
that breaks at any message, one side that falls back to sending everything.
Correct when the workspaces agree after an undisturbed exchange, uploads arrive,
nothing disappears that nobody deleted, and the sessions come to rest.
The one-slot control requests (snapshot, history, verify, abort, list) and the
git, bootstrap and force-allow messages are not modelled.

**Text merge** — `ot.go`: pure; a candidate for a reference-definition check.
**Ignore rules, path handling, platform watchers**: file-system I/O, not
modelled.

### 1.4 Commands of a remote agent on the desktop

**Local exec** — `cmd/karid/local_exec_*.go`, the local exec messages of
`session.go`, `internal/syncd/exec*.go` → `LocalExec`.
State: `karid`'s router (token, bridges, requests), the waiters of a session, the
index from desktop to session, the channels into the send loops; the daemon's
handlers and processes. Operations: start and end of the agent's shell, register
and unregister a bridge, run (dispatch, record, wait, answer), cancel, lookup and
delivery, and on the desktop deny, start, relay, time out, kill, report. Hard:
an HTTP watcher, a bridge's cleanup and a receive loop share one waiter; a
desktop reconnects before its old handler returns; the zero response reads as
success. Correct when a caller is released, what it is told is what became of
the command, the index leads to the live session, and `karid` survives it.

**Exec policy** — `internal/execpolicy/policy.go` → `ExecPolicy`.
State: the policy file, the Loader's cached policy and stat. Operations:
`Decide` (stat, compare, read, store, match), `Match`. Hard: the stat, the read
and the store of several handlers and the user's edits interleave. Correct when
a decision is one the file gave since the request came.

### 1.5 Desktop application (`client-desktop/src/main`)

**Sync scheduler** — `sync_scheduler.cjs`: an LRU of active projects,
activations with generations across awaits. **Import queue** —
`project_import_queue*.cjs`: a persistent queue with recovery of interrupted
rows. **Connection state, overrides, Syncthing control**. None is modelled; the
first two are the candidates (section 8). Everything else is Electron wiring and
user interface.

### 1.6 Not modelled

`ptyinput` (a byte parser; candidate), `remoteexec`, `sessionhistory`, `config`,
`gitutil`, `redact`, `transport` (message types, gRPC wiring, encryption), the
command-line tools, the MCP host configuration of `karid`, the sidecar's XML
file, `client-web` and build files: I/O, formatting or plumbing without protocol
state. `PROJECT.json` lists each with its reason.

---

## 2 Modules

| module | models | relations |
|---|---|---|
| `Reconciler` | the tick, its loop, the latch, the surroundings | |
| `Sharing` | abstract promise of pairing | |
| `KaridSync` | start-up, pairing, crash, over the whole reconciler | extends `Reconciler`; implements `Sharing` |
| `LeaseMembership` | leases, store, hooks, timeouts of one folder | |
| `Sidecar` | the child process, its marker, death and upgrade of `karid` | |
| `SyncTask` | the task table, the abstract view of the daemon's tasks | |
| `SyncBarrier` | requests, polls, sessions and status around the table | extends `SyncTask`; implements `TaskSpec` |
| `SyncService` | bind, run loops, pause flags | |
| `FileEngine` | what an engine's operations do, as functions of its state | |
| `FileSync` | two sessions, their goroutines, the stream, the users | extends `FileEngine` |
| `LocalExec` | bridges, waiters, sessions and processes of local exec | |
| `ExecPolicy` | the Loader and `Match` | |
| `FileInvariants` | the inductive invariants of two sessions, and what their proofs suppose and distinguish | extends `FileSync` |
| `FileSyncProofs` | theorems about `FileEngine` and `FileSync` | extends `FileInvariants` |
| `LeaseMembershipProofs`, `SidecarProofs`, `SyncServiceProofs`, `LocalExecProofs`, `ExecPolicyProofs` | theorems | each extends its module |
| `KaridSyncProofs` | theorems about `Reconciler`, `KaridSync` and its refinement of `Sharing` | extends `KaridSync` |
| `SyncBarrierProofs` | theorems about `SyncTask`, `SyncBarrier` and its refinement of `TaskSpec` | extends `SyncBarrier` |
| `MC*` | constants for TLC | |

Operators marked `faulty` in the comment beside them are wrong variants of the
definition that follows, used to show that a property can fail (`mutants` in
`PROJECT.json`). No specification uses them.

### 2.1 Reconciler

| variable | code |
|---|---|
| `actual` | Syncthing's configuration behind the REST API |
| `desired`, `blocked`, `blockReason`, `coldSafetyFailed`, `lastTickErr` | fields of `Reconciler` under `mu` |
| `requested` | `requestCh`, capacity 1 |
| `runner` | who holds `runMu` |
| `phase`, `snap`, `snapBlocked`, `seen`, `todo`, `repaired`, `attempt` | locals of `reconcileLocked` and its retry loop |
| `priorReason` | local of `OperatorRetry` |
| `disturbed` | history: the configuration was edited after the tick read it |

`SignalTick`/`TickerTick` enter `reconcileLocked`; `GetConfigOk`/`Fails` read;
`PutOk`, `PutFails`, `PutCancelled` are one attempt of one write; `Advance` goes
from a phase to the next; `ReturnOk` and `ReturnError` leave. `todo` is the list
a phase loops over. Forward work is empty when the latch was closed at the
tick's start or anything was repaired in the tick, where the code skips the
forward pass.

### 2.2 KaridSync and Sharing

Adds `server` (down, adopting, up), and per client `handler` (where its request
is), `copy` (the handler's local desired state), and `pairMu`. Each step of
`handleSyncthingPair` between two lock operations or REST calls is an action.
`Crash` resets everything but `actual`. The refinement maps `shared` to the
folder/device pairs in Syncthing and `granted` to those in the desired state
(of Syncthing's while the server is not up: a restart adopts exactly those).

### 2.3 LeaseMembership

`generation`, `active`, `holder` are the store's entry; `gen[s]` is the
generation in the session's identity; `lease`, `lastAuthorizedAt`, `loop`,
`hook` are each session's lease, its stamp, its timeout goroutine, and its
`onClose`. `CheckTimeout` decides under the lease's mutex and `Expire` closes
later, as in the code. `HookIsGuarded` chooses between the two hooks the
repository describes: `RevokeIfCurrent` (membership.go) or `Revoke` (the pattern
in NewLease's comment). Stamps are kept `GraceOffset` ahead to stay natural.

### 2.4 Sidecar

| variable | code |
|---|---|
| `os` | what runs under each pid: nothing, this user's or another's process, a Syncthing of this home, a zombie |
| `pidfile` | `<HomeDir>/syncthing.pid`: pid and hash of binary and arguments |
| `karid` | the hash the running karid would spawn with, or "down" |
| `running`, `stuck`, `cmd` | the manager's status and child under its mutex |
| `starting`, `stopping`, `child` | where `Start` and `Stop` are, and the process each has in hand |
| `draining` | the process the goroutine of `markStuck` waits for |
| `unmarked` | history: live children of a `karid` that died between spawn and mark |

`Start` holds the mutex throughout, so the steps of `Stop` that need it
(`Stopped`, `MarkStuck`) wait for `starting = "idle"`; `StopReaps` does not. Any
process may end at any time, which stands for every signal; `KillOrphan` sees
it gone or gives up. `Verdict` is `checkOrphanOnStart`.

### 2.5 SyncTask and SyncBarrier

`tasks` maps an id to its record, `None` (not given out) or `Evicted` (dropped
after retention); `remembered` is `lastCurrentByName`. `Tick(s)` is the whole of
`SyncTaskManager.Tick` on snapshot `s`. The barrier's time windows are fields of
the snapshot that say for which tasks they have elapsed.

`SyncBarrier` adds `bind`, the sessions and `activeSession`, the status fields
(`connected`, `manifestSeen`, `peerFiles`), `since` (tasks with activity after
their start), polls and a create under way. `TakeSnapshot` is the section of
`tickSyncTasks` under `Service.mu`, `TickTasks` what follows. A session's `recv`
says how far its receive loop got; `MarkManifestExchanged` and
`RecordPeerManifest` are two steps, since the code calls them one after the
other without a lock around both. `inbound` is history: running tasks whose
project received a file.

### 2.6 SyncService

`running` and `cancel` are `s.running` and the loop `s.cancel` ends; `loop[l]` is
a run loop with its phase, whether it was cancelled, the request it copied, what
it read of the pause, whether its handshake was answered, and whether its peer
is sending. `creator` and `canceller` are handlers between their critical
sections: `CreateResume` clears the pause flag, `CreateTell` sends the resume to
the session the handler saw at its start, and a handler whose session is over by
then tells nobody (`Forget`). Two history variables name the races a property has to except:

* `late` — which thing an already cancelled or replaced loop did to the shared
  status: `publish` its session, get its `handshake` answered, report its
  `disconnect`, or report a final `stop`.
* `overlapped` — a cancel ran alongside a create, or alongside a loop between
  reading the pause flag and publishing its session.

Outside these the properties hold; that they need excepting is recorded as
hazards, since no doc or comment claims otherwise.

### 2.7 FileEngine and FileSync

An engine is a record: `disk` and `staging` (the file system), `index` and
`saved` (the index in memory and the flushed one), `tombs`, `supp`
(`suppressedHash`), `parts` (the staging files seen when the engine was made).
`FileEngine` defines what `New`, `Snapshot`, the manifest and `DiffManifests`,
`BeginReceive`, a chunk, `Commit`, `ApplyDelete`, sending, `Rollback` and
`ClassifyForRetry` make of it. A content is the sequence of blocks it is sent
in, and stands for its hash.

`FileSync` has two sides, `client` (the daemon, with a new engine per session)
and `server` (`karid`, with one engine per workspace). A side's mode is `sync`,
`staging` (outbound deletes suppressed) or `control` (a session that only
receives, what `karid` runs by default). `queue` is the coalescing outbound
queue, `work` the batch a sender has taken, `job` the file it streams; there are
two senders, the send loop and the fallback's goroutine. `wire` has a window, so
that a send may block with the other side's messages unread. `pend` is the one
pending write per path. The history variables:

* `calm` — no user has touched a file since the streams met;
* `fell` — the fallback has sent the workspace in this session, so the manifests
  were not compared;
* `forgotten` — pushes dropped in this session: one the peer's manifest asked for
  that a watcher event replaced in the queue or that was taken for the echo of a
  received file, and an edit the snapshot of a resume took for sent;
* `deleted` — paths a user has deleted;
* `crossed` — paths both senders of a side have streamed at once (finding 1);
* `past` — the contents the users' files have had, and `restored`, the paths to
  which a user has given one of them again (section 6).

### 2.8 LocalExec

| variable | code |
|---|---|
| `token`, `bridge`, `recorded`, `releasing` | the router's terminal token, its bridges, their requests, and those an unregister has taken and not cleaned up yet |
| `up`, `made`, `handlers`, `index` | the stream, the `Sync` handlers that have not returned, the desktop's entry in the session index |
| `phase`, `sess`, `expired`, `resp` | `handleRun`: how far it is, the session it used, its HTTP context, its response |
| `waiting`, `chan`, `closed` | `localExecWaiters`, the channel of a waiter, whether it is closed |
| `reqOut`, `cancelOut`, `outputOut`, `doneOut` | the channels into the two send loops |
| `handling` | the event a receive loop holds after it has read the waiter under the mutex |
| `proc`, `cut`, `exit`, `emitted` | the daemon's handler and its process, why its context ended, how it really ended, whether its output was relayed |

`Lookup` and `DeliverOutput`/`DeliverDone` are two steps because `recvLoop`
releases the mutex in between; that is what the panic of finding 2 needs.

### 2.9 ExecPolicy

`file` and `writes` are the policy file and the number of writes that stands for
its stat; `cur` and `stat` the Loader's cache. A handler goes from `Stat` over
`Check` (cache hit) or `Read` to `Store`, holding `seen`, the stat it took, and
`data`, what it read. `verdicts` is history: what the file has said of the
handler's command since its `Stat`. `Match` with `matchArgv` is a function of
rules, command and workspace.

---

## 3 Runs

Times on two workers. The two runs expected to fail are the findings of
section 6.

| run | shows | instance | states |
|---|---|---|---|
| `reconciler` (`Reconciler.cfg`, 53 s) | `TypeOK`, `LatchHonest`, `TickLeavesSafe`, `WideningIsEarned`, `EventuallySafe`, `EventuallyConverged`, `SignalIsHeeded` | two folders, 2 initial configurations, 2 desired states, 2 attempts, 2 faults, 2 edits | 340,290 |
| `karid_sync` (`KaridSync.cfg`, 21 s) | `KaridTypeOK`, `NoPairLost`, `ImplementsSharing`, `PairServed` | two desktops, one folder and a foreign one, 2 pairs, 1 crash, 2 faults | 85,478 |
| `lease` (`LeaseMembership.cfg`, 4 s) | `TypeOK`, `OpenHolderIsCurrent`, `NoZombie`, `NoOverrun`, `CloseRevokes` | two sessions, timeout 2 ticks, grace 1, followed to time 5, guarded hook | 23,622 |
| `sidecar` (`Sidecar.cfg`, 1 s) | `OneSyncthing`, `Marked` | 3 pids (symmetric), 2 hashes, 3 deaths of karid, 5 spawns | 15,689 |
| `sync_barrier` (`SyncBarrier.cfg`, 59 s) | `BarrierTypeOK`, `OneTaskPerProject`, `CurrentAnswers`, `VerdictIsFinal`, `TaskResolves` | two tasks, two projects, one session, one bind, one poll at a time, one cancel | 46,152 |
| `sync_service` (`SyncService.cfg`, 90 s) | `TypeOK`, `OneLoop`, `StatusTruthful`, `SessionReachable`, `PausedStaysQuiet`, `Served` | two loops, 2 binds, 1 broken dial or session, 1 create, 1 cancel | 813,608 |
| `file_sessions` (`FileSessions.cfg`, 150 s) | `ReconnectHeals`, `UploadsArrive`, `NoPhantomDelete` | one path of two blocks, two contents, either side may have it at first; both sides full, or a control-only server; 1 edit or delete, 1 broken stream with either, both or no side restarted, 1 failed commit with a control-only server | 2.38 million |
| `file_live` (`FileLive.cfg`, 70 s) | `TypeOK`, `Quiesces` | one path of one block; all four pairs of modes; 1 edit or delete; 1 failed commit and 1 cancel or resume in the deployed pairs | 238,516 |
| `local_exec` (`LocalExec.cfg`, 24 s) | `TypeOK`, `ReleasedWithBridge`, `AnswerEarned`, `IndexFresh`, `CallerReturns` | one call of one bridge, a desktop that connects twice, a waiter of capacity 1 | 143,450 |
| `exec_policy` (`ExecPolicy.cfg`, 17 s) | `DecisionEarned` | two handlers (symmetric), 3 policies, 3 commands, 3 writes | 621,550 |
| `file_fallback` (`FileFallback.cfg`) | fails `FallbackIsCorrect` | a control-only server or client, 1 edit, no faults | stops at the violation |
| `local_exec_panic` (`LocalExecPanic.cfg`) | fails `NoPanic` | as `local_exec`, without fairness | stops at the violation |

### Why the bounds are enough

* *Reconciler.* Decisions are per folder; the only couplings between folders are
  `repaired` and the latch, which two folders exercise. Two attempts distinguish
  "retry" from "give up" (the code's five add nothing but repetitions). Two
  faults allow latching and a failed retry. One edit may hit any moment of a
  tick; the second tells a repaired folder from one edited again. The proofs
  drop all these bounds but the existence of some bound.
* *KaridSync.* The hazards are between two handlers, or a handler and a crash.
* *LeaseMembership.* A takeover needs two sessions; timeout and grace differ;
  time 5 lets a lease be renewed, enter grace and expire twice over. The proofs
  cover any number of sessions and any time.
* *Sidecar.* One pid for the child, one for its successor, one for a bystander;
  a second hash is an upgrade; three deaths leave an orphan, an orphan of an
  upgraded karid, and one unmarked. The proofs drop the bounds.
* *SyncTask/SyncBarrier.* Duplicate creates, a stale poll against a cancel, and
  a create against a bind each take two tasks, one poll and one bind change. One
  poll at a time is a limit of the run: two polls in the wrong order are in the
  proofs (any number of `Pollers`) but not in the run.
* *SyncService.* Every race is between an old loop, a new one and one handler.
  Two loops are the whole supply: with none left a start is disabled, which
  bounds the run and hides nothing two loops can show. One broken connection
  brings a loop back to its start; one cancel and one create can overlap.
* *FileSync.* Paths are independent but for the batches of a queue, and
  messages of one path are the hard case; with the window of one a send blocks
  whenever the peer has not read. Two blocks give a prefix to resume from, and
  the edit makes that prefix belong to another content. One edit and one break
  can hit any step of the exchange, the repair and each other. More edits were tried apart from the runs: `UploadsArrive` was also checked
  with `MaxEdits = 2` for the two kinds of client of a control-only server, with
  one break and no failed commits (2.9 million states, two minutes), and with
  three edits of a file of one block (5.9 million); this is where contents come
  back (section 6). Either side may
  start with the file, so that one, both or neither has it. Liveness is checked
  without a break: a broken stream starts a new session, which must come to
  rest as the first does, from a state `file_sessions` reaches.
* *LocalExec.* All state is per request and per session. The index needs two
  connections. A full queue into a send loop is a choice, so other traffic need
  not be modelled, and a waiter of capacity 1 is as full as one of 64.
* *ExecPolicy.* The stale store needs one handler that is overtaken, one that
  reads the cache, and edits before, between and after: three writes. The three
  policies tell wildcards, denials by a later rule and foreign workspaces apart.
  The proofs drop the bounds.

### Deadlock

Deadlock is checked for `Reconciler`, `KaridSync`, `ExecPolicy` and `Sidecar`: a
request, a tick or a restart is always possible. `LeaseMembership` is followed
only to `MaxClock`, and the `Sync*`, `FileSync` and `LocalExec` models end when
the supply of binds, loops, ids, edits, breaks, calls or connections does, so
their configurations say `CHECK_DEADLOCK FALSE`: there a state without successor
is the bound, and the liveness properties say what must not get stuck.

---

## 4 Fairness

| assumed | because |
|---|---|
| `WF(SignalTick)`, `WF(TickStep)` | `Run` selects on the channel; a tick is straight-line code whose HTTP calls time out after 10 s. Which way a REST call goes is not constrained: faults are bounded by `MaxFaults` instead |
| `WF(TickerTick)`, in `TickerFires` and `KaridSpec` | `karid` runs the loop with a 10 s ticker. `SignalIsHeeded` does without it |
| `WF(Handle(c))` | an HTTP handler runs on |
| `WF(PassTime)`, `WF(CheckTimeout)`, `WF(Expire)`, `WF(RunHook)` | time passes; a goroutine with something to do does it |
| `WF(TakeSnapshot)`, `WF(TickTasks)` | the client polls about once a second until a task has ended, as `sync_task.go:10-12` expects. It is an assumption on the client: tasks advance only when polled, and the desktop's own `pollSyncTasks` is a stub at this commit (`main.cjs:6367`) |
| `SF(LateTick)` | an assumption on traffic, not on the code: if polls keep judging a connected task, then some of them find no transfer under way and the windows (1 s to 5 min) elapsed. A peer that streams without end would keep a task alive without end, rightly |
| `WF(Advance(l))` | a started run loop runs on, back-off included; dials and sessions may break only within `MaxEnds` |
| `WF` of `Connect`, `Open(s)`, `Watch(s)`, `SendLoop(s)`, `Receive(s)`, `FallbackFires(s)`, `Transfer(s, "fallback")` | the daemon reconnects; each is one goroutine or timer of a session, which runs on |
| `SF(SendError)`, `SF(SendControl)` | these are cases of the send loop's `select` beside its queue; Go picks among the ready cases at random, so a case that is ready again and again is taken |
| `WF` of a request's HTTP handler, its `SendRequest`, the receive loop's `Lookup`/`Deliver`, the daemon's handler (`TimesOut`, `Killed`, `Finish` included) and `SendDone` | goroutines run on; the time limit is a timer and SIGKILL ends a process |

No fairness is assumed of binds, starts, stops, pairs, cancels, edits, failures,
crashes, restarts, touches, broken streams, failed commits, the exit of a
command or of a shell: nobody has to do them. Only `EventuallySafe`,
`EventuallyConverged`, `PairServed`, `Served` and `Quiesces` rely on faults
being finitely many, which is what the bound on them says. `Sidecar` and
`ExecPolicy` claim no liveness: when a killed process ends is up to the
operating system, and a decision is straight-line code.

---

## 5 Proofs

All proofs are by TLAPS, for every value of the constants that meets the named
assumptions, and without the runs' symmetry or bounds.

**Assumptions.** `ConstantsAssumption` (Reconciler), `KaridAssumption`,
`LeaseAssumption`, `SidecarAssumption`, `SyncTaskAssumption`, `MarkersAreNoTasks`,
`BarrierAssumption`, `NoneIsNoSession`, `ServiceAssumption`, `NoneIsNothing` (in
`SyncService` and in `FileSync`), `EngineAssumption`, `SyncAssumption`,
`LocalExecAssumption`, `ExecPolicyAssumption`: constants have their types, and
markers such as `None`, `NoFolder` and `Evicted` differ from the values they
stand beside. TLC evaluates each of them in the runs. Some theorems have
hypotheses of their own, which the configurations of the runs meet:

* `HookIsGuarded`, for four of `LeaseMembership` (section 6);
* `GraceOffset < Timeout`, for `NeverOverrun`: the defaults of `lease.go:174-186`
  are 45 s and 105 s. With equal times a lease would be past its timeout as soon as
  its stream has an error;
* `NamePerRoot`, for `PauseSurvives`: two bind requests for the same root in the
  same mode give the same name, as `workspaceNameByRoot` in `service.go:413-427`
  is there to ensure. Without it TLC finds a create for the second name of a
  root that resumes the downloads of the first, since the peer heeds a resume
  whatever name it carries;
* `ClientSends`, for `EverythingArrives`: a daemon whose server is control-only is
  not control-only itself. The server is, in the deployments, because the daemon
  is to send (`session.go:1560-1745` is the daemon's send loop); two control-only
  sides send nothing, and no file could arrive. And `StartsEarly`: what is in the
  daemon's workspace at first is older than the edits to come, as it is with a
  clock that does not run backwards;
* `StartsAlike`, for the healing of two full sessions: the same for both
  workspaces (time 1, the time before the first edit), and what both have of a
  path at first is the same. Two different files of one time are left different
  for good (`manifest.go:225` compares with `>`), so nothing could be promised of
  them; workspaces whose files differ in time and content are reached by edits
  while no session is connected.

**Reconciler.** `TypeCorrect`, `LatchAgrees`, `WideningEarned`, `Inductive`,
`TickIsSafe`. None of the safety invariants is inductive. `TInv` adds to the type
invariant what the tick's locals are in each phase (`TickShape`: there is a
snapshot and an observation exactly while a tick runs, and what is still to do
is part of what the phase planned) and how an operator's tick ties the latch to
`priorReason` (`LatchShape`). `RepairLog` says that a tick that has repaired
nothing found nothing to repair in the phases behind it: it is what turns
"forward work is left" into "the observation was safe", hence `WideningEarned`.
`Progress` says, folder by folder, what an undisturbed tick has made of the
configuration by now: not yet written, or as the phase in charge of it left it.
A lost answer may have applied a write, so a folder in `todo` may be in either
state. At `done` it implies `TickLeavesSafe`. Together they are `IInv`.

**LeaseMembership.** `IInv` is the type, `GenerationsDistinct`, `ClosedOnce`,
and `Bookkeeping`: what store, lease and hook know of each other. From it follow
`GenerationsNeverReused`, `TakeoverIsSafe`, `ZombiesRejected` and `HookOnce`, for
any number of sessions; these suppose `HookIsGuarded`, and `TakeoverIsSafe` fails
without it (section 6). `NeverOverrun` needs the type only, and no guarded hook:
the check a tick makes finds the lease younger than its timeout, and whatever
stamps it between that check and the next tick, `Touch` or the grace of
`MarkStreamError`, leaves it younger than its timeout too.

**Sidecar.** `MarkerNamesIt` and `OneRuns`. `Marked` alone is not inductive:
`Start` removes markers and writes its own. `Owned` says why it may: what runs
and is known (`Known`, everything but children of a `karid` that died before
marking them) is the manager's child when it is `running`, the child in hand
while `Start` marks or polls, and nothing when `Start` is about to spawn;
`CheckOrphan` gets there by `VerdictMeans` and the marker. `StartAlone` keeps
`Start` and `Stop` apart as the mutex and the guards do, `StopOfChild` makes the
process `Stop` has waited for the only one that could have run, so that its
marker may go. For any number of pids, hashes, deaths and starts.

**KaridSync.** `KaridTypeCorrect`, `PairsAreKept` and `KaridImplementsSharing`, over
the whole reconciler: its `TInv` holds again, since `karid`'s own steps are a
`SetDesired`, a signal, or a restart in its initial state. `CopyFresh` is what
`pairMu` is for: what a handler read is still the desired state when it stores
its own. With `Remembered` no pair that was answered is lost. The refinement
needs to know where a share comes from: what Syncthing shares was in the
observation or is granted by the tick's copy of the desired state, and the
desired state only grows while the server is up (`Sharings`). Hence every write
that shares grants nothing new, and a crash, which leaves `granted` at what
Syncthing has, forgets only what no tick has written.

**SyncTask.** `OneTask` rests on `LiveStep` (a step makes at most one task live,
and only one no live task overlaps with), `VerdictFinal` on `EndedStep`, and
`AlwaysAnswers` on `Answers`: what is remembered is an id that was given out,
which no later create can make live again.

**SyncBarrier.** `ImplementsTable` is `BarrierSpec => TaskSpec`: every request,
poll, hook and bind of the daemon is an operation of the table or leaves it
alone, given the type of the snapshot a poll builds (`BarrierTypeCorrect`, proved
in three parts for the sessions, the status and the requests). The three
properties of the table carry over: `DaemonOneTask`, `DaemonVerdictFinal`,
`DaemonAnswers`, for any number of concurrent polls.

**SyncService.** `OneLoopAtATime`, `StatusIsTruthful`, `LiveSessionReachable`,
`PauseSurvives`, for any number of loops, binds, handlers and breaks. `Current`
ties the loops to the fields of the service: `cancel` belongs to a live loop
while it is `running`, and no other loop is alive. It is what makes a bind that
cancels without waiting safe, and it is lost exactly when a dying loop reports
a final stop (`late` has `"stop"`). `Pointers` says that a session pointer,
the service's or one a handler holds, leads to a session that is not over, and
`Reachable` that the session of a loop nobody cancelled is the one published.
For the pause, `Quiet` follows a cancelled name through its stages: a loop that
has read the flag will start paused, a session has told its peer, or the cancel
is still in a handler's hands; that the name is that of the session is
`OnWorkspace`, with `NamePerRoot`.

**FileSync.** `FileTypeCorrect` is the type of everything two sessions hold,
including what may stand in a queue or on the stream, by one lemma per variable
over the steps that write it (`...Frame`, `...Leaves`). `NothingVanishes` is
`NoPhantomDelete`: a path that no user has deleted leaves no workspace. A
deletion can be made up in many places: a scan that misses a file the index
lists, a tombstone that beats a newer file, a manifest without the path, a
rollback that restores an old tombstone, a task or event for a file that is not
there. `Innocent` says for every path nobody deleted that none of these exists:
both engines are `Tidy` (no tombstone, and no entry of either index without the
file), nothing that would send a delete is noticed, queued, taken or on the
stream, and a job streams a file that is there. The hard part is the manifest:
a staging file left behind counts as a live entry of time 0, so a side that has
the beginning of a file would delete it if its peer listed the path as deleted,
and would push it if the peer did not list it. `Begun` says that a side has a
beginning only of a file its peer has, and `Harmless` that no manifest on its
way misses the file of a peer that has a beginning. For any number of paths,
blocks, edits, broken streams and crashes, cancels, resumes and failed commits,
in every pair of modes. Of `DiffManifests` itself, `OneSidePushes` says that two
manifests never make both sides push a path, and `NothingMissedSilently` that
what neither pushes is the same on both sides or a tie of two times. Ties are
left as they are: two files written at the same time stay different.
`OneDateOneFile` says when that loses nothing.

`EverythingArrives` is `UploadsArrive`, for any number of paths, blocks, edits,
cuts, crashes, failed commits, cancels and resumes. What makes it hard is that
nothing but the files says what was meant: a path is announced, its blocks follow
one by one while the user goes on writing, the server may have begun, and the
index takes the transfer for done from its start. `UploadInv` says two things of
a path. `Streams`: there is a function along the daemon's stream, from each
message to what the server will have of the path when it has received that much
(`After`), which begins with what it holds now, ends with what a sender that is
streaming it has sent, and of which every value fits the daemon's file: it is
older, or its blocks are the file's own. (A block that is not is of a file
overwritten since, so it is older.) A path that two goroutines
stream has no such function, which is finding 1. And `Coming`: a
file the server does not have is `Ahead` (changed, still to be pushed when the
fallback timer fires, or dropped for a reason the property names), in transfer
with its present time, about to end on the stream as just that file,
refused by an error on its way back (which makes it changed again), or `Settled`.
`Remembers` is why an edit is `Ahead`: what the daemon's index holds of a file is a
content its user has had in it before, so a new one differs from it. Hence paths
in `restored` are left out.

`UndeletedHeals` is `ReconnectHeals` as long as nobody deletes a file, and
`EachUndeletedPathHeals` is the same for each path that is left alone, whatever
users delete elsewhere; for any number of paths, blocks, edits, cuts, crashes,
cancels, resumes and failed commits. `HealInv` adds to the invariant of
`NothingVanishes` what holds of whole sessions (`Sessions`: who is told to stop,
when the fallback streams) and four parts for every path not in `deleted` or
`crossed`:

* `Times`: no file is newer than the clock, and nothing a side has announced (on
  the stream, or begun by its peer) is newer than the side's own file. So a
  file can only be replaced by one its peer has, or had.
* `Untied`: of one time both sides have the same file, and what a side sends of
  its file's present time are the file's own blocks, while it could be accepted.
  It is this a second stream of the path would break (`crossed`), and this that
  makes the tie in `DiffManifests` harmless.
* `Recent`: while nobody writes, the newer file is announced with its present
  time, not with one from before an edit, which the peer would keep.
* `Heals`, while neither user nor fallback has interfered since the session
  began, for a side whose file is `Newer`, or the only one: manifests on
  their way are `Truthful` about the path; the other side is `Passive`, that is it has
  nothing to push, to finish or to have refused; and something `Delivers` the
  file: a manifest still to come or to be read, a task in the queue or taken,
  a change the next look at the file finds, a transfer, its last message, an
  error on its way back, or the push was dropped, which the property names. A
  cancel takes a transfer away at any of its steps, hence `SafeIfCancelled`: the
  transfer was cancelled only by what also keeps the push (`Safe`).

When nothing is under way, no case of `Delivers` is left but the dropped push, so
neither side is `Newer` otherwise, and by `Untied` what is not newer is the same.
A step either leaves both files of a path as they are, and then the parts of
`Heals` are kept one by one (`PassiveStays`, `SafeStays`, `DeliversStays`), or it
writes one of them, and then it makes both the same, starts the session
(`HealsAtFirst`), or is a user's, which `calm` leaves out.

Looking for this invariant showed that `ReconnectHeals` had to say two things
more than it did; TLC confirms both. A control-only side that a user
has told to resume is no longer `stopped` and still pushes nothing, so the property is
of two full sides. And after a deletion equal times prove nothing: if both fallbacks stream a
path at once and a user writes and deletes it on the server
meanwhile, the client may be left with a mixture and the server with
the client's old file, both of the old time. So the property allows a
path in `deleted` to differ if both files have one date.

**LocalExec.** `CallersReleased`, `AnswersAreEarned` and `IndexStaysFresh`, for any
number of callers, bridges, reconnections and any capacity of a waiter. `IInv`
is where a request can be: `OneWaiter` (a dispatched request's waiter is in the
table, its Done is in the receive loop's hands, or the waiter is closed),
`Tracked` (what waits under a bridge is recorded by the router, or about to be
cleaned up), `SentOnce` and `DoneIsFinal` (a request reaches the desktop once and
a Done is of a process that has ended), and `Verdicts` (an open waiter holds
output only, a closed one the verdict of its process unless its caller or bridge
is gone). `Tracked` is what a request registered after its bridge is gone would
break; the code closes its waiter itself.

**ExecPolicy.** `MatchMeans` says what `Match` decides without its loops and
slices: an argument vector is granted when some rule of the workspace allows it
by an exact pattern or a prefix and a wildcard, and none denies it (through
`ArgvMeans`). `DecisionsAreEarned` rests on `Fresh` and `Accounted`: if the
cache, or a handler about to store, holds a policy under the stat a deciding
handler has taken, then the file has given that policy's verdict since. It is
this that a handler which stores an older policy cannot break, because it stores
it under the older stat.

**Only model-checked.** Liveness, as TLAPS does not reason about `ENABLED`:
`EventuallySafe`, `EventuallyConverged`, `SignalIsHeeded`, `PairServed`,
`CloseRevokes`, `TaskResolves`, `Served`, `Quiesces`, `CallerReturns`. Of the
safety properties every one has a theorem; that of `ReconnectHeals` leaves out
paths that users delete (section 8).

---

## 6 Findings

Each of these is a run TLC finds violated, against a comment in the repository.

1. **The fallback can leave the server with an old file for good**
   (`file_fallback`). A control-only server sends no manifest, so two seconds
   into a session the daemon's fallback timer sends the whole workspace from its
   own goroutine while the send loop sends what the watcher queues. Both may
   stream one path; the receiver has one pending write per path, so the second
   `file_meta` discards what the first staged, and the older stream's chunks are
   committed under the newer time. `session.go:1358` calls the fallback "slower
   but correct".
2. **A cancel can bring karid down** (`local_exec_panic`). `recvLoop` reads a
   waiter under the mutex and sends on it after releasing it; the cancel of an
   HTTP caller, or the cleanup of its bridge, closes it in between.
   `session.go:1193` calls that close safe.

### Statements the code does not keep, without a run

The modules can show these too; each becomes a run by the change named.

* *An empty folder type never converges.* `diffFolder` compares types literally
  while `PutFolder` leaves the type alone when the desired one is empty, so
  every tick finds the folder drifted, writes it paused again, and never comes
  to unpause it. `karid` always sets a type. (`Reconciler`: a desired folder of
  type `Unset`, `EventuallyConverged`.)
* *A latched reconciler swallows pairs.* Nothing in `karid` calls
  `OperatorRetry`; pairs are answered 200 and never take effect. `PairServed` is
  the weaker statement that holds. (`KaridSync`: `PairTakesEffect`.)
* *The hook recommended with `NewLease` is the one `Revoke` warns about*: an
  earlier session's late close revokes the successor. (`LeaseMembership`:
  `HookIsGuarded = FALSE`.)
* *A download can succeed without a file*: a poll between the two writes of a
  manifest's arrival, or after a rebind, believes "empty peer". *An upload can
  succeed with a full queue*: the pending count the barrier copies is never
  written. (`SyncBarrier`: `DownloadEarned`, `UploadDrained`.)
* *A resume can cost an edit.* It makes the daemon take a snapshot, which
  records what is on disk as sent; an edit whose watcher event is still to be
  handled is then no change. The comment calls it "Always-safe to fire".
  (`FileSync`: `ResumeIsSafe` with cancels and resumes allowed.)
* *A content that comes back can be missed.* The index takes a hash for what was
  sent, and what a user gave a file again later for what it knows. So a file
  that changes and changes back while its blocks are read leaves a mixture of
  the two on the server, whose `file_done` has the hash of the bytes sent, while
  the index and the file agree and no rescan sends it again; and a file saved
  anew with its old content does not go out, although its new time would beat
  the server's newer file. `UploadsArrive` is stated for paths no user has
  `restored`; TLC shows both cases with two edits when that is left out.
* *The hash of a marker protects no bystander.* It is compared with what `karid`
  would spawn, not with the process that has the pid (`sidecar_pidfile.go:22-27`
  and `:247`). And `Start` and `Stop` do not serialize, as `sidecar.go:126-128`
  says: `Stop` waits without the mutex. `Sidecar` models it so.
* *`AbortListSessions` is not benign*: a late reply is handed to the next caller
  (`session.go:2352`). Not modelled.

---

## 7 Abstractions and limits

* A folder's type and path are one value, its label is left out. The four
  options are one value. The order of writes within a phase is fixed by
  `CHOOSE`. `PutFolder`'s read-modify-write is one step; `tickErrCount` and
  `lastTickErrAt` are left out.
* `OperatorRetry`, `RunOnce`, the in-place updates of the desired state, and the
  lease and membership types are exported but have no caller in the repository.
  Where modelled, the callers are those their comments describe.
* `karid` is modelled without the devices it registers (`PutDevice` succeeds or
  fails), and its handlers without authentication and path checks.
* Times are ticks in `LeaseMembership`, edit counts in `FileSync` and
  elapsed-or-not elsewhere. Task timestamps, byte counts and error texts are
  left out, except that `inbound` and `down` say whether anything arrived.
* In `SyncBarrier` one session is connected at a time (overlapping loops are in
  `SyncService`), and `Stop` and the auto-release appear as a session's return. In
  `SyncService` a task is only what it does to the pause flag and the loop, and
  the auto-release is a `Stop`. Resume and cancel messages do not say which
  project they mean, as in the code: they reach whichever session the handler saw.
* The run loop's back-off is a step without duration.
* *FileSync.* The runs have one path. Left out: end-of-line normalisation (two
  contents are equal or not), ignore rules, directories and links, proposals and
  text operations, force-allow, the repository-URL pause, acknowledgements,
  `startPaused`, the version field of live entries (a file's version is its
  time), and the gate for an inaccessible root. `Commit` and `ApplyDelete` are
  one step each under the engine's mutex. Both machines share a clock, which
  the comparison of times supposes. An engine flushes when it says so or not at
  all: the last debounced flush of an engine already replaced is left out.
  `ReconnectHeals` says nothing of sessions in which the fallback ran, of
  control-only sides, or of two files of one date on a path somebody deleted, and
  neither it nor `UploadsArrive` of paths in `crossed` (finding 1) or of pushes
  that were dropped, and `UploadsArrive` nothing of paths in `restored` (section 6); with `Slow = {}` a side that sends a manifest sends it
  within the two seconds.
* *LocalExec.* A command's output is one chunk. The receive loop
  gives up on a waiter that stays full for two seconds; the model's waits, since
  the handler drains the waiter until it returns. A token that expires is one that is revoked. Arguments,
  directory, environment, output caps, listeners and the audit log are left
  out.
* *ExecPolicy.* Two writes of the file differ in time or size, so that the stat
  tells them apart. The environment filter and the time limits are not
  modelled.
* *Sidecar.* One `Start` and one `Stop` are under way at a time. Ports, the
  XML configuration and the health endpoint are choices. Whom a signal hits is
  left to the environment: any process may end at any time.

---

## 8 Plan

Done: the reconciler and `karid`, leases, the daemon's tasks and run loop, the
file-sync sessions, commands run for an agent with their policy, and the
sidecar, in the order of how much damage a fault does: exposing files first,
losing control of a session next, then losing edits, misreporting a transfer or
a command, and leaving processes behind.

Next, extending the model:

1. `ControlRequests`: the one-slot snapshot, history, verify and list requests,
   which carry no id; a late reply must not answer the next caller.
2. `AutoRelease` and `AutoSnapshot`: the auto-release latches under the mutex
   but stops in a goroutine (`sync_task_service.go:244`), so a bind in between
   is stopped; an acknowledgement must not clear a newer edit
   (`service.go:580`).
3. What a cancel may stop: a cancel of a download that ended long ago still
   pauses the project (`sync_task_service.go:161`), and two polls out of order
   cancel, as unbound, a task of the new bind (`:192`).
4. `DesiredInPlace`: `UpdateDesiredFolder` assigns an element of a slice a tick
   shares (`reconciler.go:615`), `PutFolder` is two HTTP calls
   (`rest_client.go:195`), and a write that fails for good ends the tick before
   the later cleanup writes (`reconciler.go:649`).
5. `Scheduler` and `ImportQueue` of the desktop.
6. `OperationalTransform`: `ot.go` against the convergence of both orders.

Next, proving:

1. `ReconnectHeals` for paths that users delete. A tombstone has a time too and takes part in
   the comparison like a file, but it can be older than a transfer of the file it
   buries, so `Times` does not hold of it; what holds instead has to
   follow each deletion until both sides have heard of it.
2. The liveness properties, with a prover that knows `ENABLED`: their ranking
   (tasks, messages, transfers, remaining faults) is what the runs' bounds count.
