# TLA+ models of the PikiwiDB network core

This directory holds TLA+ models of the event-loop and TCP layer under
`src/src/net/`, and of the server bootstrap in `src/src/pikiwidb.cc`. It
also holds the TLC configurations that check them, and `PROJECT.json`.
`PROJECT.json` lists the components, the runs, the fault variants used
as mutants, and the source lines each definition translates
(`"map"`). It also lists the findings and the hazards.

## 1. The system

| Part | Source | State | Operations |
|---|---|---|---|
| EventLoop | `net/event_loop.{h,cc}` | `running_`, inbox `tasks_` under `task_mutex_`, `objects_` registry, static `obj_id_generator_` and `timerid_generator_` | `Run`, `Stop`, `Execute`, `ScheduleLater`, `ScheduleRepeatedly`, `Cancel`, `Register`, `Modify`, `Unregister`, `Listen`, `Connect`, `Reset` (tests only) |
| LibeventReactor | `net/libevent_reactor.{h,cc}` | `event_base_`, `timers_` (id to Timer), `objects_` (id to read/write events), a 10 ms persistent wakeup event | `Register`, `Modify`, `Unregister`, `Poll` (EVLOOP_ONCE), `Schedule*`, `Cancel`, `TimerCallback` |
| PipeObject | `net/pipe_obj.{h,cc}` | a non-blocking self-pipe | `Notify` (write 1 byte), `HandleReadEvent` (read 1 byte) |
| TcpObject | `net/tcp_obj.{h,cc}` | `state_` (None, Connecting, Connected, Disconnected, Failed), `bev_`, four callbacks, `idle_timer_`, `idle_timeout_ms_`, `last_active_` | `OnAccept`, `Connect`, `HandleConnect`, `HandleConnectFailed`, `HandleDisconnect`, `OnRecvData`, `OnEvent`, `SetIdleTimeout`, `CheckIdleTimeout`, `ActiveClose`, `SendPacket`, destructor |
| TcpListenerObj | `net/tcp_listener_obj.{h,cc}` | `listener_`, `on_new_conn_`, `loop_selector_` | `Bind`, `OnNewConnection` (posts `create_conn` to the selected loop), `OnError` |
| PikiwiDB | `pikiwidb.{h,cc}` | `event_loop_`, `g_qdbPid`, `g_lastPDBSave` | `Init` (Listen, three repeating timers), `Run`, `Stop` (from SIGINT), `OnNewConnection`, `PdbCron` (fork a saver), `CheckChild` (wait3) |

### How the parts interact

- Every loop runs on its own thread.
- Other threads reach a loop only through `Execute`. `Execute` appends a closure to `tasks_` under `task_mutex_` and writes one byte to the notifier pipe.
- `Run` repeatedly tries the lock. When it gets it, it swaps the inbox out and runs the closures in order. It then calls `Poll` once, which runs libevent callbacks. These are the notifier, socket events of the registered objects, and timers.
- An off-thread `ScheduleLater`/`ScheduleRepeatedly` takes its timer id from the atomic generator at once, returns it, and posts the arming closure.
- An off-thread `Cancel` posts a closure.
- On the loop thread, all of these act immediately.
- The listener's accept callback posts `create_conn` to the loop chosen by `SelectEventloop`. `create_conn` builds a `TcpObject`, runs `OnAccept` and `HandleConnect` (which call `on_new_conn_`), and then calls `Register`.
- A `TcpObject` lives as long as some `shared_ptr` holds it. The holders are the loop's `objects_` (until `Unregister`), the caller of `EventLoop::Connect`, or the callback's own `me`.
- The idle-timer closure and the posted `ActiveClose` closure hold only a `weak_ptr`.

### Behaviours that are hard to test

- The inbox is shared by any number of posting threads. `try_lock` may fail, and a full pipe drops the wakeup byte.
- A timer id is handed out before the timer is armed. Cancels can arrive before or after the arming.
- A repeating timer callback may close a connection.
- `on_message` can re-enter `ActiveClose`, so a handler can close the connection while the read loop is running.
- The peer can close with FIN or RST at any point. Bytes can arrive after a disconnect while a handle is still held.
- Callers may drop a handle at any time.
- `ActiveClose(sync=true)` blocks a foreign thread on the loop.
- Integer ids can wrap.
- The saver child can finish between two cron ticks.
- `accept()` can fail at the descriptor limit, or return a network error pending on one client's connection.

### What should hold

These come from `spec.md` section 8 and the code's comments.

- **Loop and timers:**
  - a posted task eventually runs while the loop runs;
  - each submitter's tasks run in order;
  - a cancel that has been carried out is final;
  - a thread blocked in `ActiveClose(sync=true)` is released once its closure runs (spec 4.E).
- **Connection:**
  - exactly one of `on_disconnect`/`on_connect_fail`, at most once;
  - no `on_message` after the connection leaves Connected;
  - a peer close is eventually seen.
- **Registry:** every `Register` returns, across the id generator's wrap-around; no reactor record outlives the object's entry in `objects_`.
- **Listener:** an accepted socket ends up owned by a connection or closed; an error `accept()` returns for one client never stops the server (the `man 2 accept` that `OnError` cites).
- **Server:** `daemonize` leaves one server and the spawning stops; `ParseArgs` accepts the command lines `Usage()` lists and no other; at most one saver child; `g_qdbPid` is cleared once the saver exits; `CheckChild` only ever reaps the saver (its assert).

## 2. Modules

### EventLoop.tla (with MCEventLoop.tla)

EventLoop models one loop thread and a set `Threads` of foreign threads.

**Loop state.**
- `lpc` is where `Run` is: top of the loop, draining `funcs`, in `Poll`, or exited.
- `tasks` is the inbox and `funcs` is the swapped-out batch.
- `mutex` is the holder of `task_mutex_`.
- `pipe` is the number of bytes in the notifier pipe, capped by `PipeCap`.

**Timer state.**
- `timers` is the key set of `LibeventReactor::timers_`.
- `repeat` holds each timer's flag.
- `timerGen` is `timerid_generator_`.

A foreign thread goes through `ExecuteUser`/`Schedule`/`Cancel`, which prepare a closure. It then takes the mutex (`Lock`) and appends and notifies (`Post`). `Stop` is an environment action.

A thread of `Waiters` behaves as `TcpObject::ActiveClose(sync=true)` off the loop: after `Post` it blocks in `fut.get()` (`FutureGet`, `tpc = "get"`). The `RunUser` that runs its closure sets the future and releases it.

The loop's actions follow `Run`:
- `LoopTest`, the `while (running_)` test, as a step of its own: a `Stop` after it still lets one more batch be swapped and run, as in the code;
- `TryLockOk` or `TryLockBusy`;
- `RunUser`, `RunArm`, `RunCancel` and `DrainDone` while draining;
- `TimerFires`, `NotifierRead` and `PollReturn` inside `Poll`;
- `RunExit`.

Code that runs on the loop thread (a user task or a timer callback) may call the API in-loop. `LoopEffects` is the set of those calls: schedule a timer, or, when `LoopCancels` holds, cancel any allocated id. This is what `~TcpObject` and `SetIdleTimeout` do with `idle_timer_`.

### Mailbox.tla: what Execute promises

Mailbox is the abstract specification of the inbox. It has one FIFO `queue` of submitted closures and the loop state `lstate` (running, stopping, exited). Its actions are:
- `Put`, at any time;
- `Take` of the head, until the loop exits;
- `Stop`;
- `Exit`, which discards what is left.

Its fairness is `WF(Take \/ Exit)`. EventLoop's `MailboxRefined` instantiates it with this mapping:
- `queue <- funcs \o tasks`;
- `lstate` from `running` and `lpc`.

Under that mapping:
- `Post` is `Put`;
- `RunUser`/`RunArm`/`RunCancel` are `Take`;
- `RunExit` is `Exit`;
- every other step stutters.

The swap in `TryLockOk` leaves the queue unchanged, because `funcs` is empty at the top of the loop.

### TcpConnection.tla (with MCTcpConnection.tla)

TcpConnection models one `TcpObject` on its loop. All of its handlers run on the loop thread, one at a time.

**State.**
- `state` is `state_`.
- `registered` says whether the object is in `objects_`, `held` whether a caller holds a `shared_ptr`, and `freed` whether the destructor has run.
- `readOn` is EV_READ enabled on the bufferevent.
- `peer` and `wire` are the peer's socket and its unread bytes.
- `inbuf` is the input buffer.
- `rpc`, `len`, `total` and `err` are the locals of `OnRecvData`'s consume loop.
- `idleTimer`, `lastActive` and `now` model `idle_timer_`, `last_active_` and the clock.
- `posted` counts `ActiveClose` closures waiting in the inbox.
- Counters record how often each callback has been called.

**Handlers.** Each code handler is one action:
- `Accept`: `create_conn` with `OnAccept`;
- `Connect` and `ConnectRefused`: `TcpObject::Connect` succeeding, or failing at once (no callback runs, and `EventLoop::Connect` returns null);
- `Connected`, `ConnectFailed`: `OnEvent` in kConnecting;
- `HandleConnect` is shared by `Accept` and `Connected`;
- `Readable`, `OnMessage`, `FinishRecv`: `OnRecvData`;
- `EofEvent`, `ErrorEvent`: `OnEvent` in kConnected;
- `IdleClose`: the timer closure with `CheckIdleTimeout` and an in-loop `ActiveClose`;
- `SetIdleTimeout`;
- `ActiveCloseOffLoop`, `RunPostedClose`.

**Environment.** `PeerSend`, `PeerClose`, `DropHandle` and `Tick` are the environment. `Release` is the destructor: it runs when neither `objects_` nor a caller holds the object after a handler's `me` drops.

**Switches.** Constants switch on the behaviours the library allows but PikiwiDB's own use does not exercise:
- a held handle;
- a re-entrant close from `on_message` (`Reentrant`);
- peer resets;
- `SetIdleTimeout` after traffic (`IdleAnyTime`).

### Registry.tla (with MCRegistry.tla)

Registry models the object registry of a set `Loops` that share the
`obj_id_generator_` static. The generator is an `int` of `IdBits` bits.

**State.**
- `gen` is the generator.
- `uid` holds the objects' unique ids, with -1 for unset.
- `reg` is each loop's `objects_`, a set of `<<id, object>>`.
- `rrec` is each reactor's `objects_`, a set of `<<id, watches>>`.
- `alive` says whether `reactor_` is still set.
- `rpc`, `cur` and `cand` are the locals of a `Register` in progress.

**Actions.**
- `Register`'s do-while is split at its atomic operations. `RegisterStart`/`RegisterRetry` do the `fetch_add`. `RegisterCheck` does the `id < 0` test with `store(0)`, the `objects_.count` test, `SetUniqueId`, `LibeventReactor::Register` (`ReactorRegister`) and the insert.
- `Unregister`, `Modify` and `LoopExit` (the end of `Run`) are the other actions. `ReactorUnregister` and `ReactorModify` are the reactor halves.

**Overflow.** `fetch_add` on the atomic wraps. The `+ 1` on its result overflows when the old value is the largest int. That is undefined behaviour, so `Negative` lets the `id < 0` test on the smallest int come out either way: an optimiser may fold `old + 1 < 0` into `old < -1`. With the folded test the smallest int is registered as an id, against spec invariant I2 (every registered id is >= 0). An earlier version of the project checked that as a violation run. It gave way to the listener's accept abort, and the `registry` run still checks that `Register` returns across the wrap. Uniqueness within `objects_` is not a property: the `count(id)` test and the insert are one step on the loop thread, so it would restate that guard.

**Initial state.** `Init` starts the generator at any non-negative value. Earlier registrations in the process may have left it anywhere.

### TcpStateMachine.tla: what a connection promises

TcpStateMachine is spec 4.E's state-machine table as an abstract specification. Its variables are the connection's state and whether the loop's registry holds it. The accept path goes None to Connected. The connect path goes None to Connecting, then to Connected or Failed. A Connected connection goes to Disconnected. Registration starts with the connect or the accept and ends on entering a terminal state, which is never left.

TcpConnection's `StateMachineRefined` instantiates it (`INSTANCE ... WITH state <- state, registered <- registered`) and checks `Abstract!Spec` as a property. Every handler, callback and destructor step must then be one of the table's transitions, or leave both variables unchanged. `ConnectRefused` leaves the state at None and frees the object, which the table allows as a stutter.

### Listener.tla (with MCListener.tla)

Listener composes `TcpListenerObj` on the loop `Main` with the loops it routes connections to. A connection is abstracted to its socket `fd` and to the state of the `TcpObject` that owns it. The rest of that object is in TcpConnection.

**State.**
- `bound` says whether the listener is bound and enabled.
- `lst` is each loop's state (running, stopping, exited).
- `inbox` holds the sockets whose `create_conn` closure waits in each loop's `tasks_`.
- `fd` says where each client socket is: not yet connected, in the kernel backlog, queued in a closure, owned by a `TcpObject`, or closed.
- `home`, `cstate` and `reg` are the chosen loop, the `TcpObject` state, and whether `objects_` holds it.

**Actions.**
- `Bind` is `TcpListenerObj::Bind`.
- `ClientConnect` is the environment.
- `AcceptBadAddr` and `OnNewConnection` are the two paths of the accept callback. `Targets` is `SelectEventloop`.
- `CreateConn` is the `create_conn` closure. It runs at once on `Main` (`Execute` in-loop) and through `RunCreate` on another loop.
- `PeerEof` is a FIN handled by `HandleDisconnect`.
- `OnError` has two cases. At the descriptor limit (`Exhausted`, with the model's open client sockets counted against `FdLimit`), `accept()` fails with EMFILE/ENFILE. `OnError` only logs, so accepting is disabled and the connection waits in the backlog. `AcceptNetError` is a connection that `accept()` dequeues with a pending network error (`NetErrors`). For an errno the switch lists (`Listed`) it returns. For any other errno it reaches `assert(false)`, and with `Asserts` (a debug build) the process aborts: every loop stops and every descriptor is closed.
- `Stop` and `LoopExit` are the loop's stop and the end of `Run`. `objects_.clear()` destroys the registered connections; on `Main` it also destroys the listener, which closes its backlog.

`CallbackCloses` lets `on_new_conn_` call `ActiveClose` in-loop, which the library allows; `PikiwiDB::OnNewConnection` does not.

### Server.tla (with MCServer.tla)

Server models the PikiwiDB processes of `pikiwidb.cc`. A process is a slot of `Procs`, and a slot is free until `posix_spawn` or `fork` takes it. Pids are reused once a process is reaped, and running out of slots is a failing `fork` or `posix_spawn`.

**State.**
- `ppc` is where each process is: before the daemonize spawn, before `Init`, in `Run`, saving (a saver child), a zombie, or free.
- `parent` and `saver` hold each process's parent and whether `PdbCron` forked it.
- `qdbPid` is each server's `g_qdbPid`.
- `port` is the process whose listener holds the port.
- `asserted` records that `CheckChild`'s assert was reached.

**Actions.**
- `Start` is `main`: `ParseArgs` of the constant `Args` (the process ends on false or on `-v`/`-h`), then the `posix_spawn` of itself under `daemonize`. Every copy gets the same arguments.
- `InitServer` is `Init`: it binds the port, or fails while another process holds it, and `main` returns.
- `PdbCron` forks the saver, and `SaverExit` is its `_exit` (or death).
- `CheckChild` is `wait3(WNOHANG)` reaping any dead child.
- `Stop` is SIGINT.
- `Exit` is the operating system's part: a process becomes a zombie of a live parent, or is reaped by init, and its children are reparented.

**Assumptions.** `PDBSaver::SaveDoneHandler`, `PREPL` and the inputs of the save condition (`g_lastPDBSave`, `PStore::dirty_`) are not in the repository. The model assumes three things about them:
- the handler sets `g_qdbPid` back to -1, as its name and `PdbCron`'s guard require;
- no replica asks for a background save;
- the save condition may hold whenever `PdbCron` runs.

### CmdLine.tla

CmdLine holds `PikiwiDB::ParseArgs` as the pure operator `Parse`, a recursive translation of its index loop. An argument is abstracted to the class the parser tells apart:
- `"file"`, a readable path;
- a prefix of one of the five options;
- `"val"`, anything else.

The result is the status (returned true, returned false, or `exit(0)`), whether `cfgFile_` was set, and whether some `av[j]` with `j >= ac` was read.

The reference is `Usage()` read as a grammar: `Groups` lists the groups, `WholeGroups` splits a line into them, and `RefStatus`/`RefCfg` give the expected outcome. `ArgsParsedAsDocumented` compares the two over every line of up to `ArgsBound` arguments.

### Fault variants

A module also defines fault variants, each an operator named after its bug (`PostFront`, `ReleaseLeak`, ...) defined just before the definition it changes. Each is a plausible bug in the code that definition models, such as a dropped guard, a reversed order or a leaked reference. `PROJECT.json` pairs each variant with a property that TLC must then find violated.

## 3. Runs

| Run | Config | Expect | What it shows |
|---|---|---|---|
| loop_safety | MCEventLoop.cfg | pass | Two threads, two tasks each, one timer id scheduled and cancelled off the loop, a repeating timer firing twice, try_lock failures and a one-byte pipe. `SyncCloseReturns`: thread `t1` waits on each task it posts; it is released, unless the loop exits with its closure still in `tasks_`. `CancelIsFinal`, `TaskOrderPerThread` and `TypeOK` hold; `PostedTaskRuns`: every posted task runs unless Stop came first; `MailboxRefined`: the loop implements the Mailbox specification. |
| loop_cancel_race | MCEventLoop_cancelrace.cfg | violation | In-loop cancels of ids read from shared state (`LoopCancels`) break `CancelIsFinal`. A callback cancels id 2 while another thread's arming of id 2 is still in the inbox, and the arming re-creates the timer. |
| server | MCServer.cfg | pass | `daemonize` on, four process slots, pids reused once reaped, started as `pikiwidb-server <conf> --port N`. `ArgsParsedAsDocumented`: over all 2,801 command lines of up to four arguments, `ParseArgs` agrees with `Usage()` and never reads `av[ac]`. `AtMostOneSaver`: a server never has two saver children alive. `SaveFinishes`: a started save is eventually reaped, so `PdbCron` can save again, even when `CheckChild` first reaps a spawned copy. |
| server_stray_child | MCServer_stray.cfg | violation | `NoStrayChild`: the spawned copy that lost the port dies as the server's child, and `CheckChild` reaps it during a save, reaching its assert. |
| server_spawn_chain | MCServer_chain.cfg | violation | `SpawnChainEnds`: every spawned copy runs `main` again and spawns its own copy before it fails to bind. The lasso spawns, exits and reaps copies for ever while the first server keeps the port. |
| registry | MCRegistry.cfg | pass | Two loops, three objects, a 3-bit generator starting anywhere in 0..3, so registrations pass the largest int and reset. `ReactorRecordsBacked` (no reactor record outlives its registry entry) and the liveness `RegisterCompletes` hold. |
| conn_accept | MCTcpConnection_accept.cfg | pass | The connection as `PikiwiDB::OnNewConnection` sets it up. `TypeOK`, `DisconnectOnce`, `NoMessageAfterClose` and the liveness `PeerCloseDetected` hold. |
| conn_connect | MCTcpConnection_connect.cfg | pass | With every switch on, `ExclusiveOutcome` holds: `on_connect_fail` at most once and never with `on_new_conn`/`on_disconnect`. `ConnectAnswered`: a connect under way always ends in `on_new_conn_` or `on_connect_fail`, even when the caller drops the handle at once, as `ConnectHTTP` does. Only the registration that `TcpObject::Connect` makes keeps the object alive. `StateMachineRefined`: the connection implements TcpStateMachine. |
| conn_heldfatal | MCTcpConnection_heldfatal.cfg | violation | A held client handle, a posted `ActiveClose`, then a fatal `on_message` result: `on_disconnect` twice. |
| conn_reentrant | MCTcpConnection_reentrant.cfg | violation | `on_message` closes the connection and is called again for the rest of the read. |
| listener | MCListener.cfg | pass | A selector spreads three client sockets over two loops, either of which may stop, with room for two open sockets. `on_new_conn_` keeps the connection. Pending EPROTO and ENETUNREACH errors occur in a release build. `AcceptedSocketOwned`: every socket in the backlog ends owned or closed. There are two exceptions: the loop it was sent to exits with the closure unrun, or the descriptor limit is never left again. |
| listener_accept_abort | MCListener_neterr.cfg | violation | `AcceptErrorsSurvived`: in a debug build, one connection that carries a pending ENETUNREACH when accepted reaches `OnError`'s `assert(false)` and aborts the server. `man 2 accept`, which the code's comment cites, says to retry that error like EAGAIN. |

The findings in `PROJECT.json` give the source line and the disagreement with
`spec.md` or the code's own assert for each violation. Three behaviours are
reachable through the switches but have no run of their own:
a peer RST that leaves the connection in kConnected (`PeerResets`), a
late `SetIdleTimeout` that measures idleness from a stale `last_active_`
(`IdleAnyTime`), and an `on_new_conn_` that closes its connection before
`Register` keeps it (`CallbackCloses`), which leaves the disconnected
object in `objects_` until the loop exits.
The hazards list them.

### Bounds

- **EventLoop.** Two threads are enough for a foreign thread to interleave with another poster and with the loop. Two tasks each are the least that shows per-thread order. One timer id scheduled and cancelled by its owner is the off-thread schedule/cancel race of spec scenario 4. Two fires of a repeating timer let its callback act twice. `PipeCap = 1` makes the second notification of a burst get dropped. The cancel-race run uses two ids, because the race needs one id scheduled by a thread and a second allocated by the loop.
- **Registry.** Three bits give ids -4..3. With the generator starting anywhere in 0..3, two or three registrations reach the wrap, and two loops can interleave their `fetch_add` and `store(0)`. Three objects are one fewer than the positive ids, so a free id always exists. A loop holding every positive id would spin for ever, which needs 2^31 live objects in the real build.
- **TcpConnection.** Three bytes let `on_message` consume in more than one step and stop mid-buffer. Three ticks with a timeout of 1 allow an idle close, and one just after data when `SetIdleTimeout` comes late. One posted `ActiveClose` is enough to race with EOF and idle close.
- **Server.** Four slots hold the shell-started process, its spawned copy, a saver and one more process: a second saver, or the copy's own copy. The mutant of `CheckChild` needs exactly that to start a second saver while the first is alive. The run's command line parses, so `Start`'s early return for a bad line is not taken. It would end the process before anything else happens.
- **CmdLine.** Seven argument classes and up to four arguments cover each option with and without its values, an option's value that looks like another option, a second config path, and `-v` as a group start or as a value. They also cover a `--slaveof` one value short, where an off-by-one in either guard reads `av[ac]`.
- **Listener.** Two loops are the least that routes a socket off the listener's loop. Three sockets with `FdLimit = 2` let one be accepted while another is still queued. They also let a third wait in the backlog at the limit until a peer's EOF or a loop's exit frees a descriptor. Removing the `[]Exhausted` exception from `AcceptedSocketOwned` makes TLC report that wait.

### Fairness

- **EventLoop.** `WF_vars(LoopStep)`: the loop thread never blocks outside `Poll`, and `Poll` returns within the 10 ms wakeup event (`libevent_reactor.cc:13-22`). `WF` on `Lock`/`Post`: a poster that holds or waits for `task_mutex_` finishes its `Execute`. Callers, `Stop`, timer fires and notifier reads are not fair.
- **TcpConnection.** `WF` on each handler of `LoopHandlers`: the loop keeps polling, and each `Poll` dispatches every ready event, so a handler that stays ready runs. Fairness on the set alone would let a stream of posted `ActiveClose` closures starve a ready connect event, which the loop does not do. The kernel reports the outcome of a connect. Peer, callers, the idle timer and the clock are not assumed to act.
- **Server.** `WF` on each process's `Start` and `InitServer` (`main` runs on), on `SaverExit` (a save ends), and on `CheckChild` (a 1 ms repeating timer on a running loop). `PdbCron` depends on the data and `Stop` on the operator, so neither is fair. The passing run declares no symmetry, because it checks liveness.

- **Registry.** `WF` on each loop's steps inside `Register`: the do-while runs on the loop thread without blocking. Starting a `Register`, `Unregister`, `Modify` and loop exit are the callers' choice.
- **Listener.** `WF` on the accept callback while `Main` polls, and on each loop's `RunCreate` and `LoopExit`. Clients, peers and `Stop` are not assumed to act.

`CHECK_DEADLOCK FALSE` is set everywhere. The loop really stops after `Stop`, and a connection really ends in a terminal state once the peer, the clock and the callers have used up their bounds.

## 4. Not modelled (yet), and the plan

In order of importance:

1. Done: Registry (section 2). Still open there: `Register` failing inside the listener's `create_conn`, and `Modify(obj, 0)` keeping a record with no watch, against spec 3's record-iff-watch rule (harmless to `ReactorRecordsBacked`).
2. Done: Listener (section 2). `AcceptedSocketOwned` shows the one way an accepted fd is lost: a `create_conn` closure that a stopping loop leaves in `tasks_`. Spec 5 allows that, but the fd it carries is then never closed, and it counts against the descriptor limit at which `accept()` fails. No run reports that leak as a finding. `OnError` is modelled too: the descriptor limit, and pending network errors with the assert that `listener_accept_abort` reports.
3. Done: the inbox refinement (Mailbox).
4. Done: Server (section 2). `server_spawn_chain` shows that the daemonize spawn chain never ends. Still open: the save condition's unsigned arithmetic, whose inputs are outside the repository.
5. Done: `ActiveClose(sync=true)` (`SyncCloseReturns` in EventLoop). The waiter stays blocked only if the loop exits before running its closure. Still open: two loops closing each other's connections synchronously, which needs two loop threads in one model.

Not modelled at all:
- `SendPacket` and `SetNodelay`. `SendPacket` appends to the output buffer in kConnected and returns false in any other state. Spec 4.E makes sending fire-and-forget, and a close frees the bufferevent with whatever output is still unsent. So no property can tell a lost reply from a delivered one. `SetNodelay` sets a socket option;
- HTTP client and server, which are not under `src/`;
- `Usage`'s text, the logo and logging, which are pure I/O; the `--port` value's conversion to `unsigned short`, which CmdLine abstracts (a hazard in `PROJECT.json`);
- `Reset`, which is a unit-test helper;
- byte contents, which are counts in the models;
- `PDBSaver`, `PStore`, `PREPL` and the command layer, which are not in the repository (Server states what it assumes of them);
- what a forked saver does with the listening socket and registrations it inherits, which spec.md leaves as an open question.
