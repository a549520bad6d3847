# krun-api in TLA+

krun-api runs microVMs on a host: an HTTP server (`krun-api`) keeps a registry
of machines, starts one child process (`krun-vmm`) and one userspace network
per running machine, and asks the init process inside the guest (`vminit`) to
shut down over RPC.  The specifications here model the parts of it that are
concurrent, that fail halfway or that outlive one another.  The source is the
reference: line numbers are those of the repository this directory is kept
beside.

## 1. Inventory

| Component (source) | State it keeps | Operations | Used by / uses |
|---|---|---|---|
| machine manager (`machine/manager.go`, `machine.go`) | `machines`, `vms`, `networks` under `mgr.mu`; `State` of each machine under a lock of its own; cloned root directories | Create, Start (and a monitor goroutine per child), Stop, Delete, StopAll, Get, List | called by HTTP goroutines and by main on SIGTERM; uses krun.VM, VMNetwork, clonefile |
| krun.VM (`krun/vm.go`) | the child process, `errC` | Start, Stop (Shutdown RPC, wait, SIGKILL), Wait, WaitTimeout | two readers of `errC`: the monitor and Stop |
| virtual network (`network/network.go`) | listening socket, context, accept goroutine, socket file that a machine's runs share | NewVMNetwork, Close | closed by Start's error path, Stop, the monitor, Stop's deadline |
| krun-vmm (`cmd/krun-vmm`) | the VM; binds `<id>.shutdown.sock` and `<id>.exec.sock` | boot, exit | child of the server, survives it |
| image cache (`internal/api/image_cache.go`, `internal/cli/rootfs.go`, `machine/clone.go`) | directories `<name>/<short sha>` on disk; singleflight's table | Ensure, then Create's clone | concurrent create requests |
| HTTP handlers (`internal/api/handler.go`, `routes.go`) | none | one goroutine per request | manager, image cache |
| server process (`cmd/krun-api`) | phase of shutdown | SIGTERM, StopAll, srv.Shutdown, exit | manager |
| vminit (`cmd/vminit/main.go`) | command child, `shutdownCh`, RPC server | boot, Shutdown RPC, SIGTERM and SIGKILL of the command, power off | RPC from the host |
| exec sessions (`cmd/vminit/main.go` 179-205, 268-350, `cmd/krun-exec`) | a connection, a PTY, a shell, two copy goroutines per side | accept, handshake, copy, half-close, join | vsock; libkrun's proxy |
| resize stream (`cmd/vminit/resize.go`, `cmd/krun-exec` 145-183) | `matchLen`, the bytes of the current read | copyWithResize, sendResize | in band of an exec session |
| zombie reaper (`cmd/vminit/main.go` 354-367) | none | wait4 of any child on SIGCHLD | races `cmd.Wait` |
| krun-run, client (`cmd/krun-run`, `internal/cli`) | none | image configuration to machine configuration | HTTP |
| libkrun bindings (`krun/lib.go`) | C strings passed down | wrappers | krun-vmm |
| generated RPC (`gen/`), MAC addresses | none | encoders | |

What is hard in it:

* `Manager.Stop` reads two maps under `mgr.mu`, unlocks, and only then looks at
  the state and uses what it read; the monitor of the child writes the state
  without `mgr.mu` and clears the maps with it; a second Stop does the same.
* `Start` takes `mgr.mu` for its check and again for the registration, with the
  spawning of the child in between and two ways to fail.
* Every wait has a timeout: the RPC (2 s dial, 10 s call), the child (10 s, then
  SIGKILL and 5 s), the network (3 s), the monitor (10 s polled every 50 ms),
  the HTTP server (5 s).  Whatever is waited for may come after all.
* The child outlives the server; the cache directory outlives everything.
* `ImageCache.Ensure` looks at the directory outside and inside the flight, and
  makes the directory before it fills it.
* The three socket paths of a machine are the same in every run, and the last
  run's goroutines may still act on them.
* An exec session has four copies, two ends and a shell, and any of them may be
  the first to go; a half-close goes by descriptor number.
* What runs in the guest is decided by a chain of hand-overs, each with defaults and
  conversions of its own.

## 2. Modules

| Module | Models | Extends |
|---|---|---|
| `Lifecycle` | the abstract machine: five states, is a child running, is the machine listed | |
| `Manager` | `machine.Manager` with its goroutines, and krun.VM, VMNetwork and krun-vmm as it meets them | |
| `Server` | the process around it: SIGTERM, StopAll, draining, exit, orphans | `Manager` |
| `ImageCache` | `Ensure`, singleflight, extraction, clone, crash | |
| `Guest` | vminit: main, its command, the Shutdown RPC, the reaper | |
| `VMHandle` | what a caller of krun.VM is promised, in three variables | |
| `VMStop` | krun.VM (Stop, Wait, `errC`) against that guest | `Guest`, instance of `VMHandle` |
| `ResizeStream` | terminal input with resize messages, from krun-exec to the PTY | |
| `ExecSession` | exec sessions from krun-exec to the shell and back | |
| `Sockets` | the socket files of one machine over its runs, with its network | |
| `Launch` | what is run in the guest: krun-run, API, krun-vmm, libkrun, vminit, exec line | |
| `MCManager`, `MCResizeStream`, `MCLaunch` | symmetry of goroutines and of incarnations for `stop_finds_no_vm`; sizes made of the prefix's bytes; images and requests | `Manager`, `ResizeStream`, `Launch` |
| `ManagerProofs`, `ServerProofs`, `ImageCacheProofs`, `VMStopProofs`, `ExecSessionProofs`, `SocketsProofs`, `ResizeStreamProofs`, `LaunchProofs` | theorems | the module they are about |

How they fit: `Manager` is the middle.  `Server` composes it with the process
around it; `Lifecycle` is what it implements.  It meets krun.VM as a child that
runs, is asked to stop, and is gone, which is `VMHandle`, and `VMStop` with
`Guest` implements that.  It meets the network as four states, and `Sockets`
has what these leave out.  `Launch` follows one machine's configuration through
the same components without their interleavings.

### Manager

A goroutine is a `pc`; a step is what it does between two points where another
goroutine can run: one critical section of `mgr.mu`, one access to a machine's
state, one blocking call.  `mu` is only non-nil across steps inside `Start`
(112-124), where the check of the state and its write are two accesses to the
state's own lock and a `SetState` made without `mgr.mu` may fall in between.

| Code | Actions |
|---|---|
| `Create` 51-84 | `Create` |
| `Start` 112-124 | `StartRefused`, `StartAccepted`, `StartMark` |
| `Start` 133-191 | `StartNetwork`/`StartNoNetwork`, `StartSpawn`/`StartNoSpawn`, `StartCloseNet`, `StartFail`, `StartRegister`, `StartRunning` |
| monitor 196-214 | `MonitorClose`, `MonitorStopped`, `MonitorDelete` |
| `Stop` 219-249 | `StopNotFound`, `StopLookup`, `StopRefused`, `StopAccepted`, `StopMark`, `StopNoVM`, `StopClose` |
| `vm.Stop` (vm.go 148-195) | `StopRPC`, `StopRPCFailed`, `StopExited`, `StopWaitTimeout`, `StopKill` |
| `Stop` 256-275 | `StopPoll`, `StopWake`, `StopDeadline`, `StopForceState`, `StopForceDelete` |
| `Delete` 287-315 | `DeleteRefused`, `DeleteRecord`, `DeleteRootfs` |
| outside | `VmmBoot`, `VmmExit`, `NetExit` |

`mgr.vms` and `mgr.networks` are always written together under one lock, so one
variable stands for both.  A krun.VM and its VMNetwork are one *incarnation*
(`VMs`), used once.  `listener` is the child whose bind made
`<id>.shutdown.sock`: the RPC goes by path, so it reaches whichever child has
it.  Waits whose outcome the code does not look at (network `Close`, the wait
after SIGKILL) are the gap between two steps.  A timeout is a choice that is
always possible: nothing is assumed about how long anything takes.

`Overlap = TRUE` lets any request arrive at any time.  That is what the server
allows, and under it only the weaker properties hold.  With `Overlap = FALSE` a
Start arrives when its machine has no other request under way and the monitor
of the last child is done, and other requests wait until it returns; Stops,
Deletes, the monitor and the child still overlap in every way.  krun-run, the one
client in the repository that starts machines, asks for no more: it creates a
machine and starts it once, before anyone else knows its id
(`cmd/krun-run/main.go:116-123`).  Nothing in the server enforces it.  Machine
ids are UUIDs and are not used twice.

### Server

Main's `Stop` calls are the actions of `Manager` with `Main` as the goroutine.
`Sigterm` takes `mgr.mu` for StopAll's scan; states are read one machine at a
time (`ScanMachine`); then one Stop per collected id.  Requests arrive until
`srv.Shutdown`.  `ListenFails` is the goroutine of main.go:112-118, whose
`os.Exit(1)` skips StopAll.  After `Exit` only children move (`Orphan`).

### ImageCache

Each request is a `pc` through `Ensure` and `Create`'s clone.  `flight[d]` is the
goroutine that runs the call singleflight keeps for digest `d`.  A reference may
resolve to any digest, as tags move, and to two names for one digest.  A
directory is "complete" when every stage reported success: `extractTar` makes
directories and links without looking at their errors (image_cache.go:125, 127, 138-143).
Directories hold nothing, a `partial` tree, a `complete` one, or a partial tree
that was `abandoned` by a crash or by a `RemoveAll` that failed (its error is
not looked at).  The code cannot tell the last three apart, and no action does.

### Guest and VMStop

`Manager` sees the Shutdown RPC as one step and the guest as a child that may
exit.  These two modules open both up.  `Guest` is PID 1: `main` walks from
`boot` to `off`; `waited` is the goroutine that fills `childDone`; `rpc` has a
handler per call, which syncs and then closes `shutdownCh` (the second close
panics and the caller sees a failure); `dirty` says whether the command has
written since the last `sync()`.  The channel of `reapZombies` holds one SIGCHLD
and there is none before `signal.Notify`; `wait4(-1)` may take the command's
status from `cmd.Wait`, which returns all the same.

`VMStop` adds the host: a `stop` per call of `VM.Stop`, `waiter` for the
goroutine around `cmd.Wait`, `errs` and `errClosed` for `errC`, and `monitor` for
the caller of `VM.Wait`.  The end of the krun-vmm process takes the guest along
(`GuestGone`); the host's process may be killed at any time (`HostDies`), and
krun-vmm is not tied to it.

| Code | Actions |
|---|---|
| vminit `main` 33-87 | `Boot`, `BootFailed`, `StartCommand`, `WaitReturns` |
| vminit `main` 89-113, `poweroff` | `CommandEnded`, `ShutdownRequested`, `CommandObeyed`, `CommandTimeout`, `ServerFailed`, `PowerOffSync`, `PowerOff` |
| vminit `serveRPC`, `Shutdown` | `Serve`, `HandlerSync`, `HandlerClose`, `ServeFails` |
| vminit `reapZombies` | `ReaperStarts`, `ReaperWakes`, `Reap`, `ReaperSleeps` |
| `VM.Stop` | `Stop`, `Request`, `Answered`, `RPCFailed`, `WaitExited`, `WaitTimedOut`, `Kill`, `KillWaitTimedOut` |
| `VM.Start` 137-143, `VM.Wait` | `ChildWaited`, `CloseErrC`, `Wait` |

### ResizeStream

A byte is `"A"` (0x01), `"B"` (0x80) or `"x"`, all that the parser tells apart.
`stream` is what krun-exec has written after the handshake line.  Each byte
carries marks, for the properties and proofs only: how much was typed and how many
messages were begun when it was written, and its part in its own message (0 for
text).  `typed` and `sent` are the text and the sizes by themselves.  The guest's side keeps the places up to which bytes are read (`got`)
and dealt with (`at`), so that a read takes any number of the bytes that are
there, and an action is one iteration of a loop in `copyWithResize`.  `Handshake(k)`
is the `bufio.Reader` that takes `k` bytes along with the line, which then go to
the PTY unparsed.  `Break` loses the connection with what is unread.  `ReadTimeout`
is the 100 ms deadline on stdin; no property needs it to fire, for a blocking
stdin takes no deadline and the loop then looks at `winchCh` only after a key.

### VMHandle

Three variables: the child runs, has SIGKILL coming or is gone; each call of
Stop; whether the caller of Wait has been told.  `VMStop!Handle` maps the code's
states to them.  `LSpec` adds that every Stop returns, that a killed child ends,
and that its end is told.

### ExecSession

A session is a krun-exec (`client`), a connection, and in vminit the goroutine of
`handleExecSession` (`pc`) with its two copies (`in`, `out`), a PTY and a shell.
Bytes are not told apart here (`ResizeStream` does that): `bytes` says that
something typed is under way, `wire` and `pty` count chunks of output, and both
have `Room`, so that writers wait.  `full` is a terminal whose input nobody
reads, `held` a background process that keeps it open.  krun-exec returns after
its first copy and its process goes, with what it had not shown (`lost`).

A vsock descriptor is a blocking file: `conn.Close` does not interrupt a read or
a write under way and the number is given back when it returns (`Release`); a
PTY's master is polled, and closing it ends what is under way.  `GetFd` and
`Shutdown` are the two halves of `CloseWrite`.  `HearClose` is libkrun's proxy,
which may or may not turn a guest's close into an end of stream.

| Code | Actions |
|---|---|
| krun-exec `run` 61-137, `copyStdinWithResize` | `Dial`, `SendLine`, `Type`, `StdinEnds`, `Show`, `HearEnd`, `ReturnAtEnd`, `Killed` |
| vminit `serveExec` 268-280 | `Accept`, `AcceptFails` |
| `handleExecSession` 282-341 | `ReadLine`, `NoLine`, `NoShell`, `Spawn` |
| connection to PTY | `InStart`, `InRead`, `InWrite`, `InEnds` |
| PTY to connection 332-341 | `OutRead`, `OutWrite`, `OutBreaks`, `OutEnds`, `GetFd`, `Shutdown` |
| `handleExecSession` 342-350 | `FirstDone`, `CloseConn`, `ClosePty`, `SecondDone`, `WaitShell` |
| outside | `HearClose`, `Output`, `Input`, `ShellExits`, `JobEnds` |

### Sockets

One machine and one client, which starts it only when its last monitor is done
(as in `Manager` without `Overlap`); what overlaps are the monitor, the child
and the accept goroutines of this and earlier runs.  `netFile` says whose socket
is at `<id>.sock`, `vsock` whose are at `<id>.shutdown.sock` and
`<id>.exec.sock`.  The accept goroutine's deferred calls are a step each, in their
order (network.go:63-66: remove the file, close the socket, close `done`).  A
`Close` is two steps, for its three seconds may pass in between; `late` has the
runs one of them gave up on.

### Launch

One launch, from a krun-run (image, `-cpus`, `-memory`, `-init`) or from a request
of another client, to the process in the guest and then one exec session.
`stage` says which program has it; every hand-over may fail.  `Calls` are the
libkrun calls of krun-vmm in their order.  Arguments are sequences of words, and
conversions are what they do: eight bits for the CPUs and 32 for the memory
(`Uint8`, `Uint32`), `CStringArray` with the NULL that `""` becomes, a nil
environment that libkrun fills from the host's, and a handshake line of words
that `ParseHandshake` takes apart.  A size of memory is kept in two parts,
65536 * `high` + `low`, because TLC's integers end before 32 bits do.

## 3. Runs

| Run | Shows | Bounds |
|---|---|---|
| `overlap` | with everything overlapping, `TypeOK` (no nil `vm` or `vmNet` is dereferenced) and `RegisteredIsMonitored` (every map entry belongs to its machine and has a goroutine that will clear it); every call returns, no machine stays starting or stopping, the network of a gone child ends | 1 machine, 2 goroutines, 2 incarnations; both goroutines start, one also stops and deletes |
| `orderly` | a machine at rest has no child, none has two, no root directory goes while its child runs, a guest is asked to shut down after its network is closed; and `Implements`: the whole is the `Lifecycle`, with its liveness | 1 machine, 2 goroutines, 2 incarnations |
| `shutdown` | an undisturbed server leaves no child; every server that begins to shut down exits, whatever Starts, Stops and Deletes are under way or still arrive, and also when its listener fails meanwhile | 1 machine, 1 goroutine that starts, 1 that stops and deletes, and main; 2 incarnations; a client's Start overlaps main's Stops only |
| `cache` | one leader per digest, complete is final, partial belongs to a flight, a follower gets the tree of its flight, every request is answered | 3 requests, 2 names, 1 digest; any number of crashes |
| `vm_stop` | `KeepsPromise` (krun.VM implements `VMHandle`, liveness included), `StopEndsChild`, `PowerOffIsDurable`, `ShutdownEndsVM`, `CommandEndEndsVM`, `OrphansAreReaped` | 1 Stop beside the monitor, 2 orphans and the command |
| `resize` | `ReadsDoNotMatter` (the result is that of a reference decoder on the whole stream), `TextIsUntouched`, `PtyFollowsTerminal` | 3 bytes typed, 2 changes of size, 2 sizes made of the prefix's bytes; any reads |
| `exec_session` | `OutputIsComplete`, `NothingIsLeft`, and that the client hears of the end and its leaving hangs up | 1 session, 2 chunks in PTY and connection |
| `sockets` | a child finds the sockets of its own run (`BootFindsItsSockets`, `UpHasItsSockets`), no network lingers, a closed one ends | 1 machine, 2 runs |
| `launch` | the guest runs the image's command with its environment in a VM of the size asked for, configured in full; a session runs krun-exec's command | 72 images, 4 x 6 sizes, with and without vminit; 576 other requests; 15 command lines |

Every action is a step of one machine (or one cache directory) and machines
share only `mgr.mu`, so one machine with two incarnations shows a goroutine that
holds the handle of a child while the machine's next one runs; the theorems of
section 5 drop these bounds.  In `shutdown` a client's Stop or Delete meets
main's Stop of the same machine, before, during and after StopAll's scan; that
StopAll goes through all its machines is the theorem `UndisturbedExit`, for any
number.  A client's Start overlaps no client's Stop there; that each Stop returns
when it does is `CallsReturn` of `overlap`.  In the cache, three requests are a
leader, a follower under the same name and one under another; a second digest
would share nothing with the first.  In `vm_stop` one Stop and the monitor are
the readers of `errC`, and two orphans with the command are enough for a signal
to be dropped with two zombies left; the theorems have any number of both.  In
`resize` three bytes typed make every proper prefix of the magic, beside or
inside one message and before or after another.  Exec sessions share nothing but
descriptor numbers, so that one shows all orders in which its parts may end;
`stale_descriptor` has two of them and the theorems any number.  In `sockets` two
runs are a late goroutine and the run it disturbs.  In `launch` the images have
every combination of empty and longer entrypoints and commands, an argument
that is empty, a repeated key and one that krun-run sets itself; the sizes are
-1, 0, one that fits, and for CPUs the first that needs a ninth bit, for memory
the largest of 32 bits, the first beyond, and 2^32 + 512.

Fairness (`Manager!Fairness`): goroutines are scheduled, which is strong
fairness because a step that needs `mgr.mu` is enabled now and then and
`sync.RWMutex` starves nobody; SIGKILL is carried out; a cancelled accept
goroutine returns, for its socket is closed.  No client is obliged to call, and
no guest to exit or to answer: `CallsReturn` and `ShutdownCompletes` hold
against guests that hang.  `ServerFairness` asks less: main and its Stop run.
In the cache the registry, the disk and the pipe answer or fail.
In `VMStop` goroutines of both sides run, timers fire and SIGKILL works; the
command need not heed SIGTERM, no call need be made or served, and the host's
process may die, which is why `ShutdownEndsVM` rests on the guest's own five
seconds, and `CommandEndEndsVM` on main hearing of the command's end without any
shutdown.  In `ExecSession` the goroutines of both ends run and krun-exec shows
what it is sent; no user need type or leave, no shell need read, write or exit,
and serveExec need not accept.  In `Sockets` an accept fails once its socket is
closed, the loop that serves a guest ends once its context is cancelled, and
deferred calls run.  `ResizeStream` and `Launch` state safety only and need no
fairness.
Each liveness property is checked from every state; deadlock is checked except
in `shutdown` after the server's exit, in `vm_stop` after that of the VM, in
`resize`, `exec_session` and `stale_descriptor` after the sessions', in `sockets`
when the runs are used up, and in `launch` when the guest runs or a hand-over has
failed, where it is the end.

### What the code does and a comment does not say

These runs check one sentence of a comment each and end in a counterexample.

| Run | Comment | Counterexample |
|---|---|---|
| `stop_finds_no_vm` | manager.go:278 "No VM running" | Stop reads the maps; a Start registers its VM and sets running; Stop sees running, finds its handle nil, and reports a machine stopped whose child runs on |
| `partial_image` | image_cache.go:49-50 | the second request's `os.Stat` finds the directory the first is still filling, and a machine is cloned from it |
| `stale_descriptor` | vminit main.go:334-336 "Half-close the write side so the proxy propagates EOF to the host" | krun-exec's stdin ends while the copy of the output is on its way to `CloseWrite`; the session takes the descriptor's number, closes the connection, the number goes to the next connection, and that one is shut down for writing |

Other behaviour that a reader of the comments may not expect, which the models
have and no property forbids: a Stop returns before the monitor has cleared the
maps (manager.go:208-213); a machine that is starting while StopAll scans is
running when the server exits (318-326); a request for the same digest under
another image name than its flight's is told of a success and gets a directory
nobody made (image_cache.go:58, 63); a resize message that arrives in the same
read as the handshake line is typed into the shell (vminit main.go:316-324); a
socket file may be removed from under the next run when an accept goroutine
outlives its three seconds (network.go:66, 106); an empty argument cuts off
those after it (lib.go:975), and a line break those of an exec session
(krun-exec main.go:101); 256 CPUs are none and -1 MiB are 2^32 - 1
(manager.go:166-167); with overlapping Starts an old monitor deletes its
successor's entries (manager.go:210-213).

## 4. Properties

The state properties are commented in the modules.  Each property of a passing
run has a mutant of a mapped definition, beside the definition it mutates
(`TimeoutWithoutKill`, `MonitorLeavesEntry`, `ScanKeepsLock`, `NoRecheck`, ...):
a plausible slip in the code which the property finds.

## 5. Theorems

All hold for any number of machines, goroutines, incarnations, names and digests.

* `ManagerProofs`: `TypeCorrect` (`TypeOK` is inductive by itself) and
  `EntriesAreMonitored`, whatever overlaps.  A map entry can only lose its
  keeper when a monitor ends or a Start goes wrong after it registered;
  `Preparing` says that an incarnation between `CallStart` and `StartRunning`
  belongs to one Start, has no monitor yet and is owned by its target, which is
  what makes `StartRegister` and `StartNetwork` harmless to existing entries.
  `IInv == TypeOK /\ RegisteredIsMonitored /\ Preparing`.
* `ManagerProofs`, for `~Overlap`: `OneChild`, `RootfsIsKept`, `NetworkIsClosed`.
  The inductive invariant is `IInv /\ Order`.  Its core is `ChildHasKeeper` -- a
  running child is either held by the Start about to register it, or registered,
  monitored, on record, and its machine's state is running or stopping -- and
  `StopHolds`, which says why the four steps that set `stopped` without looking
  at the child are right: a Stop past its lookup holds the only child there can
  be, and has killed it or seen it exit by the time it takes it for gone.
  `Alone`, `OneMonitor`, `StartKeeps`, `BusyHasRun`, `MonitorSawExit` and
  `Records` are what these two rest on.  There is one lemma per conjunct.
* `ManagerProofs`, for `~Overlap`: `ImplementsLifecycle`, the safety part of
  `Implements`: every step of the manager is a step of `Lifecycle` or shows
  nothing.
* `ServerProofs`, for `~Overlap`: `UndisturbedExit`.  The manager under a server is
  the orderly one with one more caller of Stop: the module instantiates
  `ManagerProofs` with `Stoppers \cup {Main}` and with `View`, which hides main's
  read lock while it scans, and shows that each step of the server is one of that
  manager (`Simulates`).  What `Order` does not know is that StopAll forgets
  nobody: while nothing disturbs, a machine with a child is `Due` -- not yet
  looked at, on the list, or in main's Stop -- because no other goroutine is at
  work (`MainAlone`) and a machine is only "stopping" with a Stop at it
  (`StoppingHasStop`).
* `ImageCacheProofs`: `TypeCorrect`, `CompleteStays`, `FailuresTidyUp` and
  `FollowersShare`, across crashes.  Beside `TypeOK`, which
  ties singleflight's table to the program counters, the invariant needs
  `Stages`: what the directory holds while its flight is at each stage of `fn`;
  `FollowersShare` adds `Outcome`: what a leader about to answer leaves behind.
* `VMStopProofs`: `TypeCorrect`, `StopIsFinal`, `NothingIsLost`, and
  `KeepsPromiseSafely`, the safety part of `KeepsPromise`, for any number of Stops.
  `NewsIsTrue` (errC is empty until `cmd.Wait` has returned, and has news only of
  a child that is gone) makes a Stop that received from `errC` right;
  `WaitedIsOver` and `PowerOffOrder` (on the way to power off without having given
  up, main has heard of the command's end, after which nothing is written) make
  the last sync enough.
* `ExecSessionProofs`: `TypeCorrect`, `OutputComplete`, `SessionsCleanUp`, for any
  number of sessions and descriptors and any room.  Beside `Shape`, the invariant
  has `Order` (only an end of krun-exec's side, or a closed connection, ends the
  input's copy), `Whole` (while krun-exec may yet take what it hears for the end,
  nothing was lost, and the output's copy ends with the terminal drained) and
  `Disposed` (what each step towards the end has closed).  `Whole` is about
  sessions whose connection no other session shut down.
* `SocketsProofs`: `BootFinds`, `NoLingering`, `UpKeepsSockets`, for any number of
  runs.  `Past` says that earlier runs are over but for goroutines a Close gave up
  on, `Last` what a stopped machine leaves for its next Start, and `Files` that
  from `Bind` to `Boot` the paths stay the run's own.
* `ResizeStreamProofs`: `TypeCorrect` (`TypeOK` is inductive by itself),
  `TextKept`, `TerminalFollowed` and `ReadsIrrelevant`, for any set of sizes, any text, any number of
  changes and any reads.  The invariant ties the two sides together by the marks.
  `StreamIsMixed` is about krun-exec: every byte is the one its marks say, at the
  place text and messages before it add up to, and a message is in one piece.
  `GuestFollows` is about vminit: between two bytes it is either between items and
  has let through exactly what the marks count, or holds back one typed 0x01, or
  is inside a message whose prefix it has matched as far as it goes, or has the
  first bytes of a size.  The step that needs the assumption on what is typed is
  the one from a held 0x01: were 0x80 typed next, the matcher would be ahead of
  the marks.  `LastIsCurrent` (the last size sent is the terminal's, unless a
  signal is pending) then gives `TerminalFollowed`.

  `ReadsIrrelevant` (`ReadsDoNotMatter`) is about whatever is typed, the prefix
  included, where the marks may be wrong about what a byte is taken for; so its
  invariant speaks of bytes alone.  `DecodedSoFar` says that for every stream that
  begins with the bytes read so far, what was passed on, followed by what the
  decoder makes of the rest from the held-back bytes on, is what it makes of the
  whole.  The decoder, `Decode`, is a recursive function of the stream.  That it
  solves its own equation for every stream (`DecodeIs`), and that a stretch
  without a whole prefix in it means its text (`TextRun`), are inductions over the
  length.  The library's induction theorems take an operator and cannot be used;
  `SetInduction` takes the set of numbers a statement holds for, and follows from
  there being a smallest number outside of it (`WFMin`, `NatLessThanWellFounded`).
* `LaunchProofs`: `CommandRuns`, `EnvironmentKept`, `VMAsAsked`, `SessionAsAsked`,
  for any images, flags, requests and command lines.  The invariant says at each
  stage what the configuration, the calls, the process and the line are as
  functions of what was asked for (`ConfigFollows`, `CallsFollow`, `CallsDone`,
  `ProcessFollows`, `LineFollows`); the rest is lemmas about the conversions:
  `CpusAre` and `MemoryIs` (what is asked for and what is had differ by a multiple
  of 2^8 and of 2^32), `CStrings` and `LineIsParsed` (both `Cut` a sequence at the
  first of some word), `CommandIs` (path and arguments are the image's command),
  `EnvMapIs`, `CallsAre`
  (no call but the second is `set_log_level`), and `FlattenIs`: krun-exec's
  arguments, joined, are a sequence of words again, by induction over their number.

Assumptions: `ManagerAssumption`, `ServerAssumption`, `CacheAssumption`,
`SessionAssumption` and `SocketsAssumption`: that `None` is not one of the values
it stands beside, that the roles are goroutines and `Main` has none of them, and
that there is room for a chunk.  `SizesAssumption` and `BoundsAssumption`: a size
is four bytes, the bounds are numbers.  In `Launch`: images, requests and flags
are made of words, integers and sizes (`ImagesAssumption`, `NumbersAssumption`,
`RequestsAssumption`, `WordsAssumption`); a line break is not the text of a
number, and "120" and "40" are read as the numbers they are
(`NumberAssumption`); no image has vminit as its own command, for vminit is put
into a root file system only after the image is unpacked (`VminitAssumption`).
TLC evaluates all of them in the runs.

Model-checked only: all liveness (`CallsReturn`, `TransientStatesSettle`,
`ExitedNetworkCloses`, `ShutdownCompletes`, `RequestsAnswered`, `ShutdownEndsVM`,
`CommandEndEndsVM`, `OrphansAreReaped`, `ClientHearsTheEnd`, `LeavingHangsUp`, `CloseEndsGoroutine`,
and the fairness parts of `Implements` and `KeepsPromise`), for TLAPS does not
reason about ENABLED.  Every invariant and action property the passing runs check
is stated by a theorem.

## 6. Not modelled

`gen/` is generated.  Of `krun/lib.go` only what krun-vmm calls is modelled; the
other wrappers have no caller in the repository.  Flags, the library search path,
logging, the MAC hash and the SOCKS dialer are left out: no property depends on
them.

The bodies of the API's answers are not modelled: the machine that StartMachine
and StopMachine look up again after the call, which a Delete may have removed
(handler.go:103, 115), and the encoding of a Machine without its lock while
`SetState` writes it (143).  Nothing in the server reads an answer back.

In vminit the forwarding of signals (71-78) is left out: nothing in the
repository signals PID 1 of a guest.

`ResizeStream` takes two things as they are meant to be used: `TextIsUntouched`
assumes that 0x80 is never typed right after 0x01 (UTF-8 has no such text; such
bytes before a message would be taken for part of it), and a window change
between `GetSize` for the handshake and `signal.Notify` is lost, which the model
has and no property forbids.

## 7. Plan

The order so far: `Manager` with its abstraction and proofs, `Server`,
`ImageCache` with its proofs, `Guest` and `VMStop` with their proofs,
`ResizeStream`; then `ExecSession` and `Sockets` with their proofs, `VMHandle` and
the refinement, `Launch`, and the proof about `Server`; then the proofs about
`ResizeStream`, its decoder included, and `Launch`.  What is left:

1. Handlers: the answer of StartMachine read back after a Delete, the unlocked
   encoding of a Machine.
2. Composition: `Sockets` as what `Manager` is to say of its networks, with
   overlapping Starts.
