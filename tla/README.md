# easytier-mac: TLA+ models, checks and proofs

easytier-mac is a macOS client for EasyTier: a SwiftUI menu-bar app, a Rust
bridge linked into it, and a root supervisor that launchd starts on demand and
that runs the `easytier-core` process. This directory models the parts whose
correctness depends on threads, processes and messages meeting in the right
order, and the pure code at the system's boundaries. TLC checks them on small
instances; TLAPS proves, for every instance, the safety properties of the
supervisor, of the bridge's driver and of the app's policy, that the supervisor
implements an abstract service, and that the codecs, file rules, parsers and
quoters at the boundaries do what they should.

## 1. Inventory

| Part | State | Operations | Meets others by |
|---|---|---|---|
| Supervisor lifecycle (`supervisor/src/main.rs`) | the process, the 30 s no-owner timer | boot sweep, claim sockets, accept, timer exit | launchd activation, `exit(0)` from any thread |
| Control server (`server.rs`) | the owner lease, one thread per connection, `kicked` flags | hello, takeover, start / stop / status, disconnect = stop + exit | the mutex `Shared::st`, sockets |
| Core process (`core_proc.rs`) | `State::core`, `stop_requested`, one monitor thread per core | start, stop, SIGTERM / SIGKILL ladder, reap, crash report | the mutex and its condition variable, signals |
| Hooks (`hooks.rs`) | one thread and child per run | fire, join, time out | root scripts that outlive the supervisor |
| Janitor (`janitor.rs`) | none (reads `ps`) | sweep orphans | SIGKILL, `down` hook |
| Bridge driver (`bridge/src/supervisor_client.rs`) | driver phase, request channel, request in flight, takeover and shutdown permits | dial, hello, session, pause on busy, backoff, shutdown | tokio channels, the control socket |
| Bridge C API (`ffi.rs`, `rpc.rs`) | instance id, cached RPC port | connect, disconnect, takeover, status, shutdown | the driver, the core's RPC portal |
| App (`app/Sources/AppModel.swift`, `BridgeClient.swift`) | connection state, restart task and counter, poll task, serial call queue | toggle, connect, disconnect, auto-restart, startup restore, takeover prompt | the C API, the event stream |
| Wire protocol (both `proto.rs`, `BridgeModels.swift`) | none | encode and decode commands and events, in three mirrors | JSON Lines between programs of different versions |
| Configuration and hook gate (`config.rs`, `hooks.rs`) | none | load, refuse what others may write | files owned by root |
| Install and conflict detection (`install.rs`, `conflict.rs`) | none | run the installer as root, classify processes | `osascript`, `ps` |
| UI, config file, scripts | little or none | I/O and formatting | - |

What is hard here: the supervisor's threads share one mutex but make their
system calls, socket writes and `exit` outside it; a supervisor may crash or exit
with a live core, which the next one has to find; a takeover makes two
connections believe in turn that they own the core; the bridge's requests
outlive callers that time out; the app makes all calls from one serial queue, so
one blocked call blocks everything; its main-actor tasks see events between
their awaits; and root acts on text (`ps` lines, a quoted command, file modes)
that others have a hand in. `PROJECT.json` lists each hazard at its line.

What makes each part correct: at most one core, tracked exactly; signals only
to one's own un-reaped child; one lease holder; a stop that ends; no supervisor
without an owner; one `down` hook per core death; replies that reach the caller
they answer; no command repeated and no lease taken unasked; calls that return;
an app whose state follows the core and never sticks; codecs that agree; a sweep
that kills managed cores only; nobody else's file obeyed as root.

## 2. Modules

| Module | What it is |
|---|---|
| `Supervisor` | the daemon: lifecycle, lease, core process, monitor, hooks, janitor |
| `SupervisorProofs` | the inductive invariant of `Supervisor` and its theorems |
| `CoreService` | what the daemon promises, abstractly: one lease, one core |
| `SupervisorService` | the refinement mapping from `Supervisor` to `CoreService` |
| `ServiceProofs` | the proof that `Supervisor` implements `CoreService` |
| `HookProofs` | with one connection, from the invariant of `SupervisorProofs`: one `down` hook per core death, and which exits leave a core |
| `MCSupervisor` | `SupervisorService` for TLC, with the symmetry of its slots; six configurations |
| `BridgeDriver` | the driver task, the request channel and the C calls of the app |
| `BridgeProofs` | the inductive invariant of `BridgeDriver` and its theorems |
| `MCBridgeDriver` | `BridgeDriver` for TLC; two configurations |
| `AppModel` | the app's policy over the C calls, the RPC port and the event stream |
| `AppProofs` | the inductive invariant of `AppModel` and its theorems |
| `MCAppModel` | `AppModel` for TLC; three configurations |
| `Wire` | the JSON codecs of supervisor, bridge and app |
| `ProcessList` | what janitor and conflict check read out of `ps` |
| `Quoting` | the command line that installs as root |
| `Trust` | which files the supervisor obeys |
| `MCBoundary` | the operators of these four, over growing inputs |
| `BoundaryProofs` | the invariant on the inputs of `MCBoundary`, and what is proved of `Wire` and `Trust` |
| `TextProofs` | what is proved of `ProcessList` and `Quoting`, by induction along the text |

Definitions ending in a qualifier and marked *faulty variant* (`BootNoSweep`,
`ReadEofRequeues`, ...) are no part of the specification. Each is what a
plausible bug would make of the action defined next to it, and shows that a
property would notice.

### 2.1 Supervisor

A step is what one thread does between two points at which another thread can
intervene: one critical section of `Shared::st`, or one system call or socket
write outside it. `conn[c]` is the program counter of a connection's thread:
`backlog` (not accepted), `hello` (in `read_hello`), `kick` and `greet` (lease
taken, displaced owner to be notified, hello to be answered), `cmd` (reading),
`start`, `up`, `stop`, `stopping`, `down`, `status`, `write` (one command),
`end`, `clear` (command loop left, flag checked), `drop`, `dropping`,
`dropdown`, `sweep`, `exit` (the disconnect path). `mon[p]` is that of the
monitor thread of pid `p`: `poll` (before `try_wait`), `check` (before it reads
`stop_requested`), `signal` (about to call `kill`), `reaped`, `push`, `down`,
`sweep` (inside `handle_core_exit`). `proc` is the kernel's view of the core
processes, `core` and `stopReq` the supervisor's. `esc` holds the monitor's
local `term_deadline` and `kill_sent`.

A behaviour runs through many supervisors: `ProcessEnds` is `exit(0)` or a
crash at any moment, after which the next waiting connection activates a new
process that finds live cores and running scripts of the old one. `debt` and
`blind` are history variables: core deaths minus `down` hooks fired, and
whether a sweep failed to run `ps` while a core was alive.

`CoreService` says the same with four variables and no threads: the lease is
lent only by a service that has reconciled what an earlier one left; a takeover
moves the lease and nothing else; a core starts only where none is announced and
none runs; `Stopped` is announced only after the process is gone; the end of the
service forgets everything and kills nothing. `SupervisorService` maps
connections to clients, pids to cores, `blind` to `missed` and the processes
that have neither died nor been sent SIGKILL to `live`.

Abstracted: contents of replies, the 64 KiB and UTF-8 checks (they end in
`HelloFails` or `ReadEnd`), the RPC port, the hook security gate (`Scripts` is
the set of hooks that pass it), argv matching, time (a timeout may fire at any
moment and, under fairness, does fire).

### 2.2 BridgeDriver

`drv` is where `run_driver` awaits (`dial`, `hello`, `session`, `paused`,
`backoff`, `stopped`), `queue` the mpsc channel with capacity `Cap`, `pending`
the session's request in flight. `fate[r]` is a request's oneshot channel:
`abandoned` means that the caller has timed out while the request lives on in
the channel or on the wire. `api` is the one C call in progress, since
`BridgeClient.swift` makes all of them on a serial dispatch queue; `prompt` is
the takeover prompt of `AppModel`, whose confirmation waits for that queue too.
The supervisor (`Greet`, `Serve`, `ServeDies`, `CoreExits`, `PeerCloses`, `RivalMoves`) is
external and nondeterministic: it may refuse, die, kick us or lose the core at
any moment. `ReadCancelled` is the `select!` of `run_session` dropping a
`read_line` that has consumed half a line when a request comes in: the line is
lost, and the request that waits for it ends by its timeout. `core` is the core
under our lease, `dropped` once the lease is
lost and the core's end is the supervisor's business.

With `Slow = TRUE` a request may time out in a healthy session; with `FALSE`
only while there is none, so that a violation does not depend on a supervisor
that needs more than 20 s.

### 2.3 AppModel

`AppModel.swift` is a main actor: its tasks interleave only at awaits, so a step
is what one task does from one await to the next, or the handling of one event.
`pc[t]` is where task `t` awaits, `queue` the serial dispatch queue of
`BridgeClient`, `api` how far the call at its head has come. `port` is the RPC
port, written both by `etb_connect` / `etb_disconnect` and, from the same
events that go to the app, by `forward_events`; `bus` and `stream` are the two
hops of an event. While the takeover alert is modal the main actor runs nothing
else. Driver, supervisor, core and rival are external here: they are the
subject of the other two specifications, reduced to what the app can see of them
(`Hello`, `HelloBusy`, `Drop`, `CoreExits`, `RivalTakes`, `RivalActs`). `hosted`
says that the core runs the instance whose id `EtbHandle` keeps; `etb_status` of
any other instance fails in `list_peer`, as in `rpc.rs`. With the fault `torn` a
line of the supervisor is lost to `select!` when a request comes in
(`ReadCancelled` of `BridgeDriver`): exits, kicks, `core_stopped`, and the
`core_started` of a start whose caller has given up. The reply to the start that
`etb_connect` is waiting for cannot be: calls come one at a time, so no request
follows it. The user's switches (auto-restart, connect at startup) may be on or
off at every step that reads them.

### 2.4 Boundary operators

`Wire` gives a Rust enum value as a record, a JSON object as a function, and
serde's and Swift's rules for tags, defaults, null and unknown keys as one
decoder per mirror. `ProcessList` works on text as `ps` prints it, tokens and
spaces, because the managed path contains a space and arguments are joined by
spaces. `Quoting` has both escapes of `install.rs` and, as external readers, an
AppleScript literal and the words of a POSIX shell, each a machine that takes
the text one character at a time. `Trust` has the hook gate,
the ownership rule of `Config::load`, and who can write a file of given owner
and mode. `MCBoundary` lets their inputs grow step by step and checks each
operator against a statement about processes, arguments and users rather than
text.

## 3. Runs

| Run | Instance | Result |
|---|---|---|
| `lease` | 2 connections, 2 pids, no hooks | seven safety properties and `ImplementsService` hold (about 1.1 M states) |
| `solo` | 1 connection, 2 pids, 2 hook runs, the `down` script | `DownOwed`, `OnlyTimerCutsCore`, `StopCompletes`, `NoIdleResidency` hold (286 k states) |
| `exit` | 1 connection | `ExitAfterReap` **violated** |
| `lost` | 1 connection | `DownBeforeExit` **violated** |
| `kicked` | 2 connections | `KickedSparesCore` **violated** |
| `idle` | 2 connections | `NoIdleResidency` **violated** |
| `calls` | 3 requests, capacity 2 | five safety properties and `ShutdownCompletes` hold (260 k states) |
| `full` | 2 requests, capacity 1 | `CallReturns` **violated** |
| `app` | 2 tasks, 1 port, all faults but `torn` | five safety properties hold (4.2 M states) |
| `port` | 1 task, 2 ports, all faults | `StatusReachable` holds (1.6 M states) |
| `app_exit` | 2 tasks, 1 port, core exits only | `ConnectedHasCore` **violated** |
| `boundary` | 2 processes, 2 arguments, 4 characters | seven statements hold (89 k inputs) |

**Holding.** `CoreTracked`: `State::core` names a pid exactly while that pid's
monitor has not reported its exit; `start`, `stop` and the crash-path sweep all
trust this. `AtMostOneCore`: two cores never run at once over crashes, exits and
restarts, unless `ps` failed. `SignalOwnChild`: the pid-reuse invariant stated
at the top of `core_proc.rs`. `LeaseExclusive`: the owner is the one established
connection that is not displaced. `CoreKilledForCause`: the core that
`State::core` names is sent SIGKILL only by its monitor, after a requested stop
that ran out of its grace, or by the sweep of a thread on the disconnect path;
no sweep at boot or after a crash kills it, and a ladder that one core began
never reaches the next. `CoreAttended`: a running core has an owner or
a thread on the disconnect path, which only the end of the process leaves,
although a displaced owner can still start one. `ImplementsService`: everything the threads do
is one step of `CoreService` or invisible to it. `StopCompletes`: a requested
stop ends with `Stopped` although the core may ignore SIGTERM and the monitor
escalates in its own thread. `NoIdleResidency`: with one client at a time the
supervisor ends when its owner has gone or none ever came. `DownOwed`: every
death has one thread that will fire its hook. `OnlyTimerCutsCore`: what is left
of `ExitAfterReap` (below). With one client, of the threads
that call `exit(0)` only the timer does so over a core, and that core is being
stopped by the disconnect path or belongs to an owner who came after the timer
had looked. A second connection adds two such exits: a failing `accept`, and the
disconnect path of a displaced owner. For the bridge:
`OkMeansExecuted` (replies carry no id and still reach the right request, because one is in flight at a time and a reply to an abandoned
request is consumed by that request), `AtMostOnce` (no command is repeated after
a reconnect), `StopHeard` (an `etb_disconnect` whose stop was answered leaves no
core), `TakeoverConsented` (a confirmation pays for one takeover), and
`ShutdownCompletes` (from every place the driver can wait).

For the app: `TransitionDriven` (the control is disabled in `.connecting` and
`.disconnecting`, and some task that will still act is always there to leave
them), `OneRestart` (no two restart loops, none that cannot be cancelled, none
beside a disconnect), `RestartsBounded` (three attempts in a row),
`PollsWhileConnected`, `StatusReachable` (an exit event that is forwarded late
undoes the `set_port` of `etb_connect`, lines are lost, the next core has another
port, and still an instance that the core runs is polled at that core's port). For the boundary: `EventsUnderstood`, `EventsReachApp`, `CmdsObeyed` (the
three mirrors agree, with supervisors of other versions too), `SweepExact` and
`ConflictsRight` (on text, where the managed path has a space in it),
`InstallArgsIntact` (two levels of quoting), `ObeysOwnFiles`.

**Violated, each against a statement of the repository.**

- `exit`: the disconnect path gives the lease back before it stops the core, and
  the no-owner timer looks only at the lease. An owner that leaves about 28 s
  after activation makes the supervisor exit in the middle of `stop`, with the
  core running, against DESIGN §5.
- `lost`: a disconnect right after a core crash exits before the monitor has
  fired the `down` hook that DESIGN §5 promises.
- `kicked`: the flag is read before the lock is taken. A takeover in between
  goes unnoticed, and the old thread stops the new owner's core and exits.
- `idle`: a displaced owner's `start`, already read, respawns the core after the
  disconnecting owner's stop. The exit path waits for `Stopped`, not for its own
  core, and waits for ever beside a core nobody owns.
- `full`: while paused on busy nothing drains the channel. Timed-out calls fill
  it and the next call waits for room without a timeout; the takeover or
  shutdown that would free it is behind it on the serial queue.
- `app_exit`: `handleCoreExit` heeds an exit only in `.connected`. A core that
  exits after the RPC of `connect()` has succeeded, but is handled before
  `connect()` resumes, is dropped; the app then shows `.connected` for good with
  no core and no restart.

Three further disagreements show in what a holding property leaves out, which it
says in its comment:

- `OnlyTimerCutsCore`: the timer looks at the lease and calls `exit(0)` in two
  steps. A hello that is accepted in between makes an owner, who may already have
  a core, and the exit cuts it off; the timer's comment (`main.rs:137`) says
  `Harmless once an owner exists`.
- `StopHeard`: a `start` whose caller timed out is sent by the next session, the
  `stop` queued behind it is refused (one request in flight), and
  `etb_disconnect` returns success with the core running, against
  `easytier_bridge.h:75`.
- `ConflictsRight`: `classify` takes the first word of a `ps` line for `argv[0]`.
  An `easytier-core` in a folder with a blank in its name is not reported,
  although by `conflict.rs:9` any path but the managed one is "unmanaged"; nor is
  a VPN there. Nothing is reported wrongly, and everything without a blank in
  its path is reported.

**Bounds.** Two connections are the fewest for takeover and kick, and a third
adds no new kind of step, since a takeover involves the owner and one newcomer;
slots are reused, so histories with many clients are covered. Two pids are the
fewest for an orphan beside a new core, or a restart beside a monitor still
cleaning up. Two hook runs let the `down` of one core overlap that of the next;
`up` hooks change nothing that a property looks at and are not installed in the
passing runs. Three requests at capacity 2
put one in flight, one abandoned in the channel and one in a call; capacity 1
in `full` stands for 16. In `AppModel` two tasks are the fewest for a connect or
disconnect beside a restart loop; `Backlog` 2 is the fewest for an exit event
overtaking the start it belongs to, and `Lag` 1 keeps one more event between the
port's update and the app. `app` has one port and loses no lines, since what it
checks reads neither; `port` has two, so that a core and its successor differ,
one task, since the tasks touch the port only through the serial queue, and
`Backlog` 3, which puts a third event between an exit and the start it overtook.
The theorems of §4 cover any number of tasks, ports and events. `MaxArgs` 2 and `MaxPath` 4 put
each special token beside each other one and a foreign path in every argument
position. Nothing else is bounded: no state constraint is used, and all state
graphs are finite. Symmetry is used for safety only. `boundary` switches the
deadlock check off, since inputs stop growing at their bounds.

**Fairness.** Supervisor: every thread is scheduled, sleeps and timeouts end, a
SIGKILLed process dies, a hook script ends (it is killed at `hook_timeout`),
launchd activates, a write to a client returns. Nothing is assumed of clients,
of a core that was not SIGKILLed, or of failures. Bridge: tokio polls ready
tasks, timers elapse, `select!` does not ignore a permit for ever, the serial
queue serves its calls in order, and a supervisor that holds our hello or command
answers it unless the connection goes. `AppModel` states no fairness: what must
eventually happen there depends on calls of the bridge that, by `full`, may not
return; `TransitionDriven` is its safety half.

## 4. Proofs

Every safety property that a passing run checks is also a theorem. The runs'
instances are small; the theorems hold for every value of the constants. Each inductive invariant below was checked by
TLC on the instance of its run before it was proved.

| Theorem | States | For any |
|---|---|---|
| `SupervisorProofs!TypeCorrect` | `Spec => []TypeOK` | connections, pids, hook runs, scripts |
| `SupervisorProofs!CoreIsTracked` | `Spec => []CoreTracked` | " |
| `SupervisorProofs!SignalsOwnChild` | `Spec => []SignalOwnChild` | " |
| `SupervisorProofs!OneCore` | `Spec => []AtMostOneCore` | " |
| `SupervisorProofs!LeaseIsExclusive` | `Spec => []LeaseExclusive` | " |
| `SupervisorProofs!KilledForCause` | `Spec => CoreKilledForCause` | " |
| `SupervisorProofs!CoreIsAttended` | `Spec => []CoreAttended` | " |
| `ServiceProofs!SupervisorImplements` | `Spec => ImplementsService` | " |
| `HookProofs!OneDownPerDeath` | `OneConnection => (Spec => []DownOwed)` | finite set of pids, hook runs, scripts |
| `HookProofs!OtherExitsReap` | `(\A c, d \in Conns : c = d) => (Spec => OnlyTimerCutsCore)` | pids, hook runs, scripts |
| `BridgeProofs!BridgeTypeCorrect` | `Spec => []TypeOK` | requests, capacity, `Slow` |
| `BridgeProofs!RepliesMatch` | `Spec => []OkMeansExecuted` | " |
| `BridgeProofs!NeverRepeated` | `Spec => []AtMostOnce` | " |
| `BridgeProofs!AnsweredStopHolds` | `Spec => []StopHeard` | " |
| `BridgeProofs!TakeoverHasConsent` | `Spec => []TakeoverConsented` | " |
| `AppProofs!AppTypeCorrect` | `Spec => []TypeOK` | tasks, ports, faults, `Backlog`, `Lag` |
| `AppProofs!AlwaysDriven` | `Spec => []TransitionDriven` | " |
| `AppProofs!SingleRestart` | `Spec => []OneRestart` | " |
| `AppProofs!RestartsAreBounded` | `Spec => []RestartsBounded` | " |
| `AppProofs!PollingResident` | `Spec => []PollsWhileConnected` | " |
| `AppProofs!StatusIsReachable` | `Spec => []StatusReachable` | " |
| `BoundaryProofs!LinesUnderstood` | `Spec => []EventsUnderstood` | `MaxArgs`, `MaxPath` |
| `BoundaryProofs!SaidIsSeen` | `Spec => []EventsReachApp` | " |
| `BoundaryProofs!CommandsObeyed` | `Spec => []CmdsObeyed` | " |
| `BoundaryProofs!FilesAreOurs` | `Spec => []ObeysOwnFiles` | " |
| `TextProofs!SweepIsExact` | `Spec => []SweepExact` | " |
| `TextProofs!ConflictsAreRight` | `Spec => []ConflictsRight` | " |
| `TextProofs!InstallIsIntact` | `Spec => []InstallArgsIntact` | " |

The assumptions are those of the modules: `ConstantsAssumption` (scripts are
among `up` and `down`, `None` is no identifier), `BridgeAssumption` (the channel
has room for one, `Slow` is Boolean, `None` is no request) and `AppAssumption`
(the faults are the four modelled, `None` is no task or port, `Backlog` is at
least 2 and `Lag` at least 1). `OneConnection` is the hypothesis of
`OneDownPerDeath` alone, and cannot be dropped: after a takeover two threads
can be inside `stop`, and each fires a hook for the one death. `OtherExitsReap`
has one connection as its hypothesis for a like reason: with two, `accept`
may fail while a core is being stopped, and a takeover that goes unnoticed
(`kicked`) exits over a core.

**Supervisor.** All rest on `Invariance`, `Spec => []Inv`. None of the
properties is inductive alone. `AtMostOneCore` needs `OnlyCore` (once the boot
sweep has run, the tracked core is the only live process, so a spawn that found
`Stopped` adds the first), which needs `CoreTracked` (finding `Stopped` means no
monitored child) and `Quiet` (a new supervisor starts with nothing of its own).
`SignalOwnChild` follows from `Watched` (a monitor that has not seen its child
reaped has an un-reaped child). `LeaseExclusive` needs `Fresh` (a slot without
the lease carries no old `kicked` flag). The lemmas `TypeStep`, `CoreStep`,
`AliveStep` and `LeaseStep` each treat one group of conjuncts, with one step per
action that can disturb it. `CoreAttended` is made inductive by asking the same
while a displaced owner's thread is there (`Attended`): that thread still takes
commands, so a `start` of its own finds the new owner, or its exit, in place.
`CoreKilledForCause` needs `Asked`: a monitor is about to signal, or has begun to
escalate, only while a stop is requested of its own child and `State::core`
still names it. `KillStep` then goes through everything that sends a signal; the
sweep at boot finds no tracked core (`Quiet`), the one after a crash looks first.

**Refinement.** The mapping of `SupervisorImplements` needs no history beyond
`blind`; each action is matched with the service's step in `StepImplements`, in
every state of `Inv`. What is not a matter of unfolding: a connection becomes
owner only in a supervisor that has booted, and `OnlyCore` then gives
`Reconciled`; a spawn finds `Stopped`, so `CoreTracked` and `OnlyCore` leave no
live process; the monitor announces `Stopped` only for a child that, by
`Watched`, it has reaped; and a sweep is a reconciliation whichever thread runs
it (`SweepReconciles`), since every caller of `sweep_orphans` excludes no pid.

**Hooks.** `DownOwed` counts threads. It becomes inductive with `StopAwaited`:
`stop_requested` is set exactly while a connection waits for the core to end, so
that whenever a monitor sees the flag and leaves the hook to the stopper there
is one. `OwedStep` then follows every thread into and out of the two sets that
are counted, with the cardinality theorems of the library. `OnlyTimerCutsCore`
needs `Held` (with one connection nobody is displaced, and before the lease and
after the stop there is no core) and `ExitBy`, which names the three threads
that can call `exit(0)`.

**Bridge.** Replies carry no id, so `OkMeansExecuted` rests on where everything
is. `Slots`: a request has one holder (the call, the channel or the session),
and a slot is free only when none has it. `WirePhases`: outside a session
nothing is on the wire, and in one the wire holds the request in flight or its
reply, and that once; hence the next reply read answers the request in flight,
also when its caller has gone. `Progress`: what is still to be sent has not
been carried out, which is `AtMostOnce` as well, since a request leaves the
channel once. `Consent`: a confirmation is in one place (prompt, permit, or the
flag of the next hello) and moves in one direction. For `StopHeard`, on top of
them, `Last`: since calls come one at a time and the channel is first in, first
out, the request of the call in progress is the last one there is; when it has
been carried out, no start that an earlier call abandoned is left behind it.

**App.** `OneRestart` is inductive beside the types. `TransitionDriven` needs
it: that no second loop acts is why the one that `restartTask` names may be
trusted to leave `.connecting`. So does `RestartsBounded`, which also needs
`Attempts`: only one loop counts, and `Attempts` relates the history of
attempts to the loop's own counter at each of its awaits. `StatusReachable`
says something only when all is quiet; `PortFollows` says it at every moment:
with the events under way, the port is headed for the running core if that core
runs our instance or a start of it was answered and its RPC is under way
(`HeadedFor`: the last event that decides says so or, without one, the port is
there already). `LastDecides` and `ForwardKeeps` are what sending and forwarding
an event do to that. It holds because of `Lease`: after an answered start only
that core can run under our lease, since a takeover waits behind the call in
the serial queue. A line can be lost only of a core that has neither: one whose
start was given up, or one that ends. `Backlog` and `Lag` may be as large as one
likes, so the bounds of `app` and `port` hide nothing.

**Boundary.** `RoundTrip` is serde's promise: what is encoded with the fields
that the decoder knows is decoded to itself. `EventRows` and `SwiftRows`
compare the mirrors field by field (same keys, types that include what is
sent, defaults of the right type), and `SnakeDistinct` the names of the kinds.
`LineUnderstood` is about any object with the event's fields, less some that
have a default, and with any further keys; `Inputs`, the inductive invariant,
says that the lines `MCBoundary` makes are such. `OwnFiles` holds for any file,
users and groups.

**Text.** The parsers and quoters work character by character, and so do their
proofs. The library's induction theorems take an operator that the installed
provers cannot instantiate; `WFMin`, which says that a well-founded order has
minimal elements, takes none. `LeastNumber` is that for numbers, and from it
`Induct` and `SeqInduct` are induction with a set in the place of the predicate.
With them the recursive functions inside `FlattenSeq` and `Read` get their
recursion equations (`FlattenAppend`, `ReadAppend`; that a function satisfies
the equation, `FlattenExists` and `ReadExists`, is itself an induction), and
everything else is a matter of one more character.

- `ArgumentsReach`: for any three paths over any alphabet that contains the
  special characters. `EscapeAppend` says that the two replacements in a row
  escape a character once, `LiteralReads` that inside the literal AppleScript
  has read exactly what was escaped, `ShellInside` that inside its quotes the
  shell has the text as it was, apostrophes included.
- `SweepOf`, `ConflictsOf`: for any set of processes that run one of `Programs`,
  with any arguments over any alphabet. `JoinStarts` says that a command line
  starts with its program however many arguments follow, `LineIs` that both
  readers get that command line out of the line of `ps`, and
  `ProgramsClassified` that what starts with a program is judged as that
  program. The last is where the blank in the managed path matters, and where
  the list of programs is used: none is another one cut off at a blank.

`Inputs` then says that the growing inputs are such paths and processes.

**Only model-checked.** `StopCompletes`, `NoIdleResidency` and
`ShutdownCompletes`, because this prover has no reasoning about fairness or
`ENABLED`. The violated properties need no proof: TLC's behaviours are theirs.

## 5. Not modelled

JSON and TOML syntax, argument parsing, the launchd FFI and `peer_uid`, the
status rows and rates of `etb_status` and their views, `revalidate`,
`refreshSupervisorStatus` and the install buttons of the app, `installation_status`,
`friendly_config_error`, null handles and panics at the C boundary, the SwiftUI
views and the scripts: each is formatting, a single system call or a read whose
result changes no state that a property is about. A poisoned mutex, a failure to
create a thread and an error of `waitpid` on one's own child are left out, and a
write to a client that blocks for ever is excluded by fairness.

Behaviour that the models have and no property forbids, since no document that
we know of does:

- `ps` text cannot tell a program whose path ends where a space of the managed
  path is from the managed core with arguments; `Programs` has no such pair;
- the cached port survives the end of a session until the next start or stop, so
  a status call in between asks a dead port;
- `etb_status` fails while the core does not run the instance whose id is kept:
  after a restart whose `start` succeeded and whose RPC failed, after a kick that
  was overwritten and a takeover, or when the `core_started` of an abandoned
  start was lost and the port is not known; the next connect repairs it;
- a kick that is handled while `connect()` awaits is overwritten by
  `.connected` when the call succeeds.

Where a model departs from the code in ways that no property looks at:

- `Kick` closes the displaced connection for reading, while its `BufReader` may
  hold commands that were sent ahead; `run_command_loop` would still carry them
  out, as it does the one it has already read, which is modelled.
- `StartSpawns` creates the monitor in the critical section of the spawn; the
  code does so right after it.
- `HangUp` drops commands on the wire at shutdown, which the supervisor could
  still read before it sees the end of the stream.
- `StartErr` and `StopCore` of `AppModel` may lose a line whenever a request can
  come in, a little more often than the timing of `select!` allows.
- `Writers` of `Trust` leaves out whoever can replace a file through its parent
  directory; neither check of the code looks at the directory.
- `TunVpns` has two of the seven names of `is_tun_vpn`.
- `AtMostOneCore` says nothing once a sweep could not run `ps` (`blind`), and
  `CoreAttended` counts a thread that waits in `stop` for ever (`idle`).

## 6. Plan

1. The step from `AppModel`'s external driver to `BridgeDriver`: a mapping of
   `drv`, `core` and the events, so that `app` rests on the driver as modelled.
2. Theorems about the races that the code loses, beyond `OtherExitsReap` and
   `AnsweredStopHolds`: that with several clients a core is lost only to the
   timer, a crash, a failed `accept` or an unnoticed takeover.
