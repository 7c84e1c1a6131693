----------------------------- MODULE Supervisor -----------------------------
(***************************************************************************)
(* easytier-supervisor: the root daemon that launchd starts on the first   *)
(* connection to its control socket, that leases the control connection to *)
(* one owner at a time, spawns and reaps one easytier-core process, runs   *)
(* the up/down hooks, and exits when its owner disconnects.                *)
(*                                                                         *)
(* One behaviour covers many supervisor processes, one after the other:    *)
(* every exit or crash ends a process, the next pending connection makes   *)
(* launchd start a new one, and what a dead process leaves behind (live    *)
(* cores, running hook scripts) is still there when the next one boots.    *)
(*                                                                         *)
(* Threads.  Each accepted connection runs handle_connection on a thread   *)
(* of its own (conn), each core has a monitor thread (mon), and the        *)
(* no-owner timer and every hook have theirs.  A step is what one thread   *)
(* does between two points where another thread can intervene: one         *)
(* critical section of the mutex Shared::st, or one system call or socket  *)
(* write made outside it.                                                  *)
(***************************************************************************)
EXTENDS Integers, FiniteSets

CONSTANTS Conns,    \* control connections (slots, used again once idle)
          Pids,     \* process ids a core can get
          HookIds,  \* hook runs that can be in progress at once
          Scripts,  \* the hooks installed and passing the security gate
          None      \* Rust's Option::None

ASSUME ConstantsAssumption ==
  /\ Scripts \subseteq {"up", "down"}
  /\ None \notin Conns \cup Pids \cup HookIds

VARIABLES
  sup,     \* the process: "boot", "listen" (in main), "serving", Gone
  timer,   \* no-owner timer: "armed", "exiting" (saw no owner), "done"
  owner,   \* State::owner, the connection that holds the lease
  core,    \* State::core, the pid of Running or None for Stopped
  stopReq, \* Running::stop_requested
  proc,    \* the kernel's process table, restricted to core processes
  mon,     \* program counter of the monitor thread of a pid
  esc,     \* monitor-local escalation: term_deadline and kill_sent
  conn,    \* program counter of a connection's thread
  peer,    \* the connection's socket can still deliver a command
  kicked,  \* OwnerSlot::kicked
  victim,  \* the displaced owner a takeover still has to notify
  joins,   \* StopOutcome::hook, the down hook the exit path awaits
  hookSt,  \* hook run: "free", "thread", "child", "stray"
  hookEv,  \* the event a hook run was fired for
  debt,    \* history: core deaths minus down hooks fired for them
  blind    \* history: a sweep whose ps failed has missed a live core

lifeVars == <<sup, timer, owner>>
coreVars == <<core, stopReq>>
procVars == <<proc, mon, esc>>
sessVars == <<peer, kicked, victim, joins>>
connVars == <<conn, sessVars>>
hookVars == <<hookSt, hookEv>>
ghosts   == <<debt, blind>>
vars == <<lifeVars, coreVars, procVars, connVars, hookVars, ghosts>>

Gone == {"exited", "crashed"}

Est == {"kick", "greet", "write", "cmd", "start", "up", "status",
        "stop", "stopping", "down", "end", "clear"}
Dropping == {"drop", "dropping", "dropdown", "sweep", "exit"}
ConnPhases == {"idle", "backlog", "hello"} \cup Est \cup Dropping

\* Phases of a monitor that has not reaped its child yet.
Watching == {"poll", "check", "signal"}
MonPhases == {"none", "reaped", "push", "down", "sweep"} \cup Watching

Unreaped == {"alive", "killed", "zombie"}
ProcStates == {"free"} \cup Unreaped
-----------------------------------------------------------------------------
(* The world before the first activation.  A live core may be left over    *)
(* from a supervisor that ran earlier.                                     *)
Init ==
  /\ sup = "exited" /\ timer = "armed"
  /\ owner = None /\ core = None /\ stopReq = FALSE
  /\ \E orphan \in Pids \cup {None} :
       proc = [p \in Pids |-> IF p = orphan THEN "alive" ELSE "free"]
  /\ mon = [p \in Pids |-> "none"] /\ esc = [p \in Pids |-> "none"]
  /\ conn = [c \in Conns |-> "idle"] /\ peer = [c \in Conns |-> FALSE]
  /\ kicked = [c \in Conns |-> FALSE] /\ victim = [c \in Conns |-> None]
  /\ joins = [c \in Conns |-> None]
  /\ hookSt = [h \in HookIds |-> "free"] /\ hookEv = [h \in HookIds |-> "down"]
  /\ debt = 0 /\ blind = FALSE
-----------------------------------------------------------------------------
(* Helpers.                                                                *)

Goto(c, phase) == conn' = [conn EXCEPT ![c] = phase]

(* hooks::run_hook.  A missing or refused script gives no handle; else a   *)
(* hook thread is spawned and h is its handle.                             *)
RunHook(ev, h) ==
  IF ev \in Scripts
  THEN /\ h \in HookIds /\ hookSt[h] = "free"
       /\ \A c \in Conns : joins[c] # h
       /\ hookSt' = [hookSt EXCEPT ![h] = "thread"]
       /\ hookEv' = [hookEv EXCEPT ![h] = ev]
  ELSE h = None /\ UNCHANGED hookVars

\* A caller that drops the handle.
RunHookDetached(ev) == \E h \in HookIds \cup {None} : RunHook(ev, h)

(* janitor::sweep_orphans: SIGKILL every process ps shows with core_path   *)
(* as argv[0] and fire the down hook if there was one.  ps itself may fail.*)
SweepOrphans ==
  LET seen == {p \in Pids : proc[p] \in {"alive", "killed"}} IN
  \/ /\ proc' = [p \in Pids |-> IF p \in seen THEN "killed" ELSE proc[p]]
     /\ IF seen # {} THEN RunHookDetached("down") ELSE UNCHANGED hookVars
     /\ blind' = FALSE
  \/ /\ blind' = (blind \/ \E p \in Pids : proc[p] = "alive")
     /\ UNCHANGED <<proc, hookVars>>

(* The end of a supervisor process, by exit(0) or by a crash: its threads  *)
(* and sockets vanish, launchd inherits and reaps its dead children, live  *)
(* cores and hook scripts run on.                                          *)
ProcessEnds(how) ==
  /\ sup' = how /\ timer' = "armed"
  /\ owner' = None /\ core' = None /\ stopReq' = FALSE
  /\ proc' = [p \in Pids |-> IF proc[p] = "zombie" THEN "free" ELSE proc[p]]
  /\ mon' = [p \in Pids |-> "none"] /\ esc' = [p \in Pids |-> "none"]
  /\ conn' = [c \in Conns |-> IF conn[c] = "backlog" THEN "backlog" ELSE "idle"]
  /\ peer' = [c \in Conns |-> conn[c] = "backlog" /\ peer[c]]
  /\ kicked' = [c \in Conns |-> FALSE] /\ victim' = [c \in Conns |-> None]
  /\ joins' = [c \in Conns |-> None]
  /\ hookSt' = [h \in HookIds |-> CASE hookSt[h] = "thread" -> "free"
                                    [] hookSt[h] = "child"  -> "stray"
                                    [] OTHER                -> hookSt[h]]
  /\ debt' = 0
  /\ UNCHANGED <<hookEv, blind>>

(* A connection's thread returns and its socket closes.                    *)
ThreadEnds(c) ==
  /\ Goto(c, "idle")
  /\ peer' = [peer EXCEPT ![c] = FALSE]
  /\ kicked' = [kicked EXCEPT ![c] = FALSE]
  /\ UNCHANGED <<victim, joins>>
-----------------------------------------------------------------------------
(* Activation and process end.                                             *)

\* A client connects: launchd holds the listening socket, so this works
\* whether or not a supervisor is running.
ClientConnect(c) ==
  /\ conn[c] = "idle"
  /\ \A d \in Conns : victim[d] # c
  /\ Goto(c, "backlog")
  /\ peer' = [peer EXCEPT ![c] = TRUE]
  /\ UNCHANGED <<lifeVars, coreVars, procVars, kicked, victim, joins, hookVars, ghosts>>

ClientClose(c) ==
  /\ peer[c]
  /\ peer' = [peer EXCEPT ![c] = FALSE]
  /\ UNCHANGED <<lifeVars, coreVars, procVars, conn, kicked, victim, joins, hookVars, ghosts>>

\* launchd: a connection waits and no supervisor runs.
Activate ==
  /\ sup \in Gone
  /\ \E c \in Conns : conn[c] = "backlog"
  /\ sup' = "boot"
  /\ UNCHANGED <<timer, owner, coreVars, procVars, connVars, hookVars, ghosts>>

\* Faulty variant: main serves without reconciling orphans.
BootNoSweep ==
  /\ sup = "boot"
  /\ sup' = "listen"
  /\ UNCHANGED <<timer, owner, coreVars, procVars, connVars, hookVars, ghosts>>

\* main: reconcile orphans first ...
Boot ==
  /\ sup = "boot"
  /\ sup' = "listen"
  /\ SweepOrphans
  /\ UNCHANGED <<timer, owner, coreVars, mon, esc, connVars, debt>>

\* ... then claim the sockets, arm the timer and serve.
Listen ==
  /\ sup = "listen"
  /\ sup' = "serving" /\ timer' = "armed"
  /\ UNCHANGED <<owner, coreVars, procVars, connVars, hookVars, ghosts>>

\* main: supervisor.toml does not load, or there is no control socket.
BootFails == sup \in {"boot", "listen"} /\ ProcessEnds("exited")

\* kill -9, a launchctl bootout, a power loss.
Crash == sup = "serving" /\ ProcessEnds("crashed")

\* main: accept(2) fails, the accept loop breaks and main returns.
AcceptFails ==
  /\ sup = "serving"
  /\ \E c \in Conns : conn[c] = "backlog"
  /\ ProcessEnds("exited")

\* start_no_owner_timer: has_owner() is read under the lock ...
TimerFires ==
  /\ sup = "serving" /\ timer = "armed"
  /\ timer' = IF owner = None THEN "exiting" ELSE "done"
  /\ UNCHANGED <<sup, owner, coreVars, procVars, connVars, hookVars, ghosts>>

\* ... and acted upon after it is released.
TimerExit == sup = "serving" /\ timer = "exiting" /\ ProcessEnds("exited")
-----------------------------------------------------------------------------
(* handle_connection, up to the command loop.                              *)

\* accept_loop and the peer credential gate.
Accept(c, allowed) ==
  /\ sup = "serving" /\ conn[c] = "backlog"
  /\ IF allowed THEN Goto(c, "hello") /\ UNCHANGED sessVars
                ELSE ThreadEnds(c)
  /\ UNCHANGED <<lifeVars, coreVars, procVars, hookVars, ghosts>>

\* read_hello gives up: timeout, EOF, an over-long line, a wrong first command
\* or an unsupported protocol version.
HelloFails(c) ==
  /\ conn[c] = "hello"
  /\ ThreadEnds(c)
  /\ UNCHANGED <<lifeVars, coreVars, procVars, hookVars, ghosts>>

\* Faulty variant: a takeover does not tell the old owner's thread.
HelloNoKicked(c, takeover) ==
  /\ conn[c] = "hello" /\ peer[c]
  /\ owner = None \/ takeover
  /\ owner' = c
  /\ victim' = [victim EXCEPT ![c] = owner]
  /\ Goto(c, IF owner = None THEN "greet" ELSE "kick")
  /\ UNCHANGED <<sup, timer, coreVars, procVars, peer, kicked, joins, hookVars, ghosts>>

\* lease_decision and its three outcomes.
Hello(c, takeover) ==
  /\ conn[c] = "hello" /\ peer[c]
  /\ \/ /\ owner = None
        /\ owner' = c
        /\ Goto(c, "greet")
        /\ UNCHANGED sessVars
     \/ /\ owner # None /\ takeover
        /\ owner' = c
        /\ kicked' = [kicked EXCEPT ![owner] = TRUE]
        /\ victim' = [victim EXCEPT ![c] = owner]
        /\ Goto(c, "kick")
        /\ UNCHANGED <<peer, joins>>
     \/ /\ owner # None /\ ~takeover
        /\ ThreadEnds(c)
        /\ UNCHANGED owner
  /\ UNCHANGED <<sup, timer, coreVars, procVars, hookVars, ghosts>>

\* Outside the lock: tell the displaced owner and shut its socket down.
Kick(c) ==
  /\ conn[c] = "kick"
  /\ peer' = [peer EXCEPT ![victim[c]] = FALSE]
  /\ victim' = [victim EXCEPT ![c] = None]
  /\ Goto(c, "greet")
  /\ UNCHANGED <<lifeVars, coreVars, procVars, kicked, joins, hookVars, ghosts>>

\* The answer to hello, status, start or stop is written (write_locked).  The
\* first two carry core_snapshot; what the events say is not modelled here.
WriteReply(c) ==
  /\ conn[c] \in {"greet", "status", "write"}
  /\ Goto(c, "cmd")
  /\ UNCHANGED <<lifeVars, coreVars, procVars, sessVars, hookVars, ghosts>>
-----------------------------------------------------------------------------
(* run_command_loop, core_proc::start and core_proc::stop.                 *)

\* A line is read and decoded.  Blank lines, duplicate hellos and malformed
\* requests change nothing and are left out.
ReadCmd(c, cmd) ==
  /\ conn[c] = "cmd" /\ peer[c]
  /\ Goto(c, cmd)
  /\ UNCHANGED <<lifeVars, coreVars, procVars, sessVars, hookVars, ghosts>>

\* EOF; the client may also send a line that makes the server hang up.
ReadEnd(c) ==
  /\ conn[c] = "cmd"
  /\ Goto(c, "end")
  /\ UNCHANGED <<lifeVars, coreVars, procVars, sessVars, hookVars, ghosts>>

\* start: a core is already running, its pid and port are the answer.
StartRunning(c) ==
  /\ conn[c] = "start" /\ core # None
  /\ Goto(c, "write")
  /\ UNCHANGED <<lifeVars, coreVars, procVars, sessVars, hookVars, ghosts>>

\* start: no port, no log file, or spawn(2) failed.
StartFails(c) ==
  /\ conn[c] = "start" /\ core = None
  /\ Goto(c, "write")
  /\ UNCHANGED <<lifeVars, coreVars, procVars, sessVars, hookVars, ghosts>>

\* Faulty variant: the check for a running core is made before the lock is
\* taken for the spawn, so a core may have appeared since.
StartUnlocked(c, p) ==
  /\ conn[c] = "start"
  /\ proc[p] = "free" /\ mon[p] = "none"
  /\ proc' = [proc EXCEPT ![p] = "alive"]
  /\ mon' = [mon EXCEPT ![p] = "poll"]
  /\ esc' = [esc EXCEPT ![p] = "none"]
  /\ core' = p /\ stopReq' = FALSE
  /\ Goto(c, "up")
  /\ UNCHANGED <<lifeVars, sessVars, hookVars, ghosts>>

\* start: spawn under the lock, then the monitor thread.  A pid is not given
\* out again while the monitor thread of its last user is still finishing.
StartSpawns(c, p) ==
  /\ conn[c] = "start" /\ core = None
  /\ proc[p] = "free" /\ mon[p] = "none"
  /\ proc' = [proc EXCEPT ![p] = "alive"]
  /\ mon' = [mon EXCEPT ![p] = "poll"]
  /\ esc' = [esc EXCEPT ![p] = "none"]
  /\ core' = p /\ stopReq' = FALSE
  /\ Goto(c, "up")
  /\ UNCHANGED <<lifeVars, sessVars, hookVars, ghosts>>

StartHook(c) ==
  /\ conn[c] = "up"
  /\ RunHookDetached("up")
  /\ Goto(c, "write")
  /\ UNCHANGED <<lifeVars, coreVars, procVars, sessVars, ghosts>>

\* Faulty variant: the exit path does not wait for the core to end.
StopNoWait(c) ==
  /\ conn[c] \in {"stop", "drop"}
  /\ stopReq' = (core # None)
  /\ Goto(c, CASE conn[c] = "drop" -> "sweep"
               [] conn[c] = "stop" /\ core # None -> "stopping"
               [] OTHER -> "write")
  /\ UNCHANGED <<lifeVars, core, procVars, sessVars, hookVars, ghosts>>

\* stop, first critical section; "stop" serves the command, "drop" the
\* disconnected owner.
StopBegins(c) ==
  /\ conn[c] \in {"stop", "drop"}
  /\ stopReq' = (core # None)
  /\ Goto(c, CASE conn[c] = "stop" /\ core # None -> "stopping"
               [] conn[c] = "stop" /\ core = None -> "write"
               [] conn[c] = "drop" /\ core # None -> "dropping"
               [] conn[c] = "drop" /\ core = None -> "sweep")
  /\ UNCHANGED <<lifeVars, core, procVars, sessVars, hookVars, ghosts>>

\* stop: the wait loop sees Stopped under the lock.
StopSeen(c) ==
  /\ conn[c] \in {"stopping", "dropping"} /\ core = None
  /\ Goto(c, IF conn[c] = "stopping" THEN "down" ELSE "dropdown")
  /\ UNCHANGED <<lifeVars, coreVars, procVars, sessVars, hookVars, ghosts>>

\* A down hook is fired; -1 records that one was fired for no death.
PayDebt == debt' = IF debt > 0 THEN debt - 1 ELSE -1

\* stop: fire the down hook; the handle is kept on the exit path only.
StopHook(c) ==
  /\ conn[c] \in {"down", "dropdown"}
  /\ PayDebt
  /\ \E h \in HookIds \cup {None} :
       /\ RunHook("down", h)
       /\ joins' = [joins EXCEPT ![c] = IF conn[c] = "dropdown" THEN h ELSE None]
  /\ Goto(c, IF conn[c] = "down" THEN "write" ELSE "sweep")
  /\ UNCHANGED <<lifeVars, coreVars, procVars, peer, kicked, victim, blind>>
-----------------------------------------------------------------------------
(* handle_connection, after the command loop.                              *)

\* A displaced owner just ends; the flag is read without the lock.
CheckKicked(c) ==
  /\ conn[c] = "end"
  /\ IF kicked[c] THEN ThreadEnds(c)
                  ELSE Goto(c, "clear") /\ UNCHANGED sessVars
  /\ UNCHANGED <<lifeVars, coreVars, procVars, hookVars, ghosts>>

\* A genuine disconnect gives the lease back ...
ClearOwner(c) ==
  /\ conn[c] = "clear"
  /\ owner' = IF owner = c THEN None ELSE owner
  /\ Goto(c, "drop")
  /\ UNCHANGED <<sup, timer, coreVars, procVars, sessVars, hookVars, ghosts>>

\* ... stops the core (StopBegins, StopSeen, StopHook), sweeps ...
DropSweep(c) ==
  /\ conn[c] = "sweep"
  /\ SweepOrphans
  /\ Goto(c, "exit")
  /\ UNCHANGED <<lifeVars, coreVars, mon, esc, sessVars, debt>>

\* Faulty variant: the thread returns instead of exiting the process.
DropNoExit(c) ==
  /\ conn[c] = "exit"
  /\ ThreadEnds(c)
  /\ UNCHANGED <<lifeVars, coreVars, procVars, hookVars, ghosts>>

\* ... awaits the down hook and exits.
DropExit(c) ==
  /\ conn[c] = "exit"
  /\ joins[c] # None => hookSt[joins[c]] = "free"
  /\ ProcessEnds("exited")
-----------------------------------------------------------------------------
(* The core process and its monitor thread.                                *)

\* A core exits: its own bug, SIGTERM, SIGKILL, another process's signal.
CoreDies(p) ==
  /\ proc[p] \in {"alive", "killed"}
  /\ proc' = [proc EXCEPT ![p] = IF mon[p] \in Watching THEN "zombie" ELSE "free"]
  /\ UNCHANGED <<lifeVars, coreVars, mon, esc, connVars, hookVars, ghosts>>

\* Faulty variant: the monitor goes on watching a pid it has reaped.
MonPollOn(p) ==
  /\ mon[p] = "poll"
  /\ mon' = [mon EXCEPT ![p] = "check"]
  /\ proc' = [proc EXCEPT ![p] = IF @ = "zombie" THEN "free" ELSE @]
  /\ UNCHANGED <<lifeVars, coreVars, esc, connVars, hookVars, ghosts>>

\* spawn_monitor: try_wait.
MonPoll(p) ==
  /\ mon[p] = "poll"
  /\ IF proc[p] = "zombie"
     THEN /\ proc' = [proc EXCEPT ![p] = "free"]
          /\ mon' = [mon EXCEPT ![p] = "reaped"]
     ELSE /\ mon' = [mon EXCEPT ![p] = "check"]
          /\ UNCHANGED proc
  /\ UNCHANGED <<lifeVars, coreVars, esc, connVars, hookVars, ghosts>>

\* spawn_monitor: was a stop requested for this generation?
MonCheck(p) ==
  /\ mon[p] = "check"
  /\ mon' = [mon EXCEPT ![p] = IF core = p /\ stopReq THEN "signal" ELSE "poll"]
  /\ UNCHANGED <<lifeVars, coreVars, proc, esc, connVars, hookVars, ghosts>>

\* TERM_GRACE has passed since SIGTERM.
GraceOver(p) ==
  /\ esc[p] = "term"
  /\ esc' = [esc EXCEPT ![p] = "due"]
  /\ UNCHANGED <<lifeVars, coreVars, proc, mon, connVars, hookVars, ghosts>>

\* Faulty variant: SIGTERM and no escalation.
MonSignalTermOnly(p) ==
  /\ mon[p] = "signal"
  /\ esc' = [esc EXCEPT ![p] = "term"]
  /\ mon' = [mon EXCEPT ![p] = "poll"]
  /\ UNCHANGED <<lifeVars, coreVars, proc, connVars, hookVars, ghosts>>

\* Faulty variant: without kill_sent the ladder has no last rung.
MonSignalRepeat(p) ==
  /\ mon[p] = "signal"
  /\ esc' = [esc EXCEPT ![p] = CASE @ = "none" -> "term" [] @ = "due" -> "kill"
                                 [] @ = "kill" -> "kill again" [] OTHER -> @]
  /\ proc' = [proc EXCEPT ![p] = IF esc[p] = "due" /\ @ = "alive" THEN "killed" ELSE @]
  /\ mon' = [mon EXCEPT ![p] = "poll"]
  /\ UNCHANGED <<lifeVars, coreVars, connVars, hookVars, ghosts>>

\* spawn_monitor: SIGTERM first, SIGKILL once the deadline has passed.  A core
\* is free to ignore SIGTERM, so only SIGKILL changes the process.
MonSignal(p) ==
  /\ mon[p] = "signal"
  /\ esc' = [esc EXCEPT ![p] = CASE @ = "none" -> "term" [] @ = "due" -> "kill" [] OTHER -> @]
  /\ proc' = [proc EXCEPT ![p] = IF esc[p] = "due" /\ @ = "alive" THEN "killed" ELSE @]
  /\ mon' = [mon EXCEPT ![p] = "poll"]
  /\ UNCHANGED <<lifeVars, coreVars, connVars, hookVars, ghosts>>

\* Faulty variant: a requested exit is treated like a crash.
MonExitAlwaysCrash(p) ==
  /\ mon[p] = "reaped"
  /\ mon' = [mon EXCEPT ![p] = "push"]
  /\ esc' = [esc EXCEPT ![p] = "none"]
  /\ core' = None /\ stopReq' = FALSE
  /\ debt' = IF debt >= 0 THEN debt + 1 ELSE debt
  /\ UNCHANGED <<lifeVars, proc, connVars, hookVars, blind>>

\* handle_core_exit: the transition to Stopped.
MonExit(p) ==
  /\ mon[p] = "reaped"
  /\ mon' = [mon EXCEPT ![p] = IF core # p \/ stopReq THEN "none" ELSE "push"]
  /\ esc' = [esc EXCEPT ![p] = "none"]
  /\ core' = IF core = p THEN None ELSE core
  /\ stopReq' = IF core = p THEN FALSE ELSE stopReq
  /\ debt' = IF core = p /\ debt >= 0 THEN debt + 1 ELSE debt
  /\ UNCHANGED <<lifeVars, proc, connVars, hookVars, blind>>

\* handle_core_exit: write_to_owner(core_exited).
MonPush(p) ==
  /\ mon[p] = "push"
  /\ mon' = [mon EXCEPT ![p] = "down"]
  /\ UNCHANGED <<lifeVars, coreVars, proc, esc, conn, sessVars, hookVars, ghosts>>

\* handle_core_exit: the down hook, detached.
MonHook(p) ==
  /\ mon[p] = "down"
  /\ mon' = [mon EXCEPT ![p] = "sweep"]
  /\ RunHookDetached("down")
  /\ PayDebt
  /\ UNCHANGED <<lifeVars, coreVars, proc, esc, connVars, blind>>

\* Faulty variant: the crash path sweeps whatever state the core is in.
MonSweepUnguarded(p) ==
  /\ mon[p] = "sweep"
  /\ mon' = [mon EXCEPT ![p] = "none"]
  /\ SweepOrphans
  /\ UNCHANGED <<lifeVars, coreVars, esc, connVars, debt>>

\* handle_core_exit: sweep, under the lock, unless a new core runs already.
MonSweep(p) ==
  /\ mon[p] = "sweep"
  /\ mon' = [mon EXCEPT ![p] = "none"]
  /\ IF core = None THEN SweepOrphans ELSE UNCHANGED <<proc, hookVars, blind>>
  /\ UNCHANGED <<lifeVars, coreVars, esc, connVars, debt>>
-----------------------------------------------------------------------------
(* run_child on a hook's thread.                                           *)

\* The log file and the script's process; either may fail.
HookSpawn(h, ok) ==
  /\ hookSt[h] = "thread"
  /\ hookSt' = [hookSt EXCEPT ![h] = IF ok THEN "child" ELSE "free"]
  /\ UNCHANGED <<lifeVars, coreVars, procVars, connVars, hookEv, ghosts>>

\* The script ends, or outlives hook_timeout and is killed.  A stray one
\* belongs to a supervisor that is gone and is not timed.
HookEnds(h) ==
  /\ hookSt[h] \in {"child", "stray"}
  /\ hookSt' = [hookSt EXCEPT ![h] = "free"]
  /\ UNCHANGED <<lifeVars, coreVars, procVars, connVars, hookEv, ghosts>>
-----------------------------------------------------------------------------
ConnStep(c) ==
  \/ \E allowed \in BOOLEAN : Accept(c, allowed)
  \/ HelloFails(c) \/ Kick(c) \/ WriteReply(c)
  \/ StartRunning(c) \/ StartFails(c) \/ (\E p \in Pids : StartSpawns(c, p)) \/ StartHook(c)
  \/ StopBegins(c) \/ StopSeen(c) \/ StopHook(c)
  \/ CheckKicked(c) \/ ClearOwner(c) \/ DropSweep(c) \/ DropExit(c)

ClientStep(c) ==
  \/ ClientConnect(c) \/ ClientClose(c)
  \/ \E takeover \in BOOLEAN : Hello(c, takeover)
  \/ \E cmd \in {"start", "status", "stop"} : ReadCmd(c, cmd)
  \/ ReadEnd(c)

MonStep(p) == MonPoll(p) \/ MonCheck(p) \/ MonSignal(p) \/ MonExit(p)
              \/ MonPush(p) \/ MonHook(p) \/ MonSweep(p)

HookStep(h) == (\E ok \in BOOLEAN : HookSpawn(h, ok)) \/ HookEnds(h)

Next ==
  \/ Activate \/ Boot \/ Listen \/ BootFails \/ Crash \/ AcceptFails \/ TimerFires \/ TimerExit
  \/ \E c \in Conns : ClientStep(c) \/ ConnStep(c)
  \/ \E p \in Pids : CoreDies(p) \/ GraceOver(p) \/ MonStep(p)
  \/ \E h \in HookIds : HookStep(h)

Spec == Init /\ [][Next]_vars

(* What the code and the system guarantee to happen: every thread is       *)
(* scheduled, sleeps and timeouts end (hello, grace, no-owner, hook), a    *)
(* SIGKILLed process dies, a script ends, launchd activates, writes to a   *)
(* client's socket return.  Nothing is assumed of clients, of a core that  *)
(* has not been SIGKILLed, or of failures.                                 *)
Fairness ==
  /\ WF_vars(Activate) /\ WF_vars(Boot) /\ WF_vars(Listen)
  /\ WF_vars(TimerFires) /\ WF_vars(TimerExit)
  /\ \A c \in Conns : WF_vars(ConnStep(c)) /\ WF_vars(~peer[c] /\ ReadEnd(c))
  /\ \A p \in Pids : /\ WF_vars(GraceOver(p)) /\ WF_vars(MonStep(p))
                     /\ WF_vars(proc[p] = "killed" /\ CoreDies(p))
  /\ \A h \in HookIds : WF_vars(HookStep(h))

LiveSpec == Spec /\ Fairness
-----------------------------------------------------------------------------
(* Safety.                                                                 *)

(* Every variable keeps its type.                                          *)
TypeOK ==
  /\ sup \in {"boot", "listen", "serving"} \cup Gone
  /\ timer \in {"armed", "exiting", "done"}
  /\ owner \in Conns \cup {None}
  /\ core \in Pids \cup {None} /\ stopReq \in BOOLEAN
  /\ proc \in [Pids -> ProcStates]
  /\ mon \in [Pids -> MonPhases]
  /\ esc \in [Pids -> {"none", "term", "due", "kill"}]
  /\ conn \in [Conns -> ConnPhases]
  /\ peer \in [Conns -> BOOLEAN] /\ kicked \in [Conns -> BOOLEAN]
  /\ victim \in [Conns -> Conns \cup {None}]
  /\ joins \in [Conns -> HookIds \cup {None}]
  /\ hookSt \in [HookIds -> {"free", "thread", "child", "stray"}]
  /\ hookEv \in [HookIds -> {"up", "down"}]
  /\ debt \in Int /\ blind \in BOOLEAN

(* start spawns under the lock "so state and reality never diverge": core  *)
(* p is Running exactly as long as its monitor has not reported its exit.  *)
(* Everything that acts on seeing Stopped (start, stop, the crash-path     *)
(* sweep) rests on this.                                                   *)
CoreTracked ==
  \A p \in Pids : (core = p) <=> (mon[p] \in Watching \cup {"reaped"})

(* Two cores never run at once, over every crash, exit and restart of the  *)
(* supervisor, unless a sweep could not run ps and so missed an orphan.    *)
AtMostOneCore ==
  ~blind => \A p, q \in Pids : proc[p] = "alive" /\ proc[q] = "alive" => p = q

(* The pid-reuse invariant of core_proc.rs: when the monitor is about to   *)
(* call kill(2), the pid still belongs to its own un-reaped child.         *)
SignalOwnChild ==
  \A p \in Pids : mon[p] = "signal" => proc[p] \in Unreaped

(* The lease: an established connection that was not displaced is the      *)
(* owner, and the owner is an established connection not displaced.  So at *)
(* most one connection commands the core without having been kicked.       *)
LeaseExclusive ==
  \A c \in Conns : (owner = c) <=> (conn[c] \in Est /\ ~kicked[c])

(* "No idle residency" as a safety property: a core runs only while some   *)
(* client holds the lease or a thread is on the disconnect path, from      *)
(* which it leaves by ending the process alone.  A displaced owner that    *)
(* still starts a core, and ends without a trace, does not break this.     *)
CoreAttended ==
  core # None => owner # None \/ \E c \in Conns : conn[c] \in Dropping

(* SIGKILL reaches the tracked core for one of two causes: a stop was      *)
(* requested of that very core, which has had SIGTERM and its grace, or    *)
(* the disconnect path is past its own stop and sweeps.  Neither the boot  *)
(* sweep, nor the sweep of an earlier core's monitor that an owner's       *)
(* restart has overtaken, nor a stop meant for the core before it kills    *)
(* one.                                                                    *)
CoreKilledForCause ==
  [][\A p \in Pids :
       core = p /\ proc[p] = "alive" /\ proc'[p] = "killed"
         => \/ stopReq /\ esc[p] = "due"
            \/ \E c \in Conns : conn[c] = "sweep"]_vars
-----------------------------------------------------------------------------
(* Liveness, under Fairness.                                               *)

(* A stop that was asked for ends with the core reaped, whatever the core  *)
(* does with SIGTERM.                                                      *)
StopCompletes == stopReq ~> (core = None)

(* "On-demand process, no idle residency": a supervisor without an owner,  *)
(* because none came or because it disconnected, gets one or ends.  With   *)
(* one connection the next owner is a new supervisor's, so this says that  *)
(* the disconnect path ends too.                                           *)
NoIdleResidency ==
  (sup = "serving" /\ owner = None) ~> (owner # None \/ sup \in Gone)
-----------------------------------------------------------------------------
(* Hooks.                                                                  *)

(* "A given core death fires exactly one down": every death whose down     *)
(* hook is still outstanding is owed by exactly one thread, the monitor    *)
(* that reported a crash or the connection inside stop.  For one           *)
(* connection at a time: after a takeover two can be inside stop, and each *)
(* fires a hook for the one death.                                         *)
DownOwed ==
  debt = Cardinality({p \in Pids : mon[p] \in {"push", "down"}})
         + Cardinality({c \in Conns :
                         \/ conn[c] \in {"stopping", "dropping"} /\ core = None
                         \/ conn[c] \in {"down", "dropdown"}})
-----------------------------------------------------------------------------
(* Statements of the repository's documents and comments about races that  *)
(* the code loses.                                                         *)

(* server.rs: the kicked flag tells a replaced owner's thread that "it must *)
(* not tear the core down".  The flag is read before the lock is taken, so *)
(* a takeover in between goes unnoticed: the old thread stops the new      *)
(* owner's core and exits the supervisor.                                  *)
KickedSparesCore == \A c \in Conns : conn[c] \in Dropping => ~kicked[c]

\* exit(0) by a supervisor whose lease is free.
OrderlyExit == sup = "serving" /\ sup' = "exited" /\ owner = None

(* DESIGN.md: the core is reaped before the supervisor exits.  The         *)
(* no-owner timer looks only at the lease, which the disconnect path gives *)
(* back before it stops the core.                                          *)
ExitAfterReap == [][OrderlyExit => core = None]_vars

(* What does hold, with one connection: of the threads that call exit(0)   *)
(* only the timer ever does so over a running core, and it cuts either the *)
(* disconnect path while it stops that core, or, as it calls exit(0) after *)
(* it has given the lock back, an owner whose hello came since (main.rs    *)
(* says of it "Harmless once an owner exists").  A second connection adds  *)
(* two more exits: a failing accept, and the disconnect path of a          *)
(* displaced owner.                                                        *)
OnlyTimerCutsCore ==
  [][sup = "serving" /\ sup' = "exited" /\ core # None
       => /\ timer = "exiting"
          /\ \E c \in Conns : conn[c] \in Est \cup {"drop", "dropping"}]_vars

(* DESIGN.md: every unexpected core exit fires down.sh once.  A disconnect *)
(* that finds the core dead already exits without waiting for the monitor  *)
(* that is about to fire it.                                               *)
DownBeforeExit ==
  [][(\E c \in Conns : conn[c] = "exit") /\ sup' = "exited" => debt = 0]_vars
=============================================================================
