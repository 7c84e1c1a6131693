------------------------------ MODULE AppModel ------------------------------
(***************************************************************************)
(* The policy layer of EasyTier.app: the connection state, auto-restart,   *)
(* startup restore and takeover prompt of AppModel.swift, the serial queue *)
(* on which BridgeClient.swift makes the C calls, the calls of ffi.rs with *)
(* the RPC port they share with the event task, and the event stream back  *)
(* to the app.                                                             *)
(*                                                                         *)
(* AppModel is a main actor: its tasks interleave at their awaits and      *)
(* nowhere else, so a step is what one task does from one await to the     *)
(* next, or the handling of one event.  While the takeover alert is modal  *)
(* the main actor runs nothing else.                                       *)
(*                                                                         *)
(* The driver, the supervisor, the core and a rival client are external    *)
(* and nondeterministic; BridgeDriver and Supervisor model them.           *)
(***************************************************************************)
EXTENDS Naturals, Sequences, FiniteSets

CONSTANTS Tasks,     \* task slots of the main actor, used again once idle
          Ports,     \* RPC ports a core can listen on
          Faults,    \* what may happen: see AppAssumption
          Backlog,   \* bound: events the driver gets ahead of the event task
          Lag,       \* bound: events the event task gets ahead of the app
          None       \* nil, Option::None

ASSUME AppAssumption ==
  /\ Faults \subseteq {"exit", "drop", "rival", "torn"}
  /\ Backlog \in Nat \ {0, 1} /\ Lag \in Nat \ {0}
  /\ None \notin Tasks \cup Ports

VARIABLES
  connState, \* connectionState
  toml,      \* runningToml is set
  fails,     \* restartFailures
  restored,  \* didAttemptRestore
  polling,   \* pollTask is set
  prompt,    \* promptTakeover is inside runModal
  pc,        \* where a task awaits: see TaskPhases
  result,    \* what the awaited call returned, once it has
  cancelled, \* Task.isCancelled
  restart,   \* restartTask, unless that task has ended
  queue,     \* the serial dispatch queue: calls not returned yet
  api,       \* how far the call at its head has come: see ApiPhases
  got,       \* the port in the supervisor's reply to that call's start
  port,      \* RpcClient::port
  instance,  \* EtbHandle::instance_id is set
  bus,       \* supervisor events on their way to forward_events
  stream,    \* events on their way to handle
  drv,       \* the driver: "down", "paused" (busy), "taking" (over), "up"
  core,      \* the port of the running core, or None
  hosted,    \* that core runs the instance that instance_id names
  rival,     \* another client holds the lease
  tries      \* history: restart attempts since a success or a disconnect

uiVars == <<connState, toml, fails, polling>>
optVars == <<restored, prompt>>
taskVars == <<pc, result, cancelled, restart>>
callVars == <<queue, api, got>>
rpcVars == <<port, instance>>
evVars == <<bus, stream>>
worldVars == <<drv, core, hosted, rival>>
vars == <<uiVars, optVars, taskVars, callVars, rpcVars, evVars, worldVars, tries>>

MaxAutoRestart == 3

ConnPhases == {"connect", "validate", "run"}
RestartPhases == {"restart", "sleep", "rerun"}
TaskPhases == {"idle", "disconnect", "stop"} \cup ConnPhases \cup RestartPhases
ApiPhases == {"begin", "port", "rpc", "clear"}

Event(type, p) == [type |-> type, port |-> p]

Init ==
  /\ connState = "disconnected" /\ toml = FALSE /\ fails = 0 /\ polling = FALSE
  /\ restored = FALSE /\ prompt = FALSE
  /\ pc = [t \in Tasks |-> "idle"] /\ result = [t \in Tasks |-> "none"]
  /\ cancelled = [t \in Tasks |-> FALSE] /\ restart = None
  /\ queue = <<>> /\ api = "begin" /\ got = None
  /\ port = None /\ instance = FALSE
  /\ bus = <<>> /\ stream = <<>>
  /\ drv = "down" /\ core = None /\ hosted = FALSE /\ rival \in {FALSE, "rival" \in Faults}
  /\ tries = 0
-----------------------------------------------------------------------------
(* Helpers.                                                                *)

Goto(t, phase) == pc' = [pc EXCEPT ![t] = phase]

\* await bridge.op(..): the call joins the serial queue.
Await(t, phase, op) ==
  /\ Goto(t, phase)
  /\ queue' = Append(queue, [task |-> t, op |-> op])

\* The awaited call has returned r and its task runs on.
Resumes(t, phase, r) ==
  /\ ~prompt /\ pc[t] = phase /\ result[t] = r
  /\ result' = [result EXCEPT ![t] = "none"]

\* restartTask?.cancel()
CancelRestart ==
  cancelled' = IF restart = None THEN cancelled
               ELSE [cancelled EXCEPT ![restart] = TRUE]

Free(t) == pc[t] = "idle"
-----------------------------------------------------------------------------
(* User actions.                                                           *)

\* toggleConnection: ignored in a transitional state.
Toggle(t) ==
  /\ ~prompt /\ Free(t)
  /\ \/ connState = "disconnected" /\ Goto(t, "connect")
     \/ connState = "connected" /\ Goto(t, "disconnect")
  /\ UNCHANGED <<uiVars, optVars, result, cancelled, restart, callVars, rpcVars,
                 evVars, worldVars, tries>>

\* promptTakeover: the user takes over or cancels.
Answer(yes) ==
  /\ prompt /\ prompt' = FALSE
  /\ queue' = IF yes THEN Append(queue, [task |-> None, op |-> "takeover"])
              ELSE queue
  /\ UNCHANGED <<uiVars, restored, taskVars, api, got, rpcVars, evVars,
                 worldVars, tries>>
-----------------------------------------------------------------------------
(* connect().                                                              *)

\* Up to the first await, config.read included.
ConnectBegins(t) ==
  /\ ~prompt /\ pc[t] = "connect"
  /\ \/ /\ connState # "disconnected"
        /\ Goto(t, "idle")
        /\ UNCHANGED <<connState, cancelled, queue, tries>>
     \/ /\ connState = "disconnected"
        /\ CancelRestart
        /\ tries' = 0
        /\ \/ connState' = "connecting" /\ Await(t, "validate", "validate")
           \/ UNCHANGED <<connState, queue>> /\ Goto(t, "idle")
  /\ UNCHANGED <<toml, fails, polling, optVars, result, restart, api, got,
                 rpcVars, evVars, worldVars>>

\* Validation failed, or bridge.connect did.
ConnectFails(t) ==
  /\ \E phase \in {"validate", "run"} : Resumes(t, phase, "err")
  /\ connState' = "disconnected"
  /\ Goto(t, "idle")
  /\ UNCHANGED <<toml, fails, polling, optVars, cancelled, restart, callVars,
                 rpcVars, evVars, worldVars, tries>>

ConnectValid(t) ==
  /\ Resumes(t, "validate", "ok")
  /\ Await(t, "run", "connect")
  /\ UNCHANGED <<uiVars, optVars, cancelled, restart, api, got, rpcVars, evVars,
                 worldVars, tries>>

\* The rest of connect(); the state is not looked at again.
ConnectDone(t) ==
  /\ Resumes(t, "run", "ok")
  /\ connState' = "connected" /\ toml' = TRUE /\ fails' = 0 /\ polling' = TRUE
  /\ Goto(t, "idle")
  /\ tries' = 0
  /\ UNCHANGED <<optVars, cancelled, restart, callVars, rpcVars, evVars, worldVars>>
-----------------------------------------------------------------------------
(* disconnect().                                                           *)

\* Faulty variant: a restart in progress is not cancelled.
DisconnectKeepsRestart(t) ==
  /\ ~prompt /\ pc[t] = "disconnect"
  /\ \/ /\ connState \notin {"connected", "connecting"}
        /\ Goto(t, "idle")
        /\ UNCHANGED <<connState, polling, cancelled, queue, tries>>
     \/ /\ connState \in {"connected", "connecting"}
        /\ connState' = "disconnecting" /\ polling' = FALSE
        /\ Await(t, "stop", "disconnect")
        /\ tries' = 0
        /\ UNCHANGED cancelled
  /\ UNCHANGED <<toml, fails, optVars, result, restart, api, got, rpcVars,
                 evVars, worldVars>>

\* A task made by Toggle in .connected may find .connecting here.
DisconnectBegins(t) ==
  /\ ~prompt /\ pc[t] = "disconnect"
  /\ \/ /\ connState \notin {"connected", "connecting"}
        /\ Goto(t, "idle")
        /\ UNCHANGED <<connState, polling, cancelled, queue, tries>>
     \/ /\ connState \in {"connected", "connecting"}
        /\ CancelRestart
        /\ connState' = "disconnecting" /\ polling' = FALSE
        /\ Await(t, "stop", "disconnect")
        /\ tries' = 0
  /\ UNCHANGED <<toml, fails, optVars, result, restart, api, got, rpcVars,
                 evVars, worldVars>>

DisconnectDone(t) ==
  /\ Resumes(t, "stop", "ok")
  /\ connState' = "disconnected" /\ toml' = FALSE /\ fails' = 0
  /\ Goto(t, "idle")
  /\ tries' = 0
  /\ UNCHANGED <<polling, optVars, cancelled, restart, callVars, rpcVars, evVars,
                 worldVars>>
-----------------------------------------------------------------------------
(* The restart task of handleCoreExit.                                     *)

\* A task of ours ends; cancelling it later has no effect.
RestartEnds(t) ==
  /\ Goto(t, "idle")
  /\ restart' = IF restart = t THEN None ELSE restart

\* Faulty variant: one attempt too many.
RestartLoopOffByOne(t, n) ==
  IF n + 1 > MaxAutoRestart + 1
  THEN /\ connState' = "disconnected" /\ toml' = FALSE
       /\ RestartEnds(t)
  ELSE /\ Goto(t, "sleep")
       /\ UNCHANGED <<connState, toml, restart>>

\* The head of its loop, with n failures so far: give up, or sleep.
RestartLoop(t, n) ==
  IF n + 1 > MaxAutoRestart
  THEN /\ connState' = "disconnected" /\ toml' = FALSE
       /\ RestartEnds(t)
  ELSE /\ Goto(t, "sleep")
       /\ UNCHANGED <<connState, toml, restart>>

RestartBegins(t) ==
  /\ ~prompt /\ pc[t] = "restart"
  /\ RestartLoop(t, fails)
  /\ UNCHANGED <<fails, polling, optVars, result, cancelled, callVars, rpcVars,
                 evVars, worldVars, tries>>

\* The sleep ends, of itself or cancelled.
RestartWakes(t) ==
  /\ ~prompt /\ pc[t] = "sleep"
  /\ IF cancelled[t]
     THEN RestartEnds(t) /\ UNCHANGED <<queue, tries>>
     ELSE /\ Await(t, "rerun", "connect")
          /\ tries' = tries + 1
          /\ UNCHANGED restart
  /\ UNCHANGED <<uiVars, optVars, result, cancelled, api, got, rpcVars, evVars,
                 worldVars>>

\* Cancelled while the call was made: its outcome is ignored.
RestartDropped(t) ==
  /\ cancelled[t]
  /\ \E r \in {"ok", "err"} : Resumes(t, "rerun", r)
  /\ RestartEnds(t)
  /\ UNCHANGED <<uiVars, optVars, cancelled, callVars, rpcVars, evVars, worldVars,
                 tries>>

\* Faulty variant: a reconnect leaves polling off.
RestartDoneSilent(t) ==
  /\ ~cancelled[t] /\ Resumes(t, "rerun", "ok")
  /\ connState' = "connected" /\ fails' = 0
  /\ RestartEnds(t)
  /\ tries' = 0
  /\ UNCHANGED <<toml, polling, optVars, cancelled, callVars, rpcVars, evVars,
                 worldVars>>

RestartDone(t) ==
  /\ ~cancelled[t] /\ Resumes(t, "rerun", "ok")
  /\ connState' = "connected" /\ fails' = 0 /\ polling' = TRUE
  /\ RestartEnds(t)
  /\ tries' = 0
  /\ UNCHANGED <<toml, optVars, cancelled, callVars, rpcVars, evVars, worldVars>>

RestartFails(t) ==
  /\ ~cancelled[t] /\ Resumes(t, "rerun", "err")
  /\ fails' = fails + 1
  /\ RestartLoop(t, fails + 1)
  /\ UNCHANGED <<polling, optVars, cancelled, callVars, rpcVars, evVars, worldVars,
                 tries>>
-----------------------------------------------------------------------------
(* handle(event).                                                          *)

\* The next event, of the given type, is taken off the stream.
Handles(type) ==
  /\ ~prompt /\ stream # <<>> /\ Head(stream) = type
  /\ stream' = Tail(stream)

\* handleCoreExit: heeded in .connected only.  autoRestartEnabled is the
\* user's to change at any time: it may be off or on.
HandleCoreExit(t) ==
  /\ Handles("exited")
  /\ \/ /\ connState # "connected" \/ ~toml
        /\ UNCHANGED <<connState, polling, pc, cancelled, restart, tries>>
     \/ /\ connState = "connected" /\ toml
        /\ connState' = "disconnected" /\ polling' = FALSE
        /\ UNCHANGED <<pc, cancelled, restart, tries>>
     \/ /\ connState = "connected" /\ toml /\ Free(t)
        /\ connState' = "connecting" /\ polling' = FALSE
        /\ cancelled' = [u \in Tasks |-> u # t /\ (u = restart \/ cancelled[u])]
        /\ restart' = t
        /\ tries' = 0
        /\ Goto(t, "restart")
  /\ UNCHANGED <<toml, fails, optVars, result, callVars, rpcVars, bus, worldVars>>

\* Faulty variant: the state is left to the task that was cancelled.
HandleKickedStuck ==
  /\ Handles("kicked")
  /\ CancelRestart
  /\ toml' = FALSE /\ polling' = FALSE
  /\ UNCHANGED <<connState, fails, optVars, pc, result, restart, callVars, rpcVars,
                 bus, worldVars, tries>>

HandleKicked ==
  /\ Handles("kicked")
  /\ CancelRestart
  /\ connState' = "disconnected" /\ toml' = FALSE /\ polling' = FALSE
  /\ UNCHANGED <<fails, optVars, pc, result, restart, callVars, rpcVars, bus,
                 worldVars, tries>>

\* startupRestoreIfNeeded: the first connection of the session, and only if
\* 启动时自动连接 is on.
HandleConnected(t) ==
  /\ Handles("connected")
  /\ restored' = TRUE
  /\ \/ ~restored /\ connState = "disconnected" /\ Free(t) /\ Goto(t, "connect")
     \/ UNCHANGED pc
  /\ UNCHANGED <<uiVars, prompt, result, cancelled, restart, callVars,
                 rpcVars, bus, worldVars, tries>>

HandleBusy ==
  /\ Handles("busy")
  /\ prompt' = TRUE
  /\ UNCHANGED <<uiVars, restored, taskVars, callVars, rpcVars, bus,
                 worldVars, tries>>
-----------------------------------------------------------------------------
(* forward_events: the port follows the core, then the event goes to the   *)
(* app.  Events that neither it nor handle act upon (disconnected, errors) *)
(* are left out, and so are core_started and core_stopped after this step. *)

\* Faulty variant: core_started is left to etb_connect.
NewPortStartIgnored(e) ==
  CASE e.type = "connected" /\ e.port # None -> e.port
    [] e.type \in {"stopped", "exited"} -> None
    [] OTHER -> port

NewPort(e) ==
  CASE e.type = "connected" /\ e.port # None -> e.port
    [] e.type = "started" -> e.port
    [] e.type \in {"stopped", "exited"} -> None
    [] OTHER -> port

Forward ==
  /\ bus # <<>> /\ Len(stream) < Lag
  /\ bus' = Tail(bus)
  /\ port' = NewPort(Head(bus))
  /\ stream' = IF Head(bus).type \in {"started", "stopped"} THEN stream
               ELSE Append(stream, Head(bus).type)
  /\ UNCHANGED <<uiVars, optVars, taskVars, callVars, instance, worldVars, tries>>
-----------------------------------------------------------------------------
(* The C calls, one at a time from the head of the serial queue.           *)

Calling(op, phase) == queue # <<>> /\ Head(queue).op = op /\ api = phase

Returns(r) ==
  /\ result' = [result EXCEPT ![Head(queue).task] = r]
  /\ queue' = Tail(queue) /\ api' = "begin" /\ got' = None

\* The driver sends events on, in order.
Emit(evs) == Len(bus) + Len(evs) <= Backlog /\ bus' = bus \o evs

\* select! drops the line it is reading when a request comes in between; what
\* it said reaches nobody.
Torn ==
  /\ "torn" \in Faults
  /\ queue # <<>> /\ Head(queue).op \in {"connect", "disconnect"} /\ api = "begin"
  /\ UNCHANGED bus

\* etb_validate
Validate ==
  /\ Calling("validate", "begin")
  /\ \E r \in {"ok", "err"} : Returns(r)
  /\ UNCHANGED <<uiVars, optVars, pc, cancelled, restart, rpcVars, evVars,
                 worldVars, tries>>

\* The supervisor starts a core, or answers with the running one.  The monitor
\* may report the exit of a short-lived core before the reply.
Started(p) ==
  \/ core' = p /\ Emit(<<Event("started", p)>>)
  \/ /\ "exit" \in Faults /\ core = None
     /\ Emit(<<Event("exited", None), Event("started", p)>>)
     /\ UNCHANGED core

\* etb_connect: start is answered; the reply is an event as well.
StartOk(p) ==
  /\ Calling("connect", "begin") /\ drv = "up"
  /\ core \in {None, p}
  /\ Started(p)
  /\ api' = "port" /\ got' = p
  /\ UNCHANGED <<uiVars, optVars, taskVars, queue, rpcVars, stream, drv, hosted, rival,
                 tries>>

\* etb_connect: start fails or times out.  The core may have been started, and
\* the late reply be torn by the request of a later call.
StartErr ==
  /\ Calling("connect", "begin")
  /\ Returns("err")
  /\ \/ UNCHANGED <<bus, core>>
     \/ \E p \in Ports : /\ drv = "up" /\ core \in {None, p}
                         /\ Started(p) \/ (core' = p /\ Torn)
  /\ UNCHANGED <<uiVars, optVars, pc, cancelled, restart, rpcVars, stream, drv,
                 hosted, rival, tries>>

\* etb_connect: set_port, which the event task may have done or undone since.
SetPort ==
  /\ Calling("connect", "port")
  /\ port' = got /\ api' = "rpc"
  /\ UNCHANGED <<uiVars, optVars, taskVars, queue, got, instance, evVars,
                 worldVars, tries>>

\* run_network_instance: every attempt reads the port again, and one reaches
\* the core; or all of them fail.  A failed one may yet have run or, as it
\* overwrites, ended the instance of an earlier call.
RunInstance ==
  /\ Calling("connect", "rpc")
  /\ \/ /\ port # None /\ port = core
        /\ instance' = TRUE /\ hosted' = TRUE
        /\ Returns("ok")
     \/ /\ Returns("err")
        /\ hosted' \in {hosted, FALSE, instance /\ port # None /\ port = core}
        /\ UNCHANGED instance
  /\ UNCHANGED <<uiVars, optVars, pc, cancelled, restart, port, evVars, drv, core,
                 rival, tries>>

\* etb_disconnect: the instance is taken and deleted and the core stopped,
\* both best-effort ...
StopCore ==
  /\ Calling("disconnect", "begin")
  /\ instance' = FALSE /\ hosted' = FALSE
  /\ \/ drv = "up" /\ core' = None /\ (Emit(<<Event("stopped", None)>>) \/ Torn)
     \/ UNCHANGED <<core, bus>>
  /\ api' = "clear"
  /\ UNCHANGED <<uiVars, optVars, taskVars, queue, got, port, stream, drv, rival,
                 tries>>

\* ... and the port is forgotten.
ClearPort ==
  /\ Calling("disconnect", "clear")
  /\ port' = None
  /\ Returns("ok")
  /\ UNCHANGED <<uiVars, optVars, pc, cancelled, restart, instance, evVars,
                 worldVars, tries>>

\* etb_takeover wakes a driver that is paused on busy.
TakeOver ==
  /\ Calling("takeover", "begin")
  /\ queue' = Tail(queue)
  /\ drv' = IF drv = "paused" THEN "taking" ELSE drv
  /\ UNCHANGED <<uiVars, optVars, taskVars, api, got, rpcVars, evVars, core,
                 hosted, rival, tries>>

\* Of the core that listens on the cached port; one that does not run the
\* instance fails list_peer.
network_status ==
  IF port # core THEN "connect rpc portal" ELSE IF hosted THEN "ok" ELSE "list peers"

\* What a call made now would answer.
etb_status ==
  CASE ~instance -> "not connected"
    [] instance /\ port = None -> "core is not running"
    [] instance /\ port # None -> network_status

ApiStep == \/ Validate \/ (\E p \in Ports : StartOk(p)) \/ StartErr \/ SetPort
           \/ RunInstance \/ StopCore \/ ClearPort \/ TakeOver
-----------------------------------------------------------------------------
(* The driver, the supervisor, the core and the rival.                     *)

appVars == <<uiVars, optVars, taskVars, callVars, rpcVars, stream, tries>>

\* Hello: a new supervisor has swept the old core away, one that is still
\* serving has not.  A takeover finds what the rival was running.
Hello ==
  /\ (drv = "down" /\ ~rival) \/ drv = "taking"
  /\ drv' = "up" /\ rival' = FALSE
  /\ core' \in {core, None} /\ hosted' = (hosted /\ core' # None)
  /\ Emit(<<Event("connected", core')>>)
  /\ UNCHANGED appVars

HelloBusy ==
  /\ drv = "down" /\ rival
  /\ drv' = "paused"
  /\ Emit(<<Event("busy", None)>>)
  /\ UNCHANGED <<appVars, core, hosted, rival>>

TakingFails ==
  /\ drv = "taking"
  /\ drv' = "down"
  /\ UNCHANGED <<appVars, bus, core, hosted, rival>>

\* The session is lost, with or without the core.
Drop ==
  /\ "drop" \in Faults /\ drv = "up"
  /\ drv' = "down"
  /\ core' \in {core, None} /\ hosted' = (hosted /\ core' # None)
  /\ UNCHANGED <<appVars, bus, rival>>

CoreExits ==
  /\ "exit" \in Faults /\ core # None
  /\ core' = None /\ hosted' = FALSE
  /\ IF drv = "up" THEN Emit(<<Event("exited", None)>>) \/ Torn ELSE UNCHANGED bus
  /\ UNCHANGED <<appVars, drv, rival>>

\* A takeover by the rival.  The core goes on running.
RivalTakes ==
  /\ "rival" \in Faults /\ drv = "up"
  /\ drv' = "down" /\ rival' = TRUE
  /\ Emit(<<Event("kicked", None)>>) \/ Torn
  /\ UNCHANGED <<appVars, core, hosted>>

\* The rival starts or stops its core, or leaves, which stops it.  It may also
\* end our instance in a core that goes on running.
RivalActs ==
  /\ rival
  /\ \/ core' \in Ports \cup {None} /\ UNCHANGED rival
     \/ core' = None /\ rival' = FALSE
  /\ hosted' \in {FALSE, hosted /\ core' # None /\ core' = core}
  /\ UNCHANGED <<appVars, bus, drv>>

WorldStep == Hello \/ HelloBusy \/ TakingFails \/ Drop \/ CoreExits \/ RivalTakes
             \/ RivalActs
-----------------------------------------------------------------------------
HandleStep == \/ \E t \in Tasks : HandleCoreExit(t) \/ HandleConnected(t)
              \/ HandleKicked \/ HandleBusy

TaskStep(t) ==
  \/ ConnectBegins(t) \/ ConnectFails(t) \/ ConnectValid(t) \/ ConnectDone(t)
  \/ DisconnectBegins(t) \/ DisconnectDone(t)
  \/ RestartBegins(t) \/ RestartWakes(t) \/ RestartDropped(t) \/ RestartDone(t)
  \/ RestartFails(t)

UserStep == \/ \E t \in Tasks : Toggle(t)
            \/ \E yes \in BOOLEAN : Answer(yes)

Next == \/ UserStep \/ HandleStep \/ Forward \/ ApiStep \/ WorldStep
        \/ \E t \in Tasks : TaskStep(t)

Spec == Init /\ [][Next]_vars
-----------------------------------------------------------------------------
(* Properties.                                                             *)

\* A restart loop that will still act.
Restarting(t) == pc[t] \in RestartPhases /\ ~cancelled[t]

(* Every variable keeps its type.                                          *)
TypeOK ==
  /\ connState \in {"disconnected", "connecting", "connected", "disconnecting"}
  /\ toml \in BOOLEAN /\ fails \in 0..MaxAutoRestart /\ polling \in BOOLEAN
  /\ restored \in BOOLEAN /\ prompt \in BOOLEAN
  /\ pc \in [Tasks -> TaskPhases] /\ result \in [Tasks -> {"none", "ok", "err"}]
  /\ cancelled \in [Tasks -> BOOLEAN] /\ restart \in Tasks \cup {None}
  /\ queue \in Seq([task : Tasks \cup {None},
                    op : {"validate", "connect", "disconnect", "takeover"}])
  /\ api \in ApiPhases /\ got \in Ports \cup {None}
  /\ port \in Ports \cup {None} /\ instance \in BOOLEAN
  /\ bus \in Seq([type : {"connected", "started", "stopped", "exited", "busy", "kicked"},
                  port : Ports \cup {None}])
  /\ stream \in Seq({"connected", "exited", "busy", "kicked"})
  /\ drv \in {"down", "paused", "taking", "up"}
  /\ core \in Ports \cup {None} /\ hosted \in BOOLEAN /\ rival \in BOOLEAN /\ tries \in Nat

(* The control is disabled in .connecting and .disconnecting, so some task *)
(* must be there to leave them: whatever kicks, exits and cancellations    *)
(* come in between, a connect or restart that will still act drives the    *)
(* one, a disconnect the other.                                            *)
TransitionDriven ==
  /\ connState = "connecting" =>
       \E t \in Tasks : pc[t] \in {"validate", "run"} \/ Restarting(t)
  /\ connState = "disconnecting" => \E t \in Tasks : pc[t] = "stop"

(* At most one restart loop will still act, it is the one restartTask can  *)
(* cancel, and none does once the user is disconnecting.                   *)
OneRestart ==
  /\ \A t \in Tasks : Restarting(t) => restart = t
  /\ connState = "disconnecting" => \A t \in Tasks : ~Restarting(t)

(* "Three in a row give up": a restart loop makes no more than three       *)
(* attempts without a success or a disconnect in between, although the     *)
(* counter outlives the loop and other tasks write it too.                 *)
RestartsBounded == tries <= MaxAutoRestart

(* Status polling is resident while connected, however the state was       *)
(* reached.  (A failed second connect may leave it running; poll then does *)
(* nothing.)                                                               *)
PollsWhileConnected == connState = "connected" => polling

\* No call is in progress and every event has been forwarded.
Settled == queue = <<>> /\ bus = <<>>

(* etb_connect and the event task both write the port, an exit event       *)
(* forwarded late undoes a set_port, and lines of the supervisor are lost. *)
(* With the calls returned, the events forwarded and the session up, the   *)
(* poll of an instance that the core does run succeeds: the port is never  *)
(* that of an earlier core, and never forgotten.                           *)
StatusReachable == Settled /\ drv = "up" /\ hosted => etb_status = "ok"

(* "Auto-restart after an unexpected core_exited": with every event        *)
(* handled and no task left, an app that shows .connected has a core.  An  *)
(* exit handled before connect() resumes is dropped, and .connected stays. *)
ConnectedHasCore ==
  Settled /\ stream = <<>> /\ (\A t \in Tasks : Free(t)) /\ connState = "connected"
    => core # None
=============================================================================
