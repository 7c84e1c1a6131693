----------------------------- MODULE AppProofs -----------------------------
(***************************************************************************)
(* Proofs about AppModel for any number of tasks, ports and faults and any *)
(* backlog of events.  Three groups of conjuncts are each inductive: the   *)
(* connection state and the tasks that drive it, the attempts of a restart *)
(* loop, and the RPC port that calls and events write.                     *)
(***************************************************************************)
EXTENDS AppModel, SequenceTheorems, TLAPS

\* A restart loop that will still act has had no more attempts than the
\* failures it has counted allow.
Attempts ==
  /\ tries <= MaxAutoRestart
  /\ \A t \in Tasks : Restarting(t) =>
       /\ pc[t] = "restart" => tries = 0
       /\ pc[t] = "sleep" => fails < MaxAutoRestart /\ tries <= fails
       /\ pc[t] = "rerun" => fails < MaxAutoRestart /\ tries <= fails + 1

\* The events that say what the port is, and what they say.
Decides(e) == \/ e.type \in {"started", "stopped", "exited"}
              \/ e.type = "connected" /\ e.port # None
Says(e) == IF e.type \in {"stopped", "exited"} THEN None ELSE e.port

\* With events b under way and port q, the port will be p once they have been
\* forwarded: the last event that decides says so or, without one, it is p
\* already.
HeadedFor(b, q, p) ==
  \/ (\A i \in DOMAIN b : ~Decides(b[i])) /\ q = p
  \/ \E i \in DOMAIN b : /\ Decides(b[i]) /\ Says(b[i]) = p
                         /\ \A j \in DOMAIN b : j > i => ~Decides(b[j])

WillBe(p) == HeadedFor(bus, port, p)

\* A start that was answered, its RPC not finished.
Answered == api \in {"port", "rpc"}

\* The lease is not ours while a rival has it.  After an answered start the
\* only core that can run under our lease is the one in the answer: a
\* takeover, which could find another, waits behind the call in the queue.
Lease ==
  /\ rival => drv # "up"
  /\ Answered => /\ got # None /\ drv # "taking"
                 /\ rival \/ core \in {None, got}

\* Whenever it matters, the port is on its way to the running core: a core that
\* runs our instance was reached, and one whose start was answered reported.
\* (Of any other core the event that names its port may be lost.)
PortFollows ==
  /\ hosted => instance /\ core # None
  /\ api = "clear" => ~instance
  /\ drv = "up" /\ core # None /\ (hosted \/ Answered) => WillBe(core)

\* The inductive invariant.
Inv ==
  /\ TypeOK
  /\ TransitionDriven
  /\ OneRestart
  /\ Attempts
  /\ PollsWhileConnected
  /\ Lease
  /\ PortFollows
-----------------------------------------------------------------------------
(* Type correctness, one group of variables after the other.               *)

Ops == {"validate", "connect", "disconnect", "takeover"}
EventTypes == {"connected", "started", "stopped", "exited", "busy", "kicked"}
Calls == [task : Tasks \cup {None}, op : Ops]
Events == [type : EventTypes, port : Ports \cup {None}]

FlagTypes ==
  /\ toml \in BOOLEAN /\ polling \in BOOLEAN /\ restored \in BOOLEAN
  /\ prompt \in BOOLEAN /\ instance \in BOOLEAN /\ rival \in BOOLEAN /\ hosted \in BOOLEAN
StateTypes ==
  /\ connState \in {"disconnected", "connecting", "connected", "disconnecting"}
  /\ fails \in 0..MaxAutoRestart /\ tries \in Nat
TaskTypes ==
  /\ pc \in [Tasks -> TaskPhases] /\ result \in [Tasks -> {"none", "ok", "err"}]
  /\ restart \in Tasks \cup {None}
CancelTypes == cancelled \in [Tasks -> BOOLEAN]
CallTypes ==
  /\ queue \in Seq(Calls) /\ api \in ApiPhases /\ got \in Ports \cup {None}
WorldTypes ==
  /\ port \in Ports \cup {None} /\ bus \in Seq(Events)
  /\ stream \in Seq({"connected", "exited", "busy", "kicked"})
  /\ drv \in {"down", "paused", "taking", "up"} /\ core \in Ports \cup {None}

(* TypeOK is the conjunction of the groups.                                *)
LEMMA TypeParts ==
  TypeOK <=> FlagTypes /\ StateTypes /\ TaskTypes /\ CancelTypes /\ CallTypes /\ WorldTypes
  BY DEF TypeOK, FlagTypes, StateTypes, TaskTypes, CancelTypes, CallTypes, WorldTypes,
         Ops, EventTypes, Calls, Events

(* The Boolean variables.                                                  *)
LEMMA FlagStep == FlagTypes /\ [Next]_vars => FlagTypes'
<1> SUFFICES ASSUME FlagTypes, [Next]_vars PROVE FlagTypes'
  OBVIOUS
<1> USE DEF FlagTypes, uiVars, optVars, taskVars, callVars, rpcVars, evVars, worldVars,
            appVars, vars
<1>1. CASE UserStep
  BY <1>1, Zenon DEF UserStep, Toggle, Answer
<1>2. ASSUME NEW t \in Tasks, TaskStep(t) PROVE FlagTypes'
  <2>1. CASE ConnectBegins(t) \/ ConnectFails(t) \/ ConnectValid(t) \/ ConnectDone(t)
    BY <2>1, Zenon DEF ConnectBegins, ConnectFails, ConnectValid, ConnectDone
  <2>2. CASE DisconnectBegins(t) \/ DisconnectDone(t)
    BY <2>2, Zenon DEF DisconnectBegins, DisconnectDone
  <2>3. CASE RestartBegins(t) \/ RestartFails(t)
    BY <2>3, Zenon DEF RestartBegins, RestartFails, RestartLoop
  <2>4. CASE RestartWakes(t) \/ RestartDropped(t) \/ RestartDone(t)
    BY <2>4, Zenon DEF RestartWakes, RestartDropped, RestartDone
  <2> QED
    BY <1>2, <2>1, <2>2, <2>3, <2>4 DEF TaskStep
<1>3. CASE HandleStep
  BY <1>3, Zenon DEF HandleStep, HandleCoreExit, HandleKicked, HandleConnected, HandleBusy
<1>4. CASE Forward \/ ApiStep
  <2>1. CASE RunInstance
    <3>1. (instance /\ port # None /\ port = core) \in BOOLEAN
      OBVIOUS
    <3> QED
      BY <2>1, <3>1, Zenon DEF RunInstance
  <2>2. CASE Forward \/ Validate \/ (\E p \in Ports : StartOk(p)) \/ StartErr \/ SetPort
             \/ StopCore \/ ClearPort \/ TakeOver
    BY <2>2, Zenon DEF Forward, Validate, StartOk, StartErr, SetPort, StopCore, ClearPort,
                       TakeOver
  <2> QED
    BY <1>4, <2>1, <2>2 DEF ApiStep
<1>5. CASE WorldStep
  <2>1. (hosted /\ core' # None) \in BOOLEAN /\ (hosted /\ core' # None /\ core' = core) \in BOOLEAN
    OBVIOUS
  <2> QED
    BY <1>5, <2>1, Zenon DEF WorldStep, Hello, HelloBusy, TakingFails, Drop, CoreExits,
                             RivalTakes, RivalActs
<1>6. CASE UNCHANGED vars
  BY <1>6, Zenon
<1> QED
  BY <1>1, <1>2, <1>3, <1>4, <1>5, <1>6 DEF Next

(* The connection state and its counters; a loop that counts one more      *)
(* failure had not reached the limit.                                      *)
LEMMA StateStep == StateTypes /\ TaskTypes /\ Attempts /\ [Next]_vars => StateTypes'
<1> SUFFICES ASSUME StateTypes, TaskTypes, Attempts, [Next]_vars PROVE StateTypes'
  OBVIOUS
<1> USE DEF StateTypes, MaxAutoRestart, uiVars, optVars, taskVars, callVars, rpcVars, evVars,
            worldVars, appVars, vars
<1>1. CASE UNCHANGED <<connState, fails, tries>>
  BY <1>1
<1>2. ASSUME NEW t \in Tasks, TaskStep(t) PROVE StateTypes'
  <2>1. CASE ConnectBegins(t) \/ ConnectFails(t) \/ ConnectValid(t) \/ ConnectDone(t)
    BY <2>1 DEF ConnectBegins, ConnectFails, ConnectValid, ConnectDone
  <2>2. CASE DisconnectBegins(t) \/ DisconnectDone(t)
    BY <2>2 DEF DisconnectBegins, DisconnectDone
  <2>3. CASE RestartBegins(t)
    BY <2>3 DEF RestartBegins, RestartLoop
  <2>4. CASE RestartFails(t)
    BY <2>4 DEF RestartFails, RestartLoop, Resumes, Attempts, Restarting, RestartPhases
  <2>5. CASE RestartWakes(t) \/ RestartDropped(t) \/ RestartDone(t)
    BY <2>5 DEF RestartWakes, RestartDropped, RestartDone
  <2> QED
    BY <1>2, <2>1, <2>2, <2>3, <2>4, <2>5 DEF TaskStep
<1>3. CASE HandleStep
  BY <1>3 DEF HandleStep, HandleCoreExit, HandleKicked, HandleConnected, HandleBusy
<1>4. CASE UserStep \/ Forward \/ ApiStep \/ WorldStep \/ UNCHANGED vars
  BY <1>1, <1>4, Zenon
     DEF UserStep, Toggle, Answer, Forward, ApiStep, Validate, StartOk, StartErr, SetPort,
         RunInstance, StopCore, ClearPort, TakeOver, WorldStep, Hello, HelloBusy, TakingFails,
         Drop, CoreExits, RivalTakes, RivalActs
<1> QED
  BY <1>2, <1>3, <1>4 DEF Next

(* The tasks of the main actor.                                            *)
LEMMA TaskTypeStep == TaskTypes /\ [Next]_vars => TaskTypes'
<1> SUFFICES ASSUME TaskTypes, [Next]_vars PROVE TaskTypes'
  OBVIOUS
<1> USE DEF TaskTypes, TaskPhases, ConnPhases, RestartPhases, Goto, Await, Resumes, RestartEnds,
            uiVars, optVars, taskVars, callVars, rpcVars, evVars, worldVars, appVars, vars
<1>1. CASE UNCHANGED <<pc, result, restart>>
  BY <1>1
<1>2. ASSUME NEW t \in Tasks, TaskStep(t) PROVE TaskTypes'
  <2>1. CASE ConnectBegins(t) \/ ConnectFails(t)
    BY <2>1 DEF ConnectBegins, ConnectFails
  <2>2. CASE ConnectValid(t) \/ ConnectDone(t)
    BY <2>2 DEF ConnectValid, ConnectDone
  <2>3. CASE DisconnectBegins(t) \/ DisconnectDone(t)
    BY <2>3 DEF DisconnectBegins, DisconnectDone
  <2>4. CASE RestartBegins(t) \/ RestartFails(t)
    BY <2>4 DEF RestartBegins, RestartFails, RestartLoop
  <2>5. CASE RestartWakes(t) \/ RestartDropped(t) \/ RestartDone(t)
    BY <2>5 DEF RestartWakes, RestartDropped, RestartDone
  <2> QED
    BY <1>2, <2>1, <2>2, <2>3, <2>4, <2>5 DEF TaskStep
<1>3. CASE HandleStep
  BY <1>3 DEF HandleStep, HandleCoreExit, HandleKicked, HandleConnected, HandleBusy
<1>4. CASE UserStep
  BY <1>4 DEF UserStep, Toggle, Answer
<1>5. CASE Validate \/ StartErr \/ RunInstance \/ ClearPort
  <2>1. UNCHANGED <<pc, restart>> /\ \E r \in {"ok", "err"} : Returns(r)
    BY <1>5, Zenon DEF Validate, StartErr, RunInstance, ClearPort
  <2> QED
    BY <2>1 DEF Returns
<1>6. CASE Forward \/ (\E p \in Ports : StartOk(p)) \/ SetPort \/ StopCore \/ TakeOver
           \/ WorldStep \/ UNCHANGED vars
  BY <1>1, <1>6, Zenon
     DEF Forward, StartOk, SetPort, StopCore, TakeOver, WorldStep, Hello, HelloBusy, TakingFails,
         Drop, CoreExits, RivalTakes, RivalActs
<1> QED
  BY <1>2, <1>3, <1>4, <1>5, <1>6 DEF Next, ApiStep

(* The flags with which tasks are cancelled.                               *)
LEMMA CancelStep == TaskTypes /\ CancelTypes /\ [Next]_vars => CancelTypes'
<1> SUFFICES ASSUME TaskTypes, CancelTypes, [Next]_vars PROVE CancelTypes'
  OBVIOUS
<1> USE DEF CancelTypes, uiVars, optVars, taskVars, callVars, rpcVars, evVars, worldVars,
            appVars, vars
<1>1. CASE UNCHANGED cancelled
  BY <1>1
<1>2. CASE CancelRestart
  <2>1. CASE restart = None
    BY <1>2, <2>1 DEF CancelRestart
  <2>2. CASE restart \in Tasks /\ restart # None
    BY <1>2, <2>2 DEF CancelRestart
  <2> QED
    BY <2>1, <2>2 DEF TaskTypes
<1>3. ASSUME NEW t \in Tasks,
             cancelled' = [u \in Tasks |-> u # t /\ (u = restart \/ cancelled[u])]
      PROVE  CancelTypes'
  BY <1>3, Zenon
<1>4. ASSUME NEW t \in Tasks, TaskStep(t) PROVE CancelTypes'
  <2>1. UNCHANGED cancelled \/ CancelRestart
    BY <1>4, Zenon
       DEF TaskStep, ConnectBegins, ConnectFails, ConnectValid, ConnectDone, DisconnectBegins,
           DisconnectDone, RestartBegins, RestartWakes, RestartDropped, RestartDone,
           RestartFails
  <2> QED
    BY <2>1, <1>1, <1>2
<1>5. CASE HandleStep
  <2>1. \/ UNCHANGED cancelled \/ CancelRestart
        \/ \E t \in Tasks :
             cancelled' = [u \in Tasks |-> u # t /\ (u = restart \/ cancelled[u])]
    BY <1>5, Zenon DEF HandleStep, HandleCoreExit, HandleKicked, HandleConnected, HandleBusy
  <2> QED
    BY <2>1, <1>1, <1>2, <1>3
<1>6. CASE UserStep \/ Forward \/ ApiStep \/ WorldStep \/ UNCHANGED vars
  BY <1>1, <1>6, Zenon
     DEF UserStep, Toggle, Answer, Forward, ApiStep, Validate, StartOk, StartErr, SetPort,
         RunInstance, StopCore, ClearPort, TakeOver, WorldStep, Hello, HelloBusy, TakingFails,
         Drop, CoreExits, RivalTakes, RivalActs
<1> QED
  BY <1>4, <1>5, <1>6 DEF Next

(* The serial queue and the call at its head.                              *)
LEMMA CallStep == CallTypes /\ [Next]_vars => CallTypes'
<1> SUFFICES ASSUME CallTypes, [Next]_vars PROVE CallTypes'
  OBVIOUS
<1> USE DEF CallTypes, uiVars, optVars, taskVars, callVars, rpcVars, evVars, worldVars,
            appVars, vars
<1>1. CASE UNCHANGED callVars
  BY <1>1
<1>2. ASSUME NEW t \in Tasks \cup {None}, NEW op \in Ops,
             queue' = Append(queue, [task |-> t, op |-> op]), UNCHANGED <<api, got>>
      PROVE  CallTypes'
  <2>1. [task |-> t, op |-> op] \in Calls
    BY DEF Calls
  <2>2. Append(queue, [task |-> t, op |-> op]) \in Seq(Calls)
    BY <2>1, AppendProperties
  <2> QED
    BY <1>2, <2>2
<1>3. queue # <<>> => Tail(queue) \in Seq(Calls)
  BY HeadTailProperties
<1>4. ASSUME NEW t \in Tasks, TaskStep(t) PROVE CallTypes'
  <2>1. CASE UNCHANGED callVars
    BY <1>1, <2>1
  <2>2. CASE ConnectBegins(t) \/ ConnectValid(t) \/ DisconnectBegins(t) \/ RestartWakes(t)
    <3>1. \/ UNCHANGED callVars
          \/ \E op \in Ops : /\ queue' = Append(queue, [task |-> t, op |-> op])
                             /\ UNCHANGED <<api, got>>
      BY <2>2 DEF ConnectBegins, ConnectValid, DisconnectBegins, RestartWakes, Await, Ops
    <3> QED
      BY <3>1, <1>1, <1>2
  <2>3. CASE ConnectFails(t) \/ ConnectDone(t) \/ DisconnectDone(t) \/ RestartBegins(t)
             \/ RestartDropped(t) \/ RestartDone(t) \/ RestartFails(t)
    BY <2>1, <2>3, Zenon
       DEF ConnectFails, ConnectDone, DisconnectDone, RestartBegins, RestartDropped,
           RestartDone, RestartFails
  <2> QED
    BY <1>4, <2>2, <2>3 DEF TaskStep
<1>5. CASE UserStep
  <2>1. \/ UNCHANGED callVars
        \/ /\ queue' = Append(queue, [task |-> None, op |-> "takeover"])
           /\ UNCHANGED <<api, got>>
    BY <1>5, Zenon DEF UserStep, Toggle, Answer
  <2> QED
    BY <2>1, <1>1, <1>2 DEF Ops
<1>6. CASE ApiStep
  <2>1. ASSUME NEW r, Returns(r), queue # <<>> PROVE CallTypes'
    BY <2>1, <1>3 DEF Returns, ApiPhases
  <2>2. CASE Validate \/ StartErr \/ RunInstance \/ ClearPort
    <3>1. \E r \in {"ok", "err"} : Returns(r) /\ queue # <<>>
      BY <2>2, Zenon DEF Validate, StartErr, RunInstance, ClearPort, Calling
    <3> QED
      BY <3>1, <2>1
  <2>3. CASE (\E p \in Ports : StartOk(p)) \/ SetPort \/ StopCore \/ TakeOver
    BY <2>3, <1>3 DEF StartOk, SetPort, StopCore, TakeOver, Calling, ApiPhases
  <2> QED
    BY <1>6, <2>2, <2>3 DEF ApiStep
<1>7. CASE HandleStep \/ Forward \/ WorldStep \/ UNCHANGED vars
  BY <1>1, <1>7, Zenon
     DEF HandleStep, HandleCoreExit, HandleKicked, HandleConnected, HandleBusy, Forward,
         WorldStep, Hello, HelloBusy, TakingFails, Drop, CoreExits, RivalTakes, RivalActs
<1> QED
  BY <1>4, <1>5, <1>6, <1>7 DEF Next

(* What the driver can send on in one step.                                *)
LEMMA EmitTypes ==
  ASSUME WorldTypes, NEW evs \in Seq(Events), Emit(evs)
  PROVE  bus' \in Seq(Events)
  BY ConcatProperties DEF Emit, WorldTypes

(* An event, and one or two of them in a row.                              *)
LEMMA EventSeqs ==
  ASSUME NEW ty \in EventTypes, NEW p \in Ports \cup {None},
         NEW uy \in EventTypes, NEW q \in Ports \cup {None}
  PROVE  /\ Event(ty, p) \in Events /\ <<Event(ty, p)>> \in Seq(Events)
         /\ <<Event(ty, p), Event(uy, q)>> \in Seq(Events)
<1>1. Event(ty, p) \in Events /\ Event(uy, q) \in Events
  BY DEF Event, Events
<1> QED
  BY <1>1

(* The port, the events under way and the world.                           *)
LEMMA WorldStepTypes == CallTypes /\ WorldTypes /\ [Next]_vars => WorldTypes'
<1> SUFFICES ASSUME CallTypes, WorldTypes, [Next]_vars PROVE WorldTypes'
  OBVIOUS
<1> DEFINE Sent == {"connected", "exited", "busy", "kicked"}
<1> USE DEF uiVars, optVars, taskVars, callVars, rpcVars, evVars, worldVars, appVars, vars
<1>1. CASE UNCHANGED <<port, bus, stream, drv, core>>
  BY <1>1 DEF WorldTypes
<1>2. CASE UserStep \/ (\E t \in Tasks : TaskStep(t)) \/ Validate \/ RunInstance \/ UNCHANGED vars
  <2>1. ASSUME NEW t \in Tasks, TaskStep(t) PROVE WorldTypes'
    BY <1>1, <2>1, Zenon
       DEF TaskStep, ConnectBegins, ConnectFails, ConnectValid, ConnectDone, DisconnectBegins,
           DisconnectDone, RestartBegins, RestartWakes, RestartDropped, RestartDone, RestartFails
  <2>2. CASE UserStep \/ Validate \/ RunInstance \/ UNCHANGED vars
    BY <1>1, <2>2, Zenon DEF UserStep, Toggle, Answer, Validate, RunInstance
  <2> QED
    BY <1>2, <2>1, <2>2, Zenon
<1>3. CASE HandleStep
  <2>1. stream # <<>> /\ stream' = Tail(stream) /\ UNCHANGED <<port, bus, drv, core>>
    BY <1>3, Zenon DEF HandleStep, HandleCoreExit, HandleKicked, HandleConnected, HandleBusy,
                       Handles
  <2>2. Tail(stream) \in Seq(Sent)
    BY <2>1, HeadTailProperties DEF WorldTypes
  <2> QED
    BY <2>1, <2>2 DEF WorldTypes
<1>4. CASE Forward
  <2>1. Head(bus) \in Events /\ Tail(bus) \in Seq(Events)
    BY <1>4, HeadTailProperties DEF Forward, WorldTypes
  <2>2. Head(bus).type \in EventTypes /\ Head(bus).port \in Ports \cup {None}
    BY <2>1 DEF Events
  <2>3. NewPort(Head(bus)) \in Ports \cup {None}
    BY <2>2 DEF NewPort, WorldTypes
  <2>4. CASE Head(bus).type \in {"started", "stopped"}
    BY <1>4, <2>1, <2>3, <2>4 DEF Forward, WorldTypes
  <2>5. CASE Head(bus).type \in Sent
    <3>1. Append(stream, Head(bus).type) \in Seq(Sent)
      BY <2>5, AppendProperties DEF WorldTypes
    <3> QED
      BY <1>4, <2>1, <2>3, <2>5, <3>1 DEF Forward, WorldTypes
  <2> QED
    BY <2>2, <2>4, <2>5 DEF EventTypes
<1>5. ASSUME NEW p \in Ports, StartOk(p) PROVE WorldTypes'
  <2>1. /\ core' \in {core, p} /\ UNCHANGED <<port, stream, drv>>
        /\ \/ Emit(<<Event("started", p)>>)
           \/ Emit(<<Event("exited", None), Event("started", p)>>)
    BY <1>5, Zenon DEF StartOk, Started
  <2>2. bus' \in Seq(Events)
    BY <2>1, EmitTypes, EventSeqs DEF EventTypes
  <2> QED
    BY <2>1, <2>2 DEF WorldTypes
<1>6. CASE StartErr
  <2>1. /\ UNCHANGED <<port, stream, drv>>
        /\ \/ UNCHANGED <<bus, core>>
           \/ \E p \in Ports : /\ core' \in {core, p}
                               /\ \/ Emit(<<Event("started", p)>>)
                                  \/ Emit(<<Event("exited", None), Event("started", p)>>)
                                  \/ UNCHANGED bus
    BY <1>6, Zenon DEF StartErr, Started, Torn
  <2>2. CASE UNCHANGED <<bus, core>>
    BY <2>1, <2>2 DEF WorldTypes
  <2>3. ASSUME NEW p \in Ports, core' \in {core, p},
               \/ Emit(<<Event("started", p)>>)
               \/ Emit(<<Event("exited", None), Event("started", p)>>)
               \/ UNCHANGED bus
        PROVE  WorldTypes'
    <3>1. bus' \in Seq(Events)
      BY <2>3, EmitTypes, EventSeqs DEF EventTypes, WorldTypes
    <3> QED
      BY <2>1, <2>3, <3>1 DEF WorldTypes
  <2> QED
    BY <2>1, <2>2, <2>3
<1>7. CASE SetPort \/ ClearPort \/ TakeOver
  <2>1. /\ port' \in {port, got, None} /\ UNCHANGED <<bus, stream, core>>
        /\ drv' \in {drv, "taking"}
    BY <1>7 DEF SetPort, ClearPort, TakeOver
  <2> QED
    BY <2>1 DEF WorldTypes, CallTypes
<1>8. CASE StopCore
  <2>1. /\ UNCHANGED <<port, stream, drv>> /\ core' \in {core, None}
        /\ UNCHANGED bus \/ Emit(<<Event("stopped", None)>>)
    BY <1>8, Zenon DEF StopCore, Torn
  <2>2. bus' \in Seq(Events)
    BY <2>1, EmitTypes, EventSeqs DEF EventTypes, WorldTypes
  <2> QED
    BY <2>1, <2>2 DEF WorldTypes
<1>9. CASE WorldStep
  <2>1. UNCHANGED <<port, stream>> /\ core' \in {core} \cup Ports \cup {None}
    BY <1>9, Zenon DEF WorldStep, Hello, HelloBusy, TakingFails, Drop, CoreExits, RivalTakes,
                       RivalActs
  <2>2. drv' \in {drv, "up", "paused", "down"}
    BY <1>9, Zenon DEF WorldStep, Hello, HelloBusy, TakingFails, Drop, CoreExits, RivalTakes,
                       RivalActs
  <2>3. core' \in Ports \cup {None}
    BY <2>1 DEF WorldTypes
  <2>4. \/ UNCHANGED bus
        \/ \E ty \in {"connected", "busy", "exited", "kicked"} :
             \E p \in {None, core'} : Emit(<<Event(ty, p)>>)
    BY <1>9, Zenon DEF WorldStep, Hello, HelloBusy, TakingFails, Drop, CoreExits, RivalTakes,
                       RivalActs, Torn
  <2>5. bus' \in Seq(Events)
    BY <2>3, <2>4, EmitTypes, EventSeqs DEF EventTypes, WorldTypes
  <2> QED
    BY <2>1, <2>2, <2>3, <2>5 DEF WorldTypes
<1> QED
  BY <1>2, <1>3, <1>4, <1>5, <1>6, <1>7, <1>8, <1>9 DEF Next, ApiStep
-----------------------------------------------------------------------------
(* The connection state and the tasks that drive it.                       *)

(* At most one loop will still act, and it is the one that can be          *)
(* cancelled.                                                              *)
LEMMA OneRestartStep ==
  TaskTypes /\ CancelTypes /\ OneRestart /\ [Next]_vars => OneRestart'
<1> SUFFICES ASSUME TaskTypes, CancelTypes, OneRestart, [Next]_vars PROVE OneRestart'
  OBVIOUS
<1> USE AppAssumption DEF OneRestart, Restarting, RestartPhases, TaskTypes, CancelTypes,
            uiVars, optVars, taskVars, callVars, rpcVars, evVars, worldVars, appVars, vars
<1>1. CASE UNCHANGED <<connState, pc, cancelled, restart>>
  BY <1>1
<1>2. ASSUME NEW t \in Tasks, TaskStep(t) PROVE OneRestart'
  <2>1. CASE ConnectBegins(t)
    BY <2>1 DEF ConnectBegins, CancelRestart, Goto, Await
  <2>2. CASE ConnectFails(t) \/ ConnectValid(t) \/ ConnectDone(t)
    BY <2>2 DEF ConnectFails, ConnectValid, ConnectDone, Resumes, Goto, Await
  <2>3. CASE DisconnectBegins(t)
    BY <2>3 DEF DisconnectBegins, CancelRestart, Goto, Await
  <2>4. CASE DisconnectDone(t)
    BY <2>4 DEF DisconnectDone, Resumes, Goto
  <2>5. CASE RestartBegins(t) \/ RestartFails(t)
    BY <2>5 DEF RestartBegins, RestartFails, RestartLoop, RestartEnds, Resumes, Goto
  <2>6. CASE RestartWakes(t)
    BY <2>6 DEF RestartWakes, RestartEnds, Goto, Await
  <2>7. CASE RestartDropped(t) \/ RestartDone(t)
    BY <2>7 DEF RestartDropped, RestartDone, RestartEnds, Resumes, Goto
  <2> QED
    BY <1>2, <2>1, <2>2, <2>3, <2>4, <2>5, <2>6, <2>7 DEF TaskStep
<1>3. ASSUME NEW t \in Tasks, HandleCoreExit(t) PROVE OneRestart'
  BY <1>3 DEF HandleCoreExit, Goto, Free
<1>4. CASE HandleKicked
  BY <1>4 DEF HandleKicked, CancelRestart
<1>5. ASSUME NEW t \in Tasks, HandleConnected(t) \/ Toggle(t) PROVE OneRestart'
  BY <1>5 DEF HandleConnected, Toggle, Goto, Free
<1>6. CASE HandleBusy \/ (\E yes \in BOOLEAN : Answer(yes)) \/ Forward \/ ApiStep
           \/ WorldStep \/ UNCHANGED vars
  BY <1>1, <1>6, Zenon
     DEF HandleBusy, Answer, Forward, ApiStep, Validate, StartOk, StartErr, SetPort,
         RunInstance, StopCore, ClearPort, TakeOver, WorldStep, Hello, HelloBusy, TakingFails,
         Drop, CoreExits, RivalTakes, RivalActs
<1> QED
  BY <1>2, <1>3, <1>4, <1>5, <1>6 DEF Next, HandleStep, UserStep

(* A transitional state has a task that will leave it.                     *)
LEMMA DrivenStep ==
  TaskTypes /\ CancelTypes /\ OneRestart /\ TransitionDriven /\ [Next]_vars
    => TransitionDriven'
<1> SUFFICES ASSUME TaskTypes, CancelTypes, OneRestart, TransitionDriven, [Next]_vars
             PROVE  TransitionDriven'
  OBVIOUS
<1> USE AppAssumption DEF TransitionDriven, Restarting, RestartPhases, TaskTypes, CancelTypes,
            uiVars, optVars, taskVars, callVars, rpcVars, evVars, worldVars, appVars, vars
<1>1. CASE UNCHANGED <<connState, pc, cancelled>>
  BY <1>1
<1>2. ASSUME NEW t \in Tasks, TaskStep(t) PROVE TransitionDriven'
  <2>1. CASE ConnectBegins(t)
    BY <2>1 DEF ConnectBegins, Goto, Await
  <2>2. CASE ConnectFails(t) \/ ConnectDone(t)
    BY <2>2 DEF ConnectFails, ConnectDone
  <2>3. CASE ConnectValid(t)
    BY <2>3 DEF ConnectValid, Resumes, Goto, Await
  <2>4. CASE DisconnectBegins(t)
    BY <2>4 DEF DisconnectBegins, Goto, Await
  <2>5. CASE DisconnectDone(t) \/ RestartDone(t)
    BY <2>5 DEF DisconnectDone, RestartDone
  <2>6. CASE RestartBegins(t) \/ RestartFails(t)
    BY <2>6 DEF RestartBegins, RestartFails, RestartLoop, Resumes, Goto
  <2>7. CASE RestartWakes(t)
    BY <2>7 DEF RestartWakes, RestartEnds, Goto, Await
  <2>8. CASE RestartDropped(t)
    BY <2>8 DEF RestartDropped, RestartEnds, Resumes, Goto
  <2> QED
    BY <1>2, <2>1, <2>2, <2>3, <2>4, <2>5, <2>6, <2>7, <2>8 DEF TaskStep
<1>3. ASSUME NEW t \in Tasks, HandleCoreExit(t) PROVE TransitionDriven'
  BY <1>3 DEF HandleCoreExit, Goto, Free
<1>4. CASE HandleKicked
  BY <1>4 DEF HandleKicked
<1>5. ASSUME NEW t \in Tasks, HandleConnected(t) \/ Toggle(t) PROVE TransitionDriven'
  BY <1>5 DEF HandleConnected, Toggle, Goto, Free
<1>6. CASE HandleBusy \/ (\E yes \in BOOLEAN : Answer(yes)) \/ Forward \/ ApiStep
           \/ WorldStep \/ UNCHANGED vars
  BY <1>1, <1>6, Zenon
     DEF HandleBusy, Answer, Forward, ApiStep, Validate, StartOk, StartErr, SetPort,
         RunInstance, StopCore, ClearPort, TakeOver, WorldStep, Hello, HelloBusy, TakingFails,
         Drop, CoreExits, RivalTakes, RivalActs
<1> QED
  BY <1>2, <1>3, <1>4, <1>5, <1>6 DEF Next, HandleStep, UserStep

(* Whoever shows .connected has turned polling on, and whoever turns it    *)
(* off shows something else.                                               *)
LEMMA PollsStep == PollsWhileConnected /\ [Next]_vars => PollsWhileConnected'
<1> SUFFICES ASSUME PollsWhileConnected, [Next]_vars PROVE PollsWhileConnected'
  OBVIOUS
<1> USE DEF PollsWhileConnected, uiVars, optVars, taskVars, callVars, rpcVars, evVars,
            worldVars, appVars, vars
<1>1. CASE UNCHANGED <<connState, polling>>
  BY <1>1
<1>2. ASSUME NEW t \in Tasks, TaskStep(t) PROVE PollsWhileConnected'
  BY <1>2 DEF TaskStep, ConnectBegins, ConnectFails, ConnectValid, ConnectDone,
              DisconnectBegins, DisconnectDone, RestartBegins, RestartWakes, RestartDropped,
              RestartDone, RestartFails, RestartLoop
<1>3. CASE HandleStep
  BY <1>3 DEF HandleStep, HandleCoreExit, HandleKicked, HandleConnected, HandleBusy
<1>4. CASE UserStep \/ Forward \/ ApiStep \/ WorldStep \/ UNCHANGED vars
  BY <1>1, <1>4, Zenon
     DEF UserStep, Toggle, Answer, Forward, ApiStep, Validate, StartOk, StartErr, SetPort,
         RunInstance, StopCore, ClearPort, TakeOver, WorldStep, Hello, HelloBusy, TakingFails,
         Drop, CoreExits, RivalTakes, RivalActs
<1> QED
  BY <1>2, <1>3, <1>4 DEF Next

(* Every attempt is paid for by a failure: only the loop that restartTask  *)
(* names counts, and whoever else resets the failures resets the attempts. *)
LEMMA AttemptsStep ==
  StateTypes /\ TaskTypes /\ CancelTypes /\ OneRestart /\ Attempts /\ [Next]_vars => Attempts'
<1> SUFFICES ASSUME StateTypes, TaskTypes, CancelTypes, OneRestart, Attempts, [Next]_vars
             PROVE  Attempts'
  OBVIOUS
<1> USE AppAssumption DEF Attempts, OneRestart, Restarting, RestartPhases, MaxAutoRestart,
            StateTypes, TaskTypes, CancelTypes, uiVars, optVars, taskVars, callVars, rpcVars,
            evVars, worldVars, appVars, vars
<1>1. CASE UNCHANGED <<fails, tries, pc, cancelled>>
  BY <1>1
<1>2. ASSUME NEW t \in Tasks, TaskStep(t) PROVE Attempts'
  <2>1. CASE ConnectBegins(t)
    BY <2>1 DEF ConnectBegins, CancelRestart, Goto, Await
  <2>2. CASE ConnectFails(t) \/ ConnectValid(t) \/ ConnectDone(t)
    BY <2>2 DEF ConnectFails, ConnectValid, ConnectDone, Resumes, Goto, Await
  <2>3. CASE DisconnectBegins(t)
    BY <2>3 DEF DisconnectBegins, CancelRestart, Goto, Await
  <2>4. CASE DisconnectDone(t)
    BY <2>4 DEF DisconnectDone, Resumes, Goto
  <2>5. CASE RestartBegins(t)
    BY <2>5 DEF RestartBegins, RestartLoop, RestartEnds, Goto
  <2>6. CASE RestartFails(t)
    BY <2>6 DEF RestartFails, RestartLoop, RestartEnds, Resumes, Goto
  <2>7. CASE RestartWakes(t)
    BY <2>7 DEF RestartWakes, RestartEnds, Goto, Await
  <2>8. CASE RestartDropped(t) \/ RestartDone(t)
    BY <2>8 DEF RestartDropped, RestartDone, RestartEnds, Resumes, Goto
  <2> QED
    BY <1>2, <2>1, <2>2, <2>3, <2>4, <2>5, <2>6, <2>7, <2>8 DEF TaskStep
<1>3. ASSUME NEW t \in Tasks, HandleCoreExit(t) PROVE Attempts'
  BY <1>3 DEF HandleCoreExit, Goto, Free
<1>4. CASE HandleKicked
  BY <1>4 DEF HandleKicked, CancelRestart
<1>5. ASSUME NEW t \in Tasks, HandleConnected(t) \/ Toggle(t) PROVE Attempts'
  BY <1>5 DEF HandleConnected, Toggle, Goto, Free
<1>6. CASE HandleBusy \/ (\E yes \in BOOLEAN : Answer(yes)) \/ Forward \/ ApiStep
           \/ WorldStep \/ UNCHANGED vars
  BY <1>1, <1>6, Zenon
     DEF HandleBusy, Answer, Forward, ApiStep, Validate, StartOk, StartErr, SetPort,
         RunInstance, StopCore, ClearPort, TakeOver, WorldStep, Hello, HelloBusy, TakingFails,
         Drop, CoreExits, RivalTakes, RivalActs
<1> QED
  BY <1>2, <1>3, <1>4, <1>5, <1>6 DEF Next, HandleStep, UserStep
-----------------------------------------------------------------------------
(* The port.                                                               *)

(* An event that decides, sent last, says where the port is headed.        *)
LEMMA LastDecides ==
  ASSUME NEW b \in Seq(Events), NEW evs \in Seq(Events), evs # <<>>,
         Decides(evs[Len(evs)]), NEW q
  PROVE  HeadedFor(b \o evs, q, Says(evs[Len(evs)]))
<1>1. /\ b \o evs \in Seq(Events) /\ Len(b \o evs) = Len(b) + Len(evs)
      /\ Len(evs) \in Nat \ {0} /\ Len(b) \in Nat
  BY ConcatProperties, EmptySeq
<1>2. (b \o evs)[Len(b) + Len(evs)] = evs[Len(evs)]
  BY <1>1, ConcatProperties
<1>3. DOMAIN (b \o evs) = 1..(Len(b) + Len(evs))
  BY <1>1
<1> QED
  BY <1>1, <1>2, <1>3 DEF HeadedFor

(* Forwarding the first event writes what it decides and changes nothing   *)
(* about where the port is headed.                                         *)
LEMMA ForwardKeeps ==
  ASSUME NEW b \in Seq(Events), b # <<>>, NEW q, NEW r, NEW p,
         r = IF Decides(Head(b)) THEN Says(Head(b)) ELSE q,
         HeadedFor(b, q, p)
  PROVE  HeadedFor(Tail(b), r, p)
<1>1. /\ Len(b) \in Nat \ {0} /\ DOMAIN b = 1..Len(b) /\ Head(b) = b[1]
      /\ DOMAIN Tail(b) = 1..(Len(b) - 1)
      /\ \A i \in 1..(Len(b) - 1) : Tail(b)[i] = b[i + 1]
  BY HeadTailProperties, EmptySeq
<1>2. CASE \A i \in DOMAIN b : ~Decides(b[i])
  <2>1. 1 \in DOMAIN b /\ \A i \in DOMAIN Tail(b) : i + 1 \in DOMAIN b
    BY <1>1
  <2>2. q = p
    BY <1>2 DEF HeadedFor
  <2> QED
    BY <1>1, <1>2, <2>1, <2>2 DEF HeadedFor
<1>3. ASSUME NEW i \in DOMAIN b, Decides(b[i]), Says(b[i]) = p,
             \A j \in DOMAIN b : j > i => ~Decides(b[j])
      PROVE  HeadedFor(Tail(b), r, p)
  <2>1. CASE i = 1
    <3>1. \A j \in DOMAIN Tail(b) : j + 1 \in DOMAIN b /\ j + 1 > i /\ Tail(b)[j] = b[j + 1]
      BY <1>1, <2>1
    <3>2. \A j \in DOMAIN Tail(b) : ~Decides(Tail(b)[j])
      BY <1>3, <3>1
    <3> QED
      BY <1>1, <1>3, <2>1, <3>2 DEF HeadedFor
  <2>2. CASE i # 1
    <3>1. i - 1 \in DOMAIN Tail(b) /\ Tail(b)[i - 1] = b[i]
      BY <1>1, <1>3, <2>2
    <3>2. ASSUME NEW j \in DOMAIN Tail(b), j > i - 1 PROVE ~Decides(Tail(b)[j])
      <4>1. j + 1 \in DOMAIN b /\ j + 1 > i /\ Tail(b)[j] = b[j + 1]
        BY <1>1, <1>3, <3>2
      <4> QED
        BY <1>3, <4>1
    <3> QED
      BY <1>3, <3>1, <3>2 DEF HeadedFor
  <2> QED
    BY <2>1, <2>2
<1> QED
  BY <1>2, <1>3 DEF HeadedFor

(* forward_events writes what the event decides.                           *)
LEMMA NewPortDecides ==
  ASSUME NEW e \in Events
  PROVE  NewPort(e) = IF Decides(e) THEN Says(e) ELSE port
  BY DEF NewPort, Decides, Says, Events, EventTypes

(* The main actor touches nothing that the calls and the event task share  *)
(* with the driver.                                                        *)
LEMMA MainActorSteps ==
  ASSUME UserStep \/ (\E t \in Tasks : TaskStep(t)) \/ HandleStep
  PROVE  UNCHANGED <<rival, drv, core, hosted, api, got, instance, bus, port>>
<1> USE DEF uiVars, optVars, taskVars, callVars, rpcVars, evVars, worldVars, appVars, vars
<1>1. CASE UserStep
  BY <1>1, Zenon DEF UserStep, Toggle, Answer
<1>2. ASSUME NEW t \in Tasks, TaskStep(t)
      PROVE  UNCHANGED <<rival, drv, core, hosted, api, got, instance, bus, port>>
  BY <1>2, Zenon
     DEF TaskStep, ConnectBegins, ConnectFails, ConnectValid, ConnectDone, DisconnectBegins,
         DisconnectDone, RestartBegins, RestartWakes, RestartDropped, RestartDone, RestartFails
<1>3. CASE HandleStep
  BY <1>3, Zenon DEF HandleStep, HandleCoreExit, HandleKicked, HandleConnected, HandleBusy
<1> QED
  BY <1>1, <1>2, <1>3, Zenon

(* The lease, the start in progress and the core it was answered with.     *)
LEMMA LeaseStep == CallTypes /\ WorldTypes /\ Lease /\ [Next]_vars => Lease'
<1> SUFFICES ASSUME CallTypes, WorldTypes, Lease, [Next]_vars PROVE Lease'
  OBVIOUS
<1> USE DEF Lease, Answered, uiVars, optVars, taskVars, callVars, rpcVars, evVars, worldVars,
            appVars, vars
<1>1. CASE UNCHANGED <<rival, drv, api, got, core>>
  BY <1>1, Zenon
<1>2. CASE UserStep \/ (\E t \in Tasks : TaskStep(t)) \/ HandleStep \/ Forward \/ UNCHANGED vars
  BY <1>1, <1>2, MainActorSteps, Zenon DEF Forward
<1>3. CASE Validate \/ StartErr \/ RunInstance \/ StopCore \/ ClearPort
  <2>1. UNCHANGED <<rival, drv>> /\ api' \in {"begin", "clear"}
    BY <1>3 DEF Validate, StartErr, RunInstance, StopCore, ClearPort, Returns
  <2> QED
    BY <2>1
<1>4. ASSUME NEW p \in Ports, StartOk(p) PROVE Lease'
  <2>1. UNCHANGED <<rival, drv>> /\ drv = "up" /\ got' = p /\ core' \in {None, p}
    BY <1>4 DEF StartOk, Started
  <2> QED
    BY <2>1, AppAssumption
<1>5. CASE SetPort
  BY <1>5 DEF SetPort, Calling
<1>6. CASE TakeOver
  BY <1>6 DEF TakeOver, Calling
<1>7. CASE Hello
  BY <1>7 DEF Hello
<1>8. CASE HelloBusy \/ TakingFails \/ Drop \/ CoreExits
  <2>1. /\ UNCHANGED <<rival, api, got>> /\ core' \in {core, None}
        /\ drv' \in {drv, "paused", "down"}
    BY <1>8, Zenon DEF HelloBusy, TakingFails, Drop, CoreExits
  <2> QED
    BY <2>1
<1>9. CASE RivalTakes
  <2>1. UNCHANGED <<api, got>> /\ drv = "up" /\ drv' = "down" /\ rival'
    BY <1>9, Zenon DEF RivalTakes
  <2> QED
    BY <2>1, Zenon
<1>10. CASE RivalActs
  <2>1. UNCHANGED <<api, got, drv>> /\ rival /\ ((rival' <=> rival) \/ core' = None)
    BY <1>10, Zenon DEF RivalActs
  <2> QED
    BY <2>1, Zenon
<1> QED
  BY <1>2, <1>3, <1>4, <1>5, <1>6, <1>7, <1>8, <1>9, <1>10 DEF Next, ApiStep, WorldStep

(* Calls, events and the world: whatever writes the port or the core, the  *)
(* port stays on its way to it.                                            *)
LEMMA PortStep ==
  CallTypes /\ WorldTypes /\ Lease /\ PortFollows /\ [Next]_vars => PortFollows'
<1> SUFFICES ASSUME CallTypes, WorldTypes, Lease, PortFollows, [Next]_vars PROVE PortFollows'
  OBVIOUS
<1> USE DEF uiVars, optVars, taskVars, callVars, rpcVars, evVars, worldVars, appVars, vars
<1> DEFINE Watched == drv = "up" /\ core # None /\ (hosted \/ Answered)
           Known == (hosted => instance /\ core # None) /\ (api = "clear" => ~instance)
<1>1. Known /\ (Watched => WillBe(core))
  BY DEF PortFollows
<1>2. ASSUME Known', Watched' => WillBe(core)' PROVE PortFollows'
  BY <1>2 DEF PortFollows
<1> HIDE DEF Watched, Known
<1>3. CASE UNCHANGED <<api, instance, drv, core, hosted, bus, port>>
  <2>1. (Watched' <=> Watched) /\ (WillBe(core)' <=> WillBe(core)) /\ (Known' <=> Known)
    BY <1>3 DEF Watched, Known, Answered, WillBe
  <2> QED
    BY <1>1, <1>2, <2>1
<1>4. CASE UserStep \/ (\E t \in Tasks : TaskStep(t)) \/ HandleStep \/ UNCHANGED vars
  BY <1>3, <1>4, MainActorSteps, Zenon
<1>5. CASE Forward
  <2>1. /\ bus # <<>> /\ bus' = Tail(bus) /\ port' = NewPort(Head(bus))
        /\ UNCHANGED <<api, instance, drv, core, hosted>>
    BY <1>5, Zenon DEF Forward
  <2>2. bus \in Seq(Events) /\ Head(bus) \in Events
    BY <2>1, HeadTailProperties DEF WorldTypes
  <2>3. WillBe(core) => WillBe(core)'
    BY <2>1, <2>2, NewPortDecides, ForwardKeeps DEF WillBe
  <2> QED
    BY <1>1, <1>2, <2>1, <2>3 DEF Watched, Known, Answered
<1>6. ASSUME NEW e \in Events, Decides(e), Says(e) = core', UNCHANGED port,
             bus' = bus \o <<e>> \/ \E f \in Events : bus' = bus \o <<f, e>>
      PROVE  WillBe(core)'
  <2>1. bus \in Seq(Events)
    BY DEF WorldTypes
  <2>2. CASE bus' = bus \o <<e>>
    <3>1. <<e>> \in Seq(Events) /\ <<e>> # <<>> /\ Len(<<e>>) = 1 /\ <<e>>[1] = e
      OBVIOUS
    <3>2. HeadedFor(bus \o <<e>>, port, Says(e))
      BY <1>6, <2>1, <3>1, LastDecides
    <3> QED
      BY <1>6, <2>2, <3>2 DEF WillBe
  <2>3. ASSUME NEW f \in Events, bus' = bus \o <<f, e>> PROVE WillBe(core)'
    <3>1. <<f, e>> \in Seq(Events) /\ <<f, e>> # <<>> /\ Len(<<f, e>>) = 2 /\ <<f, e>>[2] = e
      OBVIOUS
    <3>2. HeadedFor(bus \o <<f, e>>, port, Says(e))
      BY <1>6, <2>1, <3>1, LastDecides
    <3> QED
      BY <1>6, <2>3, <3>2 DEF WillBe
  <2> QED
    BY <1>6, <2>2, <2>3
<1>7. ASSUME NEW p \in Ports \cup {None}, NEW ty \in {"started", "connected"}, p # None
      PROVE  /\ Event(ty, p) \in Events /\ Decides(Event(ty, p)) /\ Says(Event(ty, p)) = p
             /\ Event("exited", None) \in Events
  BY <1>7 DEF Event, Events, EventTypes, Decides, Says
<1>8. ASSUME NEW p \in Ports, core \in {None, p}, Started(p), UNCHANGED port
      PROVE  core' # None => WillBe(core)'
  <2>1. \/ core' = p /\ bus' = bus \o <<Event("started", p)>>
        \/ core' = None
    BY <1>8, Zenon DEF Started, Emit
  <2>2. ASSUME core' = p, bus' = bus \o <<Event("started", p)>> PROVE WillBe(core)'
    <3>1. p # None
      BY AppAssumption
    <3> QED
      BY <1>6, <1>7, <1>8, <2>2, <3>1
  <2> QED
    BY <2>1, <2>2
<1>9. ASSUME NEW p \in Ports, StartOk(p) PROVE PortFollows'
  <2>1. /\ api' = "port" /\ core \in {None, p} /\ Started(p)
        /\ UNCHANGED <<port, instance, hosted>>
    BY <1>9, Zenon DEF StartOk
  <2>2. core # None => core' # None
    BY <2>1, AppAssumption DEF Started
  <2>3. Known'
    BY <1>1, <2>1, <2>2 DEF Known
  <2>4. Watched' => WillBe(core)'
    BY <1>8, <2>1 DEF Watched
  <2> QED
    BY <1>2, <2>3, <2>4
<1>10. CASE StartErr
  <2>1. /\ api' = "begin" /\ UNCHANGED <<port, instance, hosted, drv>>
        /\ \/ UNCHANGED <<bus, core>>
           \/ \E p \in Ports : /\ drv = "up" /\ core \in {None, p}
                               /\ Started(p) \/ (core' = p /\ UNCHANGED bus)
    BY <1>10, Zenon DEF StartErr, Returns, Torn
  <2>2. CASE UNCHANGED <<bus, core>>
    BY <1>1, <1>2, <2>1, <2>2 DEF Watched, Known, Answered, WillBe
  <2>3. ASSUME NEW p \in Ports, core \in {None, p}, Started(p) PROVE PortFollows'
    <3>1. core # None => core' # None
      BY <2>3, AppAssumption DEF Started
    <3>2. Known'
      BY <1>1, <2>1, <3>1 DEF Known
    <3>3. Watched' => WillBe(core)'
      BY <1>8, <2>1, <2>3 DEF Watched
    <3> QED
      BY <1>2, <3>2, <3>3
  <2>4. ASSUME NEW p \in Ports, core = None PROVE PortFollows'
    <3>1. ~hosted' /\ ~Answered'
      BY <1>1, <2>1, <2>4 DEF Known, Answered
    <3> QED
      BY <1>2, <2>1, <3>1 DEF Known, Watched
  <2> QED
    BY <2>1, <2>2, <2>3, <2>4
<1>11. CASE SetPort
  <2>1. /\ api = "port" /\ api' = "rpc" /\ port' = got
        /\ UNCHANGED <<bus, drv, core, hosted, instance>>
    BY <1>11, Zenon DEF SetPort, Calling
  <2>2. Watched' => Watched /\ core = got
    BY <2>1 DEF Watched, Answered, Lease
  <2>3. WillBe(core) /\ core = got => WillBe(core)'
    BY <2>1 DEF WillBe, HeadedFor
  <2>4. Known'
    BY <1>1, <2>1 DEF Known
  <2> QED
    BY <1>1, <1>2, <2>2, <2>3, <2>4
<1>12. CASE Validate
  <2>1. api' = "begin" /\ UNCHANGED <<bus, port, drv, core, hosted, instance>>
    BY <1>12, Zenon DEF Validate, Returns
  <2> QED
    BY <1>1, <1>2, <2>1 DEF Watched, Known, Answered, WillBe
<1>13. CASE RunInstance
  <2>1. api = "rpc" /\ api' = "begin" /\ UNCHANGED <<bus, port, drv, core>>
    BY <1>13, Zenon DEF RunInstance, Returns, Calling
  <2>2. hosted' => instance' /\ core # None
    <3>1. CASE instance' = TRUE /\ port # None /\ port = core
      BY <3>1
    <3>2. CASE UNCHANGED instance
               /\ hosted' \in {hosted, FALSE, instance /\ port # None /\ port = core}
      BY <1>1, <3>2 DEF Known
    <3> QED
      BY <1>13, <3>1, <3>2, Zenon DEF RunInstance
  <2>3. Known'
    BY <2>1, <2>2 DEF Known
  <2>4. Watched' => Watched
    BY <2>1 DEF Watched, Answered
  <2>5. WillBe(core) => WillBe(core)'
    BY <2>1 DEF WillBe
  <2> QED
    BY <1>1, <1>2, <2>3, <2>4, <2>5
<1>14. CASE StopCore \/ ClearPort
  <2>1. ~hosted' /\ ~instance' /\ api' \in {"clear", "begin"}
    BY <1>1, <1>14 DEF StopCore, ClearPort, Returns, Calling, Known
  <2> QED
    BY <1>2, <2>1 DEF Watched, Known, Answered
<1>15. CASE TakeOver
  <2>1. UNCHANGED <<api, instance, bus, port, core, hosted>> /\ drv' \in {drv, "taking"}
    BY <1>15, Zenon DEF TakeOver
  <2> QED
    BY <1>1, <1>2, <2>1 DEF Watched, Known, Answered, WillBe
<1>16. CASE Hello
  <2>1. /\ UNCHANGED <<api, instance, port>> /\ (hosted' => hosted /\ core' # None)
        /\ bus' = bus \o <<Event("connected", core')>> /\ core' \in {core, None}
    BY <1>16, Zenon DEF Hello, Emit
  <2>2. core' # None => WillBe(core)'
    BY <1>6, <1>7, <2>1 DEF WorldTypes
  <2> QED
    BY <1>1, <1>2, <2>1, <2>2 DEF Watched, Known
<1>17. CASE HelloBusy \/ TakingFails \/ Drop \/ CoreExits \/ RivalTakes \/ RivalActs
  <2>1. UNCHANGED <<api, instance>>
    BY <1>17, Zenon DEF HelloBusy, TakingFails, Drop, CoreExits, RivalTakes, RivalActs
  <2>2. drv' \in {"paused", "down"} \/ core' = None \/ (rival /\ UNCHANGED drv)
    BY <1>17, Zenon DEF HelloBusy, TakingFails, Drop, CoreExits, RivalTakes, RivalActs
  <2>3. hosted' => hosted /\ (core' # None \/ UNCHANGED core)
    <3>1. CASE RivalActs
      BY <3>1 DEF RivalActs
    <3>2. CASE HelloBusy \/ TakingFails \/ Drop \/ CoreExits \/ RivalTakes
      BY <3>2, Zenon DEF HelloBusy, TakingFails, Drop, CoreExits, RivalTakes
    <3> QED
      BY <1>17, <3>1, <3>2
  <2>4. Known'
    BY <1>1, <2>1, <2>3 DEF Known
  <2>5. ~Watched'
    BY <2>2 DEF Watched, Lease
  <2> QED
    BY <1>2, <2>4, <2>5
<1> QED
  BY <1>4, <1>5, <1>9, <1>10, <1>11, <1>12, <1>13, <1>14, <1>15, <1>16, <1>17
  DEF Next, ApiStep, WorldStep
-----------------------------------------------------------------------------
(* The theorems.                                                           *)

(* The invariant holds initially and every step of the app, of the calls,  *)
(* of the events and of the world preserves it.                            *)
THEOREM Invariance == Spec => []Inv
<1>1. Init => Inv
  <2> SUFFICES ASSUME Init PROVE Inv
    OBVIOUS
  <2> USE DEF Init
  <2>1. FlagTypes
    <3>1. rival = FALSE \/ rival = ("rival" \in Faults)
      OBVIOUS
    <3>2. ("rival" \in Faults) \in BOOLEAN
      OBVIOUS
    <3>3. rival \in BOOLEAN
      BY <3>1, <3>2, Zenon
    <3> QED
      BY <3>3, Zenon DEF FlagTypes
  <2>2. StateTypes /\ TaskTypes /\ CallTypes
    BY AppAssumption DEF StateTypes, TaskTypes, CallTypes, MaxAutoRestart, TaskPhases, ApiPhases
  <2>3. CancelTypes /\ WorldTypes
    BY DEF CancelTypes, WorldTypes
  <2>4. TransitionDriven /\ OneRestart /\ PollsWhileConnected
    BY DEF TransitionDriven, OneRestart, PollsWhileConnected, Restarting, RestartPhases
  <2>5. Attempts
    BY DEF Attempts, Restarting, RestartPhases, MaxAutoRestart
  <2>6. Lease /\ PortFollows
    BY DEF Lease, Answered, PortFollows
  <2> QED
    BY <2>1, <2>2, <2>3, <2>4, <2>5, <2>6, TypeParts DEF Inv
<1>2. Inv /\ [Next]_vars => Inv'
  <2> SUFFICES ASSUME Inv, [Next]_vars PROVE Inv'
    OBVIOUS
  <2>1. FlagTypes /\ StateTypes /\ TaskTypes /\ CancelTypes /\ CallTypes /\ WorldTypes
    BY TypeParts DEF Inv
  <2>2. /\ TransitionDriven /\ OneRestart /\ Attempts /\ PollsWhileConnected /\ Lease
        /\ PortFollows
    BY DEF Inv
  <2>3. FlagTypes' /\ StateTypes' /\ TaskTypes' /\ CancelTypes' /\ CallTypes' /\ WorldTypes'
    BY <2>1, <2>2, FlagStep, StateStep, TaskTypeStep, CancelStep, CallStep, WorldStepTypes
  <2>4. TypeOK'
    BY <2>3, TypeParts, PTL
  <2>5. TransitionDriven' /\ OneRestart' /\ Attempts' /\ PollsWhileConnected'
    BY <2>1, <2>2, DrivenStep, OneRestartStep, AttemptsStep, PollsStep
  <2>6. Lease' /\ PortFollows'
    BY <2>1, <2>2, LeaseStep, PortStep
  <2> QED
    BY <2>4, <2>5, <2>6 DEF Inv
<1> QED
  BY <1>1, <1>2, PTL DEF Spec

(* Every variable of the app keeps its type in every reachable state.      *)
THEOREM AppTypeCorrect == Spec => []TypeOK
<1>1. Inv => TypeOK
  BY DEF Inv
<1> QED
  BY <1>1, Invariance, PTL

(* However kicks, exits, cancellations and user actions interleave, a      *)
(* .connecting or .disconnecting state has a task that will leave it.      *)
THEOREM AlwaysDriven == Spec => []TransitionDriven
<1>1. Inv => TransitionDriven
  BY DEF Inv
<1> QED
  BY <1>1, Invariance, PTL

(* There is never a second restart loop that will still act, and none      *)
(* while the user is disconnecting.                                        *)
THEOREM SingleRestart == Spec => []OneRestart
<1>1. Inv => OneRestart
  BY DEF Inv
<1> QED
  BY <1>1, Invariance, PTL

(* A restart loop makes at most three attempts without a success or a      *)
(* disconnect in between, whoever else writes the failure counter.         *)
THEOREM RestartsAreBounded == Spec => []RestartsBounded
<1>1. Inv => RestartsBounded
  BY DEF Inv, Attempts, RestartsBounded
<1> QED
  BY <1>1, Invariance, PTL

(* A connected app polls, however the state was reached.                   *)
THEOREM PollingResident == Spec => []PollsWhileConnected
<1>1. Inv => PollsWhileConnected
  BY DEF Inv
<1> QED
  BY <1>1, Invariance, PTL

(* For any number of ports: with the calls returned, the events forwarded  *)
(* and the session up, an instance that the core runs is polled at that    *)
(* core's port, which etb_connect and the event task both write, although  *)
(* lines that a later request interrupts are lost.                         *)
THEOREM StatusIsReachable == Spec => []StatusReachable
<1>1. Inv => StatusReachable
  <2> SUFFICES ASSUME Inv, Settled, drv = "up", hosted PROVE etb_status = "ok"
    BY DEF StatusReachable
  <2>1. instance /\ core # None /\ bus = <<>> /\ HeadedFor(bus, port, core)
    BY DEF Inv, PortFollows, WillBe, Settled
  <2>2. port = core
    BY <2>1 DEF HeadedFor
  <2> QED
    BY <2>1, <2>2 DEF etb_status, network_status
<1> QED
  BY <1>1, Invariance, PTL
=============================================================================
