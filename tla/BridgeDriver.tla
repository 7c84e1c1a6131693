---------------------------- MODULE BridgeDriver ----------------------------
(***************************************************************************)
(* The bridge inside EasyTier.app: the tokio task run_driver that keeps a  *)
(* control connection to the supervisor, and the blocking C calls that     *)
(* hand it requests over a bounded channel.  BridgeClient.swift makes      *)
(* every C call from one serial queue, so one call is in progress at a     *)
(* time and a takeover confirmed by the user waits for its turn there.     *)
(*                                                                         *)
(* A request outlives its caller: after REQUEST_TIMEOUT the caller leaves, *)
(* the request stays in the channel or in flight and is still carried out. *)
(*                                                                         *)
(* The supervisor is external here, reduced to what the driver can observe:*)
(* the answers on the wire, the core it runs under our lease, and a rival  *)
(* client that may hold the lease instead.  Supervisor.tla models it.      *)
(***************************************************************************)
EXTENDS Naturals, Sequences

CONSTANTS Reqs,   \* request slots, used again once nobody holds the request
          Cap,    \* capacity of the request channel (16 in the code)
          Slow,   \* whether a session may keep a request past its timeout
          None

ASSUME BridgeAssumption ==
  /\ Cap \in Nat \ {0} /\ Slow \in BOOLEAN /\ None \notin Reqs

VARIABLES
  drv,       \* where run_driver awaits: see DrvPhases
  nextTake,  \* next_takeover
  takeover,  \* the permit of the Notify `takeover`
  shutdown,  \* the permit of the Notify `shutdown`
  queue,     \* the mpsc channel of requests
  pending,   \* run_session's request in flight, or None
  kind,      \* a request's command
  fate,      \* a request's oneshot channel: see Fates
  api,       \* the C call in progress: see ApiPhases
  op,        \* which call that is
  req,       \* the request the call dispatched, or None
  instance,  \* EtbHandle::instance_id is Some
  prompt,    \* the takeover prompt: "none", "shown", "confirmed"
  link,      \* the socket: "none", "hello" (sent), "up", "cut" (peer closed)
  cmds,      \* commands on the wire
  evs,       \* events on the wire, replies tagged with their request
  core,      \* under our lease: "stopped", "running", "dropped" (lease lost)
  rival,     \* another client holds the owner lease
  ran,       \* history: how often the supervisor carried the request out
  consent    \* history: the user confirmed a takeover not attempted yet

driverVars == <<drv, nextTake, pending>>
permits == <<takeover, shutdown>>
apiVars == <<api, op, req, instance>>
reqVars == <<kind, fate>>
wireVars == <<link, cmds, evs>>
worldVars == <<core, rival>>
vars == <<driverVars, permits, queue, apiVars, reqVars, prompt, wireVars,
          worldVars, ran, consent>>

DrvPhases == {"dial", "hello", "session", "paused", "backoff", "stopped"}
ApiPhases == {"idle", "send", "await", "rpc", "quit", "gone"}
Fates == {"free", "sending", "waiting", "ok", "err", "abandoned"}

Event(t, r) == [type |-> t, req |-> r]
Push(t) == Event(t, None)

(* etb_init: the driver is spawned and dials at once.                      *)
Init ==
  /\ drv = "dial" /\ nextTake = FALSE /\ pending = None
  /\ takeover = FALSE /\ shutdown = FALSE /\ queue = <<>>
  /\ kind = [r \in Reqs |-> "start"] /\ fate = [r \in Reqs |-> "free"]
  /\ api = "idle" /\ op = "connect" /\ req = None /\ instance = FALSE
  /\ prompt = "none" /\ link = "none" /\ cmds = <<>> /\ evs = <<>>
  /\ core = "stopped" /\ rival \in BOOLEAN
  /\ ran = [r \in Reqs |-> 0] /\ consent = FALSE
-----------------------------------------------------------------------------
(* Helpers.                                                                *)

(* Answering a request: tx.send(..), or dropping tx, which the caller sees *)
(* as an error.  Nobody is left to hear about an abandoned request.        *)
Answered(f, r, res) ==
  [f EXCEPT ![r] = IF @ = "abandoned" THEN "free" ELSE res]
AllFailed(S) == [r \in Reqs |-> IF r \in S THEN Answered(fate, r, "err")[r]
                                ELSE fate[r]]
Queued == {queue[i] : i \in DOMAIN queue}
InFlight == {pending} \ {None}

(* The socket is dropped.  Losing the owner's connection means stop to the *)
(* supervisor, which gets to it in its own time.                           *)
HangUp ==
  /\ link' = "none" /\ cmds' = <<>> /\ evs' = <<>>
  /\ core' = IF core = "running" THEN "dropped" ELSE core
  /\ UNCHANGED rival

(* run_session returns Disconnected: the request in flight is dropped and  *)
(* never sent again.                                                       *)
SessionLost(also) ==
  /\ fate' = AllFailed(InFlight \cup also)
  /\ pending' = None /\ drv' = "backoff"
  /\ HangUp
-----------------------------------------------------------------------------
(* run_driver: connecting.                                                 *)

(* connect_and_hello up to the hello being written.                        *)
Dial ==
  /\ drv = "dial" /\ drv' = "hello"
  /\ link' = "hello" /\ consent' = FALSE
  /\ UNCHANGED <<nextTake, pending, permits, queue, apiVars, reqVars, prompt,
                 cmds, evs, worldVars, ran>>

(* The socket is missing or refuses: back off.                             *)
DialFails ==
  /\ drv = "dial" /\ drv' = "backoff"
  /\ nextTake' = FALSE /\ consent' = FALSE
  /\ UNCHANGED <<pending, permits, queue, apiVars, reqVars, prompt, wireVars,
                 worldVars, ran>>

\* A faulty variant: the takeover flag is never reset.
HelloOkSticky ==
  /\ drv = "hello" /\ evs # <<>> /\ Head(evs).type = "hello"
  /\ drv' = "session" /\ evs' = Tail(evs)
  /\ UNCHANGED <<nextTake, pending, permits, queue, apiVars, reqVars, prompt,
                 link, cmds, worldVars, ran, consent>>

(* connect_and_hello returns a session.                                    *)
HelloOk ==
  /\ drv = "hello" /\ evs # <<>> /\ Head(evs).type = "hello"
  /\ drv' = "session" /\ evs' = Tail(evs) /\ nextTake' = FALSE
  /\ UNCHANGED <<pending, permits, queue, apiVars, reqVars, prompt, link, cmds,
                 worldVars, ran, consent>>

(* Busy: pause, and let the app ask the user.                              *)
HelloBusy ==
  /\ drv = "hello" /\ evs # <<>> /\ Head(evs).type = "busy"
  /\ drv' = "paused" /\ nextTake' = FALSE
  /\ prompt' = "shown"
  /\ HangUp
  /\ UNCHANGED <<pending, permits, queue, apiVars, reqVars, ran, consent>>

(* The connection closes before an answer, or the answer is an error.      *)
HelloFails ==
  /\ drv = "hello" /\ link = "cut"
  /\ \A i \in DOMAIN evs : evs[i].type = "error"
  /\ drv' = "backoff" /\ nextTake' = FALSE
  /\ HangUp
  /\ UNCHANGED <<pending, permits, queue, apiVars, reqVars, prompt, ran,
                 consent>>

(* Paused on busy: only a confirmed takeover reconnects.                   *)
PausedTakeover ==
  /\ drv = "paused" /\ takeover
  /\ takeover' = FALSE /\ nextTake' = TRUE /\ drv' = "dial"
  /\ UNCHANGED <<pending, shutdown, queue, apiVars, reqVars, prompt, wireVars,
                 worldVars, ran, consent>>

(* The backoff elapses (or request_reconnect cuts it short).               *)
BackoffOver ==
  /\ drv = "backoff" /\ drv' = "dial"
  /\ UNCHANGED <<nextTake, pending, permits, queue, apiVars, reqVars, prompt,
                 wireVars, worldVars, ran, consent>>

\* A faulty variant: the paused driver waits for the takeover alone.
DriverStopsUnlessPaused ==
  /\ drv \notin {"stopped", "paused"} /\ shutdown
  /\ drv' = "stopped" /\ shutdown' = FALSE
  /\ fate' = AllFailed(Queued \cup InFlight)
  /\ queue' = <<>> /\ pending' = None
  /\ HangUp
  /\ UNCHANGED <<nextTake, takeover, apiVars, kind, prompt, ran, consent>>

(* Every select! of the driver also waits for the shutdown permit.  The    *)
(* task ends: in-flight and queued requests are dropped with cmd_rx.       *)
DriverStops ==
  /\ drv # "stopped" /\ shutdown
  /\ drv' = "stopped" /\ shutdown' = FALSE
  /\ fate' = AllFailed(Queued \cup InFlight)
  /\ queue' = <<>> /\ pending' = None
  /\ HangUp
  /\ UNCHANGED <<nextTake, takeover, apiVars, kind, prompt, ran, consent>>

-----------------------------------------------------------------------------
(* run_session.                                                            *)

(* select! drops the read_line future when a request arrives first, and    *)
(* with it the half of a line that future had read: the rest of the line   *)
(* does not decode and is skipped, so the event is lost.                   *)
ReadCancelled == evs' = evs \/ (evs # <<>> /\ evs' = Tail(evs))

(* A request arrives while another is in flight: it is refused.            *)
RecvRefused ==
  /\ drv = "session" /\ queue # <<>> /\ pending # None
  /\ queue' = Tail(queue) /\ fate' = Answered(fate, Head(queue), "err")
  /\ ReadCancelled
  /\ UNCHANGED <<driverVars, permits, apiVars, kind, prompt, link, cmds,
                 worldVars, ran, consent>>

\* A faulty variant: pipelines a second request over the one in flight.
RecvSentOver ==
  /\ drv = "session" /\ queue # <<>>
  /\ queue' = Tail(queue) /\ pending' = Head(queue)
  /\ cmds' = Append(cmds, Head(queue))
  /\ ReadCancelled
  /\ UNCHANGED <<drv, nextTake, permits, apiVars, reqVars, prompt, link,
                 worldVars, ran, consent>>

(* A request arrives and is written to the socket.                         *)
RecvSent ==
  /\ drv = "session" /\ queue # <<>> /\ pending = None
  /\ queue' = Tail(queue) /\ pending' = Head(queue)
  /\ cmds' = Append(cmds, Head(queue))
  /\ ReadCancelled
  /\ UNCHANGED <<drv, nextTake, permits, apiVars, reqVars, prompt, link,
                 worldVars, ran, consent>>

(* The write fails, the peer having closed: the session is over.           *)
RecvWriteFails ==
  /\ drv = "session" /\ queue # <<>> /\ pending = None /\ link = "cut"
  /\ queue' = Tail(queue)
  /\ SessionLost({Head(queue)})
  /\ UNCHANGED <<nextTake, permits, apiVars, kind, prompt, ran, consent>>

(* dispatch_event.  A reply completes the request in flight, with an error *)
(* when it is not the reply of that command; a push leaves it alone.       *)
ReadEvent ==
  /\ drv = "session" /\ evs # <<>>
  /\ evs' = Tail(evs)
  /\ LET t == Head(evs).type
         res == IF \/ t = "started" /\ kind[pending] = "start"
                   \/ t = "stopped" /\ kind[pending] = "stop"
                THEN "ok" ELSE "err"
     IN IF t \in {"started", "stopped", "error"} /\ pending # None
        THEN pending' = None /\ fate' = Answered(fate, pending, res)
        ELSE UNCHANGED <<pending, fate>>
  /\ UNCHANGED <<drv, nextTake, permits, queue, apiVars, kind, prompt, link,
                 cmds, worldVars, ran, consent>>

\* A faulty variant: a session that is lost puts its request back.
ReadEofRequeues ==
  /\ drv = "session" /\ evs = <<>> /\ link = "cut"
  /\ pending # None /\ Len(queue) < Cap
  /\ queue' = Append(queue, pending)
  /\ pending' = None /\ drv' = "backoff"
  /\ HangUp
  /\ UNCHANGED <<nextTake, permits, apiVars, reqVars, prompt, ran, consent>>

(* End of file on the socket.                                              *)
ReadEof ==
  /\ drv = "session" /\ evs = <<>> /\ link = "cut"
  /\ SessionLost({})
  /\ UNCHANGED <<nextTake, permits, queue, apiVars, kind, prompt, ran, consent>>
-----------------------------------------------------------------------------
(* The C calls, from the serial queue of BridgeClient.swift.               *)

(* etb_connect begins with a start, etb_disconnect with a stop (after      *)
(* taking the instance id).  A fresh request waits for room in the channel.*)
Call(o, r) ==
  /\ api = "idle" /\ fate[r] = "free"
  /\ api' = "send" /\ op' = o /\ req' = r
  /\ kind' = [kind EXCEPT ![r] = IF o = "connect" THEN "start" ELSE "stop"]
  /\ fate' = [fate EXCEPT ![r] = "sending"]
  /\ ran' = [ran EXCEPT ![r] = 0]
  /\ instance' = (o = "connect" /\ instance)
  /\ UNCHANGED <<driverVars, permits, queue, prompt, wireVars, worldVars,
                 consent>>

\* A faulty variant: the channel is unbounded.
SendUnbounded ==
  /\ api = "send"
  /\ queue' = Append(queue, req)
  /\ fate' = [fate EXCEPT ![req] = "waiting"]
  /\ api' = "await"
  /\ UNCHANGED <<driverVars, permits, op, req, instance, kind, prompt,
                 wireVars, worldVars, ran, consent>>

(* cmd_tx.send(req).await: no timeout covers the wait for room.            *)
Send ==
  /\ api = "send" /\ Len(queue) < Cap
  /\ queue' = Append(queue, req)
  /\ fate' = [fate EXCEPT ![req] = "waiting"]
  /\ api' = "await"
  /\ UNCHANGED <<driverVars, permits, op, req, instance, kind, prompt,
                 wireVars, worldVars, ran, consent>>

(* The rest of the call.  Whatever became of its stop, etb_disconnect      *)
(* reports success; etb_connect goes on to the RPC if its start succeeded. *)
Answer ==
  /\ api = "await" /\ fate[req] \in {"ok", "err"}
  /\ api' = IF op = "connect" /\ fate[req] = "ok" THEN "rpc" ELSE "idle"
  /\ fate' = [fate EXCEPT ![req] = "free"] /\ req' = None
  /\ UNCHANGED <<driverVars, permits, queue, op, instance, kind, prompt,
                 wireVars, worldVars, ran, consent>>

(* REQUEST_TIMEOUT.  A supervisor that is up answers within it unless Slow.*)
Timeout ==
  /\ api = "await" /\ fate[req] = "waiting"
  /\ Slow \/ drv # "session"
  /\ api' = "idle" /\ req' = None
  /\ fate' = [fate EXCEPT ![req] = "abandoned"]
  /\ UNCHANGED <<driverVars, permits, queue, op, instance, kind, prompt,
                 wireVars, worldVars, ran, consent>>

(* run_network_instance: bounded retries, then success or an error.  The   *)
(* instance id is recorded on success only; the core runs on either way.   *)
RunInstance ==
  /\ api = "rpc" /\ api' = "idle"
  /\ instance' \in {instance, TRUE}
  /\ UNCHANGED <<driverVars, permits, queue, op, req, reqVars, prompt,
                 wireVars, worldVars, ran, consent>>

(* promptTakeover: the user confirms or cancels.                           *)
Confirm ==
  /\ prompt = "shown" /\ prompt' = "confirmed" /\ consent' = TRUE
  /\ UNCHANGED <<driverVars, permits, queue, apiVars, reqVars, wireVars,
                 worldVars, ran>>
Cancel ==
  /\ prompt = "shown" /\ prompt' = "none"
  /\ UNCHANGED <<driverVars, permits, queue, apiVars, reqVars, wireVars,
                 worldVars, ran, consent>>

(* etb_takeover, when the serial queue gets to it.                         *)
Takeover ==
  /\ prompt = "confirmed" /\ api = "idle"
  /\ prompt' = "none" /\ takeover' = TRUE
  /\ UNCHANGED <<driverVars, shutdown, queue, apiVars, reqVars, wireVars,
                 worldVars, ran, consent>>

(* etb_shutdown: notify the driver, then await its task.                   *)
Shutdown ==
  /\ api = "idle" /\ api' = "quit" /\ shutdown' = TRUE
  /\ prompt' = "none"
  /\ UNCHANGED <<driverVars, takeover, queue, op, req, instance, reqVars,
                 wireVars, worldVars, ran, consent>>
ShutdownReturns ==
  /\ api = "quit" /\ drv = "stopped" /\ api' = "gone"
  /\ UNCHANGED <<driverVars, permits, queue, op, req, instance, reqVars,
                 prompt, wireVars, worldVars, ran, consent>>
-----------------------------------------------------------------------------
(* The supervisor and the rival client, as the driver meets them.          *)

Greet ==
  /\ link = "hello"
  /\ \/ /\ rival => nextTake
        /\ rival' = FALSE /\ link' = "up" /\ evs' = <<Push("hello")>>
     \/ /\ rival /\ ~nextTake /\ link' = "cut" /\ evs' = <<Push("busy")>>
        /\ UNCHANGED rival
     \/ /\ link' = "cut" /\ evs' \in {<<>>, <<Push("error")>>}
        /\ UNCHANGED rival
  /\ UNCHANGED <<driverVars, permits, queue, apiVars, reqVars, prompt, cmds,
                 core, ran, consent>>

(* One command carried out and answered; a start may fail.                 *)
Serve ==
  /\ link = "up" /\ cmds # <<>> /\ cmds' = Tail(cmds)
  /\ LET r == Head(cmds) IN
     \/ /\ ran' = [ran EXCEPT ![r] = @ + 1]
        /\ \/ /\ kind[r] = "start" /\ core' = "running"
              /\ evs' = Append(evs, Event("started", r))
           \/ /\ kind[r] = "stop" /\ core' = "stopped"
              /\ evs' = Append(evs, Event("stopped", r))
     \/ /\ kind[r] = "start" /\ evs' = Append(evs, Event("error", r))
        /\ UNCHANGED <<ran, core>>
  /\ UNCHANGED <<driverVars, permits, queue, apiVars, reqVars, prompt, link,
                 rival, consent>>

(* The supervisor dies having carried a command out, before it answers.    *)
ServeDies ==
  /\ link = "up" /\ cmds # <<>> /\ cmds' = Tail(cmds)
  /\ LET r == Head(cmds) IN
     /\ ran' = [ran EXCEPT ![r] = @ + 1]
     /\ core' = IF kind[r] = "start" THEN "dropped" ELSE "stopped"
  /\ link' = "cut"
  /\ UNCHANGED <<driverVars, permits, queue, apiVars, reqVars, prompt, evs,
                 rival, consent>>

CoreExits ==
  /\ core # "stopped" /\ core' = "stopped"
  /\ evs' = IF core = "running" /\ link = "up"
            THEN Append(evs, Push("exited")) ELSE evs
  /\ UNCHANGED <<driverVars, permits, queue, apiVars, reqVars, prompt, link,
                 cmds, rival, ran, consent>>

(* The supervisor dies, or a takeover by the rival kicks this client.      *)
PeerCloses ==
  /\ link = "up" /\ link' = "cut"
  /\ core' = IF core = "running" THEN "dropped" ELSE core
  /\ \/ UNCHANGED <<evs, rival>>
     \/ evs' = Append(evs, Push("kicked")) /\ rival' = TRUE
  /\ UNCHANGED <<driverVars, permits, queue, apiVars, reqVars, prompt, cmds,
                 ran, consent>>

(* The rival comes while we hold no lease, or gives its lease up.          *)
RivalMoves ==
  /\ link # "up" /\ rival' = ~rival
  /\ UNCHANGED <<driverVars, permits, queue, apiVars, reqVars, prompt,
                 wireVars, core, ran, consent>>
-----------------------------------------------------------------------------
DriverStep == \/ Dial \/ DialFails \/ HelloOk \/ HelloBusy \/ HelloFails
              \/ PausedTakeover \/ BackoffOver \/ DriverStops
              \/ RecvRefused \/ RecvSent \/ RecvWriteFails \/ ReadEvent
              \/ ReadEof

CallStep == \/ Send \/ Answer \/ Timeout \/ RunInstance \/ Takeover
            \/ ShutdownReturns

AppStep == \/ \E r \in Reqs : Call("connect", r) \/ Call("disconnect", r)
           \/ Confirm \/ Cancel \/ Shutdown

WorldStep == \/ Greet \/ Serve \/ ServeDies \/ CoreExits \/ PeerCloses
             \/ RivalMoves

(* The app has quit and nothing is left to do.                             *)
Finished == api = "gone" /\ UNCHANGED vars

Next == DriverStep \/ CallStep \/ AppStep \/ WorldStep \/ Finished

Spec == Init /\ [][Next]_vars

(* The tokio runtime polls a ready task, sleeps and timeouts elapse, and   *)
(* the serial queue runs what is on it.  A supervisor that accepted the    *)
(* hello answers it (10 s hello timeout) and serves its owner's commands.  *)
(* The user answers the prompt, by confirming it (the favourable case).    *)
Fairness == /\ WF_vars(DriverStep) /\ WF_vars(CallStep)
            /\ WF_vars(DriverStops) /\ SF_vars(Takeover)
            /\ WF_vars(Greet) /\ WF_vars(Serve) /\ WF_vars(Confirm)

LiveSpec == Spec /\ Fairness
-----------------------------------------------------------------------------
(* Properties.                                                             *)

(* Every variable holds a value of its type; the channel respects Cap.     *)
TypeOK ==
  /\ drv \in DrvPhases /\ nextTake \in BOOLEAN
  /\ pending \in Reqs \cup {None}
  /\ takeover \in BOOLEAN /\ shutdown \in BOOLEAN
  /\ queue \in Seq(Reqs) /\ Len(queue) <= Cap
  /\ kind \in [Reqs -> {"start", "stop"}] /\ fate \in [Reqs -> Fates]
  /\ api \in ApiPhases /\ op \in {"connect", "disconnect"}
  /\ req \in Reqs \cup {None} /\ instance \in BOOLEAN
  /\ prompt \in {"none", "shown", "confirmed"}
  /\ link \in {"none", "hello", "up", "cut"} /\ cmds \in Seq(Reqs)
  /\ evs \in Seq([type : {"hello", "busy", "error", "started", "stopped",
                          "exited", "kicked"}, req : Reqs \cup {None}])
  /\ core \in {"stopped", "running", "dropped"} /\ rival \in BOOLEAN
  /\ ran \in [Reqs -> Nat] /\ consent \in BOOLEAN

(* The replies carry no request id, so run_session matches them by order:  *)
(* a call told that its command succeeded really had that command, and not *)
(* an abandoned predecessor's, carried out by the supervisor.              *)
OkMeansExecuted == \A r \in Reqs : fate[r] = "ok" => ran[r] > 0

(* A lost session drops the request it had in flight: the driver never     *)
(* repeats, on the next connection, a command the supervisor carried out.  *)
AtMostOnce == \A r \in Reqs : ran[r] <= 1

(* The header says that etb_disconnect stops the core and NULL is success. *)
(* It returns NULL whatever became of its stop, which may time out or be   *)
(* refused behind a start that an earlier call abandoned.  When the stop   *)
(* was answered the claim does hold: no core runs under our lease as the   *)
(* call returns, and no abandoned start comes after it.                    *)
StopHeard ==
  op = "disconnect" /\ api = "await" /\ fate[req] = "ok" => core # "running"

(* One confirmation by the user pays for one takeover attempt (the flag    *)
(* next_takeover is reset whatever becomes of it), and no permit is left   *)
(* over in the Notify to take a later lease over unasked.                  *)
TakeoverConsented ==
  /\ drv = "dial" /\ nextTake => consent
  /\ takeover => drv \in {"paused", "stopped"}

(* etb_shutdown returns from wherever the driver happens to be waiting.    *)
ShutdownCompletes == api = "quit" ~> api = "gone"

(* Handle calls block for a bounded time: a call that has begun returns.   *)
CallReturns == api = "send" ~> api \in {"idle", "gone"}
=============================================================================
