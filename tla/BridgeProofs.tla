---------------------------- MODULE BridgeProofs ----------------------------
(***************************************************************************)
(* Proofs about BridgeDriver for any set of request slots and any capacity *)
(* of the channel.  The inductive invariant says who holds a request       *)
(* (Slots), what can be on the wire in each phase of the driver            *)
(* (WirePhases), how far the supervisor has got with a request (Progress)  *)
(* and where a confirmed takeover is (Consent).                            *)
(***************************************************************************)
EXTENDS BridgeDriver, SequenceTheorems, TLAPS

\* The request of the call in progress, the ones in the channel and the one
\* in flight: each has one holder, and a slot that is free has none.
Slots ==
  /\ req # None <=> api \in {"send", "await"}
  /\ \A r \in Reqs : req = r <=> fate[r] \in {"sending", "waiting", "ok", "err"}
  /\ api = "send" => fate[req] = "sending"
  /\ api = "await" => fate[req] # "sending"
  /\ \A i \in DOMAIN queue : fate[queue[i]] \in {"waiting", "abandoned"}
  /\ pending # None => fate[pending] \in {"waiting", "abandoned"}
  /\ \A i, j \in DOMAIN queue : queue[i] = queue[j] => i = j
  /\ \A i \in DOMAIN queue : queue[i] # pending

Replies == {"started", "stopped", "error"}

\* Outside a session no command is on the wire, and before it no reply but
\* the refusal of the hello.  In a session the wire holds the request in
\* flight or its reply, once.
WirePhases ==
  /\ drv # "session" => pending = None /\ cmds = <<>>
  /\ drv \notin {"hello", "session"} => link = "none" /\ evs = <<>>
  /\ link = "hello" => drv = "hello" /\ evs = <<>>
  /\ drv = "hello" =>
       \A i \in DOMAIN evs : evs[i].type \in Replies => evs[i].type = "error" /\ i = 1
  /\ Len(cmds) <= 1
  /\ cmds # <<>> => pending # None /\ cmds[1] = pending
  /\ drv = "session" =>
       /\ \A i \in DOMAIN evs : evs[i].type \in Replies => pending # None /\ cmds = <<>>
       /\ \A i, j \in DOMAIN evs :
            evs[i].type \in Replies /\ evs[j].type \in Replies => i = j

\* A request is carried out at most once, after it has left the channel and
\* before its reply is on the wire.
Progress ==
  /\ \A r \in Reqs : ran[r] <= 1
  /\ \A r \in Reqs : fate[r] = "sending" => ran[r] = 0
  /\ \A i \in DOMAIN queue : ran[queue[i]] = 0
  /\ cmds # <<>> => ran[pending] = 0
  /\ \A i \in DOMAIN evs : evs[i].type \in {"started", "stopped"} => ran[pending] = 1
  /\ OkMeansExecuted

\* A takeover that the user confirmed is in one place at a time, and the
\* driver keeps its flag for one hello.
Consent ==
  /\ TakeoverConsented
  /\ nextTake => drv \in {"dial", "hello", "stopped"}
  /\ prompt # "none" => drv \in {"paused", "stopped"} /\ ~takeover
  /\ takeover \/ prompt = "confirmed" => consent

\* The inductive invariant.
Inv == TypeOK /\ Slots /\ WirePhases /\ Progress /\ Consent
-----------------------------------------------------------------------------
(* Sequences.                                                              *)

(* What is left when the first element is taken off.                       *)
LEMMA TailElements ==
  ASSUME NEW S, NEW s \in Seq(S), s # <<>>
  PROVE  /\ Head(s) = s[1] /\ 1 \in DOMAIN s
         /\ Tail(s) \in Seq(S) /\ Head(s) \in S /\ Len(Tail(s)) = Len(s) - 1
         /\ \A i \in DOMAIN Tail(s) :
              i \in Nat \ {0} /\ i + 1 \in DOMAIN s /\ Tail(s)[i] = s[i + 1]
  BY HeadTailProperties

(* The elements of a sequence and the one appended to it.                  *)
LEMMA AppendElements ==
  ASSUME NEW S, NEW s \in Seq(S), NEW e \in S
  PROVE  /\ Append(s, e) \in Seq(S) /\ Len(Append(s, e)) = Len(s) + 1
         /\ \A i \in DOMAIN Append(s, e) :
              \/ i \in DOMAIN s /\ Append(s, e)[i] = s[i]
              \/ i = Len(s) + 1 /\ i \notin DOMAIN s /\ Append(s, e)[i] = e
  BY AppendProperties
-----------------------------------------------------------------------------
(* Type correctness.                                                       *)

Types == {"hello", "busy", "error", "started", "stopped", "exited", "kicked"}
Events == [type : Types, req : Reqs \cup {None}]

\* TypeOK in two parts: the Boolean variables, and the others.
Flags ==
  /\ nextTake \in BOOLEAN /\ takeover \in BOOLEAN /\ shutdown \in BOOLEAN
  /\ instance \in BOOLEAN /\ rival \in BOOLEAN /\ consent \in BOOLEAN
Others ==
  /\ drv \in DrvPhases /\ pending \in Reqs \cup {None}
  /\ queue \in Seq(Reqs) /\ Len(queue) <= Cap
  /\ kind \in [Reqs -> {"start", "stop"}] /\ fate \in [Reqs -> Fates]
  /\ api \in ApiPhases /\ op \in {"connect", "disconnect"} /\ req \in Reqs \cup {None}
  /\ prompt \in {"none", "shown", "confirmed"}
  /\ link \in {"none", "hello", "up", "cut"} /\ cmds \in Seq(Reqs) /\ evs \in Seq(Events)
  /\ core \in {"stopped", "running", "dropped"} /\ ran \in [Reqs -> Nat]

(* Every step of the driver, the calls, the app and the world.             *)
LEMMA FlagStep == Flags /\ [Next]_vars => Flags'
<1> SUFFICES ASSUME Flags, [Next]_vars PROVE Flags'
  OBVIOUS
<1> USE DEF Flags, HangUp, driverVars, permits, apiVars, reqVars, wireVars, worldVars, vars
<1>1. CASE Dial \/ DialFails \/ PausedTakeover \/ BackoffOver
  BY <1>1, Zenon DEF Dial, DialFails, PausedTakeover, BackoffOver
<1>2. CASE HelloOk \/ HelloBusy \/ HelloFails \/ DriverStops
  BY <1>2, Zenon DEF HelloOk, HelloBusy, HelloFails, DriverStops
<1>3. CASE RecvRefused \/ RecvSent \/ RecvWriteFails \/ ReadEvent \/ ReadEof
  BY <1>3, Zenon DEF RecvRefused, RecvSent, RecvWriteFails, ReadEvent, ReadEof, SessionLost
<1>4. CASE \E r \in Reqs : Call("connect", r) \/ Call("disconnect", r)
  BY <1>4, Zenon DEF Call
<1>5. CASE Send \/ Answer \/ Timeout \/ RunInstance
  BY <1>5, Zenon DEF Send, Answer, Timeout, RunInstance
<1>6. CASE Takeover \/ ShutdownReturns \/ Confirm \/ Cancel \/ Shutdown
  BY <1>6, Zenon DEF Takeover, ShutdownReturns, Confirm, Cancel, Shutdown
<1>7. CASE Greet \/ PeerCloses \/ RivalMoves
  BY <1>7, Zenon DEF Greet, PeerCloses, RivalMoves
<1>8. CASE Serve \/ ServeDies \/ CoreExits
  BY <1>8, Zenon DEF Serve, ServeDies, CoreExits
<1>9. CASE UNCHANGED vars
  BY <1>9, Zenon
<1> QED
  BY <1>1, <1>2, <1>3, <1>4, <1>5, <1>6, <1>7, <1>8, <1>9
     DEF Next, DriverStep, CallStep, AppStep, WorldStep, Finished

(* What the sequences of the model contain.                                *)
LEMMA RequestSeqs ==
  /\ <<>> \in Seq(Reqs) /\ Len(<<>>) = 0
  /\ \A s \in Seq(Reqs) : s # <<>> => Tail(s) \in Seq(Reqs) /\ Head(s) \in Reqs
                                      /\ Len(s) \in Nat /\ Len(Tail(s)) = Len(s) - 1
  /\ \A s \in Seq(Reqs), r \in Reqs : Append(s, r) \in Seq(Reqs) /\ Len(s) \in Nat
                                      /\ Len(Append(s, r)) = Len(s) + 1
  BY TailElements, AppendElements

(* The same of the events on the wire.                                     *)
LEMMA EventSeqs ==
  /\ <<>> \in Seq(Events)
  /\ \A s \in Seq(Events) : s # <<>> => Tail(s) \in Seq(Events) /\ Head(s) \in Events
  /\ \A t \in Types : /\ <<Push(t)>> \in Seq(Events)
                      /\ \A s \in Seq(Events) : Append(s, Push(t)) \in Seq(Events)
  /\ \A t \in Types, r \in Reqs, s \in Seq(Events) : Append(s, Event(t, r)) \in Seq(Events)
<1>1. \A t \in Types, r \in Reqs \cup {None} : Event(t, r) \in Events /\ Push(t) \in Events
  BY DEF Event, Push, Events
<1>2. \A e \in Events : <<e>> \in Seq(Events)
  OBVIOUS
<1> QED
  BY <1>1, <1>2, TailElements, AppendElements

(* The variables that are not Boolean keep their types.                    *)
LEMMA OtherStep == Others /\ Slots /\ [Next]_vars => Others'
<1> SUFFICES ASSUME Others, Slots, [Next]_vars PROVE Others'
  OBVIOUS
<1> USE DEF Others, DrvPhases, ApiPhases, Fates,
            driverVars, permits, apiVars, reqVars, wireVars, worldVars, vars
<1>1. CASE Dial \/ DialFails \/ PausedTakeover \/ BackoffOver
  BY <1>1 DEF Dial, DialFails, PausedTakeover, BackoffOver
<1>2. CASE HelloOk
  BY <1>2, EventSeqs DEF HelloOk
<1>3. CASE HelloBusy \/ HelloFails
  <2>1. CASE HelloBusy
    BY <2>1, RequestSeqs, EventSeqs DEF HelloBusy, HangUp
  <2>2. CASE HelloFails
    BY <2>2, RequestSeqs, EventSeqs DEF HelloFails, HangUp
  <2> QED
    BY <1>3, <2>1, <2>2
<1>4. CASE DriverStops
  BY <1>4, BridgeAssumption, RequestSeqs, EventSeqs
     DEF DriverStops, HangUp, AllFailed, Answered
<1>5. CASE RecvRefused
  <2>1. queue' \in Seq(Reqs) /\ Len(queue') <= Cap /\ Head(queue) \in Reqs
    BY <1>5, RequestSeqs, BridgeAssumption DEF RecvRefused
  <2>2. evs' \in Seq(Events)
    BY <1>5, EventSeqs DEF RecvRefused, ReadCancelled
  <2>3. fate' \in [Reqs -> Fates]
    BY <1>5, <2>1 DEF RecvRefused, Answered
  <2> QED
    BY <1>5, <2>1, <2>2, <2>3 DEF RecvRefused
<1>6. CASE RecvSent
  <2>1. queue' \in Seq(Reqs) /\ Len(queue') <= Cap /\ Head(queue) \in Reqs
    BY <1>6, RequestSeqs, BridgeAssumption DEF RecvSent
  <2>2. evs' \in Seq(Events)
    BY <1>6, EventSeqs DEF RecvSent, ReadCancelled
  <2>3. cmds' \in Seq(Reqs)
    BY <1>6, <2>1, RequestSeqs DEF RecvSent
  <2> QED
    BY <1>6, <2>1, <2>2, <2>3 DEF RecvSent
<1>7. CASE RecvWriteFails
  <2>1. queue' \in Seq(Reqs) /\ Len(queue') <= Cap
    BY <1>7, RequestSeqs, BridgeAssumption DEF RecvWriteFails
  <2>2. fate' \in [Reqs -> Fates]
    BY <1>7 DEF RecvWriteFails, SessionLost, AllFailed, Answered
  <2> QED
    BY <1>7, <2>1, <2>2, RequestSeqs, EventSeqs DEF RecvWriteFails, SessionLost, HangUp
<1>8. CASE ReadEvent
  <2>1. evs' \in Seq(Events)
    BY <1>8, EventSeqs DEF ReadEvent
  <2>2. pending' \in Reqs \cup {None} /\ fate' \in [Reqs -> Fates]
    BY <1>8 DEF ReadEvent, Answered
  <2> QED
    BY <1>8, <2>1, <2>2 DEF ReadEvent
<1>9. CASE ReadEof
  BY <1>9, RequestSeqs, EventSeqs DEF ReadEof, SessionLost, HangUp, AllFailed, Answered
<1>10. CASE \E r \in Reqs : Call("connect", r) \/ Call("disconnect", r)
  <2>1. PICK r \in Reqs, o \in {"connect", "disconnect"} : Call(o, r)
    BY <1>10
  <2>2. /\ kind' \in [Reqs -> {"start", "stop"}] /\ fate' \in [Reqs -> Fates]
        /\ ran' \in [Reqs -> Nat]
    BY <2>1 DEF Call
  <2>3. /\ api' = "send" /\ op' = o /\ req' = r
        /\ UNCHANGED <<drv, pending, queue, prompt, link, cmds, evs, core>>
    BY <2>1, Zenon DEF Call
  <2> QED
    BY <2>2, <2>3
<1>11. CASE Send
  <2>1. req \in Reqs
    BY <1>11 DEF Send, Slots
  <2>2. queue' \in Seq(Reqs) /\ Len(queue') <= Cap
    BY <1>11, <2>1, RequestSeqs, BridgeAssumption DEF Send
  <2> QED
    BY <1>11, <2>1, <2>2 DEF Send
<1>12. CASE Answer \/ Timeout
  <2>1. PICK f \in {"free", "abandoned"} : fate' = [fate EXCEPT ![req] = f]
    BY <1>12, Zenon DEF Answer, Timeout
  <2>2. fate' \in [Reqs -> Fates]
    BY <2>1
  <2>3. api' \in {"rpc", "idle"} /\ req' = None
    BY <1>12, Zenon DEF Answer, Timeout
  <2>4. UNCHANGED <<drv, pending, queue, op, kind, prompt, link, cmds, evs, core, ran>>
    BY <1>12, Zenon DEF Answer, Timeout
  <2> QED
    BY <2>2, <2>3, <2>4
<1>13. CASE RunInstance \/ Confirm \/ Cancel \/ Takeover \/ Shutdown \/ ShutdownReturns
  <2>1. api' \in {api, "idle", "quit", "gone"} /\ prompt' \in {prompt, "none", "confirmed"}
    BY <1>13, Zenon DEF RunInstance, Confirm, Cancel, Takeover, Shutdown, ShutdownReturns
  <2>2. UNCHANGED <<drv, pending, queue, kind, fate, op, req, link, cmds, evs, core, ran>>
    BY <1>13, Zenon DEF RunInstance, Confirm, Cancel, Takeover, Shutdown, ShutdownReturns
  <2> QED
    BY <2>1, <2>2
<1>14. CASE Greet
  <2>1. evs' \in Seq(Events) /\ link' \in {"up", "cut"}
    BY <1>14, EventSeqs DEF Greet, Types
  <2>2. UNCHANGED <<drv, pending, queue, kind, fate, api, op, req, prompt, cmds, core, ran>>
    BY <1>14, Zenon DEF Greet
  <2> QED
    BY <2>1, <2>2
<1>15. CASE Serve
  <2>1. cmds' \in Seq(Reqs) /\ Head(cmds) \in Reqs
    BY <1>15, RequestSeqs DEF Serve
  <2>2. PICK t \in {"started", "stopped", "error"} : evs' = Append(evs, Event(t, Head(cmds)))
    BY <1>15, Zenon DEF Serve
  <2>3. evs' \in Seq(Events)
    BY <2>1, <2>2, EventSeqs DEF Types
  <2>4. core' \in {"running", "stopped", core}
    BY <1>15, Zenon DEF Serve
  <2>5. ran' = [ran EXCEPT ![Head(cmds)] = @ + 1] \/ ran' = ran
    BY <1>15, Zenon DEF Serve
  <2>6. ran' \in [Reqs -> Nat]
    <3>1. ran \in [Reqs -> Nat] /\ Head(cmds) \in Reqs
      BY <2>1, Zenon
    <3> HIDE DEF Others
    <3> QED
      BY <2>5, <3>1
  <2>7. UNCHANGED <<drv, pending, queue, kind, fate, api, op, req, prompt, link>>
    BY <1>15, Zenon DEF Serve
  <2> QED
    <3>1. /\ drv' \in DrvPhases /\ pending' \in Reqs \cup {None}
          /\ queue' \in Seq(Reqs) /\ Len(queue') <= Cap
          /\ kind' \in [Reqs -> {"start", "stop"}] /\ fate' \in [Reqs -> Fates]
      BY <2>7
    <3>2. /\ api' \in ApiPhases /\ op' \in {"connect", "disconnect"}
          /\ req' \in Reqs \cup {None} /\ prompt' \in {"none", "shown", "confirmed"}
          /\ link' \in {"none", "hello", "up", "cut"}
      BY <2>7
    <3>3. core' \in {"stopped", "running", "dropped"}
      BY <2>4
    <3> QED
      BY <2>1, <2>3, <2>6, <3>1, <3>2, <3>3
<1>16. CASE ServeDies
  BY <1>16, RequestSeqs DEF ServeDies
<1>17. CASE CoreExits \/ PeerCloses \/ RivalMoves
  <2>1. evs' \in Seq(Events)
    BY <1>17, EventSeqs DEF CoreExits, PeerCloses, RivalMoves, Types
  <2>2. /\ core' \in {"stopped", "running", "dropped"}
        /\ link' \in {"none", "hello", "up", "cut"}
    BY <1>17 DEF CoreExits, PeerCloses, RivalMoves
  <2>3. UNCHANGED <<drv, pending, queue, kind, fate, api, op, req, prompt, cmds, ran>>
    BY <1>17, Zenon DEF CoreExits, PeerCloses, RivalMoves
  <2> QED
    BY <2>1, <2>2, <2>3
<1>18. CASE UNCHANGED vars
  BY <1>18
<1> QED
  BY <1>1, <1>2, <1>3, <1>4, <1>5, <1>6, <1>7, <1>8, <1>9, <1>10, <1>11, <1>12,
     <1>13, <1>14, <1>15, <1>16, <1>17, <1>18
     DEF Next, DriverStep, CallStep, AppStep, WorldStep, Finished

(* TypeOK is the conjunction of the two groups.                            *)
LEMMA TypeParts == TypeOK <=> Flags /\ Others
  BY DEF TypeOK, Flags, Others, Events, Types
-----------------------------------------------------------------------------
(* Who holds a request.                                                    *)

(* The channel holds requests.                                             *)
LEMMA QueueElements == Others => \A i \in DOMAIN queue : queue[i] \in Reqs
  BY DEF Others

(* The channel after its first request is received.                        *)
LEMMA QueueTail ==
  ASSUME Others, Slots, queue # <<>>, queue' = Tail(queue)
  PROVE  /\ Head(queue) \in Reqs /\ Head(queue) = queue[1] /\ 1 \in DOMAIN queue
         /\ \A i \in DOMAIN queue' : /\ i + 1 \in DOMAIN queue /\ queue'[i] = queue[i + 1]
                                     /\ queue'[i] \in Reqs /\ queue'[i] # Head(queue)
         /\ \A i, j \in DOMAIN queue' : queue'[i] = queue'[j] => i = j
<1>1. /\ Head(queue) \in Reqs /\ Head(queue) = queue[1] /\ 1 \in DOMAIN queue
      /\ queue' \in Seq(Reqs)
      /\ \A i \in DOMAIN queue' : i \in Nat \ {0} /\ i + 1 \in DOMAIN queue
                                  /\ queue'[i] = queue[i + 1]
  BY TailElements DEF Others
<1>2. \A i, j \in DOMAIN queue : queue[i] = queue[j] => i = j
  BY DEF Slots
<1>3. \A i \in DOMAIN queue' : queue'[i] \in Reqs
  BY <1>1
<1> QED
  BY <1>1, <1>2, <1>3

(* A request that the driver holds is answered and let go.                 *)
LEMMA AnswerOne ==
  ASSUME Others, Slots, NEW h \in Reqs, fate[h] \in {"waiting", "abandoned"},
         NEW res \in {"ok", "err"}, fate' = Answered(fate, h, res), UNCHANGED <<api, req>>,
         \A i \in DOMAIN queue' : queue'[i] # h /\ \E j \in DOMAIN queue : queue'[i] = queue[j],
         \A i, j \in DOMAIN queue' : queue'[i] = queue'[j] => i = j,
         pending' \in {None, pending} \ {h},
         \A j \in DOMAIN queue : queue[j] \in Reqs
  PROVE  Slots'
<1>1. /\ \A r \in Reqs \ {h} : fate'[r] = fate[r]
      /\ fate'[h] = IF fate[h] = "abandoned" THEN "free" ELSE res
  BY DEF Answered, Others
<1>2. \A i \in DOMAIN queue' : /\ queue'[i] \in Reqs \ {h}
                              /\ fate[queue'[i]] \in {"waiting", "abandoned"}
                              /\ queue'[i] # pending
  BY DEF Slots
<1>3. \A r \in Reqs : req' = r <=> fate'[r] \in {"sending", "waiting", "ok", "err"}
  BY <1>1 DEF Slots
<1>4. /\ req' # None <=> api' \in {"send", "await"}
      /\ api' = "send" => fate'[req'] = "sending"
      /\ api' = "await" => fate'[req'] # "sending"
  BY <1>1 DEF Slots, Others
<1>5. pending' # None => fate'[pending'] \in {"waiting", "abandoned"}
  BY <1>1 DEF Slots, Others
<1>6. \A i \in DOMAIN queue' : /\ fate'[queue'[i]] \in {"waiting", "abandoned"}
                              /\ queue'[i] # pending'
  BY <1>1, <1>2, BridgeAssumption
<1> QED
  BY <1>3, <1>4, <1>5, <1>6 DEF Slots

(* Every step keeps one holder for each request.                           *)
LEMMA SlotsStep == Others /\ Slots /\ [Next]_vars => Slots'
<1> SUFFICES ASSUME Others, Slots, [Next]_vars PROVE Slots'
  OBVIOUS
<1> USE DEF driverVars, permits, apiVars, reqVars, wireVars, worldVars, vars
<1>1. CASE UNCHANGED <<req, fate, queue, pending>> /\ (api' = api \/ {api, api'} \cap {"send", "await"} = {})
  BY <1>1 DEF Slots
<1>2. CASE DriverStops
  <2>1. /\ queue' = <<>> /\ pending' = None /\ UNCHANGED <<api, req>>
        /\ fate' = AllFailed(Queued \cup InFlight)
    BY <1>2, Zenon DEF DriverStops
  <2>2. \A r \in Reqs : \/ fate'[r] = fate[r]
                         \/ fate'[r] = IF fate[r] = "abandoned" THEN "free" ELSE "err"
    BY <2>1 DEF AllFailed, Answered, Others
  <2>3. \A r \in Queued \cup InFlight : fate[r] \in {"waiting", "abandoned"}
    BY DEF Slots, Queued, InFlight
  <2> QED
    BY <2>1, <2>2, <2>3 DEF Slots, AllFailed, Answered, Others, Fates
<1>3. CASE RecvRefused
  <2>1. /\ queue # <<>> /\ queue' = Tail(queue) /\ UNCHANGED <<api, req, pending>>
        /\ fate' = Answered(fate, Head(queue), "err")
    BY <1>3, Zenon DEF RecvRefused
  <2> QED
    <3>1. Head(queue) \in Reqs /\ fate[Head(queue)] \in {"waiting", "abandoned"}
      BY <2>1, QueueTail DEF Slots
    <3>2. /\ \A i \in DOMAIN queue' : /\ queue'[i] # Head(queue)
                                      /\ \E j \in DOMAIN queue : queue'[i] = queue[j]
          /\ \A i, j \in DOMAIN queue' : queue'[i] = queue'[j] => i = j
      BY <2>1, QueueTail
    <3>3. pending' = pending /\ pending # Head(queue)
      BY <2>1, QueueTail DEF Slots
    <3> QED
      BY <2>1, <3>1, <3>2, <3>3, QueueElements, AnswerOne
<1>4. CASE RecvSent
  <2>1. /\ queue # <<>> /\ queue' = Tail(queue) /\ pending' = Head(queue)
        /\ UNCHANGED <<api, req, fate>>
    BY <1>4, Zenon DEF RecvSent
  <2> QED
    BY <2>1, QueueTail DEF Slots
<1>5. CASE RecvWriteFails
  <2>1. /\ queue # <<>> /\ queue' = Tail(queue) /\ pending' = None /\ pending = None
        /\ UNCHANGED <<api, req>> /\ fate' = AllFailed(InFlight \cup {Head(queue)})
    BY <1>5, Zenon DEF RecvWriteFails, SessionLost
  <2>2. fate' = Answered(fate, Head(queue), "err")
    BY <2>1, QueueTail DEF AllFailed, Answered, InFlight, Others
  <2>3. Head(queue) \in Reqs \ {None} /\ fate[Head(queue)] \in {"waiting", "abandoned"}
    BY <2>1, QueueTail, BridgeAssumption DEF Slots
  <2>4. /\ \A i \in DOMAIN queue' : /\ queue'[i] # Head(queue)
                                    /\ \E j \in DOMAIN queue : queue'[i] = queue[j]
        /\ \A i, j \in DOMAIN queue' : queue'[i] = queue'[j] => i = j
    BY <2>1, QueueTail
  <2> QED
    BY <2>1, <2>2, <2>3, <2>4, QueueElements, AnswerOne
<1>6. CASE ReadEof \/ ReadEvent
  <2>1. CASE UNCHANGED <<pending, fate>>
    BY <1>6, <2>1, <1>1 DEF ReadEof, ReadEvent, SessionLost
  <2>2. CASE pending = None
    BY <1>6, <2>2, <1>1 DEF ReadEof, ReadEvent, SessionLost, AllFailed, InFlight, Others
  <2>3. CASE pending # None /\ ~UNCHANGED <<pending, fate>>
    <3>1. /\ pending' = None /\ UNCHANGED <<queue, api, req>>
          /\ \E res \in {"ok", "err"} : fate' = Answered(fate, pending, res)
      BY <1>6, <2>3 DEF ReadEof, ReadEvent, SessionLost, AllFailed, Answered, InFlight, Others
    <3> QED
      BY <2>3, <3>1, QueueElements, AnswerOne DEF Slots, Others
  <2> QED
    BY <2>1, <2>2, <2>3
<1>7. CASE \E r \in Reqs : Call("connect", r) \/ Call("disconnect", r)
  <2>1. PICK r \in Reqs : /\ api = "idle" /\ fate[r] = "free" /\ api' = "send" /\ req' = r
                          /\ fate' = [fate EXCEPT ![r] = "sending"]
                          /\ UNCHANGED <<queue, pending>>
    BY <1>7, Zenon DEF Call
  <2> QED
    BY <2>1, BridgeAssumption DEF Slots, Others, Fates
<1>8. CASE Send
  <2>1. /\ api = "send" /\ api' = "await" /\ queue' = Append(queue, req)
        /\ fate' = [fate EXCEPT ![req] = "waiting"] /\ UNCHANGED <<req, pending>>
    BY <1>8, Zenon DEF Send
  <2>2. req \in Reqs
    BY <2>1 DEF Slots, Others
  <2>3. \A i \in DOMAIN queue' : \/ i \in DOMAIN queue /\ queue'[i] = queue[i]
                                 \/ i = Len(queue) + 1 /\ i \notin DOMAIN queue /\ queue'[i] = req
    BY <2>1, <2>2, AppendElements DEF Others
  <2>4. \A r \in Reqs \ {req} : fate'[r] = fate[r]
    BY <2>1, <2>2 DEF Others
  <2>5. fate'[req] = "waiting" /\ fate[req] = "sending"
    BY <2>1, <2>2 DEF Others, Slots
  <2>6. req # pending /\ \A i \in DOMAIN queue : queue[i] # req
    BY <2>2, <2>5, BridgeAssumption DEF Slots
  <2>7. /\ \A i \in DOMAIN queue' : fate'[queue'[i]] \in {"waiting", "abandoned"}
        /\ \A i \in DOMAIN queue' : queue'[i] # pending
    BY <2>3, <2>4, <2>5, <2>6, QueueElements DEF Slots
  <2>8. \A i, j \in DOMAIN queue' : queue'[i] = queue'[j] => i = j
    BY <2>3, <2>6 DEF Slots
  <2> QED
    BY <2>1, <2>2, <2>4, <2>5, <2>7, <2>8 DEF Slots, Others
<1>9. CASE Answer \/ Timeout
  <2>1. /\ api = "await" /\ fate[req] # "abandoned" /\ req' = None
        /\ api' \in {"idle", "rpc"} /\ UNCHANGED <<queue, pending>>
        /\ \/ fate[req] \in {"ok", "err"} /\ fate' = [fate EXCEPT ![req] = "free"]
           \/ fate[req] = "waiting" /\ fate' = [fate EXCEPT ![req] = "abandoned"]
    BY <1>9 DEF Answer, Timeout
  <2>2. req \in Reqs
    BY <2>1 DEF Slots, Others
  <2>3. \A r \in Reqs \ {req} : fate'[r] = fate[r]
    BY <2>1, <2>2 DEF Others
  <2>4. \A r \in Reqs : fate'[r] \notin {"sending", "waiting", "ok", "err"}
    BY <2>1, <2>2, <2>3 DEF Slots, Others
  <2>5. \A i \in DOMAIN queue : fate'[queue[i]] \in {"waiting", "abandoned"}
    BY <2>1, <2>2, <2>3, QueueElements DEF Slots, Others
  <2>6. pending # None => fate'[pending] \in {"waiting", "abandoned"}
    BY <2>1, <2>2, <2>3 DEF Slots, Others
  <2> QED
    BY <2>1, <2>4, <2>5, <2>6, BridgeAssumption DEF Slots
<1>10. CASE \/ Dial \/ DialFails \/ HelloOk \/ HelloBusy \/ HelloFails \/ PausedTakeover
            \/ BackoffOver \/ RunInstance \/ Takeover \/ ShutdownReturns \/ Confirm \/ Cancel
            \/ Shutdown \/ WorldStep \/ Finished \/ UNCHANGED vars
  BY <1>1, <1>10
     DEF Dial, DialFails, HelloOk, HelloBusy, HelloFails, PausedTakeover, BackoffOver,
         RunInstance, Takeover, ShutdownReturns, Confirm, Cancel, Shutdown, WorldStep,
         Greet, Serve, ServeDies, CoreExits, PeerCloses, RivalMoves, Finished
<1> QED
  BY <1>2, <1>3, <1>4, <1>5, <1>6, <1>7, <1>8, <1>9, <1>10
     DEF Next, DriverStep, CallStep, AppStep
-----------------------------------------------------------------------------
(* What is on the wire.                                                    *)

(* Reading or losing the first event leaves the others in their order.     *)
LEMMA EventsTail ==
  ASSUME Others, evs # <<>>, evs' = Tail(evs)
  PROVE  /\ 1 \in DOMAIN evs /\ Head(evs) = evs[1]
         /\ \A i \in DOMAIN evs' : i \in Nat \ {0} /\ i + 1 \in DOMAIN evs /\ evs'[i] = evs[i + 1]
  BY TailElements DEF Others

(* An event that is written comes after the others.                        *)
LEMMA EventsAppend ==
  ASSUME Others, NEW t \in Types, NEW r \in Reqs \cup {None},
         evs' = Append(evs, [type |-> t, req |-> r])
  PROVE  \A i \in DOMAIN evs' :
           \/ i \in DOMAIN evs /\ evs'[i] = evs[i]
           \/ i = Len(evs) + 1 /\ i \notin DOMAIN evs /\ evs'[i].type = t
<1> DEFINE e == [type |-> t, req |-> r]
<1>1. e \in Events /\ e.type = t
  BY DEF Events
<1> HIDE DEF e
<1>2. evs' = Append(evs, e)
  BY DEF e
<1> QED
  BY <1>1, <1>2, AppendElements DEF Others

(* Every step keeps to the phases of the wire.                             *)
LEMMA WireStep == Others /\ WirePhases /\ [Next]_vars => WirePhases'
<1> SUFFICES ASSUME Others, WirePhases, [Next]_vars PROVE WirePhases'
  OBVIOUS
<1> USE DEF driverVars, permits, apiVars, reqVars, wireVars, worldVars, vars
<1>1. CASE UNCHANGED <<drv, pending, link, cmds, evs>>
  BY <1>1 DEF WirePhases
<1>2. CASE /\ drv' \notin {"hello", "session"} /\ pending' = None
           /\ link' = "none" /\ cmds' = <<>> /\ evs' = <<>>
  BY <1>2 DEF WirePhases
<1>3. CASE DialFails \/ PausedTakeover \/ BackoffOver
  BY <1>2, <1>3 DEF DialFails, PausedTakeover, BackoffOver, WirePhases
<1>4. CASE HelloBusy \/ HelloFails
  BY <1>2, <1>4 DEF HelloBusy, HelloFails, HangUp, WirePhases
<1>5. CASE DriverStops \/ RecvWriteFails \/ ReadEof
  BY <1>2, <1>5 DEF DriverStops, RecvWriteFails, ReadEof, SessionLost, HangUp
<1>6. CASE Dial
  BY <1>6 DEF Dial, WirePhases
<1>7. CASE HelloOk
  <2>1. /\ drv = "hello" /\ drv' = "session" /\ evs # <<>> /\ evs' = Tail(evs)
        /\ UNCHANGED <<pending, link, cmds>>
    BY <1>7, Zenon DEF HelloOk
  <2>2. \A i \in DOMAIN evs' : evs'[i].type \notin Replies
    BY <2>1, EventsTail DEF WirePhases
  <2> QED
    BY <2>1, <2>2 DEF WirePhases
<1>8. CASE RecvRefused
  <2>1. /\ drv = "session" /\ UNCHANGED <<drv, pending, link, cmds>>
        /\ (evs' = evs \/ (evs # <<>> /\ evs' = Tail(evs)))
    BY <1>8, Zenon DEF RecvRefused, ReadCancelled
  <2>2. CASE evs' = evs
    BY <1>1, <2>1, <2>2
  <2>3. CASE evs # <<>> /\ evs' = Tail(evs)
    BY <2>1, <2>3, EventsTail DEF WirePhases
  <2> QED
    BY <2>1, <2>2, <2>3
<1>9. CASE RecvSent
  <2>1. /\ drv = "session" /\ queue # <<>> /\ pending = None /\ pending' = Head(queue)
        /\ cmds' = Append(cmds, Head(queue)) /\ UNCHANGED <<drv, link>>
        /\ (evs' = evs \/ (evs # <<>> /\ evs' = Tail(evs)))
    BY <1>9, Zenon DEF RecvSent, ReadCancelled
  <2>2. cmds = <<>> /\ \A i \in DOMAIN evs : evs[i].type \notin Replies
    BY <2>1 DEF WirePhases
  <2>3. \A i \in DOMAIN evs' : evs'[i].type \notin Replies
    BY <2>1, <2>2, EventsTail
  <2>4. pending' # None /\ cmds' = <<pending'>>
    BY <2>1, <2>2, RequestSeqs, BridgeAssumption DEF Others
  <2>5. link' # "hello"
    BY <2>1 DEF WirePhases
  <2> QED
    BY <2>1, <2>3, <2>4, <2>5 DEF WirePhases
<1>10. CASE ReadEvent
  <2>1. /\ drv = "session" /\ evs # <<>> /\ evs' = Tail(evs) /\ UNCHANGED <<drv, link, cmds>>
        /\ IF Head(evs).type \in Replies /\ pending # None
           THEN pending' = None ELSE pending' = pending
    BY <1>10 DEF ReadEvent, Replies
  <2>2. CASE Head(evs).type \in Replies
    <3>1. pending # None /\ cmds = <<>>
      BY <2>1, <2>2, EventsTail DEF WirePhases
    <3>2. \A i \in DOMAIN evs' : evs'[i].type \notin Replies
      BY <2>1, <2>2, EventsTail DEF WirePhases
    <3> QED
      BY <2>1, <2>2, <3>1, <3>2 DEF WirePhases
  <2>3. CASE Head(evs).type \notin Replies
    BY <2>1, <2>3, EventsTail DEF WirePhases
  <2> QED
    BY <2>2, <2>3
<1>11. CASE Greet
  <2>1. /\ link = "hello" /\ link' \in {"up", "cut"} /\ UNCHANGED <<drv, pending, cmds>>
        /\ \/ evs' = <<>>
           \/ \E t \in {"hello", "busy", "error"} : evs' = <<Push(t)>>
    BY <1>11, Zenon DEF Greet
  <2>2. \A i \in DOMAIN evs' : i = 1 /\ evs'[i].type \in {"hello", "busy", "error"}
    BY <2>1 DEF Push, Event
  <2> QED
    BY <2>1, <2>2 DEF WirePhases, Replies
<1>12. CASE Serve
  <2>1. PICK t \in Replies :
          /\ cmds # <<>> /\ cmds' = Tail(cmds) /\ UNCHANGED <<drv, pending, link>>
          /\ link = "up" /\ evs' = Append(evs, [type |-> t, req |-> Head(cmds)])
    BY <1>12, Zenon DEF Serve, Replies, Event
  <2>2. drv = "session" /\ pending # None /\ \A i \in DOMAIN evs : evs[i].type \notin Replies
    BY <2>1 DEF WirePhases
  <2>3. cmds' = <<>>
    BY <2>1 DEF WirePhases, Others
  <2>4. Head(cmds) \in Reqs \cup {None} /\ t \in Types
    BY <2>1, RequestSeqs DEF Others, Replies, Types
  <2>5. \A i \in DOMAIN evs' : evs'[i].type \in Replies => i = Len(evs) + 1
    BY <2>1, <2>2, <2>4, EventsAppend
  <2> QED
    BY <2>1, <2>2, <2>3, <2>5 DEF WirePhases
<1>13. CASE ServeDies
  <2>1. /\ cmds # <<>> /\ cmds' = Tail(cmds) /\ link' = "cut" /\ UNCHANGED <<drv, pending, evs>>
    BY <1>13, Zenon DEF ServeDies
  <2>2. cmds' = <<>> /\ drv = "session"
    BY <2>1 DEF WirePhases, Others
  <2> QED
    BY <2>1, <2>2 DEF WirePhases
<1>14. CASE CoreExits \/ PeerCloses
  <2>1. /\ UNCHANGED <<drv, pending, cmds>>
        /\ \/ UNCHANGED <<link, evs>>
           \/ /\ link = "up" /\ link' \in {"up", "cut"}
              /\ evs' \in {evs, Append(evs, Push("exited")), Append(evs, Push("kicked"))}
    BY <1>14 DEF CoreExits, PeerCloses
  <2>2. CASE UNCHANGED <<link, evs>>
    BY <1>1, <2>1, <2>2
  <2>3. CASE link = "up" /\ link' \in {"up", "cut"} /\ evs' = evs
    BY <2>1, <2>3 DEF WirePhases
  <2>4. ASSUME NEW t \in {"exited", "kicked"}, link = "up", link' \in {"up", "cut"},
               evs' = Append(evs, Push(t))
        PROVE  WirePhases'
    <3>1. t \in Types /\ evs' = Append(evs, [type |-> t, req |-> None])
      BY <2>4 DEF Types, Push, Event
    <3>2. drv \in {"hello", "session"}
      BY <2>4 DEF WirePhases
    <3>3. \A i \in DOMAIN evs' : evs'[i].type \in Replies => i \in DOMAIN evs /\ evs'[i] = evs[i]
      BY <3>1, EventsAppend DEF Replies
    <3> QED
      BY <2>1, <2>4, <3>2, <3>3 DEF WirePhases
  <2> QED
    BY <2>1, <2>2, <2>3, <2>4
<1>15. CASE \/ CallStep \/ AppStep \/ RivalMoves \/ Finished \/ UNCHANGED vars
  BY <1>1, <1>15, Zenon
     DEF CallStep, AppStep, Send, Answer, Timeout, RunInstance, Takeover, ShutdownReturns,
         Call, Confirm, Cancel, Shutdown, RivalMoves, Finished
<1> QED
  BY <1>3, <1>4, <1>5, <1>6, <1>7, <1>8, <1>9, <1>10, <1>11, <1>12, <1>13, <1>14, <1>15
     DEF Next, DriverStep, WorldStep
-----------------------------------------------------------------------------
(* How far a request has got.                                              *)

Done == {"started", "stopped"}

(* A step that carries nothing out, sends nothing and reports no success.  *)
LEMMA ProgressFrame ==
  ASSUME Others, Progress, ran' = ran,
         \A r \in Reqs : fate'[r] = fate[r] \/ fate'[r] \in {"free", "err", "waiting", "abandoned"},
         \A i \in DOMAIN queue' : \E j \in DOMAIN queue : queue'[i] = queue[j],
         \/ /\ pending' = pending /\ cmds' \in {cmds, <<>>}
            /\ \A i \in DOMAIN evs' : evs'[i].type \in Done => \E j \in DOMAIN evs : evs'[i] = evs[j]
         \/ cmds' = <<>> /\ \A i \in DOMAIN evs' : evs'[i].type \notin Done
  PROVE  Progress'
<1>1. /\ \A r \in Reqs : ran'[r] <= 1
      /\ \A r \in Reqs : fate'[r] = "sending" => ran'[r] = 0
      /\ \A i \in DOMAIN queue' : ran'[queue'[i]] = 0
      /\ OkMeansExecuted'
  BY DEF Progress, OkMeansExecuted
<1>2. /\ cmds' # <<>> => ran'[pending'] = 0
      /\ \A i \in DOMAIN evs' : evs'[i].type \in Done => ran'[pending'] = 1
  BY DEF Progress, Done
<1> QED
  BY <1>1, <1>2 DEF Progress, Done

(* Every step carries a request out at most once.                          *)
LEMMA ProgressStep ==
  Others /\ Slots /\ WirePhases /\ Progress /\ WirePhases' /\ [Next]_vars => Progress'
<1> SUFFICES ASSUME Others, Slots, WirePhases, Progress, WirePhases', [Next]_vars
             PROVE  Progress'
  OBVIOUS
<1> USE DEF driverVars, permits, apiVars, reqVars, wireVars, worldVars, vars
<1>1. CASE /\ UNCHANGED <<ran, queue, pending, cmds, evs>>
           /\ \A r \in Reqs : fate'[r] = fate[r] \/ fate'[r] \in {"free", "abandoned"}
  BY <1>1, ProgressFrame
<1>2. CASE HangUp /\ UNCHANGED ran /\ (queue' = queue \/ queue' = <<>> \/ RecvWriteFails)
           /\ (fate' = fate \/ \E S : fate' = AllFailed(S))
  <2>1. cmds' = <<>> /\ evs' = <<>>
    BY <1>2 DEF HangUp
  <2>2. \A r \in Reqs : fate'[r] = fate[r] \/ fate'[r] \in {"free", "err"}
    BY <1>2 DEF AllFailed, Answered, Others
  <2>3. \A i \in DOMAIN queue' : \E j \in DOMAIN queue : queue'[i] = queue[j]
    BY <1>2, QueueTail DEF RecvWriteFails
  <2> QED
    BY <1>2, <2>1, <2>2, <2>3, ProgressFrame
<1>3. CASE HelloBusy \/ HelloFails \/ DriverStops \/ RecvWriteFails \/ ReadEof
  <2>1. HangUp /\ UNCHANGED ran /\ (queue' = queue \/ queue' = <<>> \/ RecvWriteFails)
    BY <1>3, Zenon DEF HelloBusy, HelloFails, DriverStops, RecvWriteFails, ReadEof, SessionLost
  <2>2. fate' = fate \/ \E S : fate' = AllFailed(S)
    BY <1>3, Zenon DEF HelloBusy, HelloFails, DriverStops, RecvWriteFails, ReadEof, SessionLost
  <2> QED
    BY <1>2, <2>1, <2>2
<1>4. CASE Dial \/ DialFails \/ PausedTakeover \/ BackoffOver
  BY <1>1, <1>4, Zenon DEF Dial, DialFails, PausedTakeover, BackoffOver
<1>5. CASE HelloOk
  <2>1. evs # <<>> /\ evs' = Tail(evs) /\ UNCHANGED <<ran, fate, queue, pending, cmds>>
    BY <1>5, Zenon DEF HelloOk
  <2> QED
    BY <2>1, EventsTail, ProgressFrame
<1>6. CASE RecvRefused
  <2>1. /\ queue # <<>> /\ queue' = Tail(queue) /\ UNCHANGED <<ran, pending, cmds>>
        /\ fate' = Answered(fate, Head(queue), "err")
        /\ (evs' = evs \/ (evs # <<>> /\ evs' = Tail(evs)))
    BY <1>6, Zenon DEF RecvRefused, ReadCancelled
  <2>2. \A r \in Reqs : fate'[r] = fate[r] \/ fate'[r] \in {"free", "err"}
    BY <2>1 DEF Answered, Others
  <2>3. \A i \in DOMAIN queue' : \E j \in DOMAIN queue : queue'[i] = queue[j]
    BY <2>1, QueueTail
  <2>4. \A i \in DOMAIN evs' : \E j \in DOMAIN evs : evs'[i] = evs[j]
    BY <2>1, EventsTail
  <2> QED
    BY <2>1, <2>2, <2>3, <2>4, ProgressFrame
<1>7. CASE RecvSent
  <2>1. /\ drv = "session" /\ queue # <<>> /\ pending = None /\ pending' = Head(queue)
        /\ queue' = Tail(queue) /\ UNCHANGED <<fate, ran>>
        /\ (evs' = evs \/ (evs # <<>> /\ evs' = Tail(evs)))
    BY <1>7, Zenon DEF RecvSent, ReadCancelled
  <2>2. \A i \in DOMAIN evs : evs[i].type \notin Done
    BY <2>1 DEF WirePhases, Replies, Done
  <2>3. \A i \in DOMAIN evs' : evs'[i].type \notin Done
    BY <2>1, <2>2, EventsTail
  <2>4. ran[pending'] = 0 /\ \A i \in DOMAIN queue' : ran[queue'[i]] = 0
    BY <2>1, QueueTail DEF Progress
  <2> QED
    BY <2>1, <2>3, <2>4 DEF Progress, OkMeansExecuted, Done
<1>8. CASE ReadEvent
  <2>1. /\ drv = "session" /\ evs # <<>> /\ evs' = Tail(evs) /\ UNCHANGED <<ran, queue, cmds>>
    BY <1>8, Zenon DEF ReadEvent
  <2>2. CASE UNCHANGED <<pending, fate>>
    BY <2>1, <2>2, EventsTail, ProgressFrame
  <2>3. CASE pending # None /\ pending' = None /\ Head(evs).type \in Replies
             /\ \E res \in {"ok", "err"} :
                  fate' = Answered(fate, pending, res) /\ (res = "ok" => Head(evs).type \in Done)
    <3>1. cmds' = <<>> /\ \A i \in DOMAIN evs' : evs'[i].type \notin Done
      BY <2>1, <2>3, EventsTail DEF WirePhases, Replies, Done
    <3>2. PICK res \in {"ok", "err"} :
            fate' = Answered(fate, pending, res) /\ (res = "ok" => Head(evs).type \in Done)
      BY <2>3
    <3>3. res = "ok" => ran[pending] = 1
      BY <2>1, <3>2, EventsTail DEF Progress, Done
    <3>4. /\ \A r \in Reqs : fate'[r] = "sending" => fate[r] = "sending"
          /\ \A r \in Reqs : fate'[r] = "ok" => fate[r] = "ok" \/ (r = pending /\ res = "ok")
      BY <3>2 DEF Answered, Others
    <3>5. OkMeansExecuted'
      BY <2>1, <3>3, <3>4 DEF Progress, OkMeansExecuted
    <3> QED
      BY <2>1, <3>1, <3>4, <3>5 DEF Progress, Done
  <2> QED
    BY <1>8, <2>2, <2>3 DEF ReadEvent, Replies, Done
<1>9. CASE \E r \in Reqs : Call("connect", r) \/ Call("disconnect", r)
  <2>1. PICK r \in Reqs : /\ fate[r] = "free" /\ fate' = [fate EXCEPT ![r] = "sending"]
                          /\ ran' = [ran EXCEPT ![r] = 0]
                          /\ UNCHANGED <<queue, pending, cmds, evs>>
    BY <1>9, Zenon DEF Call
  <2>2. /\ \A q \in Reqs \ {r} : ran'[q] = ran[q] /\ fate'[q] = fate[q]
        /\ ran'[r] = 0 /\ fate'[r] = "sending"
    BY <2>1 DEF Others
  <2>3. r # pending \/ pending = None
    BY <2>1 DEF Slots
  <2>4. \A i \in DOMAIN queue : queue[i] \in Reqs \ {r}
    BY <2>1, QueueElements DEF Slots
  <2>5. cmds # <<>> \/ (\E i \in DOMAIN evs : evs[i].type \in Done) => pending # None
    BY DEF WirePhases, Replies, Done
  <2>6. pending # None => ran'[pending] = ran[pending]
    BY <2>2, <2>3 DEF Others
  <2>7. /\ \A q \in Reqs : ran'[q] <= 1
        /\ \A q \in Reqs : fate'[q] = "sending" => ran'[q] = 0
        /\ \A q \in Reqs : fate'[q] = "ok" => ran'[q] > 0
    BY <2>2 DEF Progress, OkMeansExecuted
  <2>8. \A i \in DOMAIN queue' : ran'[queue'[i]] = 0
    BY <2>1, <2>2, <2>4 DEF Progress
  <2>9. /\ cmds' # <<>> => ran'[pending'] = 0
        /\ \A i \in DOMAIN evs' : evs'[i].type \in Done => ran'[pending'] = 1
    BY <2>1, <2>5, <2>6 DEF Progress, Done
  <2> QED
    BY <2>7, <2>8, <2>9 DEF Progress, OkMeansExecuted, Done
<1>10. CASE Send
  <2>1. /\ api = "send" /\ queue' = Append(queue, req) /\ UNCHANGED <<ran, pending, cmds, evs>>
        /\ fate' = [fate EXCEPT ![req] = "waiting"]
    BY <1>10, Zenon DEF Send
  <2>2. req \in Reqs /\ fate[req] = "sending"
    BY <2>1 DEF Slots, Others
  <2>3. \A i \in DOMAIN queue' : (i \in DOMAIN queue /\ queue'[i] = queue[i]) \/ queue'[i] = req
    BY <2>1, <2>2, AppendElements DEF Others
  <2>4. \A r \in Reqs : fate'[r] = fate[r] \/ fate'[r] = "waiting"
    BY <2>1, <2>2 DEF Others
  <2> QED
    BY <2>1, <2>2, <2>3, <2>4 DEF Progress, OkMeansExecuted
<1>11. CASE Answer \/ Timeout
  <2>1. /\ UNCHANGED <<ran, queue, pending, cmds, evs>>
        /\ fate' \in {[fate EXCEPT ![req] = "free"], [fate EXCEPT ![req] = "abandoned"]}
    BY <1>11, Zenon DEF Answer, Timeout
  <2>2. \A r \in Reqs : fate'[r] = fate[r] \/ fate'[r] \in {"free", "abandoned"}
    BY <2>1 DEF Others
  <2> QED
    BY <1>1, <2>1, <2>2
<1>12. CASE Serve \/ ServeDies
  <2>1. /\ cmds # <<>> /\ cmds' = Tail(cmds) /\ UNCHANGED <<queue, fate, pending>>
    BY <1>12, Zenon DEF Serve, ServeDies
  <2>2. /\ cmds' = <<>> /\ Head(cmds) = pending /\ pending \in Reqs /\ drv = "session"
        /\ ran[pending] = 0 /\ \A i \in DOMAIN evs : evs[i].type \notin Done
    BY <2>1 DEF WirePhases, Progress, Others, Replies, Done
  <2>3. \/ /\ ran' = [ran EXCEPT ![pending] = @ + 1]
           /\ \/ evs' = evs
              \/ \E t \in Done : evs' = Append(evs, [type |-> t, req |-> pending])
        \/ ran' = ran /\ evs' = Append(evs, [type |-> "error", req |-> pending])
    BY <1>12, <2>2, Zenon DEF Serve, ServeDies, Event, Done
  <2>4. CASE ran' = ran /\ evs' = Append(evs, [type |-> "error", req |-> pending])
    <3>1. \A i \in DOMAIN evs' : evs'[i].type \notin Done
      BY <2>2, <2>4, EventsAppend DEF Done, Types
    <3> QED
      BY <2>1, <2>2, <2>4, <3>1, ProgressFrame
  <2>5. CASE ran' = [ran EXCEPT ![pending] = @ + 1]
    <3>1. ran'[pending] = 1 /\ \A r \in Reqs \ {pending} : ran'[r] = ran[r]
      BY <2>2, <2>5 DEF Others
    <3>2. fate[pending] \in {"waiting", "abandoned"}
      BY <2>2, BridgeAssumption DEF Slots
    <3>3. \A i \in DOMAIN queue : queue[i] \in Reqs \ {pending}
      BY QueueElements DEF Slots
    <3>4. /\ \A r \in Reqs : ran'[r] <= 1
          /\ \A r \in Reqs : fate'[r] = "sending" => ran'[r] = 0
          /\ \A r \in Reqs : fate'[r] = "ok" => ran'[r] > 0
      BY <2>1, <3>1, <3>2 DEF Progress, OkMeansExecuted
    <3>5. \A i \in DOMAIN queue' : ran'[queue'[i]] = 0
      BY <2>1, <3>1, <3>3 DEF Progress
    <3> QED
      BY <2>1, <2>2, <3>1, <3>4, <3>5 DEF Progress, OkMeansExecuted
  <2> QED
    BY <2>3, <2>4, <2>5
<1>13. CASE CoreExits \/ PeerCloses
  <2>1. /\ UNCHANGED <<ran, fate, queue, pending, cmds>>
        /\ \/ evs' = evs
           \/ \E t \in {"exited", "kicked"} : evs' = Append(evs, [type |-> t, req |-> None])
    BY <1>13, Zenon DEF CoreExits, PeerCloses, Push, Event
  <2>2. \A i \in DOMAIN evs' : evs'[i].type \in Done => \E j \in DOMAIN evs : evs'[i] = evs[j]
    BY <2>1, EventsAppend DEF Done, Types
  <2> QED
    BY <2>1, <2>2, ProgressFrame
<1>14. CASE Greet
  <2>1. /\ UNCHANGED <<ran, fate, queue, pending, cmds>> /\ link = "hello"
        /\ \/ evs' = <<>>
           \/ \E t \in {"hello", "busy", "error"} : evs' = <<Push(t)>>
    BY <1>14, Zenon DEF Greet
  <2>2. \A i \in DOMAIN evs' : evs'[i].type \notin Done
    BY <2>1 DEF Push, Event, Done
  <2> QED
    BY <2>1, <2>2, ProgressFrame
<1>15. CASE \/ RunInstance \/ Takeover \/ ShutdownReturns \/ Confirm \/ Cancel \/ Shutdown
            \/ RivalMoves \/ Finished \/ UNCHANGED vars
  BY <1>1, <1>15, Zenon
     DEF RunInstance, Takeover, ShutdownReturns, Confirm, Cancel, Shutdown, RivalMoves, Finished
<1> QED
  BY <1>3, <1>4, <1>5, <1>6, <1>7, <1>8, <1>9, <1>10, <1>11, <1>12, <1>13, <1>14, <1>15
     DEF Next, DriverStep, CallStep, AppStep, WorldStep
-----------------------------------------------------------------------------
(* Where a confirmed takeover is.                                          *)

(* Every step keeps a takeover to the confirmation that paid for it.       *)
LEMMA ConsentStep == Flags /\ Others /\ Consent /\ [Next]_vars => Consent'
<1> SUFFICES ASSUME Flags, Others, Consent, [Next]_vars PROVE Consent'
  OBVIOUS
<1> USE DEF Consent, TakeoverConsented, driverVars, permits, apiVars, reqVars, wireVars,
            worldVars, vars
<1>1. CASE Dial \/ DialFails \/ PausedTakeover \/ BackoffOver
  BY <1>1 DEF Dial, DialFails, PausedTakeover, BackoffOver
<1>2. CASE HelloOk \/ HelloBusy \/ HelloFails \/ DriverStops
  BY <1>2 DEF HelloOk, HelloBusy, HelloFails, DriverStops
<1>3. CASE RecvRefused \/ RecvSent \/ RecvWriteFails \/ ReadEvent \/ ReadEof
  BY <1>3 DEF RecvRefused, RecvSent, RecvWriteFails, ReadEvent, ReadEof, SessionLost
<1>4. CASE Takeover \/ Confirm \/ Cancel \/ Shutdown
  BY <1>4 DEF Takeover, Confirm, Cancel, Shutdown, Others
<1>5. CASE UNCHANGED <<drv, nextTake, takeover, prompt, consent>>
  BY <1>5
<1> QED
  BY <1>1, <1>2, <1>3, <1>4, <1>5
     DEF Next, DriverStep, CallStep, AppStep, WorldStep, Call, Send, Answer, Timeout,
         RunInstance, ShutdownReturns, Greet, Serve, ServeDies, CoreExits, PeerCloses,
         RivalMoves, Finished
-----------------------------------------------------------------------------
(* The inductive invariant holds in every state of every behaviour.        *)
THEOREM Invariance == Spec => []Inv
<1>1. Init => Inv
  <2> SUFFICES ASSUME Init PROVE Inv
    OBVIOUS
  <2>1. Flags /\ Consent
    BY DEF Init, Flags, Consent, TakeoverConsented
  <2>2. Others
    BY BridgeAssumption DEF Init, Others, DrvPhases, ApiPhases, Fates
  <2>3. Slots /\ WirePhases
    BY BridgeAssumption DEF Init, Slots, WirePhases
  <2>4. Progress
    BY DEF Init, Progress, OkMeansExecuted
  <2> QED
    BY <2>1, <2>2, <2>3, <2>4, TypeParts DEF Inv
<1>2. Inv /\ [Next]_vars => Inv'
  <2> SUFFICES ASSUME Inv, [Next]_vars PROVE Inv'
    OBVIOUS
  <2>1. Flags /\ Others /\ Slots /\ WirePhases /\ Progress /\ Consent
    BY TypeParts DEF Inv
  <2>2. Flags' /\ Others'
    BY <2>1, FlagStep, OtherStep
  <2>3. Slots' /\ WirePhases' /\ Consent'
    BY <2>1, SlotsStep, WireStep, ConsentStep
  <2>4. Progress'
    BY <2>1, <2>3, ProgressStep
  <2>5. TypeOK'
    BY <2>2 DEF TypeOK, Flags, Others, Events, Types
  <2> QED
    BY <2>3, <2>4, <2>5 DEF Inv
<1> QED
  BY <1>1, <1>2, PTL DEF Spec

(* Every variable of the bridge keeps its type and the channel its bound.  *)
THEOREM BridgeTypeCorrect == Spec => []TypeOK
  BY Invariance, PTL DEF Inv

(* A call that is told ok had its own command carried out: replies without *)
(* an id reach the right request although callers time out, sessions are   *)
(* lost and lines are torn.                                                *)
THEOREM RepliesMatch == Spec => []OkMeansExecuted
  BY Invariance, PTL DEF Inv, Progress

(* The supervisor carries no request out twice, however often the driver   *)
(* reconnects.                                                             *)
THEOREM NeverRepeated == Spec => []AtMostOnce
<1>1. Inv => AtMostOnce
  BY DEF Inv, Progress, AtMostOnce
<1> QED
  BY <1>1, Invariance, PTL

(* The driver takes a lease over only with a confirmation of its own.      *)
THEOREM TakeoverHasConsent == Spec => []TakeoverConsented
  BY Invariance, PTL DEF Inv, Consent
-----------------------------------------------------------------------------
(* What becomes of a stop.                                                 *)

\* One call at a time, and the channel is a queue: the request of the call in
\* progress is the last in the channel, none follows it when it is in flight,
\* and nothing else is left once it is carried out.
Last ==
  /\ op = "disconnect" /\ req # None => kind[req] = "stop"
  /\ \A i \in DOMAIN queue : queue[i] = req => i = Len(queue)
  /\ req # None /\ req = pending => queue = <<>>
  /\ req # None /\ ran[req] = 1 => queue = <<>> /\ pending \in {req, None}
  /\ req # None /\ kind[req] = "stop" /\ ran[req] = 1 => core # "running"

(* A step that sends no request, carries none out and starts no core.      *)
LEMMA LastFrame ==
  ASSUME Last, UNCHANGED <<op, kind, ran>>, req' \in {req, None}, None \notin Reqs, Others,
         queue' = queue \/ queue' = <<>>, pending' \in {pending, None},
         core' = core \/ core' # "running"
  PROVE  Last'
<1>1. \A i \in DOMAIN queue : queue[i] # None
  BY QueueElements
<1>2. \A i \in DOMAIN queue' : queue'[i] = req' => i = Len(queue')
  BY <1>1 DEF Last
<1> QED
  BY <1>2 DEF Last

(* The driver receives the first request of the channel.                   *)
LEMMA LastReceive ==
  ASSUME Last, Others, Slots, queue # <<>>, queue' = Tail(queue),
         UNCHANGED <<op, req, kind, ran>>, core' = core \/ core' # "running",
         \/ pending' = None
         \/ pending' = pending
         \/ pending' = Head(queue)
  PROVE  Last'
<1>1. \A i \in DOMAIN queue' : queue'[i] = req => i = Len(queue')
  <2>1. Len(queue') = Len(queue) - 1 /\ Len(queue) \in Nat
    BY RequestSeqs DEF Others
  <2>2. ASSUME NEW i \in DOMAIN queue', queue'[i] = req PROVE i = Len(queue')
    <3>1. i \in Nat /\ i + 1 \in DOMAIN queue /\ queue[i + 1] = req
      BY <2>2, TailElements DEF Others
    <3> QED
      BY <2>1, <3>1 DEF Last
  <2> QED
    BY <2>2
<1>2. Head(queue) = req => queue' = <<>>
  <2>1. Head(queue) = queue[1] /\ 1 \in DOMAIN queue
    BY QueueTail
  <2>2. ASSUME Head(queue) = req PROVE queue' = <<>>
    <3>1. Len(queue) = 1
      BY <2>1, <2>2 DEF Last
    <3>2. queue' \in Seq(Reqs) /\ Len(queue') = 0
      BY <3>1, RequestSeqs DEF Others
    <3> QED
      BY <3>2, EmptySeq
  <2> QED
    BY <2>2
<1> QED
  BY <1>1, <1>2 DEF Last

(* Every step keeps the request of the call in progress the last one.      *)
LEMMA LastStep == Inv /\ Last /\ [Next]_vars => Last'
<1> SUFFICES ASSUME Inv, Last, [Next]_vars PROVE Last'
  OBVIOUS
<1>1. Others /\ Slots /\ WirePhases /\ Progress /\ None \notin Reqs
  BY TypeParts, BridgeAssumption DEF Inv
<1> USE DEF driverVars, permits, apiVars, reqVars, wireVars, worldVars, vars
<1>2. CASE \/ Dial \/ DialFails \/ PausedTakeover \/ BackoffOver \/ HelloOk \/ HelloBusy
           \/ HelloFails \/ DriverStops \/ ReadEvent \/ ReadEof
  <2>1. UNCHANGED <<op, req, kind, ran>> /\ (queue' = queue \/ queue' = <<>>)
    BY <1>2, Zenon DEF Dial, DialFails, PausedTakeover, BackoffOver, HelloOk, HelloBusy,
                       HelloFails, DriverStops, ReadEvent, ReadEof
  <2>2. pending' = pending \/ pending' = None
    BY <1>2, Zenon DEF Dial, DialFails, PausedTakeover, BackoffOver, HelloOk, HelloBusy,
                       HelloFails, DriverStops, ReadEvent, ReadEof, SessionLost
  <2>3. core' = core \/ core' = IF core = "running" THEN "dropped" ELSE core
    BY <1>2, Zenon DEF Dial, DialFails, PausedTakeover, BackoffOver, HelloOk, HelloBusy,
                       HelloFails, DriverStops, ReadEvent, ReadEof, SessionLost, HangUp
  <2> QED
    BY <1>1, <2>1, <2>2, <2>3, LastFrame
<1>3. CASE RecvRefused \/ RecvSent \/ RecvWriteFails
  <2>1. queue # <<>> /\ queue' = Tail(queue) /\ UNCHANGED <<op, req, kind, ran>>
    BY <1>3, Zenon DEF RecvRefused, RecvSent, RecvWriteFails
  <2>2. pending' = None \/ pending' = pending \/ pending' = Head(queue)
    BY <1>3, Zenon DEF RecvRefused, RecvSent, RecvWriteFails, SessionLost
  <2>3. core' = core \/ core' = IF core = "running" THEN "dropped" ELSE core
    BY <1>3, Zenon DEF RecvRefused, RecvSent, RecvWriteFails, SessionLost, HangUp
  <2> QED
    BY <1>1, <2>1, <2>2, <2>3, LastReceive
<1>4. CASE \E r \in Reqs : Call("connect", r) \/ Call("disconnect", r)
  <2>1. PICK r \in Reqs, o \in {"connect", "disconnect"} : Call(o, r)
    BY <1>4
  <2>2. /\ fate[r] = "free" /\ op' = o /\ req' = r /\ UNCHANGED <<queue, pending>>
        /\ kind' = [kind EXCEPT ![r] = IF o = "connect" THEN "start" ELSE "stop"]
        /\ ran' = [ran EXCEPT ![r] = 0]
    BY <2>1, Zenon DEF Call
  <2>3. /\ r # pending /\ \A i \in DOMAIN queue : queue[i] # r
    BY <1>1, <2>2 DEF Slots
  <2>4. ran'[r] = 0 /\ (o = "disconnect" => kind'[r] = "stop")
    BY <1>1, <2>2 DEF Others
  <2> QED
    BY <2>2, <2>3, <2>4 DEF Last
<1>5. CASE Send
  <2>1. /\ api = "send" /\ queue' = Append(queue, req)
        /\ UNCHANGED <<op, req, kind, ran, pending, core>>
    BY <1>5, Zenon DEF Send
  <2>2. req \in Reqs /\ fate[req] = "sending" /\ ran[req] = 0
    BY <1>1, <2>1 DEF Slots, Others, Progress
  <2>3. req # pending /\ \A i \in DOMAIN queue : queue[i] # req
    BY <1>1, <2>2 DEF Slots
  <2>4. \A i \in DOMAIN queue' : queue'[i] = req => i = Len(queue')
    BY <1>1, <2>1, <2>2, <2>3, AppendElements DEF Others
  <2> QED
    BY <2>1, <2>2, <2>3, <2>4 DEF Last
<1>6. CASE Serve \/ ServeDies
  <2>1. /\ cmds # <<>> /\ UNCHANGED <<op, req, kind, queue, pending>>
    BY <1>6, Zenon DEF Serve, ServeDies
  <2>2. Head(cmds) = pending /\ pending \in Reqs /\ ran[pending] = 0
    BY <1>1, <2>1 DEF WirePhases, Others, Progress
  <2>3. \/ ran' = [ran EXCEPT ![pending] = @ + 1] /\ (kind[pending] = "stop" => core' = "stopped")
        \/ UNCHANGED <<ran, core>>
    <3>1. "start" # "stop"
      OBVIOUS
    <3> QED
      BY <1>6, <2>2, <3>1, Zenon DEF Serve, ServeDies
  <2>4. CASE UNCHANGED <<ran, core>>
    BY <1>1, <2>1, <2>4, LastFrame
  <2>5. CASE ran' = [ran EXCEPT ![pending] = @ + 1] /\ (kind[pending] = "stop" => core' = "stopped")
    <3>1. ran'[pending] = 1 /\ \A r \in Reqs \ {pending} : ran'[r] = ran[r]
      BY <1>1, <2>2, <2>5 DEF Others
    <3>2. CASE req = pending
      BY <2>1, <2>2, <2>5, <3>1, <3>2 DEF Last
    <3>3. CASE req # pending
      <4>1. req # None => ran'[req] # 1
        BY <1>1, <2>2, <3>1, <3>3 DEF Last, Others
      <4> QED
        BY <2>1, <3>3, <4>1 DEF Last
    <3> QED
      BY <3>2, <3>3
  <2> QED
    BY <2>3, <2>4, <2>5
<1>7. CASE CoreExits \/ PeerCloses
  <2>1. UNCHANGED <<op, req, kind, ran, queue, pending>>
    BY <1>7, Zenon DEF CoreExits, PeerCloses
  <2>2. core' = "stopped" \/ core' = IF core = "running" THEN "dropped" ELSE core
    BY <1>7, Zenon DEF CoreExits, PeerCloses
  <2> QED
    BY <1>1, <2>1, <2>2, LastFrame
<1>8. CASE \/ Answer \/ Timeout \/ RunInstance \/ Takeover \/ ShutdownReturns \/ Confirm
           \/ Cancel \/ Shutdown \/ Greet \/ RivalMoves \/ Finished \/ UNCHANGED vars
  <2>1. UNCHANGED <<op, kind, ran, queue, pending, core>> /\ (req' = req \/ req' = None)
    BY <1>8, Zenon DEF Answer, Timeout, RunInstance, Takeover, ShutdownReturns, Confirm,
                       Cancel, Shutdown, Greet, RivalMoves, Finished
  <2> QED
    BY <1>1, <2>1, LastFrame
<1> QED
  BY <1>2, <1>3, <1>4, <1>5, <1>6, <1>7, <1>8
     DEF Next, DriverStep, CallStep, AppStep, WorldStep

(* Of "stop the core", which etb_disconnect promises and does not keep     *)
(* when its stop fails or times out, this much holds: a stop the           *)
(* supervisor answered leaves no core running under our lease when the     *)
(* call returns, though earlier calls left starts behind in the channel.   *)
THEOREM AnsweredStopHolds == Spec => []StopHeard
<1>1. Init => Last
  BY BridgeAssumption DEF Init, Last
<1>2. Inv /\ Last => StopHeard
  <2> SUFFICES ASSUME Inv, Last, op = "disconnect", api = "await", fate[req] = "ok"
               PROVE  core # "running"
    BY DEF StopHeard
  <2>1. req \in Reqs
    BY TypeParts DEF Inv, Slots, Others
  <2>2. ran[req] = 1
    BY <2>1, TypeParts DEF Inv, Progress, OkMeansExecuted, Others
  <2> QED
    BY <2>1, <2>2, BridgeAssumption DEF Last
<1> QED
  BY <1>1, <1>2, LastStep, Invariance, PTL DEF Spec
=============================================================================
