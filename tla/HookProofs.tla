----------------------------- MODULE HookProofs -----------------------------
(***************************************************************************)
(* The down hooks of Supervisor, for any finite set of pids and any number *)
(* of hook runs: with one connection, the deaths whose hook is still to be *)
(* fired are as many as the threads that will fire one.                    *)
(***************************************************************************)
EXTENDS SupervisorProofs, FiniteSetTheorems

\* The monitors that will fire a down hook, and the connections.
Monitors == {p \in Pids : mon[p] \in {"push", "down"}}
Stoppers == {c \in Conns : \/ conn[c] \in {"stopping", "dropping"} /\ core = None
                           \/ conn[c] \in {"down", "dropdown"}}

\* A stop is requested exactly while a connection waits for the core to end:
\* the monitor leaves the hook of that death to a thread that will fire it.
StopAwaited ==
  stopReq <=> core # None /\ \E c \in Conns : conn[c] \in {"stopping", "dropping"}

\* The deaths not paid for, counted: DownOwed with its two sets named.  With
\* StopAwaited and the invariant of SupervisorProofs it is inductive.
Owed == debt = Cardinality(Monitors) + Cardinality(Stoppers)
-----------------------------------------------------------------------------
(* One client at a time, as in `solo'.  The slot of a connection is used   *)
(* again, and supervisors follow one another without bound.                *)
OneConnection == IsFiniteSet(Pids) /\ \A c, d \in Conns : c = d

(* The two counts are numbers, and a set of connections is empty or a      *)
(* singleton.                                                              *)
LEMMA Counts ==
  ASSUME OneConnection
  PROVE  /\ IsFiniteSet(Monitors) /\ Cardinality(Monitors) \in Nat
         /\ IsFiniteSet(Monitors') /\ Cardinality(Monitors') \in Nat
         /\ Cardinality({}) = 0
         /\ \A c : Cardinality({c}) = 1
         /\ Cardinality(Stoppers) \in Nat
<1>1. Monitors \in SUBSET Pids /\ Monitors' \in SUBSET Pids
  BY DEF Monitors
<1>2. IsFiniteSet(Pids)
  BY DEF OneConnection
<1>3. IsFiniteSet(Monitors) /\ IsFiniteSet(Monitors')
  BY <1>1, <1>2, FS_Subset
<1>4. Stoppers = {} \/ \E c \in Conns : Stoppers = {c}
  BY DEF OneConnection, Stoppers
<1>5. Cardinality({}) = 0 /\ \A c : Cardinality({c}) = 1
  BY FS_EmptySet, FS_Singleton
<1>6. Cardinality(Monitors) \in Nat /\ Cardinality(Monitors') \in Nat
  BY <1>3, FS_CardinalityType
<1>7. Cardinality(Stoppers) \in Nat
  <2>1. CASE Stoppers = {}
    BY <1>5, <2>1
  <2>2. ASSUME NEW c \in Conns, Stoppers = {c} PROVE Cardinality(Stoppers) \in Nat
    <3>1. Cardinality({c}) = 1
      BY <1>5
    <3> QED
      BY <2>2, <3>1
  <2> QED
    BY <1>4, <2>1, <2>2
<1> QED
  BY <1>3, <1>5, <1>6, <1>7

(* A step that fires no hook and ends no core leaves the account alone.    *)
LEMMA SameDebt ==
  ASSUME Owed, debt' = debt, Monitors' = Monitors, Stoppers' = Stoppers
  PROVE  Owed'
  BY DEF Owed

(* The end of the process settles it.                                      *)
LEMMA EndsSettled ==
  ASSUME OneConnection, TypeOK, NEW how, ProcessEnds(how)
  PROVE  (StopAwaited /\ Owed)'
<1>1. Monitors' = {} /\ Stoppers' = {} /\ debt' = 0
  BY DEF ProcessEnds, Monitors, Stoppers
<1>2. Owed'
  BY <1>1, Counts DEF Owed
<1>3. core' = None /\ ~stopReq'
  BY DEF ProcessEnds
<1> QED
  BY <1>2, <1>3 DEF StopAwaited

(* Who awaits a requested stop, over every step.                           *)
LEMMA AwaitedStep ==
  ASSUME OneConnection, Inv, StopAwaited, Owed, TypeOK', [Next]_vars
  PROVE  StopAwaited'
<1> USE ConstantsAssumption DEF OneConnection, TypeOK, StopAwaited, lifeVars, coreVars,
     procVars, sessVars, connVars, hookVars, ghosts, vars
<1>1. TypeOK /\ CoreTracked
  BY DEF Inv
<1>2. CASE UNCHANGED <<stopReq, core, conn>>
  BY <1>2
<1>3. CASE BootFails \/ Crash \/ AcceptFails \/ TimerExit \/ \E c \in Conns : DropExit(c)
  <2>1. \E how : ProcessEnds(how)
    BY <1>3 DEF BootFails, Crash, AcceptFails, TimerExit, DropExit
  <2> QED
    BY <1>1, <2>1, EndsSettled
<1>4. ASSUME NEW c \in Conns, ClientConnect(c) \/ HelloFails(c) \/ Kick(c) \/ WriteReply(c)
                              \/ ReadEnd(c) \/ StartRunning(c) \/ StartFails(c)
      PROVE  StopAwaited'
  BY <1>1, <1>4 DEF ClientConnect, HelloFails, Kick, WriteReply, ReadEnd, StartRunning,
                    StartFails, ThreadEnds, Goto
<1>5. ASSUME NEW c \in Conns, NEW b \in BOOLEAN, Hello(c, b) \/ Accept(c, b)
      PROVE  StopAwaited'
  BY <1>1, <1>5 DEF Hello, Accept, ThreadEnds, Goto
<1>6. ASSUME NEW c \in Conns, NEW cmd \in {"start", "status", "stop"}, ReadCmd(c, cmd)
      PROVE  StopAwaited'
  BY <1>1, <1>6 DEF ReadCmd, Goto
<1>7. ASSUME NEW c \in Conns, NEW p \in Pids, StartSpawns(c, p) PROVE StopAwaited'
  BY <1>1, <1>7 DEF StartSpawns, Goto
<1>8. ASSUME NEW c \in Conns, StartHook(c) \/ CheckKicked(c) \/ ClearOwner(c) \/ DropSweep(c)
      PROVE  StopAwaited'
  BY <1>1, <1>8 DEF StartHook, CheckKicked, ClearOwner, DropSweep, ThreadEnds, Goto
<1>9. ASSUME NEW c \in Conns, StopBegins(c) PROVE StopAwaited'
  BY <1>1, <1>9 DEF StopBegins, Goto
<1>10. ASSUME NEW c \in Conns, StopSeen(c) \/ StopHook(c) PROVE StopAwaited'
  BY <1>1, <1>10 DEF StopSeen, StopHook, Goto
<1>11. ASSUME NEW p \in Pids, MonExit(p) PROVE StopAwaited'
  BY <1>1, <1>11 DEF MonExit, CoreTracked, Watching
<1> QED
  BY <1>2, <1>3, <1>4, <1>5, <1>6, <1>7, <1>8, <1>9, <1>10, <1>11
  DEF Next, ConnStep, ClientStep, MonStep, HookStep, Activate, Boot, Listen, TimerFires,
      ClientClose, CoreDies, GraceOver, MonPoll, MonCheck, MonSignal, MonPush, MonHook,
      MonSweep, HookSpawn, HookEnds

(* The account over every step: a death adds one thread that owes a hook,  *)
(* a hook fired removes one.                                               *)
LEMMA OwedStep ==
  ASSUME OneConnection, Inv, StopAwaited, Owed, TypeOK', [Next]_vars
  PROVE  Owed'
<1> USE ConstantsAssumption DEF TypeOK, lifeVars, coreVars,
     procVars, sessVars, connVars, hookVars, ghosts, vars
<1>1. TypeOK /\ CoreTracked /\ \A c, d \in Conns : c = d
  BY DEF Inv, OneConnection
<1>2. CASE UNCHANGED <<debt, mon, core, conn>>
  <2>1. Monitors' = Monitors /\ Stoppers' = Stoppers
    BY <1>2 DEF Monitors, Stoppers
  <2> QED
    BY <1>2, <2>1, SameDebt
<1>3. CASE BootFails \/ Crash \/ AcceptFails \/ TimerExit \/ \E c \in Conns : DropExit(c)
  <2>1. \E how : ProcessEnds(how)
    BY <1>3 DEF BootFails, Crash, AcceptFails, TimerExit, DropExit
  <2> QED
    BY <1>1, <2>1, EndsSettled
<1>4. ASSUME NEW c \in Conns, conn[c] \notin {"stopping", "dropping", "down", "dropdown"},
             UNCHANGED <<debt, mon>>, NEW x, conn' = [conn EXCEPT ![c] = x],
             x \in {"stopping", "dropping"} => core' # None, x \notin {"down", "dropdown"}
      PROVE  Owed'
  <2>1. Monitors' = Monitors
    BY <1>4 DEF Monitors
  <2>2. Stoppers' = {} /\ Stoppers = {}
    BY <1>1, <1>4 DEF Stoppers
  <2> QED
    BY <1>4, <2>1, <2>2, SameDebt
<1>5. ASSUME NEW c \in Conns, ClientConnect(c) \/ HelloFails(c) \/ Kick(c) \/ WriteReply(c)
                              \/ ReadEnd(c) \/ StartRunning(c) \/ StartFails(c)
      PROVE  Owed'
  BY <1>4, <1>5 DEF ClientConnect, HelloFails, Kick, WriteReply, ReadEnd, StartRunning,
                    StartFails, ThreadEnds, Goto
<1>6. ASSUME NEW c \in Conns, NEW b \in BOOLEAN, Hello(c, b) \/ Accept(c, b)
      PROVE  Owed'
  <2>1. conn[c] \in {"hello", "backlog"} /\ UNCHANGED <<debt, mon>>
    BY <1>6, Zenon DEF Hello, Accept
  <2>2. PICK x \in {"greet", "kick", "idle", "hello"} : conn' = [conn EXCEPT ![c] = x]
    BY <1>6, Zenon DEF Hello, Accept, ThreadEnds, Goto
  <2>3. x \notin {"stopping", "dropping", "down", "dropdown"}
    BY <2>2
  <2> QED
    BY <1>4, <2>1, <2>2, <2>3
<1>7. ASSUME NEW c \in Conns, NEW cmd \in {"start", "status", "stop"}, ReadCmd(c, cmd)
      PROVE  Owed'
  BY <1>4, <1>7 DEF ReadCmd, Goto
<1>8. ASSUME NEW c \in Conns, NEW p \in Pids, StartSpawns(c, p) PROVE Owed'
  <2>1. Monitors' = Monitors
    BY <1>1, <1>8 DEF StartSpawns, Monitors
  <2>2. Stoppers' = {} /\ Stoppers = {}
    BY <1>1, <1>8 DEF StartSpawns, Goto, Stoppers
  <2> QED
    BY <1>8, <2>1, <2>2, SameDebt DEF StartSpawns
<1>9. ASSUME NEW c \in Conns, StartHook(c) \/ CheckKicked(c) \/ ClearOwner(c) \/ DropSweep(c)
      PROVE  Owed'
  BY <1>4, <1>9 DEF StartHook, CheckKicked, ClearOwner, DropSweep, ThreadEnds, Goto
<1>10. ASSUME NEW c \in Conns, StopBegins(c) PROVE Owed'
  <2>1. PICK x \in {"stopping", "dropping", "write", "sweep"} :
          /\ conn' = [conn EXCEPT ![c] = x]
          /\ x \in {"stopping", "dropping"} => core # None
    BY <1>10 DEF StopBegins, Goto
  <2>2. conn[c] \in {"stop", "drop"} /\ UNCHANGED <<core, debt, mon>>
    BY <1>10 DEF StopBegins
  <2> QED
    BY <1>4, <2>1, <2>2
<1>11. ASSUME NEW c \in Conns, StopSeen(c) PROVE Owed'
  <2>1. Monitors' = Monitors
    BY <1>11 DEF StopSeen, Monitors
  <2>2. Stoppers' = Stoppers
    BY <1>1, <1>11 DEF StopSeen, Goto, Stoppers
  <2> QED
    BY <1>11, <2>1, <2>2, SameDebt DEF StopSeen
<1>12. ASSUME NEW c \in Conns, StopHook(c) PROVE Owed'
  <2>1. Monitors' = Monitors
    BY <1>12 DEF StopHook, Monitors
  <2>2. Stoppers = {c} /\ Stoppers' = {}
    BY <1>1, <1>12 DEF StopHook, Goto, Stoppers
  <2>3. debt = Cardinality(Monitors) + 1 /\ Cardinality(Monitors) \in Nat
    BY <2>2, Counts DEF Owed
  <2>4. debt' = Cardinality(Monitors)
    BY <1>12, <2>3 DEF StopHook, PayDebt
  <2> QED
    BY <2>1, <2>2, <2>3, <2>4, Counts DEF Owed
<1>13. ASSUME NEW p \in Pids, MonExit(p) PROVE Owed'
  <2>1. core = p /\ core' = None /\ debt' = debt + 1
    <3>1. core = p
      BY <1>1, <1>13 DEF MonExit, CoreTracked, Watching
    <3>2. debt >= 0
      BY Counts DEF Owed
    <3> QED
      BY <1>1, <1>13, <3>1, <3>2 DEF MonExit
  <2>2. CASE stopReq
    <3>1. Monitors' = Monitors
      BY <1>1, <1>13, <2>1, <2>2 DEF MonExit, Monitors
    <3>2. PICK c \in Conns : conn[c] \in {"stopping", "dropping"}
      BY <2>2 DEF StopAwaited
    <3>3. Stoppers = {} /\ Stoppers' = {c}
      BY <1>1, <1>13, <2>1, <3>2 DEF MonExit, Stoppers
    <3>4. Cardinality(Stoppers) = 0 /\ Cardinality(Stoppers') = 1
      BY <3>3, Counts
    <3> QED
      BY <2>1, <3>1, <3>4, Counts DEF Owed
  <2>3. CASE ~stopReq
    <3>1. Monitors' = Monitors \cup {p} /\ p \notin Monitors
      BY <1>1, <1>13, <2>1, <2>3 DEF MonExit, Monitors
    <3>2. \A c \in Conns : conn[c] \notin {"stopping", "dropping"}
      BY <2>1, <2>3 DEF StopAwaited
    <3>3. Stoppers' = Stoppers
      BY <1>13, <3>2 DEF MonExit, Stoppers
    <3>4. Cardinality(Monitors') = Cardinality(Monitors) + 1
      BY <3>1, Counts, FS_AddElement
    <3> QED
      BY <2>1, <3>3, <3>4, Counts DEF Owed
  <2> QED
    BY <2>2, <2>3
<1>14. ASSUME NEW p \in Pids, MonHook(p) PROVE Owed'
  <2>1. Monitors' = Monitors \ {p} /\ p \in Monitors
    BY <1>1, <1>14 DEF MonHook, Monitors
  <2>2. Stoppers' = Stoppers
    BY <1>14 DEF MonHook, Stoppers
  <2>3. Cardinality(Monitors') = Cardinality(Monitors) - 1
    BY <2>1, Counts, FS_RemoveElement
  <2>4. debt > 0
    BY <2>3, Counts DEF Owed
  <2>5. debt' = debt - 1
    BY <1>14, <2>4 DEF MonHook, PayDebt
  <2> QED
    BY <2>2, <2>3, <2>5, Counts DEF Owed
<1>15. ASSUME NEW p \in Pids,
              MonPoll(p) \/ MonCheck(p) \/ MonSignal(p) \/ MonPush(p) \/ MonSweep(p)
       PROVE  Owed'
  <2>1. Monitors' = Monitors
    BY <1>1, <1>15 DEF MonPoll, MonCheck, MonSignal, MonPush, MonSweep, Monitors
  <2>2. Stoppers' = Stoppers
    BY <1>15 DEF MonPoll, MonCheck, MonSignal, MonPush, MonSweep, Stoppers
  <2>3. debt' = debt
    BY <1>15 DEF MonPoll, MonCheck, MonSignal, MonPush, MonSweep
  <2> QED
    BY <2>1, <2>2, <2>3, SameDebt
<1> QED
  BY <1>2, <1>3, <1>5, <1>6, <1>7, <1>8, <1>9, <1>10, <1>11, <1>12, <1>13, <1>14, <1>15
  DEF Next, ConnStep, ClientStep, MonStep, HookStep, Activate, Boot, Listen, TimerFires,
      ClientClose, CoreDies, GraceOver, HookSpawn, HookEnds

(* "A given core death fires exactly one down": with one connection, the   *)
(* deaths whose hook is outstanding and the threads that will fire it are  *)
(* equal in number, through crashes, stops, exits and new supervisors.     *)
THEOREM OneDownPerDeath == OneConnection => (Spec => []DownOwed)
<1> SUFFICES ASSUME OneConnection PROVE Spec => []DownOwed
  OBVIOUS
<1>1. Init => StopAwaited /\ Owed
  <2> SUFFICES ASSUME Init PROVE StopAwaited /\ Owed
    OBVIOUS
  <2>1. Monitors = {} /\ Stoppers = {} /\ debt = 0
    BY DEF Init, Monitors, Stoppers
  <2>2. Owed
    BY <2>1, Counts DEF Owed
  <2> QED
    BY <2>2 DEF Init, StopAwaited
<1>2. Inv /\ Inv' /\ StopAwaited /\ Owed /\ [Next]_vars => (StopAwaited /\ Owed)'
  BY AwaitedStep, OwedStep DEF Inv
<1>3. Owed => DownOwed
  BY DEF Owed, DownOwed, Monitors, Stoppers
<1> QED
  BY <1>1, <1>2, <1>3, Invariance, PTL DEF Spec
-----------------------------------------------------------------------------
(* Exits over a running core.                                              *)

\* With one connection nobody is displaced, and the core is its owner's or is
\* being stopped: what comes before the lease and after the stop has none.
Held ==
  /\ \A c \in Conns : ~kicked[c]
  /\ core # None => \E c \in Conns : conn[c] \in Est \cup {"drop", "dropping"}

(* Every step of the one connection, its core and its supervisors.         *)
LEMMA HeldStep ==
  ASSUME \A c, d \in Conns : c = d, Inv, Held, [Next]_vars
  PROVE  Held'
<1> USE ConstantsAssumption DEF TypeOK, Held, Est, lifeVars, coreVars, procVars,
     sessVars, connVars, hookVars, ghosts, vars
<1>1. TypeOK /\ LeaseExclusive
  BY DEF Inv
<1>2. CASE UNCHANGED <<conn, kicked>> /\ (core' = core \/ core' = None)
  BY <1>2
<1>3. CASE BootFails \/ Crash \/ AcceptFails \/ TimerExit \/ \E c \in Conns : DropExit(c)
  <2>1. \E how : ProcessEnds(how)
    BY <1>3 DEF BootFails, Crash, AcceptFails, TimerExit, DropExit
  <2> QED
    BY <2>1 DEF ProcessEnds
<1>4. ASSUME NEW c \in Conns, ClientConnect(c) \/ HelloFails(c) \/ Kick(c) \/ WriteReply(c)
                              \/ ReadEnd(c) \/ StartRunning(c) \/ StartFails(c)
      PROVE  Held'
  BY <1>1, <1>4 DEF ClientConnect, HelloFails, Kick, WriteReply, ReadEnd, StartRunning,
                    StartFails, ThreadEnds, Goto
<1>5. ASSUME NEW c \in Conns, NEW allowed \in BOOLEAN, Accept(c, allowed) PROVE Held'
  BY <1>1, <1>5 DEF Accept, ThreadEnds, Goto
<1>6. ASSUME NEW c \in Conns, NEW takeover \in BOOLEAN, Hello(c, takeover) PROVE Held'
  <2>1. owner = None
    BY <1>1, <1>6 DEF Hello, LeaseExclusive
  <2>2. conn' = [conn EXCEPT ![c] = "greet"] /\ UNCHANGED <<kicked, core>>
    BY <1>6, <2>1 DEF Hello, Goto
  <2> QED
    BY <1>1, <2>2
<1>7. ASSUME NEW c \in Conns, NEW cmd \in {"start", "status", "stop"}, ReadCmd(c, cmd)
      PROVE  Held'
  BY <1>1, <1>7 DEF ReadCmd, Goto
<1>8. ASSUME NEW c \in Conns, NEW p \in Pids, StartSpawns(c, p) PROVE Held'
  BY <1>1, <1>8 DEF StartSpawns, Goto
<1>9. ASSUME NEW c \in Conns, StartHook(c) \/ CheckKicked(c) \/ ClearOwner(c) \/ DropSweep(c)
      PROVE  Held'
  BY <1>1, <1>9 DEF StartHook, CheckKicked, ClearOwner, DropSweep, ThreadEnds, Goto
<1>10. ASSUME NEW c \in Conns, StopBegins(c) \/ StopSeen(c) \/ StopHook(c) PROVE Held'
  BY <1>1, <1>10 DEF StopBegins, StopSeen, StopHook, Goto
<1> QED
  BY <1>2, <1>3, <1>4, <1>5, <1>6, <1>7, <1>8, <1>9, <1>10
  DEF Next, ConnStep, ClientStep, MonStep, HookStep, Activate, Boot, Listen, TimerFires,
      ClientClose, CoreDies, GraceOver, MonPoll, MonCheck, MonSignal, MonExit, MonPush,
      MonHook, MonSweep, HookSpawn, HookEnds

(* Three threads can end a serving supervisor with exit(0).                *)
LEMMA ExitBy ==
  ASSUME [Next]_vars, sup = "serving", sup' = "exited"
  PROVE  AcceptFails \/ TimerExit \/ \E c \in Conns : DropExit(c)
<1> USE DEF lifeVars, vars
<1>1. CASE UNCHANGED sup
  BY <1>1
<1>2. CASE Activate \/ Boot \/ Listen \/ BootFails \/ Crash
  BY <1>2 DEF Activate, Boot, Listen, BootFails, Crash, ProcessEnds, Gone
<1> QED
  BY <1>1, <1>2
  DEF Next, ConnStep, ClientStep, MonStep, HookStep, TimerFires, ClientConnect, ClientClose,
      Hello, ReadCmd, ReadEnd, Accept, HelloFails, Kick, WriteReply, StartRunning, StartFails,
      StartSpawns, StartHook, StopBegins, StopSeen, StopHook, CheckKicked, ClearOwner,
      DropSweep, CoreDies, GraceOver, MonPoll, MonCheck, MonSignal, MonExit, MonPush,
      MonHook, MonSweep, HookSpawn, HookEnds

(* Of "the core is reaped before the supervisor exits", which the no-owner *)
(* timer breaks, this much holds with one client at a time: no other       *)
(* thread exits over a core, and under the timer the core is an owner's    *)
(* that arrived too late, or is being stopped by the disconnect path.      *)
THEOREM OtherExitsReap ==
  (\A c, d \in Conns : c = d) => (Spec => OnlyTimerCutsCore)
<1> SUFFICES ASSUME \A c, d \in Conns : c = d PROVE Spec => OnlyTimerCutsCore
  OBVIOUS
<1> DEFINE Cut == sup = "serving" /\ sup' = "exited" /\ core # None
                    => /\ timer = "exiting"
                       /\ \E c \in Conns : conn[c] \in Est \cup {"drop", "dropping"}
<1>1. Init => Held
  BY DEF Init, Held
<1>2. Inv /\ Held /\ [Next]_vars => Held'
  BY HeldStep
<1>3. Inv /\ Held /\ [Next]_vars => Cut
  <2> SUFFICES ASSUME Inv, Held, [Next]_vars, sup = "serving", sup' = "exited", core # None
               PROVE  /\ timer = "exiting"
                      /\ \E c \in Conns : conn[c] \in Est \cup {"drop", "dropping"}
    OBVIOUS
  <2>1. PICK c \in Conns : conn[c] \in Est \cup {"drop", "dropping"}
    BY DEF Held
  <2>2. AcceptFails \/ TimerExit \/ DropExit(c)
    BY ExitBy
  <2>3. ~AcceptFails /\ ~DropExit(c)
    BY <2>1 DEF AcceptFails, DropExit, Est
  <2> QED
    BY <2>1, <2>2, <2>3 DEF TimerExit
<1>4. Inv /\ Held /\ [Next]_vars => [Cut]_vars
  BY <1>3
<1> QED
  BY <1>1, <1>2, <1>4, Invariance, PTL DEF Spec, OnlyTimerCutsCore
=============================================================================
