-------------------------- MODULE SupervisorProofs --------------------------
(***************************************************************************)
(* Proofs about Supervisor for any number of connections, pids and hook    *)
(* runs.  One inductive invariant, Inv, carries all safety theorems: the   *)
(* parts of it that are not properties of their own say what is true       *)
(* between supervisors (Quiet), of a connection that is not yet an owner   *)
(* (Fresh), of a monitored child (Watched), and that a supervisor whose    *)
(* sweeps could run ps has no live core but the one it tracks (OnlyCore).  *)
(***************************************************************************)
EXTENDS Supervisor, TLAPS

\* No supervisor is serving: no lease, no core of its own, no threads.
Quiet ==
  sup # "serving" =>
    /\ core = None /\ owner = None
    /\ \A p \in Pids : mon[p] = "none"
    /\ \A c \in Conns : conn[c] \in {"idle", "backlog"}

\* A connection without the lease has not been displaced.
Fresh == \A c \in Conns : conn[c] \in {"idle", "backlog", "hello"} => ~kicked[c]

\* A monitored child is un-reaped until its monitor reaps it.
Watched ==
  \A p \in Pids : /\ mon[p] \in Watching => proc[p] \in Unreaped
                  /\ mon[p] = "reaped" => proc[p] = "free"

\* Once the boot sweep has run, the tracked core is the only live one.
OnlyCore ==
  sup \in {"listen", "serving"} /\ ~blind =>
    \A p \in Pids : proc[p] = "alive" => core = p

\* The inductive invariant.
Inv ==
  /\ TypeOK
  /\ Quiet
  /\ Fresh
  /\ Watched
  /\ OnlyCore
  /\ CoreTracked
  /\ AtMostOneCore
  /\ LeaseExclusive
-----------------------------------------------------------------------------
(* Type correctness.                                                       *)

(* A hook run that is started stays within the types.                      *)
LEMMA HookType ==
  ASSUME TypeOK, NEW ev \in {"up", "down"}, NEW h, RunHook(ev, h)
  PROVE  /\ h \in HookIds \cup {None}
         /\ hookSt' \in [HookIds -> {"free", "thread", "child", "stray"}]
         /\ hookEv' \in [HookIds -> {"up", "down"}]
<1>1. CASE ev \in Scripts
  BY <1>1 DEF RunHook, TypeOK
<1>2. CASE ev \notin Scripts
  BY <1>2 DEF RunHook, TypeOK, hookVars
<1> QED
  BY <1>1, <1>2

(* So does a sweep.                                                        *)
LEMMA SweepType ==
  ASSUME TypeOK, SweepOrphans
  PROVE  /\ proc' \in [Pids -> ProcStates] /\ blind' \in BOOLEAN
         /\ hookSt' \in [HookIds -> {"free", "thread", "child", "stray"}]
         /\ hookEv' \in [HookIds -> {"up", "down"}]
<1> DEFINE seen == {p \in Pids : proc[p] \in {"alive", "killed"}}
<1>1. CASE /\ proc' = [p \in Pids |-> IF p \in seen THEN "killed" ELSE proc[p]]
           /\ IF seen # {} THEN RunHookDetached("down") ELSE UNCHANGED hookVars
           /\ blind' = FALSE
  <2>1. proc' \in [Pids -> ProcStates] /\ blind' \in BOOLEAN
    BY <1>1 DEF TypeOK, ProcStates, Unreaped
  <2>2. CASE seen # {}
    BY <1>1, <2>1, <2>2, HookType DEF RunHookDetached
  <2>3. CASE seen = {}
    BY <1>1, <2>1, <2>3 DEF TypeOK, hookVars
  <2> QED
    BY <2>2, <2>3
<1>2. CASE /\ blind' = (blind \/ \E p \in Pids : proc[p] = "alive")
           /\ UNCHANGED <<proc, hookVars>>
  BY <1>2 DEF TypeOK, hookVars
<1> QED
  BY <1>1, <1>2 DEF SweepOrphans

(* And the end of a supervisor process.                                    *)
LEMMA EndsType ==
  ASSUME TypeOK, NEW how \in Gone, ProcessEnds(how)
  PROVE  TypeOK'
<1> USE DEF ProcessEnds
<1>1. /\ sup' \in {"boot", "listen", "serving"} \cup Gone
      /\ timer' \in {"armed", "exiting", "done"}
      /\ owner' \in Conns \cup {None}
      /\ core' \in Pids \cup {None}
      /\ stopReq' \in BOOLEAN /\ blind' \in BOOLEAN
  BY Zenon DEF TypeOK
<1>2. /\ proc' \in [Pids -> ProcStates]
      /\ mon' \in [Pids -> MonPhases]
      /\ esc' \in [Pids -> {"none", "term", "due", "kill"}]
  BY DEF TypeOK, ProcStates, MonPhases
<1>3. conn' \in [Conns -> ConnPhases]
  BY DEF TypeOK, ConnPhases
<1>4. peer' \in [Conns -> BOOLEAN] /\ kicked' \in [Conns -> BOOLEAN]
  BY Zenon DEF TypeOK
<1>5. victim' \in [Conns -> Conns \cup {None}] /\ joins' \in [Conns -> HookIds \cup {None}]
  BY DEF TypeOK
<1>6. /\ hookSt' \in [HookIds -> {"free", "thread", "child", "stray"}]
      /\ hookEv' \in [HookIds -> {"up", "down"}]
  BY DEF TypeOK
<1>7. debt' \in Int
  OBVIOUS
<1> QED
  BY <1>1, <1>2, <1>3, <1>4, <1>5, <1>6, <1>7 DEF TypeOK

(* The end of a connection's thread keeps the types of what it resets.     *)
LEMMA ThreadEndsType ==
  ASSUME TypeOK, NEW c \in Conns, ThreadEnds(c)
  PROVE  /\ conn' \in [Conns -> ConnPhases]
         /\ peer' \in [Conns -> BOOLEAN] /\ kicked' \in [Conns -> BOOLEAN]
         /\ UNCHANGED <<victim, joins>>
<1>1. conn' \in [Conns -> ConnPhases]
  <2>1. conn \in [Conns -> ConnPhases] /\ conn' = [conn EXCEPT ![c] = "idle"]
    BY Zenon DEF TypeOK, ThreadEnds, Goto
  <2> QED
    BY <2>1 DEF ConnPhases
<1>2. peer' \in [Conns -> BOOLEAN]
  <2>1. peer \in [Conns -> BOOLEAN] /\ peer' = [peer EXCEPT ![c] = FALSE]
    BY Zenon DEF TypeOK, ThreadEnds
  <2> QED
    BY <2>1
<1>3. kicked' \in [Conns -> BOOLEAN]
  <2>1. kicked \in [Conns -> BOOLEAN] /\ kicked' = [kicked EXCEPT ![c] = FALSE]
    BY Zenon DEF TypeOK, ThreadEnds
  <2> QED
    BY <2>1
<1>4. UNCHANGED <<victim, joins>>
  BY Zenon DEF ThreadEnds
<1> QED
  BY <1>1, <1>2, <1>3, <1>4

(* Every step of the supervisor, its clients and its core keeps the types. *)
LEMMA TypeStep == TypeOK /\ [Next]_vars => TypeOK'
<1> SUFFICES ASSUME TypeOK, [Next]_vars PROVE TypeOK'
  OBVIOUS
<1> USE DEF TypeOK, Gone, Est, Dropping, ConnPhases, Watching, MonPhases, Unreaped, ProcStates,
            lifeVars, coreVars, procVars, sessVars, connVars, hookVars, ghosts, vars
<1>1. CASE Activate
  BY <1>1, ConstantsAssumption DEF Activate
<1>2. CASE Boot
  BY <1>2, SweepType DEF Boot
<1>3. CASE Listen
  BY <1>3, ConstantsAssumption DEF Listen
<1>4. CASE BootFails
  BY <1>4, EndsType DEF BootFails, Gone
<1>5. CASE Crash
  BY <1>5, EndsType DEF Crash, Gone
<1>6. CASE AcceptFails
  BY <1>6, EndsType DEF AcceptFails, Gone
<1>7. CASE TimerFires
  BY <1>7, ConstantsAssumption DEF TimerFires
<1>8. CASE TimerExit
  BY <1>8, EndsType DEF TimerExit, Gone
<1>9. ASSUME NEW c \in Conns, ClientConnect(c) PROVE TypeOK'
  BY <1>9, ConstantsAssumption DEF ClientConnect, Goto
<1>10. ASSUME NEW c \in Conns, ClientClose(c) PROVE TypeOK'
  BY <1>10, ConstantsAssumption DEF ClientClose
<1>11. ASSUME NEW c \in Conns, NEW takeover \in BOOLEAN, Hello(c, takeover) PROVE TypeOK'
  <2>1. CASE owner = None
    BY <1>11, <2>1 DEF Hello, Goto
  <2>2. CASE owner # None /\ takeover
    <3>1. owner' \in Conns /\ conn' \in [Conns -> ConnPhases]
      BY <1>11, <2>2 DEF Hello, Goto
    <3>2. kicked' \in [Conns -> BOOLEAN]
      BY <1>11, <2>2 DEF Hello
    <3>3. victim' \in [Conns -> Conns \cup {None}]
      BY <1>11, <2>2 DEF Hello
    <3>4. UNCHANGED <<sup, timer, coreVars, procVars, peer, joins, hookVars, ghosts>>
      BY <1>11, <2>2 DEF Hello
    <3> QED
      BY <3>1, <3>2, <3>3, <3>4
  <2>3. CASE owner # None /\ ~takeover
    <3>1. ThreadEnds(c) /\ UNCHANGED <<lifeVars, coreVars, procVars, hookVars, ghosts>>
      BY <1>11, <2>3, Zenon DEF Hello
    <3>2. /\ conn' \in [Conns -> ConnPhases]
          /\ peer' \in [Conns -> BOOLEAN] /\ kicked' \in [Conns -> BOOLEAN]
          /\ UNCHANGED <<victim, joins>>
      BY <3>1, ThreadEndsType
    <3> QED
      BY <3>1, <3>2
  <2> QED
    BY <2>1, <2>2, <2>3
<1>12. ASSUME NEW c \in Conns, NEW cmd \in {"start", "status", "stop"}, ReadCmd(c, cmd) PROVE TypeOK'
  BY <1>12, ConstantsAssumption DEF ReadCmd, Goto
<1>13. ASSUME NEW c \in Conns, ReadEnd(c) PROVE TypeOK'
  BY <1>13, ConstantsAssumption DEF ReadEnd, Goto
<1>14. ASSUME NEW c \in Conns, NEW allowed \in BOOLEAN, Accept(c, allowed) PROVE TypeOK'
  <2>1. CASE allowed
    BY <1>14, <2>1 DEF Accept, Goto
  <2>2. CASE ~allowed
    <3>1. ThreadEnds(c) /\ UNCHANGED <<lifeVars, coreVars, procVars, hookVars, ghosts>>
      BY <1>14, <2>2, Zenon DEF Accept
    <3>2. /\ conn' \in [Conns -> ConnPhases]
          /\ peer' \in [Conns -> BOOLEAN] /\ kicked' \in [Conns -> BOOLEAN]
          /\ UNCHANGED <<victim, joins>>
      BY <3>1, ThreadEndsType
    <3> QED
      BY <3>1, <3>2
  <2> QED
    BY <2>1, <2>2
<1>15. ASSUME NEW c \in Conns, HelloFails(c) PROVE TypeOK'
  BY <1>15, ConstantsAssumption DEF HelloFails, Goto, ThreadEnds
<1>16. ASSUME NEW c \in Conns, Kick(c) PROVE TypeOK'
  BY <1>16, ConstantsAssumption DEF Kick, Goto
<1>17. ASSUME NEW c \in Conns, WriteReply(c) PROVE TypeOK'
  BY <1>17, ConstantsAssumption DEF WriteReply, Goto
<1>18. ASSUME NEW c \in Conns, StartRunning(c) PROVE TypeOK'
  BY <1>18, ConstantsAssumption DEF StartRunning, Goto
<1>19. ASSUME NEW c \in Conns, StartFails(c) PROVE TypeOK'
  BY <1>19, ConstantsAssumption DEF StartFails, Goto
<1>20. ASSUME NEW c \in Conns, NEW p \in Pids, StartSpawns(c, p) PROVE TypeOK'
  BY <1>20, ConstantsAssumption DEF StartSpawns, Goto
<1>21. ASSUME NEW c \in Conns, StartHook(c) PROVE TypeOK'
  BY <1>21, ConstantsAssumption DEF StartHook, Goto, RunHookDetached, RunHook
<1>22. ASSUME NEW c \in Conns, StopBegins(c) PROVE TypeOK'
  BY <1>22, ConstantsAssumption DEF StopBegins, Goto
<1>23. ASSUME NEW c \in Conns, StopSeen(c) PROVE TypeOK'
  BY <1>23, ConstantsAssumption DEF StopSeen, Goto
<1>24. ASSUME NEW c \in Conns, StopHook(c) PROVE TypeOK'
  BY <1>24, ConstantsAssumption DEF StopHook, Goto, PayDebt, RunHook
<1>25. ASSUME NEW c \in Conns, CheckKicked(c) PROVE TypeOK'
  <2>1. CASE ~kicked[c]
    BY <1>25, <2>1 DEF CheckKicked, Goto
  <2>2. CASE kicked[c]
    <3>1. ThreadEnds(c) /\ UNCHANGED <<lifeVars, coreVars, procVars, hookVars, ghosts>>
      BY <1>25, <2>2, Zenon DEF CheckKicked
    <3>2. /\ conn' \in [Conns -> ConnPhases]
          /\ peer' \in [Conns -> BOOLEAN] /\ kicked' \in [Conns -> BOOLEAN]
          /\ UNCHANGED <<victim, joins>>
      BY <3>1, ThreadEndsType
    <3> QED
      BY <3>1, <3>2
  <2> QED
    BY <2>1, <2>2
<1>26. ASSUME NEW c \in Conns, ClearOwner(c) PROVE TypeOK'
  BY <1>26, ConstantsAssumption DEF ClearOwner, Goto
<1>27. ASSUME NEW c \in Conns, DropSweep(c) PROVE TypeOK'
  BY <1>27, SweepType DEF DropSweep, Goto
<1>28. ASSUME NEW c \in Conns, DropExit(c) PROVE TypeOK'
  BY <1>28, EndsType DEF DropExit, Gone
<1>29. ASSUME NEW p \in Pids, CoreDies(p) PROVE TypeOK'
  BY <1>29, ConstantsAssumption DEF CoreDies
<1>30. ASSUME NEW p \in Pids, GraceOver(p) PROVE TypeOK'
  BY <1>30, ConstantsAssumption DEF GraceOver
<1>31. ASSUME NEW p \in Pids, MonPoll(p) PROVE TypeOK'
  BY <1>31, ConstantsAssumption DEF MonPoll
<1>32. ASSUME NEW p \in Pids, MonCheck(p) PROVE TypeOK'
  BY <1>32, ConstantsAssumption DEF MonCheck
<1>33. ASSUME NEW p \in Pids, MonSignal(p) PROVE TypeOK'
  BY <1>33, ConstantsAssumption DEF MonSignal
<1>34. ASSUME NEW p \in Pids, MonExit(p) PROVE TypeOK'
  <2>1. CASE core = p
    BY <1>34, <2>1 DEF MonExit
  <2>2. CASE core # p
    BY <1>34, <2>2 DEF MonExit
  <2> QED
    BY <2>1, <2>2
<1>35. ASSUME NEW p \in Pids, MonPush(p) PROVE TypeOK'
  BY <1>35, ConstantsAssumption DEF MonPush
<1>36. ASSUME NEW p \in Pids, MonHook(p) PROVE TypeOK'
  BY <1>36, ConstantsAssumption DEF MonHook, PayDebt, RunHookDetached, RunHook
<1>37. ASSUME NEW p \in Pids, MonSweep(p) PROVE TypeOK'
  <2>1. CASE core = None
    BY <1>37, <2>1, SweepType DEF MonSweep
  <2>2. CASE core # None
    BY <1>37, <2>2 DEF MonSweep
  <2> QED
    BY <2>1, <2>2
<1>38. ASSUME NEW h \in HookIds, NEW ok \in BOOLEAN, HookSpawn(h, ok) PROVE TypeOK'
  BY <1>38, ConstantsAssumption DEF HookSpawn
<1>39. ASSUME NEW h \in HookIds, HookEnds(h) PROVE TypeOK'
  BY <1>39, ConstantsAssumption DEF HookEnds
<1>40. CASE UNCHANGED vars
  BY <1>40
<1> QED
  BY <1>1, <1>2, <1>3, <1>4, <1>5, <1>6, <1>7, <1>8, <1>9, <1>10, <1>11, <1>12, <1>13,
     <1>14, <1>15, <1>16, <1>17, <1>18, <1>19, <1>20, <1>21, <1>22, <1>23, <1>24,
     <1>25, <1>26, <1>27, <1>28, <1>29, <1>30, <1>31, <1>32, <1>33, <1>34, <1>35,
     <1>36, <1>37, <1>38, <1>39, <1>40
     DEF Next, ConnStep, ClientStep, MonStep, HookStep

(* The monitored child: reaped only by its monitor, tracked until then.    *)
LEMMA CoreStep == Inv /\ TypeOK' /\ [Next]_vars => (Watched /\ CoreTracked)'
<1> SUFFICES ASSUME Inv, TypeOK', [Next]_vars PROVE (Watched /\ CoreTracked)'
  OBVIOUS
<1> USE ConstantsAssumption DEF Inv, TypeOK, Watched, CoreTracked, Gone, Est, Dropping,
     ConnPhases, Watching, MonPhases, Unreaped, ProcStates, lifeVars, coreVars,
     procVars, sessVars, connVars, hookVars, ghosts, vars
<1>1. CASE UNCHANGED <<core, mon, proc>>
  BY <1>1
<1>2. CASE Boot
  BY <1>2 DEF Boot, SweepOrphans, RunHookDetached, RunHook
<1>3. CASE BootFails
  BY <1>3 DEF BootFails, ProcessEnds
<1>4. CASE Crash
  BY <1>4 DEF Crash, ProcessEnds
<1>5. CASE AcceptFails
  BY <1>5 DEF AcceptFails, ProcessEnds
<1>6. CASE TimerExit
  BY <1>6 DEF TimerExit, ProcessEnds
<1>7. ASSUME NEW c \in Conns, NEW p \in Pids, StartSpawns(c, p)
      PROVE  (Watched /\ CoreTracked)'
  BY <1>7 DEF StartSpawns, Goto
<1>8. ASSUME NEW c \in Conns, DropSweep(c)
      PROVE  (Watched /\ CoreTracked)'
  BY <1>8 DEF DropSweep, Goto, SweepOrphans, RunHookDetached, RunHook
<1>9. ASSUME NEW c \in Conns, DropExit(c)
      PROVE  (Watched /\ CoreTracked)'
  BY <1>9 DEF DropExit, ProcessEnds
<1>10. ASSUME NEW p \in Pids, CoreDies(p)
      PROVE  (Watched /\ CoreTracked)'
  BY <1>10 DEF CoreDies
<1>11. ASSUME NEW p \in Pids, MonPoll(p)
      PROVE  (Watched /\ CoreTracked)'
  BY <1>11 DEF MonPoll
<1>12. ASSUME NEW p \in Pids, MonCheck(p)
      PROVE  (Watched /\ CoreTracked)'
  BY <1>12 DEF MonCheck
<1>13. ASSUME NEW p \in Pids, MonSignal(p)
      PROVE  (Watched /\ CoreTracked)'
  BY <1>13 DEF MonSignal
<1>14. ASSUME NEW p \in Pids, MonExit(p)
      PROVE  (Watched /\ CoreTracked)'
  BY <1>14 DEF MonExit
<1>15. ASSUME NEW p \in Pids, MonPush(p)
      PROVE  (Watched /\ CoreTracked)'
  BY <1>15 DEF MonPush
<1>16. ASSUME NEW p \in Pids, MonHook(p)
      PROVE  (Watched /\ CoreTracked)'
  BY <1>16 DEF MonHook, PayDebt, RunHookDetached, RunHook
<1>17. ASSUME NEW p \in Pids, MonSweep(p)
      PROVE  (Watched /\ CoreTracked)'
  BY <1>17 DEF MonSweep, SweepOrphans, RunHookDetached, RunHook
<1> QED
  BY <1>1, <1>2, <1>3, <1>4, <1>5, <1>6, <1>7, <1>8, <1>9, <1>10, <1>11, <1>12, <1>13,
     <1>14, <1>15, <1>16, <1>17
     DEF Next, ConnStep, ClientStep, MonStep, HookStep, Activate, Listen, TimerFires,
         ClientConnect, ClientClose, Hello, ReadCmd, ReadEnd, Accept, HelloFails,
         Kick, WriteReply, StartRunning, StartFails, StartHook, StopBegins, StopSeen,
         StopHook, CheckKicked, ClearOwner, GraceOver, HookSpawn, HookEnds, Goto,
         PayDebt, RunHook, RunHookDetached, ThreadEnds

(* Live processes: at most the tracked core, across supervisors.           *)
LEMMA AliveStep == Inv /\ TypeOK' /\ [Next]_vars => (OnlyCore /\ AtMostOneCore)'
<1> SUFFICES ASSUME Inv, TypeOK', [Next]_vars PROVE (OnlyCore /\ AtMostOneCore)'
  OBVIOUS
<1> USE ConstantsAssumption DEF Inv, TypeOK, Quiet, Watched, CoreTracked, OnlyCore,
     AtMostOneCore, Gone, Est, Dropping, ConnPhases, Watching, MonPhases, Unreaped,
     ProcStates, lifeVars, coreVars, procVars, sessVars, connVars, hookVars, ghosts,
     vars
<1>1. CASE UNCHANGED <<sup, core, proc, blind>>
  BY <1>1
<1>2. CASE Activate
  BY <1>2 DEF Activate
<1>3. CASE Boot
  BY <1>3 DEF Boot, SweepOrphans, RunHookDetached, RunHook
<1>4. CASE Listen
  BY <1>4 DEF Listen
<1>5. CASE BootFails
  BY <1>5 DEF BootFails, ProcessEnds
<1>6. CASE Crash
  BY <1>6 DEF Crash, ProcessEnds
<1>7. CASE AcceptFails
  BY <1>7 DEF AcceptFails, ProcessEnds
<1>8. CASE TimerExit
  BY <1>8 DEF TimerExit, ProcessEnds
<1>9. ASSUME NEW c \in Conns, NEW p \in Pids, StartSpawns(c, p)
      PROVE  (OnlyCore /\ AtMostOneCore)'
  BY <1>9 DEF StartSpawns, Goto
<1>10. ASSUME NEW c \in Conns, DropSweep(c)
      PROVE  (OnlyCore /\ AtMostOneCore)'
  BY <1>10 DEF DropSweep, Goto, SweepOrphans, RunHookDetached, RunHook
<1>11. ASSUME NEW c \in Conns, DropExit(c)
      PROVE  (OnlyCore /\ AtMostOneCore)'
  BY <1>11 DEF DropExit, ProcessEnds
<1>12. ASSUME NEW p \in Pids, CoreDies(p)
      PROVE  (OnlyCore /\ AtMostOneCore)'
  BY <1>12 DEF CoreDies
<1>13. ASSUME NEW p \in Pids, MonPoll(p)
      PROVE  (OnlyCore /\ AtMostOneCore)'
  BY <1>13 DEF MonPoll
<1>14. ASSUME NEW p \in Pids, MonSignal(p)
      PROVE  (OnlyCore /\ AtMostOneCore)'
  BY <1>14 DEF MonSignal
<1>15. ASSUME NEW p \in Pids, MonExit(p)
      PROVE  (OnlyCore /\ AtMostOneCore)'
  BY <1>15 DEF MonExit
<1>16. ASSUME NEW p \in Pids, MonSweep(p)
      PROVE  (OnlyCore /\ AtMostOneCore)'
  BY <1>16 DEF MonSweep, SweepOrphans, RunHookDetached, RunHook
<1> QED
  BY <1>1, <1>2, <1>3, <1>4, <1>5, <1>6, <1>7, <1>8, <1>9, <1>10, <1>11, <1>12, <1>13,
     <1>14, <1>15, <1>16
     DEF Next, ConnStep, ClientStep, MonStep, HookStep, TimerFires, ClientConnect,
         ClientClose, Hello, ReadCmd, ReadEnd, Accept, HelloFails, Kick, WriteReply,
         StartRunning, StartFails, StartHook, StopBegins, StopSeen, StopHook,
         CheckKicked, ClearOwner, GraceOver, MonCheck, MonPush, MonHook, HookSpawn,
         HookEnds, Goto, PayDebt, RunHook, RunHookDetached, ThreadEnds

(* The lease, and what is true of connections outside it.                  *)
LEMMA LeaseStep == Inv /\ TypeOK' /\ [Next]_vars => (Quiet /\ Fresh /\ LeaseExclusive)'
<1> SUFFICES ASSUME Inv, TypeOK', [Next]_vars PROVE (Quiet /\ Fresh /\ LeaseExclusive)'
  OBVIOUS
<1> USE ConstantsAssumption DEF Inv, TypeOK, Quiet, Fresh, CoreTracked, LeaseExclusive,
     Gone, Est, Dropping, ConnPhases, Watching, MonPhases, Unreaped, ProcStates,
     lifeVars, coreVars, procVars, sessVars, connVars, hookVars, ghosts, vars
<1>1. CASE UNCHANGED <<sup, owner, core, mon, conn, kicked>>
  BY <1>1
<1>2. CASE Activate
  BY <1>2 DEF Activate
<1>3. CASE Boot
  BY <1>3 DEF Boot, SweepOrphans, RunHookDetached, RunHook
<1>4. CASE Listen
  BY <1>4 DEF Listen
<1>5. CASE BootFails
  BY <1>5 DEF BootFails, ProcessEnds
<1>6. CASE Crash
  BY <1>6 DEF Crash, ProcessEnds
<1>7. CASE AcceptFails
  BY <1>7 DEF AcceptFails, ProcessEnds
<1>8. CASE TimerExit
  BY <1>8 DEF TimerExit, ProcessEnds
<1>9. ASSUME NEW c \in Conns, ClientConnect(c)
      PROVE  (Quiet /\ Fresh /\ LeaseExclusive)'
  BY <1>9 DEF ClientConnect, Goto
<1>10. ASSUME NEW c \in Conns, NEW takeover \in BOOLEAN, Hello(c, takeover)
      PROVE  (Quiet /\ Fresh /\ LeaseExclusive)'
  BY <1>10 DEF Hello, Goto, ThreadEnds
<1>11. ASSUME NEW c \in Conns, NEW cmd \in {"start", "status", "stop"}, ReadCmd(c, cmd)
      PROVE  (Quiet /\ Fresh /\ LeaseExclusive)'
  BY <1>11 DEF ReadCmd, Goto
<1>12. ASSUME NEW c \in Conns, ReadEnd(c)
      PROVE  (Quiet /\ Fresh /\ LeaseExclusive)'
  BY <1>12 DEF ReadEnd, Goto
<1>13. ASSUME NEW c \in Conns, NEW allowed \in BOOLEAN, Accept(c, allowed)
      PROVE  (Quiet /\ Fresh /\ LeaseExclusive)'
  BY <1>13 DEF Accept, Goto, ThreadEnds
<1>14. ASSUME NEW c \in Conns, HelloFails(c)
      PROVE  (Quiet /\ Fresh /\ LeaseExclusive)'
  BY <1>14 DEF HelloFails, Goto, ThreadEnds
<1>15. ASSUME NEW c \in Conns, Kick(c)
      PROVE  (Quiet /\ Fresh /\ LeaseExclusive)'
  BY <1>15 DEF Kick, Goto
<1>16. ASSUME NEW c \in Conns, WriteReply(c)
      PROVE  (Quiet /\ Fresh /\ LeaseExclusive)'
  BY <1>16 DEF WriteReply, Goto
<1>17. ASSUME NEW c \in Conns, StartRunning(c)
      PROVE  (Quiet /\ Fresh /\ LeaseExclusive)'
  BY <1>17 DEF StartRunning, Goto
<1>18. ASSUME NEW c \in Conns, StartFails(c)
      PROVE  (Quiet /\ Fresh /\ LeaseExclusive)'
  BY <1>18 DEF StartFails, Goto
<1>19. ASSUME NEW c \in Conns, NEW p \in Pids, StartSpawns(c, p)
      PROVE  (Quiet /\ Fresh /\ LeaseExclusive)'
  BY <1>19 DEF StartSpawns, Goto
<1>20. ASSUME NEW c \in Conns, StartHook(c)
      PROVE  (Quiet /\ Fresh /\ LeaseExclusive)'
  BY <1>20 DEF StartHook, Goto, RunHookDetached, RunHook
<1>21. ASSUME NEW c \in Conns, StopBegins(c)
      PROVE  (Quiet /\ Fresh /\ LeaseExclusive)'
  BY <1>21 DEF StopBegins, Goto
<1>22. ASSUME NEW c \in Conns, StopSeen(c)
      PROVE  (Quiet /\ Fresh /\ LeaseExclusive)'
  BY <1>22 DEF StopSeen, Goto
<1>23. ASSUME NEW c \in Conns, StopHook(c)
      PROVE  (Quiet /\ Fresh /\ LeaseExclusive)'
  BY <1>23 DEF StopHook, Goto, PayDebt, RunHook
<1>24. ASSUME NEW c \in Conns, CheckKicked(c)
      PROVE  (Quiet /\ Fresh /\ LeaseExclusive)'
  BY <1>24 DEF CheckKicked, Goto, ThreadEnds
<1>25. ASSUME NEW c \in Conns, ClearOwner(c)
      PROVE  (Quiet /\ Fresh /\ LeaseExclusive)'
  BY <1>25 DEF ClearOwner, Goto
<1>26. ASSUME NEW c \in Conns, DropSweep(c)
      PROVE  (Quiet /\ Fresh /\ LeaseExclusive)'
  BY <1>26 DEF DropSweep, Goto, SweepOrphans, RunHookDetached, RunHook
<1>27. ASSUME NEW c \in Conns, DropExit(c)
      PROVE  (Quiet /\ Fresh /\ LeaseExclusive)'
  BY <1>27 DEF DropExit, ProcessEnds
<1>28. ASSUME NEW p \in Pids, MonPoll(p)
      PROVE  (Quiet /\ Fresh /\ LeaseExclusive)'
  BY <1>28 DEF MonPoll
<1>29. ASSUME NEW p \in Pids, MonCheck(p)
      PROVE  (Quiet /\ Fresh /\ LeaseExclusive)'
  BY <1>29 DEF MonCheck
<1>30. ASSUME NEW p \in Pids, MonSignal(p)
      PROVE  (Quiet /\ Fresh /\ LeaseExclusive)'
  BY <1>30 DEF MonSignal
<1>31. ASSUME NEW p \in Pids, MonExit(p)
      PROVE  (Quiet /\ Fresh /\ LeaseExclusive)'
  BY <1>31 DEF MonExit
<1>32. ASSUME NEW p \in Pids, MonPush(p)
      PROVE  (Quiet /\ Fresh /\ LeaseExclusive)'
  BY <1>32 DEF MonPush
<1>33. ASSUME NEW p \in Pids, MonHook(p)
      PROVE  (Quiet /\ Fresh /\ LeaseExclusive)'
  BY <1>33 DEF MonHook, PayDebt, RunHookDetached, RunHook
<1>34. ASSUME NEW p \in Pids, MonSweep(p)
      PROVE  (Quiet /\ Fresh /\ LeaseExclusive)'
  BY <1>34 DEF MonSweep, SweepOrphans, RunHookDetached, RunHook
<1> QED
  BY <1>1, <1>2, <1>3, <1>4, <1>5, <1>6, <1>7, <1>8, <1>9, <1>10, <1>11, <1>12, <1>13,
     <1>14, <1>15, <1>16, <1>17, <1>18, <1>19, <1>20, <1>21, <1>22, <1>23, <1>24,
     <1>25, <1>26, <1>27, <1>28, <1>29, <1>30, <1>31, <1>32, <1>33, <1>34
     DEF Next, ConnStep, ClientStep, MonStep, HookStep, TimerFires, ClientClose, CoreDies,
         GraceOver, HookSpawn, HookEnds

(* Inv holds initially and every step keeps it.                            *)
THEOREM Invariance == Spec => []Inv
<1>1. Init => Inv
  <2> SUFFICES ASSUME Init PROVE Inv
    OBVIOUS
  <2> USE ConstantsAssumption DEF Init
  <2>1. TypeOK
    <3>1. debt \in Int
      OBVIOUS
    <3>2. /\ proc \in [Pids -> ProcStates] /\ mon \in [Pids -> MonPhases]
          /\ esc \in [Pids -> {"none", "term", "due", "kill"}]
          /\ conn \in [Conns -> ConnPhases]
          /\ peer \in [Conns -> BOOLEAN] /\ kicked \in [Conns -> BOOLEAN]
      BY DEF ConnPhases, MonPhases, ProcStates, Unreaped
    <3>3. /\ victim \in [Conns -> Conns \cup {None}]
          /\ joins \in [Conns -> HookIds \cup {None}]
          /\ hookSt \in [HookIds -> {"free", "thread", "child", "stray"}]
          /\ hookEv \in [HookIds -> {"up", "down"}]
      OBVIOUS
    <3>4. /\ sup \in Gone /\ timer \in {"armed", "exiting", "done"}
          /\ owner \in Conns \cup {None} /\ core \in Pids \cup {None}
          /\ stopReq \in BOOLEAN /\ blind \in BOOLEAN
      BY Zenon DEF Gone
    <3> QED
      BY <3>1, <3>2, <3>3, <3>4 DEF TypeOK
  <2>2. Quiet /\ Fresh /\ Watched /\ OnlyCore
    BY DEF Quiet, Fresh, Watched, Watching, OnlyCore
  <2>3. CoreTracked /\ AtMostOneCore
    BY DEF CoreTracked, AtMostOneCore, Watching
  <2>4. LeaseExclusive
    BY DEF LeaseExclusive, Est
  <2> QED
    BY <2>1, <2>2, <2>3, <2>4 DEF Inv
<1>2. Inv /\ [Next]_vars => Inv'
  BY TypeStep, CoreStep, AliveStep, LeaseStep DEF Inv
<1> QED
  BY <1>1, <1>2, PTL DEF Spec
-----------------------------------------------------------------------------
(* The types of all variables.                                             *)
THEOREM TypeCorrect == Spec => []TypeOK
  BY Invariance, PTL DEF Inv

(* State::core names a pid exactly as long as that pid's monitor has not   *)
(* reported its exit, so seeing Stopped under the lock means this          *)
(* supervisor has no core process.                                         *)
THEOREM CoreIsTracked == Spec => []CoreTracked
  BY Invariance, PTL DEF Inv

(* kill(2) is only ever called on an un-reaped child: no signal can reach  *)
(* a pid that the system has given to another process.                     *)
THEOREM SignalsOwnChild == Spec => []SignalOwnChild
<1>1. Inv => SignalOwnChild
  BY DEF Inv, Watched, Watching, SignalOwnChild
<1> QED
  BY <1>1, Invariance, PTL

(* One live core at most, however many supervisors crash, exit and are     *)
(* activated again, as long as no sweep missed an orphan.                  *)
THEOREM OneCore == Spec => []AtMostOneCore
  BY Invariance, PTL DEF Inv

(* The lease belongs to the one established connection that has not been   *)
(* displaced, for any number of clients and takeovers.                     *)
THEOREM LeaseIsExclusive == Spec => []LeaseExclusive
  BY Invariance, PTL DEF Inv

-----------------------------------------------------------------------------
(* Who looks after the core.                                               *)

\* CoreAttended made inductive: a displaced owner's thread still takes
\* commands, so the same must hold while there is one.
Attended ==
  core # None \/ (\E c \in Conns : kicked[c])
    => owner # None \/ \E c \in Conns : conn[c] \in Dropping

(* A step that starts no core, displaces nobody and gives no lease back.   *)
LEMMA AttendedFrame ==
  ASSUME Attended, owner # None => owner' # None, core' = core \/ core' = None,
         \A c \in Conns : conn[c] \in Dropping => conn'[c] \in Dropping,
         \A c \in Conns : kicked'[c] => kicked[c]
  PROVE  Attended'
  BY DEF Attended

(* Every step leaves the core with a lease or a thread on its way to exit. *)
LEMMA AttendedStep == Inv /\ Attended /\ [Next]_vars => Attended'
<1> SUFFICES ASSUME Inv, Attended, [Next]_vars PROVE Attended'
  OBVIOUS
<1>1. TypeOK /\ LeaseExclusive
  BY DEF Inv
<1> USE ConstantsAssumption DEF TypeOK, Dropping, Est, lifeVars, coreVars, procVars,
     sessVars, connVars, hookVars, ghosts, vars
<1>2. CASE UNCHANGED <<owner, conn, kicked>> /\ (core' = core \/ core' = None)
  BY <1>2, AttendedFrame
<1>3. CASE BootFails \/ Crash \/ AcceptFails \/ TimerExit \/ \E c \in Conns : DropExit(c)
  <2>1. \E how : ProcessEnds(how)
    BY <1>3 DEF BootFails, Crash, AcceptFails, TimerExit, DropExit
  <2> QED
    BY <2>1 DEF ProcessEnds, Attended
<1>4. ASSUME NEW c \in Conns, ClientConnect(c) \/ HelloFails(c) \/ Kick(c) \/ WriteReply(c)
                              \/ ReadEnd(c) \/ StartRunning(c) \/ StartFails(c)
      PROVE  Attended'
  BY <1>1, <1>4, AttendedFrame DEF ClientConnect, HelloFails, Kick, WriteReply, ReadEnd,
                                   StartRunning, StartFails, ThreadEnds, Goto
<1>5. ASSUME NEW c \in Conns, NEW allowed \in BOOLEAN, Accept(c, allowed)
      PROVE  Attended'
  BY <1>1, <1>5, AttendedFrame DEF Accept, ThreadEnds, Goto
<1>6. ASSUME NEW c \in Conns, NEW takeover \in BOOLEAN, Hello(c, takeover)
      PROVE  Attended'
  <2>1. CASE owner' = c
    BY <2>1 DEF Attended
  <2>2. CASE ThreadEnds(c) /\ UNCHANGED <<owner, core>> /\ conn[c] = "hello"
    BY <1>1, <2>2, AttendedFrame DEF ThreadEnds, Goto
  <2> QED
    BY <1>6, <2>1, <2>2 DEF Hello
<1>7. ASSUME NEW c \in Conns, NEW cmd \in {"start", "status", "stop"}, ReadCmd(c, cmd)
      PROVE  Attended'
  BY <1>1, <1>7, AttendedFrame DEF ReadCmd, Goto
<1>8. ASSUME NEW c \in Conns, NEW p \in Pids, StartSpawns(c, p)
      PROVE  Attended'
  <2>1. owner = c \/ kicked[c]
    BY <1>1, <1>8 DEF StartSpawns, LeaseExclusive
  <2>2. owner # None \/ \E d \in Conns : conn[d] \in Dropping
    BY <2>1 DEF Attended
  <2>3. owner' = owner /\ \A d \in Conns : conn[d] \in Dropping => conn'[d] \in Dropping
    BY <1>1, <1>8 DEF StartSpawns, Goto
  <2> QED
    BY <2>2, <2>3 DEF Attended
<1>9. ASSUME NEW c \in Conns, StartHook(c) \/ CheckKicked(c) \/ DropSweep(c)
      PROVE  Attended'
  BY <1>1, <1>9, AttendedFrame DEF StartHook, CheckKicked, DropSweep, ThreadEnds, Goto
<1>10. ASSUME NEW c \in Conns, ClearOwner(c) PROVE Attended'
  <2>1. conn'[c] = "drop"
    BY <1>1, <1>10 DEF ClearOwner, Goto
  <2> QED
    BY <2>1 DEF Attended
<1>11. ASSUME NEW c \in Conns, StopBegins(c) \/ StopSeen(c) \/ StopHook(c) PROVE Attended'
  BY <1>1, <1>11, AttendedFrame DEF StopBegins, StopSeen, StopHook, Goto
<1> QED
  BY <1>2, <1>3, <1>4, <1>5, <1>6, <1>7, <1>8, <1>9, <1>10, <1>11
  DEF Next, ConnStep, ClientStep, MonStep, HookStep, Activate, Boot, Listen, TimerFires,
      ClientClose, CoreDies, GraceOver, MonPoll, MonCheck, MonSignal, MonExit, MonPush,
      MonHook, MonSweep, HookSpawn, HookEnds

(* No core is left to itself: for any number of clients, takeovers and     *)
(* displaced owners that go on commanding, a core that runs has an owner   *)
(* or a thread that will end the process.                                  *)
THEOREM CoreIsAttended == Spec => []CoreAttended
<1>1. Init => Attended
  BY DEF Init, Attended
<1>2. Attended => CoreAttended
  BY DEF Attended, CoreAttended
<1> QED
  BY <1>1, <1>2, AttendedStep, Invariance, PTL DEF Spec
-----------------------------------------------------------------------------
(* Who kills the core.                                                     *)

\* A monitor signals, and its escalation is under way, only while a stop is
\* requested of its own child.
Asked ==
  \A p \in Pids : mon[p] = "signal" \/ esc[p] # "none" => core = p /\ stopReq

(* A step that gives no monitor a reason to signal.                        *)
LEMMA AskedFrame ==
  ASSUME Asked, core' = core, stopReq => stopReq', mon' = mon, esc' = esc
  PROVE  Asked'
  BY DEF Asked

(* Every step keeps the escalation with the core it is meant for.          *)
LEMMA AskedStep == Inv /\ Asked /\ [Next]_vars => Asked'
<1> SUFFICES ASSUME Inv, Asked, [Next]_vars PROVE Asked'
  OBVIOUS
<1>1. TypeOK /\ CoreTracked
  BY DEF Inv
<1> USE ConstantsAssumption DEF TypeOK, Watching, lifeVars, coreVars, procVars, sessVars,
     connVars, hookVars, ghosts, vars
<1>2. CASE UNCHANGED <<core, stopReq, mon, esc>>
  BY <1>2, AskedFrame
<1>3. CASE BootFails \/ Crash \/ AcceptFails \/ TimerExit \/ \E c \in Conns : DropExit(c)
  <2>1. \E how : ProcessEnds(how)
    BY <1>3 DEF BootFails, Crash, AcceptFails, TimerExit, DropExit
  <2> QED
    BY <2>1 DEF ProcessEnds, Asked
<1>4. ASSUME NEW c \in Conns, NEW p \in Pids, StartSpawns(c, p) PROVE Asked'
  BY <1>1, <1>4 DEF StartSpawns, Asked
<1>5. ASSUME NEW c \in Conns, StopBegins(c) PROVE Asked'
  BY <1>1, <1>5, AskedFrame DEF StopBegins, Asked
<1>6. ASSUME NEW p \in Pids, MonPoll(p) \/ MonPush(p) \/ MonHook(p) \/ MonSweep(p)
      PROVE  Asked'
  BY <1>1, <1>6 DEF MonPoll, MonPush, MonHook, MonSweep, Asked
<1>7. ASSUME NEW p \in Pids, MonCheck(p) \/ MonSignal(p) \/ GraceOver(p) PROVE Asked'
  BY <1>1, <1>7 DEF MonCheck, MonSignal, GraceOver, Asked
<1>8. ASSUME NEW p \in Pids, MonExit(p) PROVE Asked'
  BY <1>1, <1>8 DEF MonExit, Asked, CoreTracked
<1> QED
  BY <1>2, <1>3, <1>4, <1>5, <1>6, <1>7, <1>8
  DEF Next, ConnStep, ClientStep, MonStep, HookStep, Activate, Boot, Listen, TimerFires,
      ClientConnect, ClientClose, Hello, ReadCmd, ReadEnd, Accept, HelloFails, Kick,
      WriteReply, StartRunning, StartFails, StartHook, StopSeen, StopHook, CheckKicked,
      ClearOwner, DropSweep, CoreDies, HookSpawn, HookEnds

\* The step property of CoreKilledForCause.
ForCause ==
  \A p \in Pids :
    core = p /\ proc[p] = "alive" /\ proc'[p] = "killed"
      => \/ stopReq /\ esc[p] = "due"
         \/ \E c \in Conns : conn[c] = "sweep"

(* Of the steps that change a process, only the two causes kill the core.  *)
LEMMA KillStep == Inv /\ Asked /\ [Next]_vars => ForCause
<1> SUFFICES ASSUME Inv, Asked, [Next]_vars PROVE ForCause
  OBVIOUS
<1>1. TypeOK /\ Quiet
  BY DEF Inv
<1> USE ConstantsAssumption DEF TypeOK, ForCause, lifeVars, coreVars, procVars, sessVars,
     connVars, hookVars, ghosts, vars
<1>2. CASE UNCHANGED proc
  BY <1>2
<1>3. CASE BootFails \/ Crash \/ AcceptFails \/ TimerExit \/ \E c \in Conns : DropExit(c)
  <2>1. \E how : ProcessEnds(how)
    BY <1>3 DEF BootFails, Crash, AcceptFails, TimerExit, DropExit
  <2> QED
    BY <2>1 DEF ProcessEnds
<1>4. CASE Boot
  BY <1>1, <1>4 DEF Boot, Quiet
<1>5. ASSUME NEW c \in Conns, NEW p \in Pids, StartSpawns(c, p) PROVE ForCause
  BY <1>1, <1>5 DEF StartSpawns
<1>6. ASSUME NEW c \in Conns, DropSweep(c) PROVE ForCause
  BY <1>6 DEF DropSweep
<1>7. ASSUME NEW p \in Pids, CoreDies(p) \/ MonPoll(p) PROVE ForCause
  BY <1>1, <1>7 DEF CoreDies, MonPoll
<1>8. ASSUME NEW p \in Pids, MonSignal(p) PROVE ForCause
  BY <1>1, <1>8 DEF MonSignal, Asked
<1>9. ASSUME NEW p \in Pids, MonSweep(p) PROVE ForCause
  BY <1>9 DEF MonSweep
<1> QED
  BY <1>2, <1>3, <1>4, <1>5, <1>6, <1>7, <1>8, <1>9
  DEF Next, ConnStep, ClientStep, MonStep, HookStep, Activate, Listen, TimerFires,
      ClientConnect, ClientClose, Hello, ReadCmd, ReadEnd, Accept, HelloFails, Kick,
      WriteReply, StartRunning, StartFails, StartHook, StopBegins, StopSeen, StopHook,
      CheckKicked, ClearOwner, GraceOver, MonCheck, MonExit, MonPush, MonHook,
      HookSpawn, HookEnds

(* A running core dies by the supervisor's hand only when it was itself    *)
(* asked to stop and outstayed its grace, or in the sweep of the exit      *)
(* path: not by a sweep or a signal meant for a core before it.            *)
THEOREM KilledForCause == Spec => CoreKilledForCause
<1>1. Init => Asked
  BY DEF Init, Asked
<1>2. Inv /\ Asked /\ [Next]_vars => [ForCause]_vars
  BY KillStep
<1> QED
  BY <1>1, <1>2, AskedStep, Invariance, PTL DEF Spec, CoreKilledForCause, ForCause
=============================================================================
