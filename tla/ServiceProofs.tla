---------------------------- MODULE ServiceProofs ----------------------------
(***************************************************************************)
(* The supervisor implements CoreService, for any number of connections,   *)
(* pids and hook runs: initial states map to initial states and, from a    *)
(* state of Inv, every step maps to a step of the service or to none.      *)
(***************************************************************************)
EXTENDS SupervisorService, SupervisorProofs

\* A step of the service, or nothing that its clients could notice.
ServiceStep == Service!Next \/ UNCHANGED Service!vars

(* A sweep, from whichever thread, is a reconciliation.                    *)
LEMMA SweepReconciles ==
  ASSUME TypeOK, SweepOrphans, UNCHANGED <<owner, core>>
  PROVE  Service!Reconcile
<1> DEFINE seen == {p \in Pids : proc[p] \in {"alive", "killed"}}
<1>1. CASE /\ proc' = [p \in Pids |-> IF p \in seen THEN "killed" ELSE proc[p]]
           /\ blind' = FALSE
  <2>1. Live' = {}
    BY <1>1 DEF Live, TypeOK
  <2> QED
    BY <1>1, <2>1 DEF Service!Reconcile
<1>2. CASE /\ blind' = (blind \/ \E p \in Pids : proc[p] = "alive")
           /\ UNCHANGED proc
  <2>1. Live' = Live
    BY <1>2 DEF Live
  <2>2. (Live # {}) <=> \E p \in Pids : proc[p] = "alive"
    BY DEF Live
  <2> QED
    BY <1>2, <2>1, <2>2 DEF Service!Reconcile
<1> QED
  BY <1>1, <1>2 DEF SweepOrphans, hookVars

(* The end of a supervisor process, by whatever cause, ends the service.   *)
LEMMA EndsService ==
  ASSUME TypeOK, NEW how \in Gone, ProcessEnds(how)
  PROVE  Service!End
<1>1. Live' = Live
  BY DEF Live, ProcessEnds, TypeOK
<1> QED
  BY <1>1 DEF ProcessEnds, Service!End

(* Every step of the supervisor, its clients and its core.                 *)
LEMMA StepImplements ==
  ASSUME Inv, [Next]_vars
  PROVE  ServiceStep
<1> USE DEF lifeVars, coreVars, procVars, sessVars, connVars, hookVars, ghosts, vars
<1>1. CASE UNCHANGED <<owner, core, proc, blind>>
  BY <1>1 DEF ServiceStep, Service!vars, Live
<1>2. CASE Boot
  BY <1>2, SweepReconciles DEF Boot, Inv, ServiceStep, Service!Next
<1>3. CASE BootFails \/ Crash \/ AcceptFails \/ TimerExit \/ \E c \in Conns : DropExit(c)
  BY <1>3, EndsService
     DEF BootFails, Crash, AcceptFails, TimerExit, DropExit, Gone, Inv, ServiceStep,
         Service!Next
<1>4. ASSUME NEW c \in Conns, NEW takeover \in BOOLEAN, Hello(c, takeover)
      PROVE  ServiceStep
  <2>1. sup = "serving"
    BY <1>4 DEF Hello, Inv, Quiet
  <2>2. Live' = Live /\ UNCHANGED <<core, blind>>
    BY <1>4 DEF Hello, Live
  <2>3. CASE owner = None
    <3>1. Service!Reconciled
      BY <2>1 DEF Inv, OnlyCore, Service!Reconciled, Live
    <3>2. owner' = c
      BY <1>4, <2>3 DEF Hello
    <3> QED
      BY <2>2, <2>3, <3>1, <3>2 DEF Service!Lend, Service!Next, ServiceStep
  <2>4. CASE owner # None /\ takeover
    <3>1. owner # c
      BY <1>4, ConstantsAssumption DEF Hello, Inv, LeaseExclusive, Est
    <3>2. owner' = c
      BY <1>4, <2>4 DEF Hello
    <3> QED
      BY <2>2, <2>4, <3>1, <3>2 DEF Service!TakeOver, Service!Next, ServiceStep
  <2>5. CASE owner # None /\ ~takeover
    <3>1. UNCHANGED owner
      BY <1>4, <2>5 DEF Hello
    <3> QED
      BY <2>2, <3>1 DEF Service!vars, ServiceStep
  <2> QED
    BY <2>3, <2>4, <2>5
<1>5. ASSUME NEW c \in Conns, NEW p \in Pids, StartSpawns(c, p)
      PROVE  ServiceStep
  <2>1. sup = "serving"
    BY <1>5 DEF StartSpawns, Inv, Quiet
  <2>2. p \notin Live /\ core = None
    BY <1>5 DEF StartSpawns, Live
  <2>3. blind \/ Live = {}
    BY <2>1, <2>2, ConstantsAssumption DEF Inv, OnlyCore, Live
  <2>4. Live' = Live \cup {p}
    BY <1>5 DEF StartSpawns, Live, Inv, TypeOK
  <2>5. core' = p /\ UNCHANGED <<owner, blind>>
    BY <1>5 DEF StartSpawns
  <2> QED
    BY <2>2, <2>3, <2>4, <2>5 DEF Service!Start, Service!Next, ServiceStep
<1>6. ASSUME NEW c \in Conns, ClearOwner(c)
      PROVE  ServiceStep
  <2>1. Live' = Live /\ UNCHANGED <<core, blind>>
    BY <1>6 DEF ClearOwner, Live
  <2>2. CASE owner = c
    BY <1>6, <2>1, <2>2, ConstantsAssumption
       DEF ClearOwner, Service!Return, Service!Next, ServiceStep
  <2>3. CASE owner # c
    BY <1>6, <2>1, <2>3 DEF ClearOwner, Service!vars, ServiceStep
  <2> QED
    BY <2>2, <2>3
<1>7. ASSUME NEW c \in Conns, DropSweep(c)
      PROVE  ServiceStep
  BY <1>7, SweepReconciles DEF DropSweep, Inv, ServiceStep, Service!Next
<1>8. ASSUME NEW p \in Pids, CoreDies(p)
      PROVE  ServiceStep
  <2>1. UNCHANGED <<owner, core, blind>>
    BY <1>8 DEF CoreDies
  <2>2. Live' = Live \ {p}
    BY <1>8 DEF CoreDies, Live, Inv, TypeOK
  <2> QED
    BY <2>1, <2>2 DEF Service!Die, Service!vars, Service!Next, ServiceStep
<1>9. ASSUME NEW p \in Pids, MonPoll(p)
      PROVE  ServiceStep
  <2>1. UNCHANGED <<owner, core, blind>>
    BY <1>9 DEF MonPoll
  <2>2. Live' = Live
    BY <1>9 DEF MonPoll, Live, Inv, TypeOK
  <2> QED
    BY <2>1, <2>2 DEF Service!vars, ServiceStep
<1>10. ASSUME NEW p \in Pids, MonSignal(p)
       PROVE  ServiceStep
  <2>1. UNCHANGED <<owner, core, blind>>
    BY <1>10 DEF MonSignal
  <2>2. Live' = Live \/ (p \in Live /\ Live' = Live \ {p})
    BY <1>10 DEF MonSignal, Live, Inv, TypeOK
  <2> QED
    BY <2>1, <2>2 DEF Service!Die, Service!vars, Service!Next, ServiceStep
<1>11. ASSUME NEW p \in Pids, MonExit(p)
       PROVE  ServiceStep
  <2>1. p \notin Live /\ Live' = Live /\ UNCHANGED <<owner, blind>>
    BY <1>11 DEF MonExit, Live, Inv, Watched
  <2>2. CASE core = p
    BY <1>11, <2>1, <2>2, ConstantsAssumption
       DEF MonExit, Service!Stopped, Service!Next, ServiceStep
  <2>3. CASE core # p
    BY <1>11, <2>1, <2>3 DEF MonExit, Service!vars, ServiceStep
  <2> QED
    BY <2>2, <2>3
<1>12. ASSUME NEW p \in Pids, MonSweep(p)
       PROVE  ServiceStep
  <2>1. CASE core = None
    BY <1>12, <2>1, SweepReconciles DEF MonSweep, Inv, ServiceStep, Service!Next
  <2>2. CASE core # None
    BY <1>12, <2>2, <1>1 DEF MonSweep
  <2> QED
    BY <2>1, <2>2
<1> QED
  BY <1>1, <1>2, <1>3, <1>4, <1>5, <1>6, <1>7, <1>8, <1>9, <1>10, <1>11, <1>12
     DEF Next, ConnStep, ClientStep, MonStep, HookStep, Activate, Listen, TimerFires,
         ClientConnect, ClientClose, ReadCmd, ReadEnd, Accept, HelloFails, Kick,
         WriteReply, StartRunning, StartFails, StartHook, StopBegins, StopSeen,
         StopHook, CheckKicked, GraceOver, MonCheck, MonPush, MonHook, HookSpawn, HookEnds,
         Goto, PayDebt, RunHook, RunHookDetached, ThreadEnds

(* The supervisor's threads, over every crash, takeover and restart, keep  *)
(* the promises of CoreService.                                            *)
THEOREM SupervisorImplements == Spec => ImplementsService
<1>1. Init => Service!Init
  <2> SUFFICES ASSUME Init PROVE Service!Init
    OBVIOUS
  <2>1. PICK orphan \in Pids \cup {None} :
          proc = [p \in Pids |-> IF p = orphan THEN "alive" ELSE "free"]
    BY DEF Init
  <2>2. Live = {orphan} \ {None}
    BY <2>1, ConstantsAssumption DEF Live
  <2> QED
    BY <2>2 DEF Init, Service!Init
<1>2. Inv /\ [Next]_vars => [Service!Next]_(Service!vars)
  BY StepImplements DEF ServiceStep
<1> QED
  BY <1>1, <1>2, Invariance, PTL DEF Spec, ImplementsService, Service!Spec
=============================================================================
