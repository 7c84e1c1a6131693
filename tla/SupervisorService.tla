-------------------------- MODULE SupervisorService --------------------------
(* The refinement mapping from Supervisor to CoreService: connections are  *)
(* the clients, pids the cores.  Live is what the kernel says; a core that *)
(* was sent SIGKILL is no longer counted, one that the supervisor tracks   *)
(* may already be dead.                                                    *)
EXTENDS Supervisor

Live == {p \in Pids : proc[p] = "alive"}

Service == INSTANCE CoreService
             WITH Clients <- Conns, Cores <- Pids, live <- Live, missed <- blind

(* Every behaviour of the supervisor's threads, over crashes and restarts, *)
(* is a behaviour of CoreService: no lease is lent and no core started     *)
(* beside a core that an earlier supervisor left, a takeover leaves the    *)
(* core alone, and Stopped is never announced for a live process.          *)
ImplementsService == Service!Spec
=============================================================================
