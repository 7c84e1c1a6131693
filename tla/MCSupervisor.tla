---------------------------- MODULE MCSupervisor ----------------------------
(* Small instances of Supervisor for TLC.                                  *)
EXTENDS SupervisorService, TLC

\* Connections, pids and hook runs are interchangeable.
Symmetry == Permutations(Conns) \cup Permutations(Pids) \cup Permutations(HookIds)
=============================================================================
