----------------------------- MODULE CoreService -----------------------------
(***************************************************************************)
(* What the supervisor promises, with no threads, sockets, signals or      *)
(* supervisor processes in sight: a service that lends itself to one       *)
(* client at a time and runs one core.  Supervisor implements it; the      *)
(* mapping is in SupervisorService.                                        *)
(***************************************************************************)
CONSTANTS Clients,  \* those the lease can be lent to
          Cores,    \* identities of core processes
          None

VARIABLES owner,   \* the client that holds the lease, or None
          core,    \* the core that is announced as running, or None
          live,    \* the core processes that run
          missed   \* a reconciliation failed while a core was running

vars == <<owner, core, live, missed>>

\* No core runs except the announced one, as far as reconciliation could see.
Reconciled == missed \/ live \subseteq {core}

\* A core may be left over from before.
Init ==
  /\ owner = None /\ core = None /\ missed = FALSE
  /\ \E left \in Cores \cup {None} : live = {left} \ {None}

\* The lease is lent only by a service that has cleaned up after the last one.
Lend(c) ==
  /\ owner = None /\ Reconciled
  /\ owner' = c
  /\ UNCHANGED <<core, live, missed>>

\* A takeover moves the lease and nothing else: the core keeps running.
TakeOver(c) ==
  /\ owner \notin {None, c}
  /\ owner' = c
  /\ UNCHANGED <<core, live, missed>>

Return ==
  /\ owner # None
  /\ owner' = None
  /\ UNCHANGED <<core, live, missed>>

\* A core starts only where none is announced and none is left running.
Start(p) ==
  /\ core = None /\ p \notin live /\ (missed \/ live = {})
  /\ core' = p /\ live' = live \cup {p}
  /\ UNCHANGED <<owner, missed>>

\* Asked to, killed or crashed, a process ends ...
Die(p) ==
  /\ p \in live
  /\ live' = live \ {p}
  /\ UNCHANGED <<owner, core, missed>>

\* ... and only then is the core announced as stopped.
Stopped ==
  /\ core # None /\ core \notin live
  /\ core' = None
  /\ UNCHANGED <<owner, live, missed>>

\* Every core process is killed, or the attempt fails.
Reconcile ==
  /\ \/ live' = {} /\ missed' = FALSE
     \/ live' = live /\ missed' = (missed \/ live # {})
  /\ UNCHANGED <<owner, core>>

\* The service ends and forgets; what runs goes on running.
End ==
  /\ owner' = None /\ core' = None
  /\ UNCHANGED <<live, missed>>

Next ==
  \/ \E c \in Clients : Lend(c) \/ TakeOver(c)
  \/ \E p \in Cores : Start(p) \/ Die(p)
  \/ Return \/ Stopped \/ Reconcile \/ End

Spec == Init /\ [][Next]_vars
=============================================================================
