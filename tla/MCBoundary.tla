----------------------------- MODULE MCBoundary -----------------------------
(***************************************************************************)
(* The pure operators of Wire, ProcessList, Quoting and Trust, each        *)
(* against its statement, over inputs that grow step by step: a line of    *)
(* the protocol ages, a process list and its arguments get longer, a path  *)
(* gets one more character, a file is changed.                             *)
(***************************************************************************)
EXTENDS Naturals, Sequences, FiniteSets

CONSTANTS MaxArgs,      \* arguments of one process
          MaxPath       \* characters of one path

W == INSTANCE Wire
P == INSTANCE ProcessList
Q == INSTANCE Quoting
T == INSTANCE Trust

ASSUME BoundsAssumption == MaxArgs \in Nat /\ MaxPath \in Nat

VARIABLE input          \* a record; input.of tells which operators it is for
vars == <<input>>

Users == {0, 501, 502}
GroupOf == [u \in Users |-> IF u = 0 THEN 0 ELSE 20]
NewFile(auth, euid) ==
  [of |-> "file", auth |-> auth, euid |-> euid,
   file |-> [is_file |-> TRUE, uid |-> euid, gid |-> GroupOf[euid], mode |-> {}]]

Init ==
  \/ \E ev \in W!SupervisorEvents :
        input = [of |-> "event", ev |-> ev, line |-> W!encode_event(ev)]
  \/ \E cmd \in W!BridgeCmds : input = [of |-> "cmd", cmd |-> cmd]
  \/ \E prog, other \in P!Programs :
        input = [of |-> "ps", procs |-> {[pid |-> "11", argv |-> <<prog>>],
                                         [pid |-> "12", argv |-> <<other>>]},
                 exclude_pid |-> "none"]
  \/ \E there \in SUBSET {"script", "supervisor", "core"} :
        input = [of |-> "path", path |-> <<"x">>, there |-> there]
  \/ \E u \in Users \ {0} :
        input \in {NewFile(T!Launchd(u), 0), NewFile(T!Dev(u), u), NewFile(T!Dev(0), 0)}

\* An older supervisor leaves out a key that the bridge has a default for.
OlderSupervisor ==
  /\ input.of = "event"
  /\ \E k \in W!Optional(input.ev) \cap DOMAIN input.line :
        input' = [input EXCEPT !.line = [j \in DOMAIN input.line \ {k} |-> input.line[j]]]

\* A newer one adds a key, or sends a kind of event that the bridge does not know.
NewerSupervisor ==
  /\ input.of = "event"
  /\ \/ /\ "extra" \notin DOMAIN input.line
        /\ input' = [input EXCEPT !.line =
                       [j \in DOMAIN input.line \cup {"extra"} |->
                          IF j = "extra" THEN "text" ELSE input.line[j]]]
     \/ input' = [input EXCEPT !.line["event"] = "core_paused"]

\* A process has one more argument.
LongerArgv ==
  /\ input.of = "ps"
  /\ \E p \in input.procs, arg \in {<<"--daemon">>, P!Managed, P!Own, P!Vpn} :
        /\ Len(p.argv) <= MaxArgs
        /\ input' = [input EXCEPT !.procs =
                       (@ \ {p}) \cup {[p EXCEPT !.argv = Append(@, arg)]}]

\* The caller of the sweep has a core of its own.
OwnCore ==
  /\ input.of = "ps"
  /\ input.exclude_pid = "none"
  /\ \E p \in input.procs : input' = [input EXCEPT !.exclude_pid = p.pid]

LongerPath ==
  /\ input.of = "path"
  /\ Len(input.path) < MaxPath
  /\ \E c \in Q!Special \cup {"x"} : input' = [input EXCEPT !.path = Append(@, c)]

\* Somebody changes the file before the supervisor looks at it.
FileChanges ==
  /\ input.of = "file"
  /\ \/ \E b \in T!Bits : input' = [input EXCEPT !.file.mode = @ \cup {b}]
     \/ \E u \in Users : input' = [input EXCEPT !.file.uid = u]
     \/ \E u \in Users : input' = [input EXCEPT !.file.gid = GroupOf[u]]
     \/ input' = [input EXCEPT !.file.is_file = FALSE]

Next == OlderSupervisor \/ NewerSupervisor \/ LongerArgv \/ OwnCore \/ LongerPath \/ FileChanges

Spec == Init /\ [][Next]_vars
-----------------------------------------------------------------------------
(* Properties.                                                             *)

\* The bridge reads every line of this, of an older and of a newer supervisor:
\* no event is taken for another, no field changes on the way, and what is new
\* does not end the session (the two proto.rs mirrors).
EventsUnderstood == input.of = "event" => W!Understood(input.ev, input.line)

\* What the supervisor says of its core reaches the app through the bridge's
\* second encoding and the Swift decoder as it was said.
EventsReachApp ==
  input.of = "event" /\ input.ev.kind \in W!Surfaced => W!SeenByApp(input.ev)

\* A command is obeyed as it was sent: no hello becomes a takeover or loses it.
CmdsObeyed == input.of = "cmd" => W!Obeyed(input.cmd)

Lines == {P!PsLine(2, p.pid, p.argv) : p \in input.procs}

\* The janitor's sweep kills the managed cores and nothing else, whatever the
\* other processes are called and have for arguments, and spares the caller's.
SweepExact ==
  input.of = "ps" => P!KillsManagedOnly(input.procs, Lines, "13", input.exclude_pid)

\* The conflict check warns of nothing but cores that are not managed and VPNs,
\* never of the supervisor's own core or of a mention among the arguments; and
\* it warns of each of them whose path has no blank.  By the words of
\* conflict.rs ("anything else is unmanaged") it should warn of the others too,
\* but classify cuts argv[0] off at the first blank.
ConflictsRight == input.of = "ps" => P!WarnsRightly(input.procs, Lines)

\* Through both levels of quoting the root shell gets the paths as they are.
InstallArgsIntact ==
  input.of = "path" =>
    LET path == [script |-> Append(input.path, "install.sh"),
                 supervisor |-> input.path,
                 core |-> <<"core">> \o input.path]
    IN Q!ArgumentsIntact(path.script, path.supervisor, path.core, "501",
                         {path[f] : f \in input.there})

\* The supervisor runs a hook or, as root, takes a configuration only where
\* nobody but its own user can change the file.
ObeysOwnFiles ==
  input.of = "file" =>
    /\ T!HookIsOurs(input.file, input.auth, input.euid, Users, GroupOf)
    /\ T!ConfigIsRoots(input.file, input.auth, input.euid, Users, GroupOf)
=============================================================================
