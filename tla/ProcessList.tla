----------------------------- MODULE ProcessList -----------------------------
(***************************************************************************)
(* What the janitor (supervisor/src/janitor.rs) and the conflict check     *)
(* (bridge/src/conflict.rs) make of `ps -axww -o pid=,args=`.  Both see    *)
(* only text: the arguments of a process joined by spaces, so a path with  *)
(* a space in it, as that of the managed core, has no visible end.         *)
(*                                                                         *)
(* A string is a sequence of tokens, Space among them; each other token    *)
(* stands for a run of characters without blanks.                          *)
(***************************************************************************)
EXTENDS Naturals, Sequences, SequencesExt

Space == " "
PidTokens == {"11", "12", "13"}

\* "/Library/Application Support/EasyTier/bin/easytier-core"
MANAGED_CORE == <<"/", "Application", Space, "Support", "/", "easytier-core">>

Join(words) ==
  FlattenSeq([i \in DOMAIN words |-> IF i = 1 THEN words[i] ELSE <<Space>> \o words[i]])

\* One line of ps: the pid, right-aligned, and the arguments of the process.
PsLine(pad, pid, argv) == [i \in 1..pad |-> Space] \o <<pid, Space>> \o Join(argv)

IsSpace(t) == t = Space
\* str::trim_start, and the two halves of splitn(2, char::is_whitespace)
TrimStart(s) ==
  LET n == SelectInSeq(s, LAMBDA t : ~IsSpace(t))
  IN IF n = 0 THEN <<>> ELSE SubSeq(s, n, Len(s))
FirstWord(s) ==
  LET n == SelectInSeq(s, IsSpace) IN IF n = 0 THEN s ELSE SubSeq(s, 1, n - 1)
AfterWord(s) ==
  LET n == SelectInSeq(s, IsSpace) IN IF n = 0 THEN <<>> ELSE SubSeq(s, n + 1, Len(s))
-----------------------------------------------------------------------------
(* janitor.rs                                                              *)

\* Faulty variant: any line that begins with the path, a sibling's too.
argv0_matches_prefix(args, core_path) == IsPrefix(core_path, args)

argv0_matches(args, core_path) ==
  args = core_path \/ IsPrefix(Append(core_path, Space), args)

\* The pids that are sent SIGKILL.
sweep_orphans(lines, core_path, self_pid, exclude_pid) ==
  {pid \in PidTokens \ {self_pid, exclude_pid} : \E line \in lines :
     LET l == TrimStart(line) IN
     /\ FirstWord(l) = <<pid>>
     /\ argv0_matches(TrimStart(AfterWord(l)), core_path)}
-----------------------------------------------------------------------------
(* conflict.rs                                                             *)

is_core_argv0(argv0) ==
  argv0 = <<"easytier-core">> \/ IsSuffix(<<"/", "easytier-core">>, argv0)

is_managed_core(args) ==
  args = MANAGED_CORE \/ IsPrefix(Append(MANAGED_CORE, Space), args)

TunVpns == {"mihomo", "sing-box"}
is_tun_vpn(argv0) == argv0 # <<>> /\ Last(argv0) \in TunVpns

\* Faulty variant: the name anywhere in the line.
classify_anywhere(lines) ==
  LET arguments == {TrimStart(AfterWord(TrimStart(l))) : l \in lines}
  IN [unmanaged_core |-> {a \in arguments : Contains(a, "easytier-core")},
      tun_vpn |-> {a \in arguments : is_tun_vpn(FirstWord(a))}]

\* The command lines listed under each heading.
classify(lines) ==
  LET arguments == {TrimStart(AfterWord(TrimStart(l))) : l \in lines}
  IN [unmanaged_core |-> {a \in arguments : is_core_argv0(FirstWord(a)) /\ ~is_managed_core(a)},
      tun_vpn |-> {a \in arguments : is_tun_vpn(FirstWord(a))}]
-----------------------------------------------------------------------------
(* Statements, about processes: records of pid and argv.                   *)

\* The programs a process may run; no path of these has a blank that could be
\* the end of another's.
Managed == MANAGED_CORE
Own == <<"/", "Users", "/", "easytier-core">>
Bare == <<"easytier-core">>
Sibling == Append(MANAGED_CORE, "-extra")
Spaced == <<"/", "My", Space, "Apps", "/", "easytier-core">>
Shell == <<"/", "bin", "/", "sh">>
Vpn == <<"/", "opt", "/", "mihomo">>
SpacedVpn == <<"/", "My", Space, "Apps", "/", "mihomo">>
Programs == {Managed, Own, Bare, Sibling, Spaced, Shell, Vpn, SpacedVpn}
OtherCores == {Own, Bare, Spaced}
Vpns == {Vpn, SpacedVpn}

HasSpace(path) == Contains(path, Space)

\* The sweep kills the managed cores of the list, whatever their arguments,
\* but for the caller's own core and the supervisor, and nothing else.
KillsManagedOnly(procs, lines, self_pid, exclude_pid) ==
  sweep_orphans(lines, MANAGED_CORE, self_pid, exclude_pid)
    = {p.pid : p \in {q \in procs : /\ q.argv[1] = Managed
                                    /\ q.pid \notin {self_pid, exclude_pid}}}

CmdsOf(procs, programs) == {Join(p.argv) : p \in {q \in procs : q.argv[1] \in programs}}

\* What is found is there, as a program and not as an argument, and what is
\* there is found, but for a program whose path has a blank in it: the first
\* word of its line is not its path.
FoundUnlessSpaced(found, procs, programs) ==
  /\ found \subseteq CmdsOf(procs, programs)
  /\ CmdsOf(procs, {x \in programs : ~HasSpace(x)}) \subseteq found

\* Of another core and of a VPN, and never of the core that the sweep kills.
WarnsRightly(procs, lines) ==
  /\ FoundUnlessSpaced(classify(lines).unmanaged_core, procs, OtherCores)
  /\ FoundUnlessSpaced(classify(lines).tun_vpn, procs, Vpns)
==============================================================================
