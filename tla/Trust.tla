-------------------------------- MODULE Trust --------------------------------
(***************************************************************************)
(* Which files the supervisor obeys: its configuration (config.rs) and the *)
(* hook scripts (hooks.rs).  A file is what lstat says of it, the mode a   *)
(* set of permission bits; ids are numbers, 0 is root and wheel.           *)
(***************************************************************************)
EXTENDS Naturals

Bits == {"owner_exec", "owner_write", "group_write", "other_write", "group_exec"}

Launchd(uid) == [mode |-> "Launchd", uid |-> uid]
Dev(euid) == [mode |-> "Dev", uid |-> euid]

\* Faulty variant: the mask is 0o002.
check_hook_security_world(f, auth) ==
  /\ f.is_file
  /\ "other_write" \notin f.mode
  /\ "owner_exec" \in f.mode
  /\ IF auth.mode = "Launchd" THEN f.uid = 0 /\ f.gid = 0 ELSE f.uid = auth.uid

check_hook_security(f, auth) ==
  /\ f.is_file
  /\ f.mode \cap {"group_write", "other_write"} = {}
  /\ "owner_exec" \in f.mode
  /\ IF auth.mode = "Launchd" THEN f.uid = 0 /\ f.gid = 0 ELSE f.uid = auth.uid

check_secure_ownership(is_file, uid, mode) ==
  /\ is_file
  /\ uid = 0
  /\ mode \cap {"group_write", "other_write"} = {}

\* Config::load, as far as it may refuse
LoadsConfig(f, auth, euid) ==
  euid = 0 => check_secure_ownership(f.is_file, f.uid, f.mode)
-----------------------------------------------------------------------------
\* Who can change what the path names: its owner, those its mode lets write,
\* and, where it is a link, whoever can change its target.
Writers(f, users, groupOf) ==
  IF ~f.is_file THEN users
  ELSE {u \in users : \/ u = f.uid
                      \/ "group_write" \in f.mode /\ groupOf[u] = f.gid
                      \/ "other_write" \in f.mode}

\* The process acts on a hook with its own rights, so it must obey nobody
\* else's file.
HookIsOurs(f, auth, euid, users, groupOf) ==
  check_hook_security(f, auth) => Writers(f, users, groupOf) \subseteq {euid}

\* A supervisor that runs as root, even one started by hand, takes its
\* configuration, the path of the core included, from root alone.
ConfigIsRoots(f, auth, euid, users, groupOf) ==
  euid = 0 /\ LoadsConfig(f, auth, euid) => Writers(f, users, groupOf) \subseteq {0}
==============================================================================
