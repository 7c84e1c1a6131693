CONSTANTS
  Conns = {c1, c2}
  Pids = {p1}
  HookIds = {}
  Scripts = {}
  None = None
SPECIFICATION Spec
INVARIANT KickedSparesCore
