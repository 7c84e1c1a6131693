CONSTANTS
  Conns = {c1}
  Pids = {p1, p2}
  HookIds = {h1, h2}
  Scripts = {"down"}
  None = None
SPECIFICATION LiveSpec
INVARIANT DownOwed
PROPERTIES OnlyTimerCutsCore StopCompletes NoIdleResidency
