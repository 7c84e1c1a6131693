CONSTANTS
  Conns = {c1}
  Pids = {p1}
  HookIds = {}
  Scripts = {}
  None = None
SPECIFICATION Spec
PROPERTY DownBeforeExit
