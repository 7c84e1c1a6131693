CONSTANTS
  Tasks = {t1, t2}
  Ports = {p1}
  Faults = {"exit"}
  Backlog = 2
  Lag = 1
  None = None
SPECIFICATION Spec
INVARIANT ConnectedHasCore
