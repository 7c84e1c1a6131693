CONSTANTS
  Tasks = {t1}
  Ports = {p1, p2}
  Faults = {"exit", "drop", "rival", "torn"}
  Backlog = 3
  Lag = 1
  None = None
SPECIFICATION Spec
SYMMETRY Symmetry
INVARIANT StatusReachable
