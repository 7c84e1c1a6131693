CONSTANTS
  Tasks = {t1, t2}
  Ports = {p1}
  Faults = {"exit", "drop", "rival"}
  Backlog = 2
  Lag = 1
  None = None
SPECIFICATION Spec
SYMMETRY Symmetry
INVARIANTS TypeOK TransitionDriven OneRestart RestartsBounded PollsWhileConnected
