CONSTANTS
  Conns = {c1, c2}
  Pids = {p1, p2}
  HookIds = {}
  Scripts = {}
  None = None
SPECIFICATION Spec
SYMMETRY Symmetry
INVARIANTS TypeOK CoreTracked AtMostOneCore SignalOwnChild LeaseExclusive
           CoreAttended
PROPERTIES CoreKilledForCause ImplementsService
