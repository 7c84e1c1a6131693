CONSTANTS
  Reqs = {r1, r2}
  Cap = 1
  Slow = FALSE
  None = None
SPECIFICATION LiveSpec
PROPERTY CallReturns
