CONSTANTS
  Reqs = {r1, r2, r3}
  Cap = 2
  Slow = TRUE
  None = None
SPECIFICATION LiveSpec
INVARIANTS TypeOK OkMeansExecuted AtMostOnce StopHeard TakeoverConsented
PROPERTY ShutdownCompletes
