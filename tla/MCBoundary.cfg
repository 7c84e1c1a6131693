CONSTANTS
  MaxArgs = 2
  MaxPath = 4
SPECIFICATION Spec
INVARIANTS EventsUnderstood EventsReachApp CmdsObeyed SweepExact ConflictsRight InstallArgsIntact ObeysOwnFiles
CHECK_DEADLOCK FALSE
