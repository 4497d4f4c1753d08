CONSTANT
  Configs = {{}, {"client", "server"}}
SPECIFICATION AppFairSpec
CHECK_DEADLOCK FALSE
INVARIANT
  FailureSurfaces
PROPERTY
  RunReturns
