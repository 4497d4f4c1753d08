\* A sold and a bought token; a failing call or watch and a kill.
CONSTANTS
  t1 = t1
  t2 = t2
  Tokens <- TwoTokens
  Sold <- OneSold
  Answers = {"rejected", "withdrawn"}
  MaxEvents = 3
  MaxFailures = 1
  MaxKills = 1
SPECIFICATION Spec
CHECK_DEADLOCK FALSE
INVARIANTS
  ReportsStoredRows
  ReportsAreTrue
PROPERTY
  RemovedIsReported
