CONSTANTS
  t1 = t1
  t2 = t2
  Tokens <- TwoTokens
  Sold <- TwoTokens
  Answers = {}
  MaxEvents = 3
  MaxFailures = 1
  MaxKills = 1
SPECIFICATION Spec
CHECK_DEADLOCK FALSE
PROPERTY
  NothingToCatchUp
