\* A sold and a bought token; four events, so that a final cancellation can lie before the block at which
\* a restarted bot begins to watch.
CONSTANTS
  t1 = t1
  t2 = t2
  Tokens <- TwoTokens
  Sold <- OneSold
  Answers = {}
  MaxEvents = 4
  MaxFailures = 0
  MaxKills = 1
SPECIFICATION FairSpec
CHECK_DEADLOCK FALSE
PROPERTY
  SubscriptionEnds
