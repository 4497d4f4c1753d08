CONSTANTS
  t1 = t1
  t2 = t2
  Tokens <- TwoTokens
  BuyableUntil <- EndsApart
  Cancellable <- OneCancellable
  Delay = 1
  RecordExpirations = FALSE
  Handlers = {h1, h2}
  MaxTime = 4
  MaxFailures = 2
  MaxKills = 1
  Nil = Nil
SPECIFICATION Spec
CHECK_DEADLOCK FALSE
INVARIANTS
  BoughtIsTrue
  SubscriptionsCovered
  ProcessedIsResolved
