CONSTANTS
  t1 = t1
  t2 = t2
  Tokens <- TwoTokens
  BuyableUntil <- EndsApart
  Cancellable <- OneCancellable
  Delay = 1
  RecordExpirations = TRUE
  Handlers = {h1, h2}
  MaxTime = 3
  MaxFailures = 0
  MaxKills = 1
  Nil = Nil
SPECIFICATION FairSpec
CHECK_DEADLOCK FALSE
PROPERTY
  EventuallyResolved
