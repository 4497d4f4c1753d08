\* The request delivered twice, two nodes behind the endpoint.
CONSTANTS
  Copies = {c1, c2}
  Backends = {n1, n2}
  MintVersions = {3, 4, 5}
  ExpectedPrices <- MCExpected
  PluginResponses <- MCAnswers
  Default = 2
  Minimal = 1
  Maximal = 3
  MaxAttempts = 2
  NativeTokenDecimals = 2
  ISODecimals = 1
  TokenDecimals = 1
  MaxTime = 2
  Nil = Nil
SPECIFICATION FairSpec
CHECK_DEADLOCK FALSE
INVARIANTS
  AnsweredIsBought
  PurchaseReported
  MintedIsWatched
PROPERTY
  FlowReturns
