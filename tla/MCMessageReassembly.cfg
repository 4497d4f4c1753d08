\* A two-chunk message with strays past its end, one own echo; events delivered
\* twice, one restart.
CONSTANTS
  peer = peer
  own = own
  Junk = Junk
  Nil = Nil
  MsgIDs <- MCMsgIDs
  OwnIDs <- MCOwnIDs
  ChunksOf <- MCChunksOf
  MaxIndex = 2
  TTL = 1
  SweepInterval = 1
  MaxCopies = 2
  MaxRestarts = 1
SPECIFICATION FairSpec
INVARIANTS
  Integrity
  BoundedRetention
PROPERTIES
  DeliverySpec
  EventuallyDelivered
  EventuallyDrained
