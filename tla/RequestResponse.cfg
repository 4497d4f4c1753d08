\* One call, every message delivered up to three times.
CONSTANTS
  Requests = {r1}
  MaxCopies = 3
  Nil = Nil
SPECIFICATION FairSpec
\* A call ends, and nothing need follow.
CHECK_DEADLOCK FALSE
INVARIANTS
  NoNilResponse
  StuckOnlyAfterTimeout
  AnswersAreServed
PROPERTIES
  CallsReturn
  ReplySpec
