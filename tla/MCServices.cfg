CONSTANTS
  c1 = c1
  c2 = c2
  c3 = c3
  c4 = c4
  Calls = {c1, c2, c3, c4}
  By <- MCBy
  Amounts = {1, 2}
  Asked <- MCAsked
  MaxReason = 3
  Nil = Nil
  Bots = {b1, b2}
  Encodings = {e1, e2}
  Decodings = {d1, d2}
  CacheSize = 1
  MaxRestarts = 1
  NoKey = NoKey
  Messengers = {p, q}
  Rooms = {r0, r1, r2}
  Encrypted = {r0}
  Sends = {s1, s2}
  MaxStarts = 2
  NoRoom = NoRoom
  ServiceNames = {"v3", "v4", "new"}
  Generated = {"v3", "v4"}
  Asks <- MCAsks
  Queries = {q1, q2}
  AuthTimeout = 1
  MaxCall = 1
  MaxTime = 2
  MaxOnChain = 1
  Unset = Unset
  PerNight = 10
  BaseUnits = 7
  DayLength = 2
  FreeDays = 1
  MaxStayDays = 3
  MockProducts <- MCProducts
  MockSeatMaps <- MCSeatMaps
  SearchRequests <- MCSearches
  ListRequests <- MCLists
  EntryTimeout = 2
  BuyableFor = 1
  MaxClock = 3
  MaxSearches = 1
  MaxIssued = 3
  UnaryCalls = {u1, u2, u3}
  Streams = {t1, t2}
  NoOne = NoOne
  j1 = j1
  j2 = j2
  Jobs = {j1, j2}
  ScheduleCalls = {k1, k2}
  JobPeriods <- MCPeriods
  Second = 2
  FirstTime = 5
  LastTime = 8
  MaxJobStarts = 2
  NoRow = NoRow
  NoTick = NoTick
SPECIFICATION Spec
CHECK_DEADLOCK FALSE
INVARIANTS
  AppliedIsReported
  EncryptedOnceKnown
  PostedIsReadable
  ServedIsAuthorized
  UnservedWasChanged
  ShownPriceHolds
  UnexpiredIsKept
  AnswersRepeat
  PenaltiesCoverStay
  StuckOnlyByLeaver
  RunsAreSpaced
PROPERTY
  CallsSpec
