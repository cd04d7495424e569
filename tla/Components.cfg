\* Components that share nothing, one moving at a time. Each may have nothing left to do.
SPECIFICATION ComponentsSpec
CONSTANTS
  g1 = g1
  g2 = g2
  k1 = k1
  k2 = k2
  NoKey = NoKey
  Goroutines = {g1, g2}
  Keys = {k1, k2}
  MaxClients = 3
  ra = ra
  rb = rb
  wr = wr
  x = x
  y = y
  Nobody = Nobody
  Reporters = {ra, rb}
  Writers = {wr}
  Contents = {x, y}
  MaxRetries = 1
  c1 = c1
  c2 = c2
  Closers = {c1, c2}
  MaxNow = 3
  MaxIterations = 3
  MaxSteps = 5
  p1 = p1
  p2 = p2
  u1 = u1
  u2 = u2
  ProxyCallers = {p1, p2}
  Users = {u1, u2}
  proxyPeopleLimit = 1
  MaxProxyCalls = 2
  Text = {"", "blank", "default", "argument", "stored", "code", "env", "env alias", "u", "e", "named"}
  UsageSettings <- MCUsageSettings
  Dates = {"d1", "d2"}
  CalledModels <- MCCalledModels
  RuleLists <- MCRuleLists
  AskedCalls <- MCAskedCalls
  Chunks <- MCChunks
  Streams <- MCStreams
INVARIANTS
  BreakerLivesWithItsClients
  NoClientOrphaned
  AnswersAreTrue
  EveryRequestRecordedOnce
  JudgedAsRecorded
  BilledAsConsumed
  OneHonestRecord
  ToldIsBilled
  StopsTheOverspent
  ModelFilterCoversWhatIsCounted
  TurnsJudgedAndRecorded
  ProxyKnowledgeCurrent
  AttributedAsJudged
  RetryIsNoDuplicate
CHECK_DEADLOCK FALSE
