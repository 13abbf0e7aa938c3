\* Crashes, failed statements, SIGTERM and pauses: the message still settles.
SPECIFICATION FairSpec
CONSTANTS
  m1 = m1  m2 = m2  c1 = c1  c2 = c2  w1 = w1  w2 = w2  r1 = r1  r2 = r2
  Msgs = {m1}
  Channels = {c1}
  channelOf <- OneForOne
  Workers = {w1, w2}
  Replicas = {r1, r2}
  replicaOf <- OneEach
  Stable = {r2}
  Nobody = Nobody
  NoMsg = NoMsg
  BatchSize = 2
  MaxAttempts = 2
  RenewAfter = 0
  MaxStep = 1
  StuckAfter = 1
  PauseRateLimit = 1
  PauseAuth = 1
  MaxBackoff = 1
  Punctual = TRUE
  MaxClaims = 4
  MaxDbFailures = 1
  MaxBlocks = 1
PROPERTIES EveryMessageSettles SigtermStops
