\* Workers that stall past the threshold of the reaper.
SPECIFICATION Spec
CONSTANTS
  m1 = m1  m2 = m2  c1 = c1  c2 = c2  w1 = w1  w2 = w2  r1 = r1  r2 = r2
  Msgs = {m1, m2}
  Channels = {c1}
  channelOf <- OneChannel
  Workers = {w1, w2}
  Replicas = {r1}
  replicaOf <- BothInOne
  Stable = {r1}
  Nobody = Nobody
  NoMsg = NoMsg
  BatchSize = 2
  MaxAttempts = 2
  RenewAfter = 0
  MaxStep = 1
  StuckAfter = 1
  PauseRateLimit = 1
  PauseAuth = 2
  MaxBackoff = 1
  Punctual = FALSE
  MaxClaims = 3
  MaxDbFailures = 0
  MaxBlocks = 0
INVARIANTS CountedOnce
PROPERTIES FinalIsFinal OnlyHolderOrReaper
SYMMETRY MsgSymmetry
