SPECIFICATION MCSpec
CONSTANTS
  a1 = a1  a2 = a2  a3 = a3
  codex = codex  gemini = gemini  m = m  g1 = g1  g2 = g2
  Nil = Nil
  Auths = {a1, a2, a3}
  Providers = {codex, gemini}
  Codex = codex
  Transient = 1  Suspend = 2  Missing = 3  RefreshBackoff = 1
  QuotaBase = 1  QuotaMax = 2  RetryAfter = 2
  MaxNow = 3
  IdOrder <- Order
  ParentOrder <- Parents
  Snapshots <- SomeSnapshots
  Loads <- SomeLoads
  Queries <- SomeQueries
  browser1 = browser1  browser2 = browser2  device1 = device1
  w1 = w1  w2 = w2
  Logins = {browser1, browser2, device1}
  Devices = {device1}
  Callbacks = {w1, w2}
  Patience = 1  SessionTTL = 2
  LastMinute = 3
  Nobody = Nobody
CHECK_DEADLOCK FALSE
INVARIANTS IndexesAgree EvenTurns OkIsExplained ForwarderOwnsPort
PROPERTY PoolSpec
