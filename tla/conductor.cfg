SPECIFICATION MCSpec
CONSTANTS
  a1 = a1  codex = codex  m1 = m1  m2 = m2
  w1 = w1  w2 = w2
  Nil = Nil
  Auths = {a1}
  Models = {m1, m2}
  Workers = {w1, w2}
  Providers = {codex}
  Codex = codex
  Transient = 1  Suspend = 2  Missing = 3  RefreshBackoff = 1
  QuotaBase = 1  QuotaMax = 2  RetryAfter = 2
  MaxNow = 2
  Cooling = {TRUE, FALSE}
  Results = {"ok", "transient", "unsupported", "quota", "quotaUntil",
             "requestTransient", "requestMissing"}
  Profile <- OneProfile
  Queries <- OneQuery
  Snapshots = {}
  Loads = {}
SYMMETRY Interchangeable
INVARIANTS StaleOnlyByRace
PROPERTY ResultsSettle
