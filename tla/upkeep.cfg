SPECIFICATION MCSpec
CONSTANTS
  c1 = c1  c2 = c2  r1 = r1  r2 = r2  e1 = e1
  Creds = {c1, c2}
  RefreshWorkers = {r1, r2}
  Editors = {e1}
  FirstRecords <- Tokens
  Lifetimes = {0, 2}
  JobBuffer = 1
  Interval = 1  Pending = 1  Failure = 2  Ineffective = 1
  Horizon = 2
  f1 = f1  ch = ch  v1 = v1  v2 = v2  rl1 = rl1  rl2 = rl2
  Files = {f1}
  Channels = {ch}
  Contents = {v1, v2}
  Partial = Partial
  Gone = Gone
  Reloaders = {rl1, rl2}
  QueueSize = 1
  Edits = 2
  Reloads = 1
INVARIANTS NothingForgotten OverlapExplained StaleOnlyByReload
PROPERTIES DueIsRefreshed Delivered
CHECK_DEADLOCK FALSE
