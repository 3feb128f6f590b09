SPECIFICATION MCSpec
CONSTANTS
  b1 = b1  b2 = b2
  MaxRecords = 3
  Subscribers = {b1, b2}
  Capacity = 1
  CompactAt = 2
  Retention = 1
  LastTime = 2
  MaxPop = 2
  k1 = k1  k2 = k2  a1 = a1
  Calls = {k1, k2}
  Accounts = {a1}
  Attempts = 2
  Urls = 2
  HoldTimes = {1}
  HintInterval = 1
  LastInstant = 3
CHECK_DEADLOCK FALSE
INVARIANTS PoppedOnceInOrder SubscriptionHasNoGap UsageToldOnce SpentIsKnown
PROPERTIES PublishedIsHandled CooldownLostOnlyByRace LeftCallsEnd
