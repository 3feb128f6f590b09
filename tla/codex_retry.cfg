SPECIFICATION MCSpec
CONSTANTS
  MaxRequests = 2
  MaxConns = 2
  MaxSessions = 2
  Auths = {"a"}
  Capacity = 1
  MaxEvents = 2
CHECK_DEADLOCK FALSE
INVARIANT SecondAttemptCounts
