SPECIFICATION AffinitySpec
CONSTANTS
  p1 = p1  p2 = p2  first = first  later = later  none = none
  Pickers = {p1, p2}
  Auths = {1, 2, 3}
  Sessions = {first, later}
  Sessionless = none
  Prior <- MCPrior
  CredKey <- MCCredKey
  Layouts <- MCLayouts
  TTL = 1
  LastTime = 2
  CursorLimit = 4
  MaxPicks = 7
CONSTRAINT Sides
CHECK_DEADLOCK FALSE
INVARIANTS SessionStays EvenFallback
