SPECIFICATION MCSpec
CONSTANTS
  s1 = s1  s2 = s2  s3 = s3  q1 = q1  q2 = q2  n1 = n1
  Sessions = {s1, s2, s3}
  Names = {n1}
  NameOf <- OneName
  Requests = {q1, q2}
  Whole = {q1}
  Losable = {s1}
  Cancelable = {q1, q2}
  Capacity = 1
  MaxChunks = 2
  Nobody = Nobody
  BootstrapRetries = 1
  MaxFrames = 3
CHECK_DEADLOCK FALSE
INVARIANTS WholeUnlessDropped ServedIsFound CredentialFollowsConnection AnswerTellsTheEnd
PROPERTIES NobodyWaitsForever NothingStaysBehind
