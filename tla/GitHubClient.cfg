SPECIFICATION FairSpec
CONSTANTS
  q1 = q1
  q2 = q2
  Requests = {q1, q2}
  MaxTokens = 3
  MaxMints = 3

  
PROPERTIES
  UsableTokenIsKept
  RequestsEnd
