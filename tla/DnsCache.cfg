SPECIFICATION Spec
CONSTANTS
  a = a
  x = x
  Questions = {a, x}
  Ids = {1, 2}
  Kind <- MCKind
  Hash <- MCHash
  DNS_CACHE_SIZE = 2
  Ttl = 1
  Wrap = 3
  None = None
  MaxFlight = 2
INVARIANTS
  RightAnswer
  CacheTruth
PROPERTIES
  FreshAnswers
