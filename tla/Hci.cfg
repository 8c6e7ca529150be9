SPECIFICATION FairSpec
CONSTANTS
  RingSize = 13
  Packets <- MCPackets
INVARIANTS
  Safety
PROPERTIES
  SentIsReported
  ImplementsChannel
