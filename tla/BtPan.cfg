SPECIFICATION FairSpec
CONSTANTS
  Clients = {c1, c2, c3}
  None = None
  MaxTimers = 3
INVARIANTS
  Safety
  OpenChannelServed
  VisibleOrReopening
PROPERTIES
  ImplementsPresence
  VisibleAgain
