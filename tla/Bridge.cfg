SPECIFICATION FairSpec
CONSTANT MboxSize = 2
INVARIANTS
  NatAgrees
  PageTrue
PROPERTIES
  NatFollows
