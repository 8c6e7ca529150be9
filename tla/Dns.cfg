SPECIFICATION FairSpec
CONSTANTS
  Tasks = {t1, t2}
  Socks = {s1, s2, s3}
  None = None
INVARIANTS
  Safety
  OneServer
PROPERTIES
  OnlyHungIsEnded
  KeepsServing
