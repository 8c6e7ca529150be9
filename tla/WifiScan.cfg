SPECIFICATION FairScan
CONSTANTS
  SSIDs = {a, b}
  Rssis <- MCRssis
  WIFI_MAX_SCAN_RESULTS = 2
  WIFI_MAX_SAVED_NETWORKS = 2
  None = None
  MaxPending = 1
  MaxIndex = 1
INVARIANTS
  ScanSafety
  ListsRight
PROPERTIES
  ScanShownEnds
