SPECIFICATION GatewayFairSpec
CONSTANTS
  Hosts = {h1, h2}
  Ports = {p1}
  Empty = Empty
  DEFAULT_PORT = p1
  None = None
  MaxSaves = 2
INVARIANTS
  Safety
  AddressOfHost
PROPERTIES
  DnsAnswered
