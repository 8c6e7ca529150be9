----------------------------- MODULE MCDnsCache -----------------------------
\* A small instance of DnsCache for TLC: two questions with the same hash, one
\* for an address and one not.
EXTENDS DnsCache
CONSTANTS a, x
MCKind == (a :> "A") @@ (x :> "other")
MCHash == [q \in Questions |-> 1]
=============================================================================
