--------------------------- MODULE MCWifiManager ---------------------------
\* Small instances of WifiManager for TLC; the bounds are in the cfg files.
EXTENDS WifiManager
=============================================================================
