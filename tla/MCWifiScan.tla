----------------------------- MODULE MCWifiScan -----------------------------
\* A small instance of WifiScan for TLC.
EXTENDS WifiScan
MCRssis == {-60, -50}
=============================================================================
