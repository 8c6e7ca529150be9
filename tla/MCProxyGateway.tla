--------------------------- MODULE MCProxyGateway ---------------------------
\* A small instance of ProxyGateway for TLC; the values are in the cfg.
EXTENDS ProxyGateway
=============================================================================
