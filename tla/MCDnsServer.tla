---------------------------- MODULE MCDnsServer ----------------------------
\* Small instances of DnsServer for TLC; tasks and sockets are model values of
\* the cfg files. The runs check liveness too, so they use no symmetry.
EXTENDS DnsServer
=============================================================================
