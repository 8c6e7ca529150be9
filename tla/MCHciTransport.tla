--------------------------- MODULE MCHciTransport ---------------------------
\* A small instance of HciTransport for TLC: a command complete event, and a
\* longer packet of another type. The ring holds one of each and two bytes more.
EXTENDS HciTransport
MCPackets == {<<4, 14, 0>>, <<2, 1, 2, 0>>}
=============================================================================
