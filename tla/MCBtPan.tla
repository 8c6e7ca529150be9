------------------------------ MODULE MCBtPan ------------------------------
\* Small instances of BtPan for TLC; the phones are model values of the cfg
\* files. The runs check liveness too, so they use no symmetry.
EXTENDS BtPan
=============================================================================
