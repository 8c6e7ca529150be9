---------------------------- MODULE MCClipboard ----------------------------
\* Small instances of Clipboard for TLC; texts are model values of the cfg, and
\* nothing distinguishes one from another.
EXTENDS Clipboard
MCSymmetry == Permutations(Texts)
=============================================================================
