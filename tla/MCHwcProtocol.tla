--------------------------- MODULE MCHwcProtocol ----------------------------
\* Instances of HwcProtocol for TLC: the .cfg files give the bounds.
EXTENDS HwcProtocol
=============================================================================
