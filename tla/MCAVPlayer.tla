----------------------------- MODULE MCAVPlayer -----------------------------
\* Instances of AVPlayer for TLC: the .cfg files give the constants.
EXTENDS AVPlayer
=============================================================================
