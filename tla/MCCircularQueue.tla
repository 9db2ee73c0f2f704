-------------------------- MODULE MCCircularQueue ---------------------------
\* Instances of CircularQueue for TLC: the .cfg file gives the constants.
EXTENDS CircularQueue
=============================================================================
