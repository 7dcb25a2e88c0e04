----------------------------- MODULE MCBroadcast -----------------------------
\* A small instance of Broadcast for TLC.
EXTENDS Broadcast, TLC

Symmetry == Permutations(Admins)
==============================================================================
