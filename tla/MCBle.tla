------------------------------- MODULE MCBle --------------------------------
EXTENDS Ble

Symmetry == Permutations(Peers) \cup Permutations(Conns)

\* No more than two requests, and the disconnect they share, wait at a time.
QueueBound == Len(queue) <= 3
=============================================================================
