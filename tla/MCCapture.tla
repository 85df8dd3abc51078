----------------------------- MODULE MCCapture -----------------------------
EXTENDS Capture, TLC

\* A buffer of length zero between two others; a single buffer.
Split == {<<1, 0, 1>>}
Single == {<<1>>}

\* Game threads, OVERLAPPEDs and arrays are alike.
Symmetry == Permutations(Threads) \cup Permutations(Overlaps) \cup Permutations(Addrs)
=============================================================================
