----------------------------- MODULE MCThreads -----------------------------
(* Constants of the runs of Threads *)
EXTENDS Threads
ZeroAndOne == {0, 1}
TileOne == {-1, 1}
TwoMasks == {{2}}
=============================================================================
