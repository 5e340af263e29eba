------------------------------ MODULE MCRxPath ------------------------------
(* Constants for TLC's runs of RxPath: two descriptors in two of the three *)
(* pools, the second pool being empty.                                     *)
EXTENDS RxPath

PoolSizes == [p \in Pools |-> IF p = 1 THEN 0 ELSE 1]
AllFailures == FailureKinds

\* Buffers are alike, and so are frames.
Alike == Permutations(Bufs) \union Permutations(Frames)
=============================================================================
