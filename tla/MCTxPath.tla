------------------------------ MODULE MCTxPath ------------------------------
(* Constants for TLC's runs of TxPath.                                     *)
EXTENDS TxPath

CONSTANTS f1, f2, f3

(* Two frames of one flow, which may share a command, and one of another.  *)
MCFlow == [f \in Frame |-> IF f = f3 THEN 2 ELSE 1]
OneFlow == [f \in Frame |-> 1]

(* The frames of one flow are interchangeable.                             *)
FrameSymmetry == Permutations({f1, f2})
=============================================================================
