------------------------------ MODULE MCFmacIf ------------------------------
(* Constants for TLC's runs of FmacIf.                                     *)
EXTENDS FmacIf, TLC

Symmetry == Permutations(Stations)
=============================================================================
