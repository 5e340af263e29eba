------------------------------ MODULE MCHalPs ------------------------------
(* Constants for TLC's runs of HalPs.                                      *)
EXTENDS HalPs
=============================================================================
