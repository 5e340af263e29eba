------------------------------ MODULE MCHalCmd ------------------------------
(* Constants for TLC's runs of HalCmd.                                     *)
EXTENDS HalCmd

AllFailures == FailureKinds
=============================================================================
