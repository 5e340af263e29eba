----------------------------- MODULE MCHalEvent -----------------------------
(* Constants for TLC's runs of HalEvent.                                   *)
EXTENDS HalEvent

AllFailures == FailureKinds
=============================================================================
