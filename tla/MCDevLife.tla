----------------------------- MODULE MCDevLife -----------------------------
(* Constants for TLC's runs of DevLife.                                    *)
EXTENDS DevLife
=============================================================================
