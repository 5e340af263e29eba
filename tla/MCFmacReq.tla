----------------------------- MODULE MCFmacReq -----------------------------
(* Constants for TLC's runs of FmacReq.                                    *)
EXTENDS FmacReq
=============================================================================
