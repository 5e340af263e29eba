---------------------------- MODULE EventChannel ----------------------------
(***************************************************************************)
(* What the HAL's event path promises the FMAC, without fragments, event   *)
(* buffers, locks and tasklets.                                            *)
(*                                                                         *)
(* Events reach the FMAC in the order in which the RPU raised them, each   *)
(* at most once.  An event may be lost (the host may be out of memory for  *)
(* it), and from the moment the channel is closed nothing is promised.     *)
(***************************************************************************)
EXTENDS Naturals, SequencesExt

CONSTANT Events      (* the events the RPU may raise, in that order         *)

VARIABLES
  open,              (* the channel is in use                              *)
  raised,            (* number of events raised                            *)
  flying,            (* raised and not handed over yet, oldest first       *)
  got                (* handed to the FMAC                                 *)

vars == <<open, raised, flying, got>>

Init ==
  /\ open = TRUE
  /\ raised = 0
  /\ flying = <<>>
  /\ got = <<>>

Raise ==
  /\ raised' = raised + 1
  /\ raised' \in Events
  /\ flying' = Append(flying, raised')
  /\ UNCHANGED got

HandOver ==
  /\ flying # <<>>
  /\ got' = Append(got, Head(flying))
  /\ flying' = Tail(flying)
  /\ UNCHANGED raised

Lose ==
  /\ \E i \in DOMAIN flying : flying' = RemoveAt(flying, i)
  /\ UNCHANGED <<raised, got>>

Close ==
  /\ open' = FALSE
  /\ raised' = 0 /\ flying' = <<>> /\ got' = <<>>

Next ==
  /\ open
  /\ \/ (Raise \/ HandOver \/ Lose) /\ UNCHANGED open
     \/ Close

Spec == Init /\ [][Next]_vars
=============================================================================
