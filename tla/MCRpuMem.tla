----------------------------- MODULE MCRpuMem -----------------------------
(***************************************************************************)
(* Constants and a specification for TLC's run of FwLoad and PktRam.       *)
(*                                                                         *)
(* No action of one reads or changes a variable of the other, so their     *)
(* properties hold in every interleaving if they hold in behaviours that   *)
(* leave the other alone.  Those are the ones that are enumerated.         *)
(***************************************************************************)
EXTENDS FwLoad, PktRam, TLC

(* Two layouts that fill packet RAM to the last byte.                      *)
TwoConfigs ==
  {[max_ampdu_len_per_token |-> m, avail_ampdu_len_per_token |-> m - 5,
    num_bufs |-> 0 :> 1 @@ 1 :> 2 @@ 2 :> 1, buf_sz |-> 0 :> 5 @@ 1 :> 3 @@ 2 :> 4]
     : m \in {24, 16}}

AnyConfig == CHOOSE c \in TwoConfigs : TRUE

(* Nothing is or was mapped; nothing is or was loaded.                     *)
NoTraffic == stage = "idle" /\ BuffersMapped = {} /\ \A t \in Token : coalesced[t] = 0
NoLoad    == loads = 0 /\ result = "none"

Loads == /\ NoTraffic /\ cfg_params = AnyConfig
         /\ Next /\ UNCHANGED ramvars

Traffic == NoLoad /\ RamNext /\ UNCHANGED vars

RpuMemInit == Init /\ RamInit

RpuMemSpec == RpuMemInit /\ [][Loads \/ Traffic]_<<vars, ramvars>>
=============================================================================
