------------------------------ MODULE TxTokens ------------------------------
(***************************************************************************)
(* What the TX descriptor pool of the FMAC promises its access categories, *)
(* without the bitmap, the counters and the nibble map that implement it.  *)
(*                                                                         *)
(* A descriptor (a "token") is a licence to have one TX command at the     *)
(* RPU.  Each access category owns num_tx_tokens_per_ac reserved tokens    *)
(* that no other category can take; the remainder is spare and goes to a   *)
(* category only when its own tokens are used up.  A spare token whose     *)
(* command has completed may be handed on to another category.             *)
(***************************************************************************)
EXTENDS Integers

CONSTANTS
  AC_MAX,         (* number of access categories                          *)
  NUM_TX_TOKENS,  (* number of descriptors                                *)
  NoAC            (* holder of a free token                               *)

AC       == 0 .. AC_MAX - 1
Token    == 0 .. NUM_TX_TOKENS - 1
Reserved == (NUM_TX_TOKENS \div AC_MAX) * AC_MAX

VARIABLE holder   (* [Token -> AC \cup {NoAC}]                             *)

Init == holder = [t \in Token |-> NoAC]

(* A free token of ac's own, or a spare one if ac has none left.           *)
Available(ac) ==
  LET own   == {t \in Token : holder[t] = NoAC /\ t < Reserved /\ t % AC_MAX = ac}
      spare == {t \in Token : holder[t] = NoAC /\ t >= Reserved}
  IN  IF own # {} THEN own ELSE spare

Take(ac, t) ==
  /\ t \in Available(ac)
  /\ holder' = [holder EXCEPT ![t] = ac]

Give(t) ==
  /\ holder[t] # NoAC
  /\ holder' = [holder EXCEPT ![t] = NoAC]

HandOn(t, ac) ==
  /\ t >= Reserved
  /\ holder[t] # NoAC
  /\ holder' = [holder EXCEPT ![t] = ac]

Next ==
  \E t \in Token :
    \/ Give(t)
    \/ \E ac \in AC : Take(ac, t) \/ HandOn(t, ac)

Spec == Init /\ [][Next]_holder
=============================================================================
