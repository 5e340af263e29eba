---------------------------- MODULE FmacIfProofs ----------------------------
(***************************************************************************)
(* Proofs about the interfaces (FmacIf), for up to 255 slots, any number   *)
(* of peers, any limits, stations and types, and any number of changes.    *)
(*                                                                         *)
(* The invariant adds to InterfacesAgree what holds within a call: the     *)
(* interface it is about has its context, and the RPU has every interface  *)
(* that has one, so that no command goes astray.                           *)
(*                                                                         *)
(* A second one is about stations: the last event under way about a        *)
(* station says whether the RPU has it, and with none the table does.      *)
(***************************************************************************)
EXTENDS FmacIf, FiniteSetTheorems, WellFoundedInduction, TLAPS

USE IfAssumption

Deleting(i) == call.op = "del_vif" /\ call.if_idx = i

(* A call that has begun finds its interface.                              *)
CallLive == call.op # "none" => Live(call.if_idx)

(* The RPU has what has a context, and the default interface.              *)
Known ==
  /\ \A i \in Slots : Live(i) /\ ~Deleting(i) => rif[i].type # "none"
  /\ rif[0].type # "none"

(* RpuAgrees, within a call too: the RPU deletes before the driver does.   *)
Agreed ==
  \A i \in Slots \ (untold \cup retyped) :
    IF Live(i) /\ ~Deleting(i) THEN rif[i].type = TypeOf(i)
                               ELSE i = 0 \/ rif[i].type = "none"

(* Contexts are handed out once.                                           *)
HandedOut == \A i \in Slots : vif_ctx[i] <= adds

IfInv ==
  /\ TypeOK /\ HandedOut /\ Backed /\ CallLive /\ Known /\ Agreed
  /\ CommandsReach /\ CountersExact

(***************************************************************************)
(* Counting.                                                               *)
(***************************************************************************)

LEMMA SlotsFinite == IsFiniteSet(Slots) /\ Cardinality(Slots) = MAX_NUM_VIFS
BY FS_Interval DEF Slots

LEMMA SomeSlots ==
  ASSUME NEW S \in SUBSET Slots
  PROVE  IsFiniteSet(S) /\ Cardinality(S) \in 0 .. 255
<1>1. IsFiniteSet(S) /\ Cardinality(S) <= MAX_NUM_VIFS
  BY SlotsFinite, FS_Subset
<1>2. Cardinality(S) \in Nat
  BY <1>1, FS_CardinalityType
<1> QED  BY <1>1, <1>2

LEMMA Byte ==
  ASSUME NEW n \in 0 .. 255
  PROVE  (n + 256) % 256 = n
OBVIOUS

LEMMA OneMore ==
  ASSUME NEW S \in SUBSET Slots, NEW i \in Slots, i \notin S
  PROVE  Cardinality(S \cup {i}) = (Cardinality(S) + 1 + 256) % 256
<1>1. Cardinality(S \cup {i}) = Cardinality(S) + 1
  BY SomeSlots, FS_AddElement
<1>2. Cardinality(S \cup {i}) \in 0 .. 255 /\ Cardinality(S) \in 0 .. 255
  BY SomeSlots
<1> QED  BY <1>1, <1>2, Byte

LEMMA OneLess ==
  ASSUME NEW S \in SUBSET Slots, NEW i \in S
  PROVE  Cardinality(S \ {i}) = (Cardinality(S) + (-1) + 256) % 256
<1>1. Cardinality(S \ {i}) = Cardinality(S) - 1
  BY SomeSlots, FS_RemoveElement
<1>2. Cardinality(S \ {i}) \in 0 .. 255 /\ Cardinality(S) \in 0 .. 255
  BY SomeSlots
<1> QED  BY <1>1, <1>2, Byte

(* An interface of type t comes: the counter of its kind goes up.          *)
LEMMA CountedIn ==
  ASSUME NEW kind, NEW S \in SUBSET Slots, NEW i \in Slots, i \notin S, NEW t
  PROVE  Counted(Cardinality(S), t, kind, 1) =
           Cardinality(IF t \in kind THEN S \cup {i} ELSE S)
BY OneMore DEF Counted

(* It goes: the counter goes down.                                         *)
LEMMA CountedOut ==
  ASSUME NEW kind, NEW S \in SUBSET Slots, NEW i \in Slots, NEW t, t \in kind <=> i \in S
  PROVE  Counted(Cardinality(S), t, kind, -1) = Cardinality(S \ {i})
<1>1. CASE t \in kind
  BY <1>1, OneLess DEF Counted
<1>2. CASE t \notin kind
  <2>1. S \ {i} = S
    BY <1>2
  <2> QED  BY <1>2, <2>1 DEF Counted
<1> QED  BY <1>1, <1>2

(***************************************************************************)
(* The first free slot.                                                    *)
(***************************************************************************)

LEMMA Least ==
  ASSUME NEW S \in SUBSET Nat, S # {}
  PROVE  \E x \in S : \A y \in S : x <= y
<1>1. PICK x \in S : \A y \in S : ~(<<y, x>> \in OpToRel(<, Nat))
  BY NatLessThanWellFounded, WFMin
<1>2. \A y \in S : ~(y < x)
  BY <1>1 DEF OpToRel
<1> QED  BY <1>2

LEMMA FirstSlot ==
  ASSUME TypeOK
  PROVE  \/ nrf_wifi_fmac_vif_idx_get = MAX_NUM_VIFS
         \/ nrf_wifi_fmac_vif_idx_get \in Slots /\ vif_ctx[nrf_wifi_fmac_vif_idx_get] = 0
<1>1. CASE \A i \in Slots : vif_ctx[i] # 0
  BY <1>1 DEF nrf_wifi_fmac_vif_idx_get
<1>2. CASE \E i \in Slots : vif_ctx[i] = 0
  <2> DEFINE F == {i \in Slots : vif_ctx[i] = 0}
  <2>1. F \in SUBSET Nat /\ F # {}
    BY <1>2 DEF Slots
  <2>2. PICK x \in F : \A y \in F : x <= y
    BY <2>1, Least
  <2>3. x \in Slots /\ vif_ctx[x] = 0 /\ \A j \in Slots : j < x => vif_ctx[j] # 0
    BY <2>1, <2>2 DEF Slots
  <2> QED  BY <1>2, <2>3 DEF nrf_wifi_fmac_vif_idx_get
<1> QED  BY <1>1, <1>2

(***************************************************************************)
(* Steps that leave the interfaces as they are.                            *)
(***************************************************************************)

LEMMA InvInit == Init => IfInv
<1> SUFFICES ASSUME Init PROVE IfInv
  OBVIOUS
<1>1. \A i \in Slots : vif_ctx[i] = 0 /\ ~Live(i)
  BY DEF Init, Live
<1>2. 0 \in Slots /\ call.op = "none" /\ astray = {}
  BY DEF Init, Idle, Slots
<1>3. TypeOK
  <2>1. ctx \in [CtxIds -> Contexts]
    BY DEF Init, Contexts, Freed, Types
  <2>2. peers \in [0 .. MAX_PEERS - 1 -> {Nobody} \cup [ra : Stations, if_idx : Slots]]
        /\ vif_ctx \in [Slots -> 0 .. MAX_ADDS]
    BY DEF Init
  <2>3. rif \in [Slots -> [type : Types \cup {"none"}, up : BOOLEAN,
                          want : Stations \cup {"none"},
                          stations : SUBSET Stations, leaving : SUBSET Stations]]
    BY DEF Init, RpuBooted, NoInterface, Types
  <2>4. call \in [op : {"none", "del_vif", "start_ap"}, if_idx : Slots]
    BY <1>2 DEF Init, Idle
  <2>5. events \in Seq([ev : {"NEW_STATION", "DEL_STATION"}, if_idx : Slots, arg : Stations]
                    \cup [ev : {"MODE_SET"}, if_idx : Slots, arg : RawModes \cup {"bad"}])
        /\ Len(events) <= MAX_EVENTS
    BY DEF Init
  <2>6. adds \in 0 .. MAX_ADDS /\ num_sta \in 0 .. 255 /\ num_ap \in 0 .. 255
        /\ bcast \in Slots \cup {-1} /\ changes \in 0 .. MAX_CHANGES
    BY DEF Init
  <2>7. /\ (\A c \in astray : c[2] \in 0 .. MAX_NUM_VIFS) /\ drifted \in BOOLEAN
        /\ untold \subseteq Slots /\ removed \subseteq Slots
        /\ retyped \subseteq Slots /\ misaimed \subseteq Slots
        /\ missed \subseteq Slots \X Stations
    BY DEF Init
  <2> QED  BY <2>1, <2>2, <2>3, <2>4, <2>5, <2>6, <2>7 DEF TypeOK
<1>4. Of(StaTypes) = {} /\ Of(ApTypes) = {}
  BY <1>1 DEF Of
<1>5. CountersExact
  BY <1>4, FS_EmptySet DEF Init, CountersExact
<1>6. HandedOut /\ Backed /\ CallLive /\ CommandsReach
  BY <1>1, <1>2 DEF Init, HandedOut, Backed, CallLive, CommandsReach
<1>7. Known /\ Agreed
  BY <1>1, <1>2 DEF Init, Known, Agreed, RpuBooted, NoInterface
<1> QED  BY <1>3, <1>5, <1>6, <1>7 DEF IfInv

(* What the properties look at is as it was: contexts, their types, the    *)
(* counters, and the types of the RPU.                                     *)
Quiet ==
  /\ UNCHANGED <<vif_ctx, adds, num_sta, num_ap, astray, drifted, untold, removed, retyped>>
  /\ \A c \in CtxIds : ctx'[c].live = ctx[c].live /\ ctx'[c].if_type = ctx[c].if_type
  /\ \A i \in Slots : rif'[i].type = rif[i].type
  /\ call'.op # "none" => Live(call'.if_idx)
  /\ call'.op = "del_vif" \/ call.op = "del_vif" => call' = call

LEMMA SameContexts ==
  ASSUME TypeOK, vif_ctx' = vif_ctx,
         \A c \in CtxIds : ctx'[c].live = ctx[c].live /\ ctx'[c].if_type = ctx[c].if_type
  PROVE  \A i \in Slots : (Live(i)' <=> Live(i)) /\ (Live(i) => TypeOf(i)' = TypeOf(i))
<1> SUFFICES ASSUME NEW i \in Slots
             PROVE  (Live(i)' <=> Live(i)) /\ (Live(i) => TypeOf(i)' = TypeOf(i))
  OBVIOUS
<1>1. vif_ctx[i] = 0 \/ vif_ctx[i] \in CtxIds
  BY DEF TypeOK, CtxIds
<1> QED  BY <1>1 DEF Live, TypeOf

LEMMA QuietKeepsInv ==
  ASSUME IfInv, Quiet, TypeOK'
  PROVE  IfInv'
<1>1. \A i \in Slots : (Live(i)' <=> Live(i)) /\ (Live(i) => TypeOf(i)' = TypeOf(i))
  BY SameContexts DEF IfInv, Quiet
<1>2. \A i \in Slots : Deleting(i)' <=> Deleting(i)
  BY DEF Quiet, Deleting
<1>3. 0 \in Slots
  BY DEF Slots
<1>4. \A i \in Slots : rif'[i].type = rif[i].type
  BY DEF Quiet
<1>5. Of(StaTypes)' = Of(StaTypes) /\ Of(ApTypes)' = Of(ApTypes)
  BY <1>1 DEF Of
<1>6. CountersExact'
  BY <1>5 DEF IfInv, Quiet, CountersExact
<1>7. HandedOut' /\ Backed' /\ CommandsReach'
  BY <1>1 DEF IfInv, Quiet, HandedOut, Backed, CommandsReach
<1>8. CallLive'
  <2>1. call'.op # "none" => call'.if_idx \in Slots
    BY DEF TypeOK
  <2> QED  BY <1>1, <2>1 DEF Quiet, CallLive
<1>9. Known'
  BY <1>1, <1>2, <1>3, <1>4 DEF IfInv, Known
<1>10. Agreed'
  BY <1>1, <1>2, <1>4 DEF IfInv, Agreed, Quiet
<1> QED  BY <1>6, <1>7, <1>8, <1>9, <1>10 DEF IfInv

(* A command for an interface the driver has is obeyed.                    *)
LEMMA Obeyed ==
  ASSUME IfInv, NEW i \in Slots, (Live(i) /\ ~Deleting(i)) \/ i = 0, NEW cmd, NEW new,
         Command(cmd, i, new)
  PROVE  rif' = [rif EXCEPT ![i] = new] /\ astray' = astray
BY DEF IfInv, Known, Command

LEMMA TellsNothing ==
  ASSUME IfInv, NEW i \in Slots, (Live(i) /\ ~Deleting(i)) \/ i = 0, NEW cmd, Tells(cmd, i)
  PROVE  UNCHANGED vars
<1>1. rif' = [rif EXCEPT ![i] = rif[i]] /\ astray' = astray /\ events' = events
  BY Obeyed DEF Tells, umac_cmd_cfg
<1>2. rif' = rif
  BY <1>1 DEF IfInv, TypeOK
<1> QED  BY <1>1, <1>2 DEF Tells, vars, rpu

LEMMA TellingNothing ==
  ASSUME IfInv, NEW i \in Slots, call = Idle, Live(i), Telling(i)
  PROVE  UNCHANGED vars
<1>1. ~Deleting(i)
  BY DEF Deleting, Idle
<1>2. (\E cmd : Tells(cmd, i)) \/ UNCHANGED vars
  <2>1. CASE \E type \in {"GROUP", "PAIRWISE"}, s \in Stations :
               nrf_wifi_sys_fmac_add_key(i, type, s)
    BY <2>1 DEF nrf_wifi_sys_fmac_add_key
  <2>2. CASE \/ nrf_wifi_sys_fmac_scan(i) \/ nrf_wifi_sys_fmac_abort_scan(i)
             \/ nrf_wifi_sys_fmac_scan_res_get(i) \/ nrf_wifi_sys_fmac_auth(i)
             \/ nrf_wifi_sys_fmac_set_key(i) \/ nrf_wifi_sys_fmac_del_key(i)
             \/ nrf_wifi_sys_fmac_chg_sta(i) \/ nrf_wifi_sys_fmac_add_sta(i)
             \/ nrf_wifi_sys_fmac_set_bss(i) \/ nrf_wifi_sys_fmac_chg_bcn(i)
             \/ nrf_wifi_sys_fmac_mgmt_frame_reg(i) \/ nrf_wifi_sys_fmac_mgmt_tx(i)
    BY <2>2 DEF nrf_wifi_sys_fmac_scan, nrf_wifi_sys_fmac_abort_scan,
         nrf_wifi_sys_fmac_scan_res_get, nrf_wifi_sys_fmac_auth, nrf_wifi_sys_fmac_set_key,
         nrf_wifi_sys_fmac_del_key, nrf_wifi_sys_fmac_chg_sta, nrf_wifi_sys_fmac_add_sta,
         nrf_wifi_sys_fmac_set_bss, nrf_wifi_sys_fmac_chg_bcn,
         nrf_wifi_sys_fmac_mgmt_frame_reg, nrf_wifi_sys_fmac_mgmt_tx
  <2>3. CASE \/ nrf_wifi_sys_fmac_p2p_dev_start(i) \/ nrf_wifi_sys_fmac_p2p_dev_stop(i)
             \/ nrf_wifi_sys_fmac_p2p_roc_start(i) \/ nrf_wifi_sys_fmac_p2p_roc_stop(i)
             \/ nrf_wifi_sys_fmac_set_vif_macaddr(i) \/ nrf_wifi_sys_fmac_set_wiphy_params(i)
             \/ nrf_wifi_sys_fmac_get_tx_power(i) \/ nrf_wifi_sys_fmac_get_channel(i)
             \/ nrf_wifi_sys_fmac_get_station(i) \/ nrf_wifi_sys_fmac_set_qos_map(i)
             \/ nrf_wifi_sys_fmac_set_power_save(i) \/ nrf_wifi_sys_fmac_set_uapsd_queue(i)
    BY <2>3 DEF nrf_wifi_sys_fmac_p2p_dev_start, nrf_wifi_sys_fmac_p2p_dev_stop,
         nrf_wifi_sys_fmac_p2p_roc_start, nrf_wifi_sys_fmac_p2p_roc_stop,
         nrf_wifi_sys_fmac_set_vif_macaddr, nrf_wifi_sys_fmac_set_wiphy_params,
         nrf_wifi_sys_fmac_get_tx_power, nrf_wifi_sys_fmac_get_channel,
         nrf_wifi_sys_fmac_get_station, nrf_wifi_sys_fmac_set_qos_map,
         nrf_wifi_sys_fmac_set_power_save, nrf_wifi_sys_fmac_set_uapsd_queue
  <2>4. CASE \/ nrf_wifi_sys_fmac_set_power_save_timeout(i) \/ nrf_wifi_sys_fmac_get_wiphy(i)
             \/ nrf_wifi_sys_fmac_register_frame(i) \/ nrf_wifi_sys_fmac_twt_setup(i)
             \/ nrf_wifi_sys_fmac_twt_teardown(i) \/ nrf_wifi_sys_fmac_set_mcast_addr(i)
             \/ nrf_wifi_sys_fmac_get_conn_info(i) \/ nrf_wifi_sys_fmac_get_power_save_info(i)
             \/ nrf_wifi_sys_fmac_set_listen_interval(i) \/ nrf_wifi_sys_fmac_set_ps_wakeup_mode(i)
             \/ nrf_wifi_sys_fmac_set_ps_exit_strategy(i) \/ nrf_wifi_sys_fmac_set_channel(i)
             \/ nrf_wifi_sys_fmac_set_packet_filter(i)
    BY <2>4 DEF nrf_wifi_sys_fmac_set_power_save_timeout, nrf_wifi_sys_fmac_get_wiphy,
         nrf_wifi_sys_fmac_register_frame, nrf_wifi_sys_fmac_twt_setup,
         nrf_wifi_sys_fmac_twt_teardown, nrf_wifi_sys_fmac_set_mcast_addr,
         nrf_wifi_sys_fmac_get_conn_info, nrf_wifi_sys_fmac_get_power_save_info,
         nrf_wifi_sys_fmac_set_listen_interval, nrf_wifi_sys_fmac_set_ps_wakeup_mode,
         nrf_wifi_sys_fmac_set_ps_exit_strategy, nrf_wifi_sys_fmac_set_channel,
         nrf_wifi_sys_fmac_set_packet_filter
  <2>5. CASE nrf_wifi_sys_fmac_get_interface(i)
    BY <2>5 DEF nrf_wifi_sys_fmac_get_interface
  <2> QED  BY <2>1, <2>2, <2>3, <2>4, <2>5 DEF Telling
<1> QED  BY <1>1, <1>2, TellsNothing

(***************************************************************************)
(* Types, by who owns the variables.                                       *)
(***************************************************************************)

RpuIf == [type : Types \cup {"none"}, up : BOOLEAN, want : Stations \cup {"none"},
          stations : SUBSET Stations, leaving : SUBSET Stations]

Event == [ev : {"NEW_STATION", "DEL_STATION"}, if_idx : Slots, arg : Stations]
         \cup [ev : {"MODE_SET"}, if_idx : Slots, arg : RawModes \cup {"bad"}]

HostType ==
  /\ vif_ctx \in [Slots -> 0 .. MAX_ADDS]
  /\ ctx \in [CtxIds -> Contexts] /\ adds \in 0 .. MAX_ADDS
  /\ num_sta \in 0 .. 255 /\ num_ap \in 0 .. 255

TableType ==
  /\ peers \in [0 .. MAX_PEERS - 1 -> {Nobody} \cup [ra : Stations, if_idx : Slots]]
  /\ bcast \in Slots \cup {-1}

CallType == call \in [op : {"none", "del_vif", "start_ap"}, if_idx : Slots]

RpuType ==
  /\ rif \in [Slots -> RpuIf]
  /\ events \in Seq(Event) /\ Len(events) <= MAX_EVENTS
  /\ \A c \in astray : c[2] \in 0 .. MAX_NUM_VIFS

HistoryType ==
  /\ drifted \in BOOLEAN /\ changes \in 0 .. MAX_CHANGES
  /\ untold \subseteq Slots /\ removed \subseteq Slots
  /\ retyped \subseteq Slots /\ misaimed \subseteq Slots
  /\ missed \subseteq Slots \X Stations

LEMMA Typed ==
  ASSUME TypeOK
  PROVE  HostType /\ TableType /\ CallType /\ RpuType /\ HistoryType
BY DEF TypeOK, HostType, TableType, CallType, RpuType, HistoryType, RpuIf, Event

LEMMA TypedNext ==
  ASSUME HostType', TableType', CallType', RpuType', HistoryType'
  PROVE  TypeOK'
BY DEF TypeOK, HostType, TableType, CallType, RpuType, HistoryType, RpuIf, Event

LEMMA SameTypes ==
  ASSUME TypeOK
  PROVE  /\ UNCHANGED host => HostType'
         /\ UNCHANGED table => TableType'
         /\ UNCHANGED call => CallType'
         /\ UNCHANGED rpu => RpuType'
         /\ UNCHANGED history => HistoryType'
<1>1. UNCHANGED host => HostType'
  BY Typed DEF host, HostType
<1>2. UNCHANGED table => TableType'
  BY Typed DEF table, TableType
<1>3. UNCHANGED call => CallType'
  BY Typed DEF CallType
<1>4. UNCHANGED rpu => RpuType'
  BY Typed DEF rpu, RpuType
<1>5. UNCHANGED history => HistoryType'
  BY Typed DEF history, HistoryType
<1> QED  BY <1>1, <1>2, <1>3, <1>4, <1>5

LEMMA Announced ==
  ASSUME RpuType, NEW ev \in {"NEW_STATION", "DEL_STATION"}, NEW i \in Slots,
         NEW s \in Stations, Announces(ev, i, s)
  PROVE  events' \in Seq(Event) /\ Len(events') <= MAX_EVENTS
<1>1. [ev |-> ev, if_idx |-> i, arg |-> s] \in Event
  BY DEF Event
<1> QED  BY <1>1 DEF Announces, RpuType

(* An event is taken out of the channel.                                   *)
LEMMA Taken ==
  ASSUME RpuType, events # <<>>
  PROVE  /\ Head(events) \in Event
         /\ Tail(events) \in Seq(Event) /\ Len(Tail(events)) <= MAX_EVENTS
BY DEF RpuType

LEMMA NoneIsNoType == "none" \notin Types
BY DEF Types, StaTypes, ApTypes

(***************************************************************************)
(* The RPU on its own.                                                     *)
(***************************************************************************)

LEMMA RpuKeepsInv ==
  ASSUME IfInv, NEW i \in Slots, NEW s \in Stations,
         RpuConnected(i) \/ RpuRefused(i) \/ RpuJoined(i, s) \/ RpuLeft(i, s)
  PROVE  IfInv'
<1>1. TypeOK /\ HostType /\ TableType /\ CallType /\ RpuType /\ HistoryType
  BY Typed DEF IfInv
<1>2. RpuOnly
  BY DEF RpuConnected, RpuRefused, RpuJoined, RpuLeft
<1>3. rif' \in [Slots -> RpuIf] /\ \A j \in Slots : rif'[j].type = rif[j].type
  <2>1. CASE RpuConnected(i)
    BY <1>1, <2>1 DEF RpuConnected, RpuType, RpuIf
  <2>2. CASE RpuRefused(i)
    BY <1>1, <2>2 DEF RpuRefused, RpuType, RpuIf
  <2>3. CASE RpuJoined(i, s)
    <3>1. rif[i] \in RpuIf /\ rif' = [rif EXCEPT ![i].stations = @ \cup {s}]
      BY <1>1, <2>3 DEF RpuJoined, RpuType
    <3> DEFINE new == [rif[i] EXCEPT !.stations = @ \cup {s}]
    <3>2. new \in RpuIf /\ new.type = rif[i].type
      BY <3>1 DEF RpuIf
    <3>3. rif' = [rif EXCEPT ![i] = new]
      BY <3>1
    <3> HIDE DEF new
    <3> QED  BY <1>1, <3>2, <3>3 DEF RpuType
  <2>4. CASE RpuLeft(i, s)
    <3>1. rif[i] \in RpuIf /\ rif' = [rif EXCEPT ![i].stations = @ \ {s}, ![i].leaving = @ \ {s}]
      BY <1>1, <2>4 DEF RpuLeft, RpuType
    <3> DEFINE new == [rif[i] EXCEPT !.stations = @ \ {s}, !.leaving = @ \ {s}]
    <3>2. new \in RpuIf /\ new.type = rif[i].type
      BY <3>1 DEF RpuIf
    <3>3. rif' = [rif EXCEPT ![i] = new]
      BY <3>1
    <3> HIDE DEF new
    <3> QED  BY <1>1, <3>2, <3>3 DEF RpuType
  <2> QED  BY <2>1, <2>2, <2>3, <2>4
<1>4. events' \in Seq(Event) /\ Len(events') <= MAX_EVENTS
  <2>1. CASE RpuConnected(i)
    <3>1. rif[i].want \in Stations
      BY <1>1, <2>1 DEF RpuConnected, RpuType, RpuIf
    <3> QED  BY <1>1, <2>1, <3>1, Announced DEF RpuConnected
  <2>2. CASE RpuRefused(i)
    BY <1>1, <2>2 DEF RpuRefused, RpuType
  <2>3. CASE RpuJoined(i, s)
    BY <1>1, <2>3, Announced DEF RpuJoined
  <2>4. CASE RpuLeft(i, s)
    BY <1>1, <2>4, Announced DEF RpuLeft
  <2> QED  BY <2>1, <2>2, <2>3, <2>4
<1>5. TypeOK'
  <2>1. RpuType'
    BY <1>1, <1>2, <1>3, <1>4 DEF RpuType, RpuOnly
  <2> QED  BY <1>1, <1>2, <2>1, SameTypes, TypedNext DEF RpuOnly
<1>6. Quiet
  BY <1>2, <1>3 DEF RpuOnly, Quiet, host, history, IfInv, CallLive
<1> QED  BY <1>5, <1>6, QuietKeepsInv

(***************************************************************************)
(* Events about stations.                                                  *)
(***************************************************************************)

LEMMA AddedPeer ==
  ASSUME TableType, NEW i \in Slots, NEW s \in Stations
  PROVE  nrf_wifi_fmac_peer_add(i, s)
           \in [0 .. MAX_PEERS - 1 -> {Nobody} \cup [ra : Stations, if_idx : Slots]]
BY DEF TableType, nrf_wifi_fmac_peer_add

LEMMA RemovedPeer ==
  ASSUME TableType, NEW i \in Slots, NEW p
  PROVE  nrf_wifi_fmac_peer_remove(i, p)
           \in [0 .. MAX_PEERS - 1 -> {Nobody} \cup [ra : Stations, if_idx : Slots]]
BY DEF TableType, nrf_wifi_fmac_peer_remove

LEMMA FlushedPeers ==
  ASSUME TableType, NEW i \in Slots, nrf_wifi_fmac_peers_flush(i)
  PROVE  TableType'
BY DEF TableType, nrf_wifi_fmac_peers_flush

LEMMA EventTaken ==
  ASSUME RpuType, NEW e, events # <<>>, Head(events) = e, events' = Tail(events),
         rif' = rif, astray' = astray
  PROVE  RpuType' /\ e \in Event
BY Taken DEF RpuType

LEMMA ConnectNewKeepsInv ==
  ASSUME IfInv, NEW i \in Slots, NEW s \in Stations, umac_event_connect_new(i, s)
  PROVE  IfInv'
<1>1. TypeOK /\ HostType /\ TableType /\ CallType /\ RpuType /\ HistoryType
  BY Typed DEF IfInv
<1>2. UNCHANGED <<vif_ctx, adds, num_sta, num_ap, bcast, call, rif, astray,
                  changes, drifted, untold, removed, retyped, misaimed>>
  BY DEF umac_event_connect_new
<1>3. RpuType'
  BY <1>1, <1>2, EventTaken DEF umac_event_connect_new, umac_event_ctrl_process
<1>4. /\ ctx' \in [CtxIds -> Contexts]
      /\ \A c \in CtxIds : ctx'[c].live = ctx[c].live /\ ctx'[c].if_type = ctx[c].if_type
  BY <1>1 DEF umac_event_connect_new, HostType, Contexts
<1>5. TableType'
  BY <1>1, <1>2, AddedPeer DEF umac_event_connect_new, TableType
<1>6. missed' \subseteq Slots \X Stations
  BY <1>1 DEF umac_event_connect_new, HistoryType
<1>7. TypeOK'
  <2>1. HostType'
    BY <1>1, <1>2, <1>4 DEF HostType
  <2>2. HistoryType'
    BY <1>1, <1>2, <1>6 DEF HistoryType
  <2> QED  BY <1>1, <1>2, <1>3, <1>5, <2>1, <2>2, SameTypes, TypedNext
<1>8. Quiet
  BY <1>2, <1>4 DEF Quiet, IfInv, CallLive
<1> QED  BY <1>7, <1>8, QuietKeepsInv

LEMMA ConnectDelKeepsInv ==
  ASSUME IfInv, NEW i \in Slots, NEW s \in Stations, umac_event_connect_del(i, s)
  PROVE  IfInv'
<1>1. TypeOK /\ HostType /\ TableType /\ CallType /\ RpuType /\ HistoryType
  BY Typed DEF IfInv
<1>2. UNCHANGED <<host, bcast, call, rif, astray, changes, drifted, untold, removed,
                  retyped, misaimed>>
  BY DEF umac_event_connect_del
<1>3. RpuType'
  BY <1>1, <1>2, EventTaken DEF umac_event_connect_del, umac_event_ctrl_process
<1>4. TableType'
  BY <1>1, <1>2, RemovedPeer DEF umac_event_connect_del, TableType
<1>5. HistoryType'
  BY <1>1, <1>2 DEF umac_event_connect_del, HistoryType
<1>6. TypeOK'
  BY <1>1, <1>2, <1>3, <1>4, <1>5, SameTypes, TypedNext
<1>7. Quiet
  BY <1>2 DEF Quiet, IfInv, CallLive, host
<1> QED  BY <1>6, <1>7, QuietKeepsInv

(***************************************************************************)
(* Calls that tell the RPU of stations.                                    *)
(***************************************************************************)

LEMMA Commanded ==
  ASSUME IfInv, NEW i \in Slots, Live(i) /\ ~Deleting(i), NEW cmd, NEW sent,
         NEW new \in RpuIf, umac_cmd_cfg(sent, cmd, i, new)
  PROVE  /\ RpuType' /\ astray' = astray
         /\ rif' = IF sent THEN [rif EXCEPT ![i] = new] ELSE rif
         /\ new.type = rif[i].type => \A j \in Slots : rif'[j].type = rif[j].type
<1>1. RpuType
  BY Typed DEF IfInv
<1>2. CASE sent
  <2>1. rif' = [rif EXCEPT ![i] = new] /\ astray' = astray /\ events' = events
    BY <1>2, Obeyed DEF umac_cmd_cfg
  <2> QED  BY <1>1, <1>2, <2>1 DEF RpuType
<1>3. CASE ~sent
  BY <1>1, <1>3 DEF umac_cmd_cfg, rpu, RpuType
<1> QED  BY <1>2, <1>3

LEMMA DroppingType ==
  ASSUME RpuType, NEW i \in Slots
  PROVE  /\ Dropping(i) \in RpuIf /\ Dropping(i).type = rif[i].type
         /\ \A s \in Stations : [Dropping(i) EXCEPT !.want = s] \in RpuIf
                                /\ [Dropping(i) EXCEPT !.want = s].type = rif[i].type
         /\ rif[i] \in RpuIf
<1>1. rif[i] \in RpuIf
  BY DEF RpuType
<1>2. /\ Dropping(i).type = rif[i].type /\ Dropping(i).up = FALSE /\ Dropping(i).want = "none"
      /\ Dropping(i).stations = rif[i].stations /\ Dropping(i).leaving = rif[i].stations
  BY <1>1 DEF RpuIf, Dropping
<1>3. Dropping(i) \in RpuIf
  BY <1>1 DEF RpuIf, Dropping
<1>4. ASSUME NEW s \in Stations, NEW d \in RpuIf
      PROVE  [d EXCEPT !.want = s] \in RpuIf /\ [d EXCEPT !.want = s].type = d.type
  BY DEF RpuIf
<1>5. \A s \in Stations : [Dropping(i) EXCEPT !.want = s] \in RpuIf
                          /\ [Dropping(i) EXCEPT !.want = s].type = rif[i].type
  BY <1>2, <1>3, <1>4
<1> QED  BY <1>1, <1>2, <1>3, <1>5

LEMMA LetsGoKeepsInv ==
  ASSUME IfInv, NEW i \in Slots, NEW s \in Stations, call = Idle, Live(i), NEW cmd,
         LetsGo(cmd, i, s)
  PROVE  IfInv'
<1>1. TypeOK /\ HostType /\ TableType /\ CallType /\ RpuType /\ HistoryType /\ ~Deleting(i)
  BY Typed DEF IfInv, Idle, Deleting
<1> DEFINE new == [rif[i] EXCEPT !.leaving = @ \cup ({s} \cap rif[i].stations)]
<1>2. new \in RpuIf /\ new.type = rif[i].type
  <2>1. rif[i] \in RpuIf
    BY <1>1 DEF RpuType
  <2> QED  BY <2>1 DEF RpuIf
<1>3. umac_cmd_cfg(TRUE, cmd, i, new) /\ UNCHANGED <<host, table, call, history>>
  BY DEF LetsGo
<1> HIDE DEF new
<1>4. RpuType' /\ astray' = astray /\ \A j \in Slots : rif'[j].type = rif[j].type
  BY <1>1, <1>2, <1>3, Commanded
<1>5. TypeOK'
  BY <1>1, <1>3, <1>4, SameTypes, TypedNext
<1>6. Quiet
  BY <1>3, <1>4 DEF Quiet, host, history, Idle
<1> QED  BY <1>5, <1>6, QuietKeepsInv

LEMMA AssocKeepsInv ==
  ASSUME IfInv, NEW i \in Slots, NEW s \in Stations, nrf_wifi_sys_fmac_assoc(i, s)
  PROVE  IfInv'
<1>1. TypeOK /\ HostType /\ TableType /\ CallType /\ RpuType /\ HistoryType
  BY Typed DEF IfInv
<1>2. Live(i) /\ ~Deleting(i) /\ call = Idle
  BY DEF nrf_wifi_sys_fmac_assoc, Idle, Deleting
<1>3. /\ UNCHANGED <<vif_ctx, adds, num_sta, num_ap, table, call,
                     drifted, untold, removed, retyped, missed>>
      /\ ctx' = [ctx EXCEPT ![vif_ctx[i]].bssid = s]
  BY DEF nrf_wifi_sys_fmac_assoc
<1> DEFINE new == IF rif[i].type \in StaTypes THEN [Dropping(i) EXCEPT !.want = s] ELSE rif[i]
<1>4. new \in RpuIf /\ new.type = rif[i].type
  BY <1>1, DroppingType
<1>5. PICK sent \in BOOLEAN :
        /\ umac_cmd_cfg(sent, "ASSOCIATE", i, new)
        /\ IF sent THEN misaimed' = misaimed \ {i} /\ UNCHANGED changes
                   ELSE misaimed' = misaimed \cup {i} /\ Change
  BY DEF nrf_wifi_sys_fmac_assoc
<1> HIDE DEF new
<1>6. RpuType' /\ astray' = astray /\ \A j \in Slots : rif'[j].type = rif[j].type
  BY <1>2, <1>4, <1>5, Commanded
<1>7. HistoryType'
  BY <1>1, <1>3, <1>5 DEF HistoryType, Change
<1>8. /\ ctx' \in [CtxIds -> Contexts]
      /\ \A c \in CtxIds : ctx'[c].live = ctx[c].live /\ ctx'[c].if_type = ctx[c].if_type
  <2>1. vif_ctx[i] \in CtxIds
    BY <1>1, <1>2 DEF HostType, Live, CtxIds
  <2>2. ctx[vif_ctx[i]] \in Contexts
    BY <1>1, <2>1 DEF HostType
  <2>3. [ctx[vif_ctx[i]] EXCEPT !.bssid = s] \in Contexts
    BY <2>2 DEF Contexts
  <2> QED  BY <1>1, <1>3, <2>1, <2>2, <2>3 DEF HostType, Contexts
<1>9. HostType'
  BY <1>1, <1>3, <1>8 DEF HostType
<1>10. TypeOK'
  BY <1>1, <1>3, <1>6, <1>7, <1>9, SameTypes, TypedNext
<1>11. Quiet
  BY <1>2, <1>3, <1>6, <1>8 DEF Quiet, Idle
<1> QED  BY <1>10, <1>11, QuietKeepsInv

LEMMA StartApKeepsInv ==
  ASSUME IfInv, NEW i \in Slots, nrf_wifi_sys_fmac_start_ap(i)
  PROVE  IfInv'
<1>1. TypeOK /\ HostType /\ TableType /\ CallType /\ RpuType /\ HistoryType
  BY Typed DEF IfInv
<1>2. Live(i) /\ ~Deleting(i) /\ call = Idle /\ UNCHANGED <<host, table, history>>
  BY DEF nrf_wifi_sys_fmac_start_ap, Idle, Deleting
<1>3. PICK sent \in BOOLEAN : /\ umac_cmd_cfg(sent, "SET_WIPHY", i, rif[i])
                              /\ IF sent THEN call' = [op |-> "start_ap", if_idx |-> i]
                                         ELSE UNCHANGED call
  BY DEF nrf_wifi_sys_fmac_start_ap
<1>4. RpuType' /\ astray' = astray /\ \A j \in Slots : rif'[j].type = rif[j].type
  BY <1>1, <1>2, <1>3, Commanded, DroppingType
<1>5. CallType'
  BY <1>1, <1>3 DEF CallType
<1>6. TypeOK'
  BY <1>1, <1>2, <1>4, <1>5, SameTypes, TypedNext
<1>7. Quiet
  BY <1>2, <1>3, <1>4 DEF Quiet, host, history, Idle
<1> QED  BY <1>6, <1>7, QuietKeepsInv

LEMMA StartApFlushKeepsInv ==
  ASSUME IfInv, StartApFlush
  PROVE  IfInv'
<1> DEFINE i == call.if_idx
<1>1. TypeOK /\ HostType /\ TableType /\ CallType /\ RpuType /\ HistoryType
  BY Typed DEF IfInv
<1>2. i \in Slots /\ Live(i) /\ ~Deleting(i)
  BY <1>1 DEF StartApFlush, CallType, IfInv, CallLive, Deleting
<1>3. call' = Idle /\ UNCHANGED <<host, history>> /\ nrf_wifi_fmac_peers_flush(i)
  BY DEF StartApFlush
<1> DEFINE new == [rif[i] EXCEPT !.up = rif[i].type \in ApTypes]
<1>4. new \in RpuIf /\ new.type = rif[i].type
  <2>1. rif[i] \in RpuIf
    BY <1>1, <1>2 DEF RpuType
  <2>2. [rif[i] EXCEPT !.up = TRUE] \in RpuIf /\ [rif[i] EXCEPT !.up = FALSE] \in RpuIf
    BY <2>1 DEF RpuIf
  <2>3. new = [rif[i] EXCEPT !.up = TRUE] \/ new = [rif[i] EXCEPT !.up = FALSE]
    <3>1. (rif[i].type \in ApTypes) = TRUE \/ (rif[i].type \in ApTypes) = FALSE
      OBVIOUS
    <3> QED  BY <3>1
  <2>4. new.type = rif[i].type
    BY <2>1 DEF RpuIf
  <2> QED  BY <2>2, <2>3, <2>4
<1>5. PICK sent \in BOOLEAN : umac_cmd_cfg(sent, "START_AP", i, new)
  BY DEF StartApFlush
<1> HIDE DEF new
<1>6. RpuType' /\ astray' = astray /\ \A j \in Slots : rif'[j].type = rif[j].type
  BY <1>2, <1>4, <1>5, Commanded
<1>7. TableType' /\ CallType'
  BY <1>1, <1>2, <1>3, FlushedPeers DEF CallType, Idle, Slots
<1>8. TypeOK'
  BY <1>1, <1>3, <1>6, <1>7, SameTypes, TypedNext
<1>9. Quiet
  BY <1>3, <1>6 DEF Quiet, host, history, Idle, StartApFlush
<1> QED  BY <1>8, <1>9, QuietKeepsInv

LEMMA StopApKeepsInv ==
  ASSUME IfInv, NEW i \in Slots, nrf_wifi_sys_fmac_stop_ap(i)
  PROVE  IfInv'
<1>1. TypeOK /\ HostType /\ TableType /\ CallType /\ RpuType /\ HistoryType
  BY Typed DEF IfInv
<1>2. /\ Live(i) /\ ~Deleting(i) /\ call = Idle /\ nrf_wifi_fmac_peers_flush(i)
      /\ UNCHANGED <<host, call, drifted, untold, removed, retyped, misaimed>>
  BY DEF nrf_wifi_sys_fmac_stop_ap, Idle, Deleting
<1>3. PICK sent \in BOOLEAN :
        /\ umac_cmd_cfg(sent, "STOP_AP", i, Dropping(i))
        /\ IF sent THEN UNCHANGED <<missed, changes>>
           ELSE missed' = missed \cup ({i} \X rif[i].stations) /\ Change
  BY DEF nrf_wifi_sys_fmac_stop_ap
<1>4. RpuType' /\ astray' = astray /\ \A j \in Slots : rif'[j].type = rif[j].type
  BY <1>1, <1>2, <1>3, Commanded, DroppingType
<1>5. HistoryType'
  <2>1. rif[i].stations \subseteq Stations
    BY <1>1 DEF RpuType, RpuIf
  <2> QED  BY <1>1, <1>2, <1>3, <2>1 DEF HistoryType, Change
<1>6. TableType'
  BY <1>1, <1>2, FlushedPeers
<1>7. TypeOK'
  BY <1>1, <1>2, <1>4, <1>5, <1>6, SameTypes, TypedNext
<1>8. Quiet
  BY <1>2, <1>4 DEF Quiet, host, Idle
<1> QED  BY <1>7, <1>8, QuietKeepsInv

LEMMA SetModeKeepsInv ==
  ASSUME IfInv, NEW i \in Slots, NEW m \in RawModes, nrf_wifi_sys_fmac_set_mode(i, m)
  PROVE  IfInv'
<1>1. TypeOK /\ HostType /\ TableType /\ CallType /\ RpuType /\ HistoryType
  BY Typed DEF IfInv
<1>2. /\ Live(i) /\ ~Deleting(i) /\ call = Idle /\ Len(events) < MAX_EVENTS
      /\ UNCHANGED <<host, table, call, drifted, untold, removed, retyped, misaimed, missed>>
  BY DEF nrf_wifi_sys_fmac_set_mode, Idle, Deleting
<1>3. CASE UNCHANGED <<rpu, changes>>
  <2>1. TypeOK'
    BY <1>1, <1>2, <1>3, SameTypes, TypedNext DEF history
  <2>2. Quiet
    BY <1>2, <1>3 DEF Quiet, host, rpu, Idle
  <2> QED  BY <2>1, <2>2, QuietKeepsInv
<1>4. CASE ~UNCHANGED <<rpu, changes>>
  <2>1. PICK answer \in {m, "bad"} :
          /\ Command("RAW_CONFIG_MODE", i, rif[i]) /\ Change
          /\ events' = Append(events, [ev |-> "MODE_SET", if_idx |-> i, arg |-> answer])
    BY <1>4 DEF nrf_wifi_sys_fmac_set_mode
  <2>2. rif' = [rif EXCEPT ![i] = rif[i]] /\ astray' = astray
    BY <1>2, <2>1, Obeyed
  <2>3. [ev |-> "MODE_SET", if_idx |-> i, arg |-> answer] \in Event
    BY DEF Event
  <2>4. RpuType'
    BY <1>1, <1>2, <2>1, <2>2, <2>3 DEF RpuType
  <2>5. HistoryType'
    BY <1>1, <1>2, <2>1 DEF HistoryType, Change
  <2>6. TypeOK'
    BY <1>1, <1>2, <2>4, <2>5, SameTypes, TypedNext
  <2>7. Quiet
    BY <1>1, <1>2, <2>2 DEF Quiet, host, Idle, RpuType
  <2> QED  BY <2>6, <2>7, QuietKeepsInv
<1> QED  BY <1>3, <1>4

(* The one number too many.                                                *)
LEMMA GetInterfaceKeepsInv ==
  ASSUME IfInv, call = Idle, NEW i \in MAX_NUM_VIFS .. MAX_NUM_VIFS + 1,
         nrf_wifi_sys_fmac_get_interface(i)
  PROVE  IfInv' \/ UNCHANGED vars
<1>1. TypeOK /\ HostType /\ TableType /\ CallType /\ RpuType /\ HistoryType
  BY Typed DEF IfInv
<1>2. CASE i > MAX_NUM_VIFS
  BY <1>2 DEF nrf_wifi_sys_fmac_get_interface
<1>3. CASE i = MAX_NUM_VIFS
  <2>1. i \notin Slots
    BY <1>3 DEF Slots
  <2>2. /\ astray' = astray \cup {<<"GET_INTERFACE", MAX_NUM_VIFS>>}
        /\ UNCHANGED <<rif, events, host, table, call, history>>
    BY <1>3, <2>1 DEF nrf_wifi_sys_fmac_get_interface, Tells, umac_cmd_cfg, Command
  <2>3. RpuType' /\ CommandsReach'
    <3>1. <<"GET_INTERFACE", MAX_NUM_VIFS>>[2] \in 0 .. MAX_NUM_VIFS
      OBVIOUS
    <3>2. \A c \in astray' : c[2] \in 0 .. MAX_NUM_VIFS
      BY <1>1, <2>2, <3>1 DEF RpuType
    <3>3. RpuType'
      BY <1>1, <2>2, <3>2 DEF RpuType
    <3>4. CommandsReach'
      BY <2>2 DEF CommandsReach, IfInv
    <3> QED  BY <3>3, <3>4
  <2>4. TypeOK'
    BY <1>1, <2>2, <2>3, SameTypes, TypedNext
  <2>5. /\ HandedOut' /\ Backed' /\ CallLive' /\ CountersExact'
    BY <2>2 DEF IfInv, HandedOut, Backed, CallLive, CountersExact, Live, TypeOf, Of, host, history
  <2>6. Known' /\ Agreed'
    BY <2>2 DEF IfInv, Known, Agreed, Live, TypeOf, Deleting, host, history
  <2> QED  BY <2>3, <2>4, <2>5, <2>6 DEF IfInv
<1> QED  BY <1>2, <1>3

(***************************************************************************)
(* The interfaces change.                                                  *)
(***************************************************************************)

(* A context belongs to one slot.                                          *)
LEMMA OwnContext ==
  ASSUME IfInv, NEW i \in Slots, NEW j \in Slots, j # i, vif_ctx[i] # 0
  PROVE  vif_ctx[j] # vif_ctx[i]
BY DEF IfInv, Backed

(* The type of one interface changes, in the driver and in the RPU.        *)
LEMMA RetypedLive ==
  ASSUME IfInv, NEW i \in Slots, Live(i), NEW t \in Types, vif_ctx' = vif_ctx,
         ctx' = [ctx EXCEPT ![vif_ctx[i]].if_type = t]
  PROVE  /\ ctx' \in [CtxIds -> Contexts]
         /\ \A j \in Slots : Live(j)' <=> Live(j)
         /\ TypeOf(i)' = t
         /\ \A j \in Slots \ {i} : Live(j) => TypeOf(j)' = TypeOf(j)
<1>1. TypeOK /\ HostType
  BY Typed DEF IfInv
<1>2. \A j \in Slots : vif_ctx[j] = 0 \/ vif_ctx[j] \in CtxIds
  BY <1>1 DEF HostType, CtxIds
<1>3. vif_ctx[i] \in CtxIds /\ ctx[vif_ctx[i]] \in Contexts
  BY <1>1, <1>2 DEF HostType, Live
<1> DEFINE new == [ctx[vif_ctx[i]] EXCEPT !.if_type = t]
<1>4. new \in Contexts /\ new.live = ctx[vif_ctx[i]].live /\ new.if_type = t
  BY <1>3 DEF Contexts
<1>5. ctx' = [ctx EXCEPT ![vif_ctx[i]] = new]
  BY <1>3
<1> HIDE DEF new
<1>6. ctx' \in [CtxIds -> Contexts]
  BY <1>1, <1>3, <1>4, <1>5 DEF HostType
<1>7. ctx'[vif_ctx[i]] = new /\ \A c \in CtxIds \ {vif_ctx[i]} : ctx'[c] = ctx[c]
  BY <1>1, <1>3, <1>5 DEF HostType
<1>8. \A j \in Slots \ {i} : vif_ctx[j] # vif_ctx[i]
  BY <1>3, OwnContext DEF Live
<1>9. \A j \in Slots \ {i} : (Live(j)' <=> Live(j)) /\ (Live(j) => TypeOf(j)' = TypeOf(j))
  BY <1>2, <1>7, <1>8 DEF Live, TypeOf
<1>10. Live(i)' /\ TypeOf(i)' = t
  BY <1>4, <1>7 DEF Live, TypeOf
<1> QED  BY <1>6, <1>9, <1>10

(* Its context is freed.                                                   *)
LEMMA FreedOne ==
  ASSUME IfInv, NEW i \in Slots, Live(i), ctx' = [ctx EXCEPT ![vif_ctx[i]] = Freed],
         vif_ctx' = vif_ctx \/ vif_ctx' = [vif_ctx EXCEPT ![i] = 0]
  PROVE  /\ ctx' \in [CtxIds -> Contexts]
         /\ ~Live(i)'
         /\ \A j \in Slots \ {i} : /\ Live(j)' <=> Live(j)
                                   /\ Live(j) => TypeOf(j)' = TypeOf(j)
                                   /\ vif_ctx'[j] = vif_ctx[j]
<1>1. TypeOK /\ HostType
  BY Typed DEF IfInv
<1>2. \A j \in Slots : vif_ctx[j] = 0 \/ vif_ctx[j] \in CtxIds
  BY <1>1 DEF HostType, CtxIds
<1>3. vif_ctx[i] \in CtxIds
  BY <1>2 DEF Live
<1>4. Freed \in Contexts /\ Freed.live = FALSE
  BY DEF Freed, Contexts, Types
<1> HIDE DEF Freed
<1>5. ctx' \in [CtxIds -> Contexts]
  BY <1>1, <1>3, <1>4 DEF HostType
<1>6. ctx'[vif_ctx[i]] = Freed /\ \A c \in CtxIds \ {vif_ctx[i]} : ctx'[c] = ctx[c]
  BY <1>1, <1>3 DEF HostType
<1>7. \A j \in Slots \ {i} : vif_ctx[j] # vif_ctx[i] /\ vif_ctx'[j] = vif_ctx[j]
  BY <1>1, <1>3, OwnContext DEF Live, HostType
<1>8. vif_ctx'[i] = 0 \/ vif_ctx'[i] = vif_ctx[i]
  BY <1>1 DEF HostType
<1>9. ~Live(i)'
  BY <1>4, <1>6, <1>8 DEF Live
<1>10. \A j \in Slots \ {i} : (Live(j)' <=> Live(j)) /\ (Live(j) => TypeOf(j)' = TypeOf(j))
  BY <1>2, <1>6, <1>7 DEF Live, TypeOf
<1> QED  BY <1>5, <1>7, <1>9, <1>10

LEMMA OfSlots == Of(StaTypes) \subseteq Slots /\ Of(ApTypes) \subseteq Slots
BY DEF Of

LEMMA TypeOfLive ==
  ASSUME HostType, NEW i \in Slots, Live(i)
  PROVE  vif_ctx[i] \in CtxIds /\ TypeOf(i) \in Types
BY DEF HostType, Live, TypeOf, CtxIds, Contexts

(* Interface i is of type t now, and the others are what they were.        *)
LEMMA OfGrown ==
  ASSUME NEW kind, NEW i \in Slots, NEW t, Live(i)', TypeOf(i)' = t,
         \A j \in Slots \ {i} : (Live(j)' <=> Live(j)) /\ (Live(j) => TypeOf(j)' = TypeOf(j))
  PROVE  Counted(Cardinality(Of(kind) \ {i}), t, kind, 1) = Cardinality(Of(kind)')
<1>1. PICK S : S = Of(kind) \ {i}
  OBVIOUS
<1>2. S \in SUBSET Slots /\ i \notin S
  BY <1>1 DEF Of
<1>3. CASE t \in kind
  <2>1. Of(kind)' = S \cup {i}
    BY <1>1, <1>3 DEF Of
  <2>2. Cardinality(S \cup {i}) = (Cardinality(S) + 1 + 256) % 256
    BY <1>2, OneMore
  <2>3. Counted(Cardinality(S), t, kind, 1) = (Cardinality(S) + 1 + 256) % 256
    BY <1>3 DEF Counted
  <2>4. Cardinality(Of(kind)') = Cardinality(S \cup {i})
    BY <2>1
  <2> QED  BY <1>1, <2>2, <2>3, <2>4
<1>4. CASE t \notin kind
  <2>1. Of(kind)' = S
    BY <1>1, <1>4 DEF Of
  <2>2. Counted(Cardinality(S), t, kind, 1) = Cardinality(S)
    BY <1>4 DEF Counted
  <2>3. Cardinality(Of(kind)') = Cardinality(S)
    BY <2>1
  <2> QED  BY <1>1, <2>2, <2>3
<1> QED  BY <1>3, <1>4

(* Interface i is no more, and the others are what they were.              *)
LEMMA OfShrunk ==
  ASSUME NEW kind, NEW i \in Slots, Live(i), ~Live(i)',
         \A j \in Slots \ {i} : (Live(j)' <=> Live(j)) /\ (Live(j) => TypeOf(j)' = TypeOf(j))
  PROVE  Counted(Cardinality(Of(kind)), TypeOf(i), kind, -1) = Cardinality(Of(kind)')
<1>1. Of(kind) \in SUBSET Slots /\ (TypeOf(i) \in kind <=> i \in Of(kind))
  BY DEF Of
<1>2. Of(kind)' = Of(kind) \ {i}
  BY DEF Of
<1> QED  BY <1>1, <1>2, CountedOut

(* The RPU has set the type.                                               *)
LEMMA ModeSetKeepsInv ==
  ASSUME IfInv, NEW i \in Slots, NEW m \in RawModes \cup {"bad"},
         nrf_wifi_fmac_if_mode_set_event_proc(i, m)
  PROVE  IfInv'
<1>1. TypeOK /\ HostType /\ TableType /\ CallType /\ RpuType /\ HistoryType
  BY Typed DEF IfInv
<1>2. UNCHANGED <<vif_ctx, adds, num_sta, num_ap, peers, call, rif, astray, changes, untold,
                  removed, misaimed, missed>>
  BY DEF nrf_wifi_fmac_if_mode_set_event_proc
<1>3. RpuType'
  BY <1>1, <1>2, EventTaken DEF nrf_wifi_fmac_if_mode_set_event_proc
<1>4. TableType' /\ CallType'
  BY <1>1, <1>2 DEF nrf_wifi_fmac_if_mode_set_event_proc, TableType, CallType
<1>5. CASE UNCHANGED <<ctx, drifted, retyped>>
  <2>1. TypeOK'
    <3>1. UNCHANGED <<host, history>>
      BY <1>2, <1>5 DEF host, history
    <3> QED  BY <1>1, <1>3, <1>4, <3>1, SameTypes, TypedNext
  <2>2. Quiet
    BY <1>2, <1>5 DEF Quiet, IfInv, CallLive
  <2> QED  BY <2>1, <2>2, QuietKeepsInv
<1>6. CASE ~UNCHANGED <<ctx, drifted, retyped>>
  <2>1. /\ Live(i) /\ m \in Types
        /\ ctx' = [ctx EXCEPT ![vif_ctx[i]].if_type = m]
        /\ drifted' = (drifted \/ Kind(m) # Kind(TypeOf(i)))
        /\ retyped' = retyped \cup {i}
    BY <1>6 DEF nrf_wifi_fmac_if_mode_set_event_proc, Types
  <2>2. /\ ctx' \in [CtxIds -> Contexts]
        /\ \A j \in Slots : Live(j)' <=> Live(j)
        /\ TypeOf(i)' = m
        /\ \A j \in Slots \ {i} : Live(j) => TypeOf(j)' = TypeOf(j)
    BY <1>2, <2>1, RetypedLive
  <2>3. TypeOK'
    <3>1. HostType'
      BY <1>1, <1>2, <2>2 DEF HostType
    <3>2. HistoryType'
      BY <1>1, <1>2, <2>1 DEF HistoryType
    <3> QED  BY <1>3, <1>4, <3>1, <3>2, TypedNext
  <2>4. HandedOut' /\ Backed' /\ CommandsReach'
    BY <1>2, <2>2 DEF IfInv, HandedOut, Backed, CommandsReach
  <2>5. CallLive'
    BY <1>1, <1>2, <2>2 DEF IfInv, CallLive, CallType
  <2>6. \A j \in Slots : Deleting(j)' <=> Deleting(j)
    BY <1>2 DEF Deleting
  <2>7. Known' /\ Agreed'
    BY <1>2, <2>1, <2>2, <2>6 DEF IfInv, Known, Agreed
  <2>8. CountersExact'
    <3>1. CASE drifted'
      BY <3>1 DEF CountersExact
    <3>2. CASE ~drifted'
      <4>1. ~drifted /\ Kind(m) = Kind(TypeOf(i))
        BY <2>1, <3>2
      <4>2. (m \in StaTypes <=> TypeOf(i) \in StaTypes) /\ (m \in ApTypes <=> TypeOf(i) \in ApTypes)
        BY <4>1 DEF Kind, StaTypes, ApTypes
      <4>3. Of(StaTypes)' = Of(StaTypes) /\ Of(ApTypes)' = Of(ApTypes)
        BY <2>1, <2>2, <4>2 DEF Of
      <4> QED  BY <1>2, <4>1, <4>3 DEF IfInv, CountersExact
    <3> QED  BY <3>1, <3>2
  <2> QED  BY <2>3, <2>4, <2>5, <2>7, <2>8 DEF IfInv
<1> QED  BY <1>5, <1>6

(* An interface is added in the first free slot.                           *)
LEMMA AddVifKeepsInv ==
  ASSUME IfInv, NEW t \in IfTypes, nrf_wifi_sys_fmac_add_vif(t)
  PROVE  IfInv' \/ UNCHANGED vars
<1>1. TypeOK /\ HostType /\ TableType /\ CallType /\ RpuType /\ HistoryType
  BY Typed DEF IfInv
<1>2. call = Idle /\ adds < MAX_ADDS /\ UNCHANGED <<table, call>> /\ t \in Types
  BY DEF nrf_wifi_sys_fmac_add_vif, Types
<1>3. PICK i, c : i = nrf_wifi_fmac_vif_idx_get /\ c = adds + 1
  OBVIOUS
<1>4. \/ UNCHANGED <<host, rpu, history>>
      \/ /\ i # MAX_NUM_VIFS
         /\ vif_ctx' = [vif_ctx EXCEPT ![i] = c]
         /\ ctx' = [ctx EXCEPT ![c] = [live |-> TRUE, if_type |-> t, bssid |-> "none"]]
         /\ adds' = c
         /\ nrf_wifi_fmac_vif_incr_if_type(t)
         /\ rif' = IF i # 0 THEN [rif EXCEPT ![i].type = t] ELSE rif
         /\ untold' = IF i = 0 /\ rif[0].type # t THEN untold \cup {0} ELSE untold \ {i}
         /\ retyped' = retyped \ {i}
         /\ UNCHANGED <<events, astray, changes, drifted, removed, misaimed, missed>>
  BY <1>3 DEF nrf_wifi_sys_fmac_add_vif
<1>5. CASE UNCHANGED <<host, rpu, history>>
  BY <1>2, <1>5 DEF vars
<1>6. CASE ~UNCHANGED <<host, rpu, history>>
  <2>1. /\ i \in Slots /\ vif_ctx[i] = 0
        /\ vif_ctx' = [vif_ctx EXCEPT ![i] = c]
        /\ ctx' = [ctx EXCEPT ![c] = [live |-> TRUE, if_type |-> t, bssid |-> "none"]]
        /\ adds' = c /\ nrf_wifi_fmac_vif_incr_if_type(t)
        /\ rif' = IF i # 0 THEN [rif EXCEPT ![i].type = t] ELSE rif
        /\ untold' = IF i = 0 /\ rif[0].type # t THEN untold \cup {0} ELSE untold \ {i}
        /\ retyped' = retyped \ {i}
        /\ UNCHANGED <<events, astray, changes, drifted, removed, misaimed, missed>>
    BY <1>1, <1>3, <1>4, <1>6, FirstSlot
  <2>2. /\ c \in CtxIds /\ c # 0 /\ c \in 0 .. MAX_ADDS
        /\ adds \in Nat /\ adds <= c /\ \A j \in Slots : vif_ctx[j] \in Nat
    BY <1>1, <1>2, <1>3 DEF CtxIds, HostType
  <2>3. \A j \in Slots : vif_ctx[j] # c
    BY <1>1, <1>3 DEF IfInv, HandedOut, HostType
  <2>4. /\ vif_ctx' \in [Slots -> 0 .. MAX_ADDS]
        /\ vif_ctx'[i] = c /\ \A j \in Slots \ {i} : vif_ctx'[j] = vif_ctx[j]
    BY <1>1, <2>1, <2>2 DEF HostType
  <2>5. /\ ctx' \in [CtxIds -> Contexts]
        /\ ctx'[c] = [live |-> TRUE, if_type |-> t, bssid |-> "none"]
        /\ \A d \in CtxIds \ {c} : ctx'[d] = ctx[d]
    <3>1. [live |-> TRUE, if_type |-> t, bssid |-> "none"] \in Contexts
      BY <1>2 DEF Contexts
    <3> QED  BY <1>1, <2>1, <2>2, <3>1 DEF HostType
  <2>6. \A j \in Slots : vif_ctx[j] = 0 \/ vif_ctx[j] \in CtxIds
    BY <1>1 DEF HostType, CtxIds
  <2>7. \A j \in Slots \ {i} : (Live(j)' <=> Live(j)) /\ (Live(j) => TypeOf(j)' = TypeOf(j))
    BY <2>3, <2>4, <2>5, <2>6 DEF Live, TypeOf
  <2>8. Live(i)' /\ TypeOf(i)' = t /\ ~Live(i)
    BY <2>1, <2>2, <2>4, <2>5 DEF Live, TypeOf
  <2>9. /\ rif' \in [Slots -> RpuIf]
        /\ \A j \in Slots \ {i} : rif'[j] = rif[j]
        /\ i # 0 => rif'[i].type = t
        /\ i = 0 => rif' = rif
    <3>1. rif[i] \in RpuIf
      BY <1>1, <2>1 DEF RpuType
    <3>2. [rif[i] EXCEPT !.type = t] \in RpuIf /\ [rif[i] EXCEPT !.type = t].type = t
      BY <1>2, <3>1 DEF RpuIf
    <3>3. i # 0 => rif' = [rif EXCEPT ![i] = [rif[i] EXCEPT !.type = t]]
      BY <2>1
    <3> QED  BY <1>1, <2>1, <3>2, <3>3 DEF RpuType
  <2>10. HostType'
    <3>1. num_sta' \in 0 .. 255 /\ num_ap' \in 0 .. 255
      <4>1. num_sta \in 0 .. 255 /\ num_ap \in 0 .. 255
        BY <1>1 DEF HostType
      <4>2. /\ num_sta' = Counted(num_sta, t, StaTypes, 1)
            /\ num_ap' = Counted(num_ap, t, ApTypes, 1)
        BY <2>1 DEF nrf_wifi_fmac_vif_incr_if_type
      <4>3. num_sta' \in 0 .. 255
        BY <4>1, <4>2 DEF Counted
      <4>4. num_ap' \in 0 .. 255
        BY <4>1, <4>2 DEF Counted
      <4> QED  BY <4>3, <4>4
    <3> QED  BY <2>1, <2>2, <2>4, <2>5, <3>1 DEF HostType
  <2>11. RpuType' /\ HistoryType'
    <3>1. RpuType'
      BY <1>1, <2>1, <2>9 DEF RpuType
    <3>2. HistoryType'
      BY <1>1, <2>1 DEF HistoryType
    <3> QED  BY <3>1, <3>2
  <2>12. TypeOK'
    BY <1>1, <1>2, <2>10, <2>11, SameTypes, TypedNext
  <2>13. HandedOut'
    BY <2>1, <2>2, <2>4 DEF IfInv, HandedOut
  <2>14. Backed'
    BY <2>1, <2>2, <2>3, <2>4, <2>7, <2>8 DEF IfInv, Backed
  <2>15. CommandsReach' /\ CallLive'
    BY <1>2, <2>1 DEF IfInv, CommandsReach, CallLive, Idle
  <2>16. \A j \in Slots : ~Deleting(j) /\ ~Deleting(j)'
    BY <1>2 DEF Deleting, Idle
  <2>17. Known'
    BY <1>2, <2>1, <2>7, <2>8, <2>9, <2>16, NoneIsNoType DEF IfInv, Known, Slots
  <2>18. Agreed'
    <3>1. ASSUME NEW j \in Slots, j \notin untold' \cup retyped', j # i
          PROVE  IF Live(j)' THEN rif'[j].type = TypeOf(j)' ELSE j = 0 \/ rif'[j].type = "none"
      <4>1. j \notin untold \cup retyped
        BY <2>1, <3>1
      <4> QED  BY <2>7, <2>9, <2>16, <3>1, <4>1 DEF IfInv, Agreed
    <3>2. i \notin untold' \cup retyped' => rif'[i].type = TypeOf(i)'
      BY <2>1, <2>8, <2>9
    <3>3. \A j \in Slots \ (untold' \cup retyped') :
            IF Live(j)' THEN rif'[j].type = TypeOf(j)' ELSE j = 0 \/ rif'[j].type = "none"
      BY <2>8, <3>1, <3>2
    <3> QED  BY <2>16, <3>3 DEF Agreed
  <2>19. CountersExact'
    <3>1. CASE drifted
      BY <2>1, <3>1 DEF CountersExact
    <3>2. CASE ~drifted
      <4>1. num_sta = Cardinality(Of(StaTypes)) /\ num_ap = Cardinality(Of(ApTypes))
        BY <3>2 DEF IfInv, CountersExact
      <4>2. Of(StaTypes) \ {i} = Of(StaTypes) /\ Of(ApTypes) \ {i} = Of(ApTypes)
        BY <2>8 DEF Of
      <4>3. /\ Counted(Cardinality(Of(StaTypes) \ {i}), t, StaTypes, 1)
                = Cardinality(Of(StaTypes)')
            /\ Counted(Cardinality(Of(ApTypes) \ {i}), t, ApTypes, 1) = Cardinality(Of(ApTypes)')
        BY <2>1, <2>7, <2>8, OfGrown
      <4>4. num_sta' = Cardinality(Of(StaTypes)') /\ num_ap' = Cardinality(Of(ApTypes)')
        BY <2>1, <4>1, <4>2, <4>3 DEF nrf_wifi_fmac_vif_incr_if_type
      <4> QED  BY <4>4 DEF CountersExact
    <3> QED  BY <3>1, <3>2
  <2> QED  BY <2>12, <2>13, <2>14, <2>15, <2>17, <2>18, <2>19 DEF IfInv
<1> QED  BY <1>5, <1>6

(* The counter of the old kind goes down, that of the new one up.          *)
LEMMA ChgVifKeepsInv ==
  ASSUME IfInv, NEW i \in Slots, NEW t \in IfTypes, nrf_wifi_sys_fmac_chg_vif(i, t)
  PROVE  IfInv' \/ UNCHANGED vars
<1>1. TypeOK /\ HostType /\ TableType /\ CallType /\ RpuType /\ HistoryType
  BY Typed DEF IfInv
<1>2. /\ Live(i) /\ ~Deleting(i) /\ call = Idle /\ UNCHANGED <<table, call>> /\ t \in Types
  BY DEF nrf_wifi_sys_fmac_chg_vif, Types, Deleting, Idle
<1>3. CASE UNCHANGED <<host, rpu, history>>
  BY <1>2, <1>3 DEF vars
<1>4. CASE ~UNCHANGED <<host, rpu, history>>
  <2> DEFINE new == [Dropping(i) EXCEPT !.type = t]
  <2>1. /\ umac_cmd_cfg(TRUE, "SET_INTERFACE", i, new)
        /\ nrf_wifi_fmac_vif_update_if_type(i, t)
        /\ Change /\ untold' = untold \ {i}
        /\ UNCHANGED <<vif_ctx, adds, drifted, removed, retyped, misaimed, missed>>
    BY <1>4 DEF nrf_wifi_sys_fmac_chg_vif
  <2>2. new \in RpuIf /\ new.type = t
    <3>1. Dropping(i) \in RpuIf
      BY <1>1, DroppingType
    <3> QED  BY <1>2, <3>1 DEF RpuIf
  <2> HIDE DEF new
  <2>3. RpuType' /\ astray' = astray /\ rif' = [rif EXCEPT ![i] = new]
    BY <1>2, <2>1, <2>2, Commanded
  <2>4. rif'[i].type = t /\ \A j \in Slots \ {i} : rif'[j] = rif[j]
    BY <1>1, <2>2, <2>3 DEF RpuType
  <2>5. ctx' = [ctx EXCEPT ![vif_ctx[i]].if_type = t]
    BY <2>1 DEF nrf_wifi_fmac_vif_update_if_type
  <2>6. /\ ctx' \in [CtxIds -> Contexts]
        /\ \A j \in Slots : Live(j)' <=> Live(j)
        /\ TypeOf(i)' = t
        /\ \A j \in Slots \ {i} : Live(j) => TypeOf(j)' = TypeOf(j)
    BY <1>2, <2>1, <2>5, RetypedLive
  <2>7. HostType'
    <3>1. num_sta' \in 0 .. 255 /\ num_ap' \in 0 .. 255
      <4>1. num_sta \in 0 .. 255 /\ num_ap \in 0 .. 255
        BY <1>1 DEF HostType
      <4>2. PICK down, less :
              /\ down = Counted(num_sta, TypeOf(i), StaTypes, -1)
              /\ less = Counted(num_ap, TypeOf(i), ApTypes, -1)
        OBVIOUS
      <4>3. num_sta' = Counted(down, t, StaTypes, 1) /\ num_ap' = Counted(less, t, ApTypes, 1)
        BY <2>1, <4>2 DEF nrf_wifi_fmac_vif_update_if_type
      <4>4. down \in 0 .. 255
        BY <4>1, <4>2 DEF Counted
      <4>5. less \in 0 .. 255
        BY <4>1, <4>2 DEF Counted
      <4>6. num_sta' \in 0 .. 255
        BY <4>3, <4>4 DEF Counted
      <4>7. num_ap' \in 0 .. 255
        BY <4>3, <4>5 DEF Counted
      <4> QED  BY <4>6, <4>7
    <3> QED  BY <1>1, <2>1, <2>6, <3>1 DEF HostType
  <2>8. HistoryType'
    BY <1>1, <2>1 DEF HistoryType, Change
  <2>9. TypeOK'
    BY <1>1, <1>2, <2>3, <2>7, <2>8, SameTypes, TypedNext
  <2>10. HandedOut' /\ Backed' /\ CommandsReach'
    BY <2>1, <2>3, <2>6 DEF IfInv, HandedOut, Backed, CommandsReach
  <2>11. CallLive' /\ \A j \in Slots : ~Deleting(j) /\ ~Deleting(j)'
    BY <1>2 DEF CallLive, Idle, Deleting
  <2>12. Known'
    BY <1>2, <2>4, <2>6, <2>11, NoneIsNoType DEF IfInv, Known, Slots
  <2>13. Agreed'
    <3>1. ASSUME NEW j \in Slots, j \notin untold' \cup retyped', j # i
          PROVE  IF Live(j)' THEN rif'[j].type = TypeOf(j)' ELSE j = 0 \/ rif'[j].type = "none"
      <4>1. j \notin untold \cup retyped
        BY <2>1, <3>1
      <4> QED  BY <2>4, <2>6, <2>11, <3>1, <4>1 DEF IfInv, Agreed
    <3> QED  BY <1>2, <2>4, <2>6, <2>11, <3>1 DEF Agreed
  <2>14. CountersExact'
    <3>1. CASE drifted
      BY <2>1, <3>1 DEF CountersExact
    <3>2. CASE ~drifted
      <4>1. num_sta = Cardinality(Of(StaTypes)) /\ num_ap = Cardinality(Of(ApTypes))
        BY <3>2 DEF IfInv, CountersExact
      <4>2. /\ TypeOf(i) \in StaTypes <=> i \in Of(StaTypes)
            /\ TypeOf(i) \in ApTypes <=> i \in Of(ApTypes)
        BY <1>2 DEF Of
      <4>3. /\ Counted(num_sta, TypeOf(i), StaTypes, -1) = Cardinality(Of(StaTypes) \ {i})
            /\ Counted(num_ap, TypeOf(i), ApTypes, -1) = Cardinality(Of(ApTypes) \ {i})
        BY <4>1, <4>2, CountedOut, OfSlots
      <4>4. /\ Counted(Cardinality(Of(StaTypes) \ {i}), t, StaTypes, 1)
                = Cardinality(Of(StaTypes)')
            /\ Counted(Cardinality(Of(ApTypes) \ {i}), t, ApTypes, 1) = Cardinality(Of(ApTypes)')
        BY <1>2, <2>6, OfGrown
      <4>5. num_sta' = Cardinality(Of(StaTypes)') /\ num_ap' = Cardinality(Of(ApTypes)')
        BY <2>1, <4>3, <4>4 DEF nrf_wifi_fmac_vif_update_if_type
      <4> QED  BY <4>5 DEF CountersExact
    <3> QED  BY <3>1, <3>2
  <2> QED  BY <2>9, <2>10, <2>11, <2>12, <2>13, <2>14 DEF IfInv
<1> QED  BY <1>3, <1>4

(***************************************************************************)
(* The interfaces go.                                                      *)
(***************************************************************************)

(* What every way of freeing a context keeps: the RPU was told before, or  *)
(* the slot is marked.                                                     *)
LEMMA FreedKeepsInv ==
  ASSUME IfInv, TypeOK', CountersExact', NEW i \in Slots, Live(i),
         ctx' = [ctx EXCEPT ![vif_ctx[i]] = Freed],
         vif_ctx' = vif_ctx \/ vif_ctx' = [vif_ctx EXCEPT ![i] = 0],
         UNCHANGED <<adds, rif, astray, retyped>>, removed' = removed \cup {i},
         untold \subseteq untold', i \in untold' \/ Deleting(i),
         call = Idle \/ Deleting(i), call' = Idle
  PROVE  IfInv'
<1>1. TypeOK /\ HostType
  BY Typed DEF IfInv
<1>2. /\ ~Live(i)'
      /\ \A j \in Slots \ {i} : /\ Live(j)' <=> Live(j)
                                /\ Live(j) => TypeOf(j)' = TypeOf(j)
                                /\ vif_ctx'[j] = vif_ctx[j]
  BY FreedOne
<1>3. vif_ctx'[i] = 0 \/ vif_ctx'[i] = vif_ctx[i]
  BY <1>1 DEF HostType
<1>4. \A j \in Slots \ {i} : ~Deleting(j)
  BY DEF Deleting, Idle
<1>5. \A j \in Slots : ~Deleting(j)'
  BY DEF Deleting, Idle
<1>6. HandedOut'
  BY <1>1, <1>2, <1>3 DEF IfInv, HandedOut, HostType
<1>7. Backed'
  BY <1>1, <1>2, <1>3 DEF IfInv, Backed, HostType
<1>8. CallLive' /\ CommandsReach'
  BY DEF IfInv, CallLive, CommandsReach, Idle
<1>9. Known'
  BY <1>2, <1>4 DEF IfInv, Known
<1>10. Agreed'
  <2>1. ASSUME NEW j \in Slots, j \notin untold' \cup retyped', j # i
        PROVE  IF Live(j)' THEN rif'[j].type = TypeOf(j)' ELSE j = 0 \/ rif'[j].type = "none"
    <3>1. j \notin untold \cup retyped
      BY <2>1
    <3> QED  BY <1>2, <1>4, <2>1, <3>1 DEF IfInv, Agreed
  <2>2. i \notin untold' \cup retyped' => i = 0 \/ rif'[i].type = "none"
    BY DEF IfInv, Agreed
  <2>3. \A j \in Slots \ (untold' \cup retyped') :
          IF Live(j)' THEN rif'[j].type = TypeOf(j)' ELSE j = 0 \/ rif'[j].type = "none"
    BY <1>2, <2>1, <2>2
  <2> QED  BY <1>5, <2>3 DEF Agreed
<1> QED  BY <1>6, <1>7, <1>8, <1>9, <1>10 DEF IfInv

LEMMA ClearCtxKeepsInv ==
  ASSUME IfInv, NEW i \in Slots, nrf_wifi_fmac_vif_clear_ctx(i)
  PROVE  IfInv'
<1>1. TypeOK /\ HostType /\ TableType /\ CallType /\ RpuType /\ HistoryType
  BY Typed DEF IfInv
<1>2. /\ call = Idle /\ Live(i) /\ ctx' = [ctx EXCEPT ![vif_ctx[i]] = Freed]
      /\ vif_ctx' = [vif_ctx EXCEPT ![i] = 0]
      /\ Change /\ drifted' = TRUE /\ untold' = untold \cup {i} /\ removed' = removed \cup {i}
      /\ UNCHANGED <<adds, num_sta, num_ap, table, call, rpu, retyped, misaimed, missed>>
  BY DEF nrf_wifi_fmac_vif_clear_ctx
<1>3. HostType'
  <2>1. ctx' \in [CtxIds -> Contexts]
    BY <1>2, FreedOne
  <2>2. vif_ctx' \in [Slots -> 0 .. MAX_ADDS]
    BY <1>1, <1>2 DEF HostType
  <2> QED  BY <1>1, <1>2, <2>1, <2>2 DEF HostType
<1>4. HistoryType'
  BY <1>1, <1>2 DEF HistoryType, Change
<1>5. TypeOK'
  BY <1>1, <1>2, <1>3, <1>4, SameTypes, TypedNext
<1>6. CountersExact'
  BY <1>2 DEF CountersExact
<1> QED  BY <1>2, <1>5, <1>6, FreedKeepsInv DEF rpu

LEMMA DelVifKeepsInv ==
  ASSUME IfInv, NEW i \in Slots, nrf_wifi_sys_fmac_del_vif(i)
  PROVE  IfInv' \/ UNCHANGED vars
<1>1. TypeOK /\ HostType /\ TableType /\ CallType /\ RpuType /\ HistoryType
  BY Typed DEF IfInv
<1>2. call = Idle /\ Live(i) /\ ~Deleting(i) /\ UNCHANGED table
  BY DEF nrf_wifi_sys_fmac_del_vif, Deleting, Idle
<1>3. CASE UNCHANGED <<host, call, rpu, history>>
  BY <1>2, <1>3 DEF vars
<1>4. CASE /\ call' = [op |-> "del_vif", if_idx |-> i]
           /\ IF i # 0 THEN umac_cmd_cfg(TRUE, "DEL_INTERFACE", i, NoInterface)
                       ELSE UNCHANGED rpu
           /\ Change
           /\ UNCHANGED <<host, drifted, untold, removed, retyped, misaimed, missed>>
  <2>1. /\ RpuType' /\ astray' = astray
        /\ rif' = IF i # 0 THEN [rif EXCEPT ![i] = NoInterface] ELSE rif
    <3>1. CASE i # 0
      <4>1. NoInterface \in RpuIf
        BY DEF NoInterface, RpuIf
      <4> QED  BY <1>2, <1>4, <3>1, <4>1, Commanded
    <3>2. CASE i = 0
      BY <1>1, <1>4, <3>2 DEF rpu, RpuType
    <3> QED  BY <3>1, <3>2
  <2>2. /\ \A j \in Slots \ {i} : rif'[j] = rif[j]
        /\ i # 0 => rif'[i].type = "none"
        /\ i = 0 => rif' = rif
    BY <1>1, <2>1 DEF RpuType, NoInterface
  <2>3. CallType' /\ HistoryType'
    <3>1. CallType'
      BY <1>4 DEF CallType
    <3>2. HistoryType'
      BY <1>1, <1>4 DEF HistoryType, Change
    <3> QED  BY <3>1, <3>2
  <2>4. TypeOK'
    BY <1>1, <1>2, <1>4, <2>1, <2>3, SameTypes, TypedNext
  <2>5. \A j \in Slots : (Live(j)' <=> Live(j)) /\ TypeOf(j)' = TypeOf(j)
    BY <1>4 DEF Live, TypeOf, host
  <2>6. /\ HandedOut' /\ Backed' /\ CommandsReach'
    BY <1>4, <2>1, <2>5 DEF IfInv, HandedOut, Backed, CommandsReach, host
  <2>7. CountersExact'
    <3>1. Of(StaTypes)' = Of(StaTypes) /\ Of(ApTypes)' = Of(ApTypes)
      BY <2>5 DEF Of
    <3> QED  BY <1>4, <3>1 DEF IfInv, CountersExact, host
  <2>8. Deleting(i)' /\ \A j \in Slots \ {i} : ~Deleting(j) /\ ~Deleting(j)'
    BY <1>2, <1>4 DEF Deleting, Idle
  <2>9. CallLive'
    BY <1>2, <1>4 DEF CallLive, Live, host
  <2>10. Known'
    <3>1. \A j \in Slots \ {i} : Live(j)' => rif'[j].type # "none"
      BY <2>2, <2>5, <2>8 DEF IfInv, Known
    <3>2. rif'[0].type # "none"
      BY <2>2 DEF IfInv, Known, Slots
    <3> QED  BY <2>8, <3>1, <3>2 DEF Known
  <2>11. Agreed'
    <3>1. ASSUME NEW j \in Slots, j \notin untold' \cup retyped', j # i
          PROVE  IF Live(j)' THEN rif'[j].type = TypeOf(j)' ELSE j = 0 \/ rif'[j].type = "none"
      <4>1. j \notin untold \cup retyped
        BY <1>4, <3>1
      <4> QED  BY <2>2, <2>5, <2>8, <3>1, <4>1 DEF IfInv, Agreed
    <3> QED  BY <2>2, <2>8, <3>1 DEF Agreed
  <2> QED  BY <2>4, <2>6, <2>7, <2>9, <2>10, <2>11 DEF IfInv
<1>5. CASE /\ ctx' = [ctx EXCEPT ![vif_ctx[i]] = Freed]
           /\ Change /\ drifted' = TRUE
           /\ untold' = untold \cup {i} /\ removed' = removed \cup {i}
           /\ UNCHANGED <<vif_ctx, adds, num_sta, num_ap, call, rpu, retyped, misaimed, missed>>
  <2>1. HostType'
    <3>1. ctx' \in [CtxIds -> Contexts]
      BY <1>2, <1>5, FreedOne
    <3> QED  BY <1>1, <1>5, <3>1 DEF HostType
  <2>2. HistoryType'
    BY <1>1, <1>5 DEF HistoryType, Change
  <2>3. TypeOK'
    BY <1>1, <1>2, <1>5, <2>1, <2>2, SameTypes, TypedNext
  <2>4. CountersExact'
    BY <1>5 DEF CountersExact
  <2> QED  BY <1>2, <1>5, <2>3, <2>4, FreedKeepsInv DEF rpu
<1> QED  BY <1>3, <1>4, <1>5 DEF nrf_wifi_sys_fmac_del_vif

(* The second half of a deletion: the counter, then the memory.            *)
LEMMA DelVifFreeKeepsInv ==
  ASSUME IfInv, DelVifFree
  PROVE  IfInv'
<1>1. TypeOK /\ HostType /\ TableType /\ CallType /\ RpuType /\ HistoryType
  BY Typed DEF IfInv
<1>2. PICK i \in Slots : i = call.if_idx
  BY <1>1 DEF CallType
<1>3. Live(i) /\ Deleting(i)
  BY <1>2 DEF IfInv, CallLive, DelVifFree, Deleting
<1>4. /\ nrf_wifi_fmac_vif_decr_if_type(TypeOf(i))
      /\ ctx' = [ctx EXCEPT ![vif_ctx[i]] = Freed]
      /\ removed' = removed \cup {i} /\ call' = Idle
      /\ UNCHANGED <<vif_ctx, adds, table, rpu, changes, drifted, untold, retyped, misaimed,
                     missed>>
  BY <1>2 DEF DelVifFree
<1>5. /\ ctx' \in [CtxIds -> Contexts] /\ ~Live(i)'
      /\ \A j \in Slots \ {i} : (Live(j)' <=> Live(j)) /\ (Live(j) => TypeOf(j)' = TypeOf(j))
  BY <1>3, <1>4, FreedOne
<1>6. /\ num_sta' = Counted(num_sta, TypeOf(i), StaTypes, -1)
      /\ num_ap' = Counted(num_ap, TypeOf(i), ApTypes, -1)
  BY <1>4 DEF nrf_wifi_fmac_vif_decr_if_type
<1>7. HostType'
  <2>1. num_sta \in 0 .. 255 /\ num_ap \in 0 .. 255
    BY <1>1 DEF HostType
  <2>2. num_sta' \in 0 .. 255 /\ num_ap' \in 0 .. 255
    <3>1. num_sta' \in 0 .. 255
      BY <1>6, <2>1 DEF Counted
    <3>2. num_ap' \in 0 .. 255
      BY <1>6, <2>1 DEF Counted
    <3> QED  BY <3>1, <3>2
  <2> QED  BY <1>1, <1>4, <1>5, <2>2 DEF HostType
<1>8. CallType' /\ HistoryType'
  <2>1. CallType'
    BY <1>4 DEF CallType, Idle, Slots
  <2>2. HistoryType'
    BY <1>1, <1>4 DEF HistoryType
  <2> QED  BY <2>1, <2>2
<1>9. TypeOK'
  BY <1>1, <1>4, <1>7, <1>8, SameTypes, TypedNext
<1>10. CountersExact'
  <2>1. CASE drifted
    BY <1>4, <2>1 DEF CountersExact
  <2>2. CASE ~drifted
    <3>1. num_sta = Cardinality(Of(StaTypes)) /\ num_ap = Cardinality(Of(ApTypes))
      BY <2>2 DEF IfInv, CountersExact
    <3>2. /\ Counted(Cardinality(Of(StaTypes)), TypeOf(i), StaTypes, -1)
              = Cardinality(Of(StaTypes)')
          /\ Counted(Cardinality(Of(ApTypes)), TypeOf(i), ApTypes, -1) = Cardinality(Of(ApTypes)')
      BY <1>3, <1>5, OfShrunk
    <3> QED  BY <1>6, <3>1, <3>2 DEF CountersExact
  <2> QED  BY <2>1, <2>2
<1> QED  BY <1>3, <1>4, <1>9, <1>10, FreedKeepsInv DEF rpu

(* The device is removed with no interface left, and added again.          *)
LEMMA DevRemovedKeepsInv ==
  ASSUME IfInv, DevRemoved
  PROVE  IfInv'
<1>1. TypeOK /\ HostType /\ TableType /\ CallType /\ RpuType /\ HistoryType
  BY Typed DEF IfInv
<1>2. /\ call = Idle /\ num_sta + num_ap = 0 /\ vif_ctx' = [i \in Slots |-> 0]
      /\ peers' = [p \in DOMAIN peers |-> Nobody] /\ bcast' = -1
      /\ rif' = RpuBooted /\ events' = <<>>
      /\ drifted' = FALSE /\ untold' = {} /\ removed' = {} /\ retyped' = {}
      /\ misaimed' = {} /\ missed' = {}
      /\ UNCHANGED <<ctx, adds, num_sta, num_ap, call, astray, changes>>
  BY DEF DevRemoved, nrf_wifi_fmac_get_num_vifs
<1>3. num_sta = 0 /\ num_ap = 0
  BY <1>1, <1>2 DEF HostType
<1>4. \A i \in Slots : vif_ctx'[i] = 0 /\ ~Live(i)'
  BY <1>2 DEF Live
<1>5. TypeOK'
  <2>1. HostType'
    BY <1>1, <1>2 DEF HostType
  <2>2. TableType' /\ CallType'
    BY <1>1, <1>2 DEF TableType, CallType
  <2>3. RpuType'
    <3>1. RpuBooted \in [Slots -> RpuIf]
      BY DEF RpuBooted, NoInterface, RpuIf, Types
    <3>2. <<>> \in Seq(Event) /\ Len(<<>>) = 0
      OBVIOUS
    <3> QED  BY <1>1, <1>2, <3>1, <3>2 DEF RpuType
  <2>4. HistoryType'
    BY <1>1, <1>2 DEF HistoryType
  <2> QED  BY <2>1, <2>2, <2>3, <2>4, TypedNext
<1>6. HandedOut' /\ Backed' /\ CallLive' /\ CommandsReach'
  BY <1>1, <1>2, <1>4 DEF IfInv, HandedOut, Backed, CallLive, CommandsReach, Idle, HostType
<1>7. Known' /\ Agreed'
  <2>1. \A i \in Slots : i = 0 \/ rif'[i].type = "none"
    BY <1>2 DEF RpuBooted, NoInterface
  <2>2. rif'[0].type = "STATION"
    <3>1. 0 \in Slots
      BY DEF Slots
    <3> QED  BY <1>2, <3>1 DEF RpuBooted, NoInterface
  <2> QED  BY <1>4, <2>1, <2>2 DEF Known, Agreed
<1>8. CountersExact'
  <2>1. Of(StaTypes)' = {} /\ Of(ApTypes)' = {}
    BY <1>4 DEF Of
  <2> QED  BY <1>2, <1>3, <2>1, FS_EmptySet DEF CountersExact
<1> QED  BY <1>5, <1>6, <1>7, <1>8 DEF IfInv

(***************************************************************************)
(* Every step, and the theorems.                                           *)
(***************************************************************************)

LEMMA StutterKeepsInv ==
  ASSUME IfInv, UNCHANGED vars
  PROVE  IfInv'
<1>1. TypeOK /\ HostType /\ TableType /\ CallType /\ RpuType /\ HistoryType
  BY Typed DEF IfInv
<1>2. UNCHANGED <<host, table, call, rpu, history>>
  BY DEF vars
<1>3. TypeOK'
  BY <1>1, <1>2, SameTypes, TypedNext
<1>4. Quiet
  BY <1>2 DEF Quiet, host, rpu, history, IfInv, CallLive
<1> QED  BY <1>3, <1>4, QuietKeepsInv

LEMMA NextKeepsInv ==
  ASSUME IfInv, [Next]_vars
  PROVE  IfInv'
<1>1. ASSUME NEW i \in Slots, call = Idle, Live(i), Telling(i)
      PROVE  IfInv'
  BY <1>1, TellingNothing, StutterKeepsInv
<1>2. CASE call = Idle /\ (nrf_wifi_sys_fmac_set_tx_rate \/ nrf_wifi_sys_fmac_conf_ltf_gi)
  <2>1. 0 \in Slots
    BY DEF Slots
  <2>2. UNCHANGED vars
    BY <1>2, <2>1, TellsNothing
       DEF nrf_wifi_sys_fmac_set_tx_rate, nrf_wifi_sys_fmac_conf_ltf_gi
  <2> QED  BY <2>2, StutterKeepsInv
<1>3. ASSUME NEW i \in Slots, NEW s \in Stations,
             \/ nrf_wifi_sys_fmac_deauth(i, s) \/ nrf_wifi_sys_fmac_disassoc(i, s)
             \/ nrf_wifi_sys_fmac_del_sta(i, s)
      PROVE  IfInv'
  BY <1>3, LetsGoKeepsInv DEF nrf_wifi_sys_fmac_deauth, nrf_wifi_sys_fmac_disassoc,
                              nrf_wifi_sys_fmac_del_sta
<1>4. ASSUME NEW t \in IfTypes, nrf_wifi_sys_fmac_add_vif(t)
      PROVE  IfInv'
  BY <1>4, AddVifKeepsInv, StutterKeepsInv
<1>5. ASSUME NEW i \in Slots,
             \/ nrf_wifi_sys_fmac_del_vif(i)
             \/ \E t \in IfTypes : nrf_wifi_sys_fmac_chg_vif(i, t)
      PROVE  IfInv'
  BY <1>5, DelVifKeepsInv, ChgVifKeepsInv, StutterKeepsInv
<1>6. ASSUME NEW i \in Slots,
             \/ nrf_wifi_fmac_vif_clear_ctx(i)
             \/ nrf_wifi_sys_fmac_start_ap(i) \/ nrf_wifi_sys_fmac_stop_ap(i)
             \/ \E m \in RawModes : nrf_wifi_sys_fmac_set_mode(i, m)
             \/ \E m \in RawModes \cup {"bad"} : nrf_wifi_fmac_if_mode_set_event_proc(i, m)
      PROVE  IfInv'
  BY <1>6, ClearCtxKeepsInv, StartApKeepsInv, StopApKeepsInv, SetModeKeepsInv, ModeSetKeepsInv
<1>7. ASSUME NEW i \in Slots, NEW s \in Stations,
             \/ nrf_wifi_sys_fmac_assoc(i, s)
             \/ umac_event_connect_new(i, s) \/ umac_event_connect_del(i, s)
             \/ RpuConnected(i) \/ RpuRefused(i) \/ RpuJoined(i, s) \/ RpuLeft(i, s)
      PROVE  IfInv'
  BY <1>7, AssocKeepsInv, ConnectNewKeepsInv, ConnectDelKeepsInv, RpuKeepsInv
<1>8. ASSUME NEW i \in MAX_NUM_VIFS .. MAX_NUM_VIFS + 1, call = Idle,
             nrf_wifi_sys_fmac_get_interface(i)
      PROVE  IfInv'
  BY <1>8, GetInterfaceKeepsInv, StutterKeepsInv
<1>9. CASE DelVifFree \/ StartApFlush \/ DevRemoved
  BY <1>9, DelVifFreeKeepsInv, StartApFlushKeepsInv, DevRemovedKeepsInv
<1>10. CASE UNCHANGED vars
  BY <1>10, StutterKeepsInv
<1>11. \E s : s \in Stations
  OBVIOUS
<1> QED
  BY <1>1, <1>2, <1>3, <1>4, <1>5, <1>6, <1>7, <1>8, <1>9, <1>10, <1>11 DEF Next

THEOREM Inductive == Spec => []IfInv
<1>1. IfInv /\ [Next]_vars => IfInv'
  BY NextKeepsInv
<1> QED  BY InvInit, <1>1, PTL DEF Spec

(* Counters, contexts, table, channel and marks have their types: no       *)
(* counter wraps below zero or above 255 into another type.                *)
THEOREM TypeCorrect == Spec => []TypeOK
<1>1. IfInv => TypeOK
  BY DEF IfInv
<1> QED  BY Inductive, <1>1, PTL

(* What the driver and the RPU know of the interfaces agrees, through      *)
(* every addition, change and deletion, those that fail included, and      *)
(* whatever events come meanwhile (fmac_api.c:2107-2395, fmac_vif.c).      *)
THEOREM InterfacesRight == Spec => []InterfacesAgree
<1>1. IfInv => InterfacesAgree
  <2> SUFFICES ASSUME IfInv PROVE InterfacesAgree
    OBVIOUS
  <2>1. call = Idle => \A i \in Slots : ~Deleting(i)
    BY DEF Deleting, Idle
  <2>2. RpuAgrees
    BY <2>1 DEF IfInv, Agreed, RpuAgrees
  <2> QED  BY <2>2 DEF IfInv, InterfacesAgree
<1> QED  BY Inductive, <1>1, PTL

(***************************************************************************)
(* The table of peers.                                                     *)
(***************************************************************************)

(* An entry made is for a station that had none.                           *)
LEMMA OneEntryAdded ==
  ASSUME TableType, OneEntry, NEW i \in Slots, NEW s \in Stations,
         umac_event_connect_new(i, s)
  PROVE  OneEntry'
<1>1. CASE peers' = peers
  BY <1>1 DEF OneEntry
<1>2. CASE peers' # peers
  <2>1. peers' = nrf_wifi_fmac_peer_add(i, s) /\ nrf_wifi_fmac_peer_get_id(s) = -1
    BY <1>2 DEF umac_event_connect_new
  <2>2. \A p \in DOMAIN peers : peers[p] # Nobody => peers[p].ra # s
    <3>1. KnownPeers(s) = {}
      <4>1. KnownPeers(s) \in SUBSET Nat
        BY DEF KnownPeers, TableType
      <4>2. KnownPeers(s) # {} => nrf_wifi_fmac_peer_get_id(s) \in Nat
        BY <4>1, Least DEF nrf_wifi_fmac_peer_get_id
      <4> QED  BY <2>1, <4>1, <4>2
    <3> QED  BY <3>1 DEF KnownPeers
  <2>3. PICK k \in DOMAIN peers : peers' = [peers EXCEPT ![k] = [ra |-> s, if_idx |-> i]]
    <3> DEFINE k == CHOOSE p \in FreePeers : \A q \in FreePeers : p <= q
    <3>1. FreePeers # {} /\ peers' = [peers EXCEPT ![k] = [ra |-> s, if_idx |-> i]]
      BY <1>2, <2>1 DEF nrf_wifi_fmac_peer_add
    <3>2. FreePeers \in SUBSET Nat
      BY DEF FreePeers, TableType
    <3>3. k \in FreePeers
      BY <3>1, <3>2, Least
    <3> QED  BY <3>1, <3>3 DEF FreePeers
  <2>4. /\ DOMAIN peers' = DOMAIN peers /\ peers'[k].ra = s
        /\ \A p \in DOMAIN peers \ {k} : peers'[p] = peers[p]
    BY <2>3 DEF TableType
  <2>5. \A p \in DOMAIN peers : peers[p].ra # s
    BY <2>2 DEF Nobody
  <2>6. ASSUME NEW p \in DOMAIN peers, NEW q \in DOMAIN peers, p # q, peers'[p] # Nobody
        PROVE  peers'[p].ra # peers'[q].ra
    <3>1. CASE p # k /\ q # k
      BY <2>4, <2>6, <3>1 DEF OneEntry
    <3>2. CASE p = k \/ q = k
      BY <2>4, <2>5, <2>6, <3>2
    <3> QED  BY <3>1, <3>2
  <2> QED  BY <2>4, <2>6 DEF OneEntry
<1> QED  BY <1>1, <1>2

(* Entries removed leave the others as they are.                           *)
LEMMA OneEntryRemoved ==
  ASSUME TableType, OneEntry, DOMAIN peers' = DOMAIN peers,
         \A p \in DOMAIN peers : peers'[p] \in {peers[p], Nobody}
  PROVE  OneEntry'
<1> SUFFICES ASSUME NEW p \in DOMAIN peers, NEW q \in DOMAIN peers, p # q, peers'[p] # Nobody
             PROVE  peers'[p].ra # peers'[q].ra
  BY DEF OneEntry
<1>1. peers'[p] = peers[p] /\ peers[p] # Nobody
  OBVIOUS
<1>2. peers[p].ra \in Stations
  BY <1>1 DEF TableType
<1>3. CASE peers'[q] = peers[q]
  BY <1>1, <1>3 DEF OneEntry
<1>4. CASE peers'[q] = Nobody
  BY <1>1, <1>2, <1>4 DEF Nobody
<1> QED  BY <1>3, <1>4

LEMMA NextKeepsOneEntry ==
  ASSUME IfInv, OneEntry, [Next]_vars
  PROVE  OneEntry'
<1>1. TableType
  BY Typed DEF IfInv
<1>2. CASE peers' = peers
  BY <1>2 DEF OneEntry
<1>3. ASSUME NEW i \in Slots, NEW s \in Stations, umac_event_connect_new(i, s)
      PROVE  OneEntry'
  BY <1>1, <1>3, OneEntryAdded
<1>4. ASSUME NEW i \in Slots, NEW s \in Stations, umac_event_connect_del(i, s)
      PROVE  OneEntry'
  BY <1>1, <1>4, OneEntryRemoved
     DEF umac_event_connect_del, nrf_wifi_fmac_peer_remove, TableType
<1>5. ASSUME NEW i, nrf_wifi_fmac_peers_flush(i)
      PROVE  OneEntry'
  BY <1>1, <1>5, OneEntryRemoved DEF nrf_wifi_fmac_peers_flush, TableType
<1>6. CASE DevRemoved
  BY <1>1, <1>6, OneEntryRemoved DEF DevRemoved, TableType
<1>7. ASSUME NEW i \in Slots, nrf_wifi_sys_fmac_stop_ap(i)
      PROVE  OneEntry'
  BY <1>5, <1>7 DEF nrf_wifi_sys_fmac_stop_ap
<1>8. CASE StartApFlush
  BY <1>5, <1>8 DEF StartApFlush
<1>9. ASSUME NEW i \in Slots,
             \/ \E t \in IfTypes : nrf_wifi_sys_fmac_add_vif(t)
             \/ nrf_wifi_sys_fmac_del_vif(i) \/ nrf_wifi_fmac_vif_clear_ctx(i)
             \/ nrf_wifi_sys_fmac_start_ap(i)
             \/ \E t \in IfTypes : nrf_wifi_sys_fmac_chg_vif(i, t)
             \/ \E m \in RawModes : nrf_wifi_sys_fmac_set_mode(i, m)
             \/ RpuConnected(i) \/ RpuRefused(i) \/ DelVifFree
             \/ \E m \in RawModes \cup {"bad"} : nrf_wifi_fmac_if_mode_set_event_proc(i, m)
      PROVE  peers' = peers
  BY <1>9 DEF nrf_wifi_sys_fmac_add_vif, nrf_wifi_sys_fmac_del_vif, nrf_wifi_fmac_vif_clear_ctx,
              nrf_wifi_sys_fmac_start_ap, nrf_wifi_sys_fmac_chg_vif, nrf_wifi_sys_fmac_set_mode,
              RpuConnected, RpuRefused, RpuOnly, DelVifFree,
              nrf_wifi_fmac_if_mode_set_event_proc, table
<1>10. ASSUME NEW i \in Slots, NEW s \in Stations,
              \/ nrf_wifi_sys_fmac_assoc(i, s) \/ nrf_wifi_sys_fmac_deauth(i, s)
              \/ nrf_wifi_sys_fmac_disassoc(i, s) \/ nrf_wifi_sys_fmac_del_sta(i, s)
              \/ RpuJoined(i, s) \/ RpuLeft(i, s)
       PROVE  peers' = peers
  BY <1>10 DEF nrf_wifi_sys_fmac_assoc, nrf_wifi_sys_fmac_deauth, nrf_wifi_sys_fmac_disassoc,
               nrf_wifi_sys_fmac_del_sta, LetsGo, RpuJoined, RpuLeft, RpuOnly, table
<1>11. ASSUME NEW i, \/ nrf_wifi_sys_fmac_set_tx_rate \/ nrf_wifi_sys_fmac_conf_ltf_gi
                    \/ nrf_wifi_sys_fmac_get_interface(i) \/ UNCHANGED vars
       PROVE  peers' = peers
  BY <1>11 DEF nrf_wifi_sys_fmac_set_tx_rate, nrf_wifi_sys_fmac_conf_ltf_gi,
               nrf_wifi_sys_fmac_get_interface, Tells, vars, table
<1>12. ASSUME NEW i \in Slots, call = Idle, Live(i), Telling(i)
       PROVE  peers' = peers
  BY <1>11, <1>12, TellingNothing
<1>13. \E i : i \in Slots
  BY DEF Slots
<1> QED
  BY <1>2, <1>3, <1>4, <1>6, <1>7, <1>8, <1>9, <1>10, <1>11, <1>12, <1>13 DEF Next

(* No station ever has two entries, whatever its interfaces and the order  *)
(* of its events: peer_get_id, which knows addresses only, finds the entry *)
(* (fmac_peer.c, umac_event_connect).                                      *)
THEOREM EntriesUnique == Spec => []OneEntry
<1>1. Init => OneEntry
  BY DEF Init, OneEntry
<1>2. IfInv /\ OneEntry /\ [Next]_vars => OneEntry'
  BY NextKeepsOneEntry
<1> QED  BY <1>1, <1>2, Inductive, PTL DEF Spec

(***************************************************************************)
(* The events about stations.                                              *)
(***************************************************************************)

New(i, s) == [ev |-> "NEW_STATION", if_idx |-> i, arg |-> s]
Del(i, s) == [ev |-> "DEL_STATION", if_idx |-> i, arg |-> s]

(* The events about a station on an interface, and those that give an      *)
(* interface a station.                                                    *)
About(i, s) == {New(i, s), Del(i, s)}
Gains(i) == {New(i, s) : s \in Stations}

(* No event of a queue is one of P; the last of P is e.                    *)
NoneOf(q, P) == \A k \in DOMAIN q : q[k] \notin P
LastOf(q, P, e) ==
  \E k \in DOMAIN q : q[k] = e /\ \A m \in DOMAIN q : m > k => q[m] \notin P

(* What the channel says of a station, and of the last one that comes.     *)
NoNews(i, s)   == NoneOf(events, About(i, s))
LastNew(i, s)  == LastOf(events, About(i, s), New(i, s))
LastDel(i, s)  == LastOf(events, About(i, s), Del(i, s))
NoGain(i)      == NoneOf(events, Gains(i))
LastGain(i, s) == LastOf(events, Gains(i), New(i, s))

SameAbout(i, s) ==
  (NoNews(i, s)' <=> NoNews(i, s)) /\ (LastNew(i, s)' <=> LastNew(i, s))
  /\ (LastDel(i, s)' <=> LastDel(i, s))
SameGains(i) ==
  (NoGain(i)' <=> NoGain(i)) /\ \A s \in Stations : LastGain(i, s)' <=> LastGain(i, s)
SameNews(i) == SameGains(i) /\ \A s \in Stations : SameAbout(i, s)

(* The last event about a station is one or the other.                     *)
LEMMA NotBoth ==
  ASSUME NEW q, NEW P, NEW e \in P, NoneOf(q, P)
  PROVE  ~LastOf(q, P, e)
BY DEF NoneOf, LastOf

(* An event is appended that is not one of P, or is.                       *)
LEMMA AppendOther ==
  ASSUME NEW X, NEW q \in Seq(X), NEW P, NEW x \in X, x \notin P, NEW e \in P
  PROVE  /\ NoneOf(Append(q, x), P) <=> NoneOf(q, P)
         /\ LastOf(Append(q, x), P, e) <=> LastOf(q, P, e)
<1>1. PICK r : r = Append(q, x)
  OBVIOUS
<1>2. /\ Len(q) \in Nat /\ DOMAIN q = 1 .. Len(q) /\ DOMAIN r = 1 .. Len(q) + 1
      /\ r[Len(q) + 1] = x /\ \A k \in 1 .. Len(q) : r[k] = q[k]
  BY <1>1
<1>3. NoneOf(r, P) <=> NoneOf(q, P)
  BY <1>2 DEF NoneOf
<1>4. ASSUME LastOf(q, P, e) PROVE LastOf(r, P, e)
  <2>1. PICK k \in DOMAIN q : q[k] = e /\ \A m \in DOMAIN q : m > k => q[m] \notin P
    BY <1>4 DEF LastOf
  <2>2. \A m \in DOMAIN r : m > k => r[m] \notin P
    BY <1>2, <2>1
  <2>3. k \in DOMAIN r /\ r[k] = e
    BY <1>2, <2>1
  <2> QED  BY <2>2, <2>3 DEF LastOf
<1>5. ASSUME LastOf(r, P, e) PROVE LastOf(q, P, e)
  <2>1. PICK k \in DOMAIN r : r[k] = e /\ \A m \in DOMAIN r : m > k => r[m] \notin P
    BY <1>5 DEF LastOf
  <2>2. k \in DOMAIN q /\ q[k] = e
    BY <1>2, <2>1
  <2>3. \A m \in DOMAIN q : m > k => q[m] \notin P
    BY <1>2, <2>1
  <2> QED  BY <2>2, <2>3 DEF LastOf
<1> QED  BY <1>1, <1>3, <1>4, <1>5

(* An event appended is the last of those it is one of.                    *)
LEMMA AppendOne ==
  ASSUME NEW X, NEW q \in Seq(X), NEW P, NEW x \in X, x \in P
  PROVE  ~NoneOf(Append(q, x), P) /\ \A e \in P : LastOf(Append(q, x), P, e) <=> e = x
<1>1. PICK r : r = Append(q, x)
  OBVIOUS
<1>2. /\ Len(q) \in Nat /\ DOMAIN r = 1 .. Len(q) + 1
      /\ r[Len(q) + 1] = x
  BY <1>1
<1>3. ~NoneOf(r, P)
  BY <1>2 DEF NoneOf
<1>4. LastOf(r, P, x)
  <2>1. Len(q) + 1 \in DOMAIN r /\ \A m \in DOMAIN r : ~(m > Len(q) + 1)
    BY <1>2
  <2> QED  BY <1>2, <2>1 DEF LastOf
<1>5. ASSUME NEW e \in P, LastOf(r, P, e) PROVE e = x
  <2>1. PICK k \in DOMAIN r : r[k] = e /\ \A m \in DOMAIN r : m > k => r[m] \notin P
    BY <1>5 DEF LastOf
  <2>2. ~(Len(q) + 1 > k)
    BY <1>2, <2>1
  <2>3. k = Len(q) + 1
    BY <1>2, <2>1, <2>2
  <2> QED  BY <1>2, <2>1, <2>3
<1> QED  BY <1>1, <1>3, <1>4, <1>5

(* The first event is taken.                                               *)
LEMMA TailOf ==
  ASSUME NEW X, NEW q \in Seq(X), q # <<>>, NEW P, NEW e \in P
  PROVE  /\ NoneOf(q, P) <=> Head(q) \notin P /\ NoneOf(Tail(q), P)
         /\ LastOf(q, P, e) <=> \/ LastOf(Tail(q), P, e)
                                \/ Head(q) = e /\ NoneOf(Tail(q), P)
<1>1. PICK r : r = Tail(q)
  OBVIOUS
<1>2. /\ Len(q) \in Nat \ {0} /\ DOMAIN q = 1 .. Len(q) /\ DOMAIN r = 1 .. Len(q) - 1
      /\ Head(q) = q[1] /\ \A k \in 1 .. Len(q) - 1 : r[k] = q[k + 1]
  BY <1>1
<1>3. \A k \in 2 .. Len(q) : k - 1 \in DOMAIN r /\ r[k - 1] = q[k]
  <2> TAKE k \in 2 .. Len(q)
  <2>1. k - 1 \in 1 .. Len(q) - 1 /\ (k - 1) + 1 = k
    BY <1>2
  <2> QED  BY <1>2, <2>1
<1>4. NoneOf(q, P) <=> Head(q) \notin P /\ NoneOf(r, P)
  <2>1. ASSUME NoneOf(q, P) PROVE Head(q) \notin P /\ NoneOf(r, P)
    <3>1. 1 \in DOMAIN q
      BY <1>2
    <3>2. ASSUME NEW k \in DOMAIN r PROVE r[k] \notin P
      <4>1. k \in 1 .. Len(q) - 1 /\ k + 1 \in DOMAIN q /\ r[k] = q[k + 1]
        BY <1>2, <3>2
      <4> QED  BY <2>1, <4>1 DEF NoneOf
    <3> QED  BY <1>2, <2>1, <3>1, <3>2 DEF NoneOf
  <2>2. ASSUME Head(q) \notin P, NoneOf(r, P), NEW k \in DOMAIN q PROVE q[k] \notin P
    <3>1. CASE k = 1
      BY <1>2, <2>2, <3>1
    <3>2. CASE k # 1
      <4>1. k \in 2 .. Len(q)
        BY <1>2, <3>2
      <4> QED  BY <1>3, <2>2, <4>1 DEF NoneOf
    <3> QED  BY <3>1, <3>2
  <2> QED  BY <2>1, <2>2 DEF NoneOf
<1>5. ASSUME LastOf(q, P, e) PROVE LastOf(r, P, e) \/ (Head(q) = e /\ NoneOf(r, P))
  <2>1. PICK k \in DOMAIN q : q[k] = e /\ \A m \in DOMAIN q : m > k => q[m] \notin P
    BY <1>5 DEF LastOf
  <2>2. \A m \in DOMAIN r : m + 1 > k => r[m] \notin P
    <3> TAKE m \in DOMAIN r
    <3>1. m + 1 \in DOMAIN q /\ r[m] = q[m + 1]
      BY <1>2
    <3> QED  BY <2>1, <3>1
  <2>3. CASE k = 1
    <3>1. \A m \in DOMAIN r : m + 1 > k
      BY <1>2, <2>3
    <3> QED  BY <1>2, <2>1, <2>2, <2>3, <3>1 DEF NoneOf
  <2>4. CASE k # 1
    <3>1. k \in 2 .. Len(q)
      BY <1>2, <2>1, <2>4
    <3>2. k - 1 \in DOMAIN r /\ r[k - 1] = e
      BY <1>3, <2>1, <3>1
    <3>3. \A m \in DOMAIN r : m > k - 1 => m + 1 > k
      BY <1>2, <3>1
    <3> QED  BY <2>2, <3>2, <3>3 DEF LastOf
  <2> QED  BY <2>3, <2>4
<1>6. ASSUME LastOf(r, P, e) PROVE LastOf(q, P, e)
  <2>1. PICK k \in DOMAIN r : r[k] = e /\ \A m \in DOMAIN r : m > k => r[m] \notin P
    BY <1>6 DEF LastOf
  <2>2. k + 1 \in DOMAIN q /\ q[k + 1] = e
    BY <1>2, <2>1
  <2>3. ASSUME NEW m \in DOMAIN q, m > k + 1 PROVE q[m] \notin P
    <3>1. m \in 2 .. Len(q) /\ m - 1 > k
      BY <1>2, <2>1, <2>3
    <3> QED  BY <1>3, <2>1, <3>1
  <2> QED  BY <2>2, <2>3 DEF LastOf
<1>7. ASSUME Head(q) = e, NoneOf(r, P) PROVE LastOf(q, P, e)
  <2>1. 1 \in DOMAIN q /\ q[1] = e
    BY <1>2, <1>7
  <2>2. ASSUME NEW m \in DOMAIN q, m > 1 PROVE q[m] \notin P
    <3>1. m \in 2 .. Len(q)
      BY <1>2, <2>2
    <3> QED  BY <1>3, <1>7, <3>1 DEF NoneOf
  <2> QED  BY <2>1, <2>2 DEF LastOf
<1> QED  BY <1>1, <1>4, <1>5, <1>6, <1>7

(* Two events are the same only if they say the same.                      *)
LEMMA EventsDiffer ==
  /\ \A i, j, s, u : New(i, s) # Del(j, u)
  /\ \A i, j, s, u : New(i, s) = New(j, u) => i = j /\ s = u
  /\ \A i, j, s, u : Del(i, s) = Del(j, u) => i = j /\ s = u
  /\ \A i, s, e : e.ev = "MODE_SET" => e \notin About(i, s) /\ e \notin Gains(i)
<1>1. \A i, s : New(i, s).ev = "NEW_STATION" /\ New(i, s).if_idx = i /\ New(i, s).arg = s
  BY DEF New
<1>2. \A i, s : Del(i, s).ev = "DEL_STATION" /\ Del(i, s).if_idx = i /\ Del(i, s).arg = s
  BY DEF Del
<1> QED  BY <1>1, <1>2 DEF About, Gains


(* What the channel says changes as its events do.                         *)
LEMMA NewsUnchanged ==
  ASSUME events' = events, NEW i
  PROVE  SameNews(i)
BY DEF SameNews, SameGains, SameAbout, NoNews, LastNew, LastDel, NoGain, LastGain

(* With no event about a station there is no last one.                     *)
LEMMA NoLast ==
  ASSUME NEW i, NEW s, NoNews(i, s)
  PROVE  ~LastNew(i, s) /\ ~LastDel(i, s)
<1>1. New(i, s) \in About(i, s) /\ Del(i, s) \in About(i, s)
  BY DEF About
<1>2. NoneOf(events, About(i, s))
  BY DEF NoNews
<1>3. /\ ~LastOf(events, About(i, s), New(i, s))
      /\ ~LastOf(events, About(i, s), Del(i, s))
  BY <1>1, <1>2, NotBoth
<1> QED  BY <1>3 DEF LastNew, LastDel, New, Del, About

(* An event about another station says nothing of this one.                *)
LEMMA AboutOther ==
  ASSUME RpuType, NEW x \in Event, events' = Append(events, x), NEW i, NEW s, x \notin About(i, s)
  PROVE  SameAbout(i, s)
<1>1. events \in Seq(Event) /\ New(i, s) \in About(i, s) /\ Del(i, s) \in About(i, s)
  BY DEF RpuType, About
<1>2. /\ NoneOf(events', About(i, s)) <=> NoneOf(events, About(i, s))
      /\ LastOf(events', About(i, s), New(i, s)) <=> LastOf(events, About(i, s), New(i, s))
      /\ LastOf(events', About(i, s), Del(i, s)) <=> LastOf(events, About(i, s), Del(i, s))
  BY <1>1, AppendOther
<1> QED  BY <1>2 DEF SameAbout, NoNews, LastNew, LastDel, New, Del, About

(* Nor does an event that gives no station.                                *)
LEMMA GainsOther ==
  ASSUME RpuType, NEW x \in Event, events' = Append(events, x), NEW i, x \notin Gains(i)
  PROVE  SameGains(i)
<1>1. PICK s : s \in Stations
  OBVIOUS
<1>2. events \in Seq(Event) /\ \A u \in Stations : New(i, u) \in Gains(i)
  BY DEF RpuType, Gains
<1>3. NoneOf(events', Gains(i)) <=> NoneOf(events, Gains(i))
  BY <1>1, <1>2, AppendOther
<1>4. \A u \in Stations :
        LastOf(events', Gains(i), New(i, u)) <=> LastOf(events, Gains(i), New(i, u))
  BY <1>2, AppendOther
<1> QED  BY <1>3, <1>4 DEF SameGains, NoGain, LastGain, New, Gains

(* The RPU announces a station.                                            *)
LEMMA NewsOfNew ==
  ASSUME RpuType, NEW i \in Slots, NEW s \in Stations, events' = Append(events, New(i, s))
  PROVE  /\ ~NoNews(i, s)' /\ LastNew(i, s)' /\ ~LastDel(i, s)'
         /\ ~NoGain(i)' /\ LastGain(i, s)'
         /\ \A u \in Stations \ {s} : SameAbout(i, u)
         /\ \A k \in Slots \ {i} : SameNews(k)
<1>1. New(i, s) \in Event /\ events \in Seq(Event)
  BY DEF RpuType, Event, New
<1>2. New(i, s) \in About(i, s) /\ Del(i, s) \in About(i, s) /\ New(i, s) \in Gains(i)
  BY DEF About, Gains
<1>3. New(i, s) # Del(i, s)
  BY EventsDiffer
<1>4. /\ ~NoneOf(events', About(i, s)) /\ LastOf(events', About(i, s), New(i, s))
      /\ ~LastOf(events', About(i, s), Del(i, s))
      /\ ~NoneOf(events', Gains(i)) /\ LastOf(events', Gains(i), New(i, s))
  BY <1>1, <1>2, <1>3, AppendOne
<1>5. \A u \in Stations \ {s} : New(i, s) \notin About(i, u)
  BY EventsDiffer DEF About
<1>6. \A k \in Slots \ {i}, u \in Stations : New(i, s) \notin About(k, u)
  BY EventsDiffer DEF About
<1>7. \A k \in Slots \ {i} : New(i, s) \notin Gains(k)
  BY EventsDiffer DEF Gains
<1>8. \A u \in Stations \ {s} : SameAbout(i, u)
  BY <1>1, <1>5, AboutOther
<1>9. \A k \in Slots \ {i} : SameNews(k)
  BY <1>1, <1>6, <1>7, AboutOther, GainsOther DEF SameNews
<1> QED  BY <1>4, <1>8, <1>9 DEF NoNews, LastNew, LastDel, NoGain, LastGain, New, Del, About, Gains

(* Or that it has left.                                                    *)
LEMMA NewsOfDel ==
  ASSUME RpuType, NEW i \in Slots, NEW s \in Stations, events' = Append(events, Del(i, s))
  PROVE  /\ ~NoNews(i, s)' /\ ~LastNew(i, s)' /\ LastDel(i, s)'
         /\ SameGains(i)
         /\ \A u \in Stations \ {s} : SameAbout(i, u)
         /\ \A k \in Slots \ {i} : SameNews(k)
<1>1. Del(i, s) \in Event /\ events \in Seq(Event)
  BY DEF RpuType, Event, Del
<1>2. New(i, s) \in About(i, s) /\ Del(i, s) \in About(i, s)
  BY DEF About
<1>3. New(i, s) # Del(i, s)
  BY EventsDiffer
<1>4. /\ ~NoneOf(events', About(i, s)) /\ LastOf(events', About(i, s), Del(i, s))
      /\ ~LastOf(events', About(i, s), New(i, s))
  BY <1>1, <1>2, <1>3, AppendOne
<1>5. \A u \in Stations \ {s} : Del(i, s) \notin About(i, u)
  BY EventsDiffer DEF About
<1>6. \A k \in Slots \ {i}, u \in Stations : Del(i, s) \notin About(k, u)
  BY EventsDiffer DEF About
<1>7. \A k \in Slots : Del(i, s) \notin Gains(k)
  BY EventsDiffer DEF Gains
<1>8. \A u \in Stations \ {s} : SameAbout(i, u)
  BY <1>1, <1>5, AboutOther
<1>9. \A k \in Slots : SameGains(k)
  BY <1>1, <1>7, GainsOther
<1>10. \A k \in Slots \ {i} : SameNews(k)
  BY <1>1, <1>6, <1>9, AboutOther DEF SameNews
<1> QED  BY <1>4, <1>8, <1>9, <1>10 DEF NoNews, LastNew, LastDel, New, Del, About

(* An event about a mode is not about a station.                           *)
LEMMA NewsOfMode ==
  ASSUME RpuType, NEW x \in Event, x.ev = "MODE_SET", events' = Append(events, x)
  PROVE  \A k \in Slots : SameNews(k)
<1>1. \A k, s : x \notin About(k, s) /\ x \notin Gains(k)
  BY EventsDiffer
<1> QED  BY <1>1, AboutOther, GainsOther DEF SameNews

(* Its first event is taken, which is about something else.                *)
LEMMA AboutTail ==
  ASSUME RpuType, events # <<>>, events' = Tail(events), NEW i, NEW s
  PROVE  /\ NoNews(i, s) <=> Head(events) \notin About(i, s) /\ NoNews(i, s)'
         /\ LastNew(i, s) <=> LastNew(i, s)' \/ (Head(events) = New(i, s) /\ NoNews(i, s)')
         /\ LastDel(i, s) <=> LastDel(i, s)' \/ (Head(events) = Del(i, s) /\ NoNews(i, s)')
<1>1. events \in Seq(Event) /\ New(i, s) \in About(i, s) /\ Del(i, s) \in About(i, s)
  BY DEF RpuType, About
<1>2. /\ NoneOf(events, About(i, s)) <=>
           Head(events) \notin About(i, s) /\ NoneOf(events', About(i, s))
      /\ LastOf(events, About(i, s), New(i, s)) <=>
           \/ LastOf(events', About(i, s), New(i, s))
           \/ Head(events) = New(i, s) /\ NoneOf(events', About(i, s))
      /\ LastOf(events, About(i, s), Del(i, s)) <=>
           \/ LastOf(events', About(i, s), Del(i, s))
           \/ Head(events) = Del(i, s) /\ NoneOf(events', About(i, s))
  BY <1>1, TailOf
<1> QED  BY <1>2 DEF NoNews, LastNew, LastDel, New, Del, About

(* Taking an event gives up the last station gained only if it is that.    *)
LEMMA GainsTail ==
  ASSUME RpuType, events # <<>>, events' = Tail(events), NEW i
  PROVE  /\ NoGain(i) <=> Head(events) \notin Gains(i) /\ NoGain(i)'
         /\ \A s \in Stations :
              LastGain(i, s) <=> LastGain(i, s)' \/ (Head(events) = New(i, s) /\ NoGain(i)')
<1>1. events \in Seq(Event) /\ \A u \in Stations : New(i, u) \in Gains(i)
  BY DEF RpuType, Gains
<1>2. PICK s : s \in Stations
  OBVIOUS
<1>3. NoneOf(events, Gains(i)) <=> Head(events) \notin Gains(i) /\ NoneOf(events', Gains(i))
  BY <1>1, <1>2, TailOf
<1>4. \A u \in Stations :
        LastOf(events, Gains(i), New(i, u)) <=>
           \/ LastOf(events', Gains(i), New(i, u))
           \/ Head(events) = New(i, u) /\ NoneOf(events', Gains(i))
  BY <1>1, TailOf
<1> QED  BY <1>3, <1>4 DEF NoGain, LastGain, New, Gains

(* Taking an event about another station is no news of this one.           *)
LEMMA AboutOtherTaken ==
  ASSUME RpuType, events # <<>>, events' = Tail(events), NEW i, NEW s,
         Head(events) \notin About(i, s)
  PROVE  SameAbout(i, s)
<1>1. Head(events) # New(i, s) /\ Head(events) # Del(i, s)
  BY DEF About
<1> QED  BY <1>1, AboutTail DEF SameAbout

(* Nor is taking an event that gives no station.                           *)
LEMMA GainsOtherTaken ==
  ASSUME RpuType, events # <<>>, events' = Tail(events), NEW i, Head(events) \notin Gains(i)
  PROVE  SameGains(i)
<1>1. \A s \in Stations : Head(events) # New(i, s)
  BY DEF Gains
<1> QED  BY <1>1, GainsTail DEF SameGains

(* The event of a new station is taken.                                    *)
LEMMA NewTaken ==
  ASSUME RpuType, NEW i \in Slots, NEW s \in Stations, events # <<>>,
         Head(events) = New(i, s), events' = Tail(events)
  PROVE  /\ ~NoNews(i, s) /\ ~NoGain(i)
         /\ LastNew(i, s) <=> LastNew(i, s)' \/ NoNews(i, s)'
         /\ LastDel(i, s) <=> LastDel(i, s)'
         /\ \A u \in Stations : LastGain(i, u) <=> LastGain(i, u)' \/ (u = s /\ NoGain(i)')
         /\ \A u \in Stations \ {s} : SameAbout(i, u)
         /\ \A k \in Slots \ {i} : SameNews(k)
<1>1. Head(events) \in About(i, s) /\ Head(events) \in Gains(i) /\ Head(events) # Del(i, s)
  BY EventsDiffer DEF About, Gains
<1>2. \A u : Head(events) = New(i, u) <=> u = s
  BY EventsDiffer
<1>3. \A u \in Stations \ {s} : Head(events) \notin About(i, u)
  BY EventsDiffer DEF About
<1>4. \A k \in Slots \ {i}, u \in Stations : Head(events) \notin About(k, u)
  BY EventsDiffer DEF About
<1>5. \A k \in Slots \ {i} : Head(events) \notin Gains(k)
  BY EventsDiffer DEF Gains
<1>6. \A u \in Stations \ {s} : SameAbout(i, u)
  BY <1>3, AboutOtherTaken
<1>7. \A k \in Slots \ {i} : SameNews(k)
  BY <1>4, <1>5, AboutOtherTaken, GainsOtherTaken DEF SameNews
<1>8. /\ ~NoNews(i, s) /\ (LastNew(i, s) <=> LastNew(i, s)' \/ NoNews(i, s)')
      /\ (LastDel(i, s) <=> LastDel(i, s)')
  BY <1>1, AboutTail
<1>9. ~NoGain(i) /\ \A u \in Stations : LastGain(i, u) <=> LastGain(i, u)' \/ (u = s /\ NoGain(i)')
  BY <1>1, <1>2, GainsTail
<1> QED  BY <1>6, <1>7, <1>8, <1>9

(* The event of one that has left is.                                      *)
LEMMA DelTaken ==
  ASSUME RpuType, NEW i \in Slots, NEW s \in Stations, events # <<>>,
         Head(events) = Del(i, s), events' = Tail(events)
  PROVE  /\ ~NoNews(i, s) /\ SameGains(i)
         /\ LastNew(i, s) <=> LastNew(i, s)'
         /\ LastDel(i, s) <=> LastDel(i, s)' \/ NoNews(i, s)'
         /\ \A u \in Stations \ {s} : SameAbout(i, u)
         /\ \A k \in Slots \ {i} : SameNews(k)
<1>1. Head(events) \in About(i, s) /\ Head(events) # New(i, s)
  BY EventsDiffer DEF About
<1>2. \A u \in Stations \ {s} : Head(events) \notin About(i, u)
  BY EventsDiffer DEF About
<1>3. \A k \in Slots \ {i}, u \in Stations : Head(events) \notin About(k, u)
  BY EventsDiffer DEF About
<1>4. \A k \in Slots : Head(events) \notin Gains(k)
  BY EventsDiffer DEF Gains
<1>5. \A u \in Stations \ {s} : SameAbout(i, u)
  BY <1>2, AboutOtherTaken
<1>6. \A k \in Slots : SameGains(k)
  BY <1>4, GainsOtherTaken
<1>7. \A k \in Slots \ {i} : SameNews(k)
  BY <1>3, <1>6, AboutOtherTaken DEF SameNews
<1>8. /\ ~NoNews(i, s) /\ (LastNew(i, s) <=> LastNew(i, s)')
      /\ (LastDel(i, s) <=> LastDel(i, s)' \/ NoNews(i, s)')
  BY <1>1, AboutTail
<1> QED  BY <1>5, <1>6, <1>7, <1>8

(* Taking an event about a mode is no news of stations.                    *)
LEMMA ModeTaken ==
  ASSUME RpuType, events # <<>>, Head(events).ev = "MODE_SET", events' = Tail(events)
  PROVE  \A k \in Slots : SameNews(k)
<1>1. \A k, s : Head(events) \notin About(k, s) /\ Head(events) \notin Gains(k)
  BY EventsDiffer
<1> QED  BY <1>1, AboutOtherTaken, GainsOtherTaken DEF SameNews


(***************************************************************************)
(* The stations of an interface.                                           *)
(***************************************************************************)

(* What is not left to the past: an interface never added since the device *)
(* was has no stations, and no events about any.                           *)
Unused(i) ==
  /\ rif[i].stations = {} /\ rif[i].want = "none" /\ ~rif[i].up
  /\ Entries(i) = {}
  /\ NoGain(i) /\ \A s \in Stations : NoNews(i, s)

(* The last event about a station says what the RPU has; with none under   *)
(* way the table does.                                                     *)
Followed(i, s) ==
  /\ LastNew(i, s) => s \in rif[i].stations
  /\ LastDel(i, s) => s \notin rif[i].stations
  /\ NoNews(i, s) =>
       /\ s \in Entries(i) => s \in rif[i].stations
       /\ s \in rif[i].stations \ rif[i].leaving => s \in Entries(i) \/ <<i, s>> \in missed

Follows(i) == \A s \in Stations : Followed(i, s)

(* An access point that is down has let go of its clients, and one about   *)
(* to start stays down until its entries are flushed.                      *)
Down(i) == rif[i].want = "none" /\ rif[i].stations \subseteq rif[i].leaving

Starting(i) == call.op = "start_ap" /\ call.if_idx = i

ApFollows(i) ==
  /\ rif[i].up => rif[i].type \in ApTypes
  /\ TypeOf(i) \in ApTypes => rif[i].want = "none" /\ (rif[i].up \/ Down(i))
  /\ Starting(i) => ~rif[i].up /\ Down(i)

(* The last station an event brings a station interface is the one it is   *)
(* connected to; with none under way it sends to that one.                 *)
Aims(i, s) == LastGain(i, s) \/ (NoGain(i) /\ ctx[vif_ctx[i]].bssid = s)

BssidFollows(i) ==
  i \notin retyped \cup misaimed /\ TypeOf(i) = "STATION" /\ rif[i].type = "STATION" =>
    \A s \in rif[i].stations \ rif[i].leaving : Aims(i, s)

SlotInv(i) ==
  /\ i \notin removed /\ vif_ctx[i] = 0 => Unused(i)
  /\ i \notin removed /\ Live(i) /\ ~Deleting(i) => Follows(i) /\ ApFollows(i) /\ BssidFollows(i)

StationInv == \A i \in Slots : SlotInv(i)

(* A slot that was deleted, or is being, promises nothing.                 *)
LEMMA GoneSlot ==
  ASSUME NEW i, i \in removed' \/ (vif_ctx'[i] # 0 /\ Deleting(i)')
  PROVE  SlotInv(i)'
BY DEF SlotInv

(* A slot with no context, that never was deleted, is unused.              *)
LEMMA UnusedSlot ==
  ASSUME NEW i, ~Live(i)', Unused(i)'
  PROVE  SlotInv(i)'
BY DEF SlotInv

(* What an action does not see of a slot, and what it leaves of it.        *)
SameHost(k) ==
  vif_ctx'[k] = vif_ctx[k] /\ (vif_ctx[k] # 0 => ctx'[vif_ctx[k]] = ctx[vif_ctx[k]])

SameMarks(k) ==
  /\ k \in removed => k \in removed'
  /\ k \in retyped \cup misaimed => k \in retyped' \cup misaimed'
  /\ \A s : <<k, s>> \in missed => <<k, s>> \in missed'

SameCall(k) == (Deleting(k) => Deleting(k)') /\ (Starting(k)' => Starting(k))

Same(k) ==
  /\ SameHost(k) /\ SameMarks(k) /\ SameCall(k) /\ SameNews(k)
  /\ rif'[k] = rif[k] /\ Entries(k)' = Entries(k)

(* A slot whose host state stays is as live as it was, and of its type.    *)
LEMMA SameHostKept ==
  ASSUME NEW k, SameHost(k)
  PROVE  /\ vif_ctx'[k] = vif_ctx[k]
         /\ Live(k)' <=> Live(k)
         /\ Live(k) => TypeOf(k)' = TypeOf(k)
         /\ Live(k) => ctx'[vif_ctx'[k]].bssid = ctx[vif_ctx[k]].bssid
BY DEF SameHost, Live, TypeOf

(* What the invariant says of a station depends on its slot alone.         *)
LEMMA FollowedKept ==
  ASSUME NEW k, NEW s, SameAbout(k, s), SameMarks(k), rif'[k] = rif[k],
         s \in Entries(k)' <=> s \in Entries(k), Followed(k, s)
  PROVE  Followed(k, s)'
BY DEF SameAbout, SameMarks, Followed

(* So does what it says of an access point.                                *)
LEMMA ApKept ==
  ASSUME NEW k, rif'[k] = rif[k], TypeOf(k)' = TypeOf(k), Starting(k)' => Starting(k),
         ApFollows(k)
  PROVE  ApFollows(k)'
BY DEF ApFollows, Down

(* So does what it says of the station connected.                          *)
LEMMA BssidKept ==
  ASSUME NEW k, rif'[k] = rif[k], rif[k].stations \subseteq Stations,
         TypeOf(k)' = TypeOf(k), SameMarks(k), SameGains(k),
         ctx'[vif_ctx'[k]].bssid = ctx[vif_ctx[k]].bssid, BssidFollows(k)
  PROVE  BssidFollows(k)'
BY DEF BssidFollows, Aims, SameMarks, SameGains

(* The stations of an interface at the RPU are stations.                   *)
LEMMA RifStations ==
  ASSUME IfInv, NEW k \in Slots
  PROVE  /\ rif[k] \in RpuIf /\ rif[k].stations \subseteq Stations
         /\ rif[k].want \in Stations \cup {"none"}
BY Typed DEF IfInv, RpuType, RpuIf

(* The invariant of a slot that a step leaves alone.                       *)
LEMMA SlotKept ==
  ASSUME IfInv, NEW k \in Slots, Same(k), SlotInv(k)
  PROVE  SlotInv(k)'
<1>1. SameHost(k) /\ SameMarks(k) /\ SameCall(k) /\ SameNews(k)
      /\ rif'[k] = rif[k] /\ Entries(k)' = Entries(k)
  BY DEF Same
<1>2. /\ vif_ctx'[k] = vif_ctx[k] /\ (Live(k)' <=> Live(k))
      /\ Live(k) => TypeOf(k)' = TypeOf(k)
      /\ Live(k) => ctx'[vif_ctx'[k]].bssid = ctx[vif_ctx[k]].bssid
  BY <1>1, SameHostKept
<1>3. rif[k].stations \subseteq Stations
  BY RifStations
<1>4. CASE k \notin removed' /\ vif_ctx'[k] = 0
  <2>1. Unused(k)
    BY <1>1, <1>2, <1>4 DEF SlotInv, SameMarks
  <2>2. Unused(k)'
    BY <1>1, <2>1 DEF Unused, SameNews, SameGains, SameAbout
  <2>3. ~Live(k)'
    BY <1>4 DEF Live
  <2> QED  BY <2>2, <2>3, UnusedSlot
<1>5. CASE k \notin removed' /\ Live(k)' /\ ~Deleting(k)'
  <2>1. Live(k) /\ Follows(k) /\ ApFollows(k) /\ BssidFollows(k)
    BY <1>1, <1>2, <1>5 DEF SlotInv, SameMarks, SameCall
  <2>2. Follows(k)'
    BY <1>1, <2>1, FollowedKept DEF Follows, SameNews
  <2>3. ApFollows(k)'
    BY <1>1, <1>2, <2>1, ApKept DEF SameCall
  <2>4. BssidFollows(k)'
    BY <1>1, <1>2, <1>3, <2>1, BssidKept DEF SameNews
  <2>5. vif_ctx'[k] # 0
    BY <1>5 DEF Live
  <2> QED  BY <2>2, <2>3, <2>4, <2>5 DEF SlotInv
<1> QED  BY <1>4, <1>5 DEF SlotInv

(* An action is about one slot, and leaves the others as they are.         *)
LEMMA OneSlot ==
  ASSUME IfInv, StationInv, NEW i \in Slots, SlotInv(i)', \A k \in Slots \ {i} : Same(k)
  PROVE  StationInv'
BY SlotKept DEF StationInv

(* What a slot promises that has an interface nobody deletes.              *)
LEMMA LiveSlot ==
  ASSUME IfInv, NEW i \in Slots, SlotInv(i), i \notin removed, vif_ctx[i] # 0, ~Deleting(i)
  PROVE  Live(i) /\ Follows(i) /\ ApFollows(i) /\ BssidFollows(i)
BY DEF SlotInv, IfInv, Backed

(* To show of a slot that has one: what it still promises.                 *)
LEMMA StillFollows ==
  ASSUME NEW i, vif_ctx'[i] # 0, Follows(i)', ApFollows(i)', BssidFollows(i)'
  PROVE  SlotInv(i)'
BY DEF SlotInv


(***************************************************************************)
(* The entries of an interface.                                            *)
(***************************************************************************)

Entered(i, s, p) == peers[p] # Nobody /\ peers[p].if_idx = i /\ peers[p].ra = s

(* A station of an interface is one with an entry of that interface.       *)
LEMMA EntryOf ==
  ASSUME NEW i, NEW s
  PROVE  s \in Entries(i) <=> \E p \in DOMAIN peers : Entered(i, s, p)
BY DEF Entries, Entered

(* A table that stays has the entries it had.                              *)
LEMMA SameEntries ==
  ASSUME peers' = peers, NEW k
  PROVE  Entries(k)' = Entries(k)
BY DEF Entries

(* The entries of an interface go; those of others stay.                   *)
LEMMA Flushed ==
  ASSUME TableType, NEW i \in Slots, nrf_wifi_fmac_peers_flush(i)
  PROVE  Entries(i)' = {} /\ \A k \in Slots \ {i} : Entries(k)' = Entries(k)
<1>1. /\ DOMAIN peers' = DOMAIN peers
      /\ \A p \in DOMAIN peers :
           peers'[p] = IF peers[p] # Nobody /\ peers[p].if_idx = i THEN Nobody ELSE peers[p]
  BY DEF nrf_wifi_fmac_peers_flush
<1>2. Entries(i)' = {}
  BY <1>1 DEF Entries
<1>3. ASSUME NEW k \in Slots \ {i} PROVE Entries(k)' = Entries(k)
  <2>1. ASSUME NEW p \in DOMAIN peers
        PROVE  /\ peers'[p] # Nobody /\ peers'[p].if_idx = k
                    <=> peers[p] # Nobody /\ peers[p].if_idx = k
               /\ peers[p] # Nobody /\ peers[p].if_idx = k => peers'[p] = peers[p]
    BY <1>1, <1>3
  <2> QED  BY <1>1, <2>1 DEF Entries
<1> QED  BY <1>2, <1>3

(* The device forgets all of them.                                         *)
LEMMA AllFlushed ==
  ASSUME peers' = [p \in DOMAIN peers |-> Nobody], NEW i
  PROVE  Entries(i)' = {}
BY DEF Entries

(* A place of the table is set: what it held and what it holds differ.     *)
LEMMA PlaceSet ==
  ASSUME TableType, NEW q \in DOMAIN peers, NEW e, peers' = [peers EXCEPT ![q] = e],
         NEW k, NEW u, ~Entered(k, u, q), ~(e # Nobody /\ e.if_idx = k /\ e.ra = u)
  PROVE  u \in Entries(k)' <=> u \in Entries(k)
<1>1. /\ DOMAIN peers' = DOMAIN peers /\ peers'[q] = e
      /\ \A p \in DOMAIN peers \ {q} : peers'[p] = peers[p]
  BY DEF TableType
<1>2. \A p \in DOMAIN peers : Entered(k, u, p)' <=> Entered(k, u, p)
  BY <1>1 DEF Entered
<1>3. u \in Entries(k) <=> \E p \in DOMAIN peers : Entered(k, u, p)
  BY EntryOf
<1>4. u \in Entries(k)' <=> \E p \in DOMAIN peers' : Entered(k, u, p)'
  BY DEF Entries, Entered
<1> QED  BY <1>1, <1>2, <1>3, <1>4

(* Entries are stations.                                                   *)
LEMMA EntryTypes ==
  ASSUME TableType, NEW k
  PROVE  Entries(k) \subseteq Stations
BY DEF TableType, Entries

(* An event of a new station makes an entry, or leaves a mark.             *)
LEMMA NewEntered ==
  ASSUME TableType, TableType', NEW i \in Slots, NEW s \in Stations, umac_event_connect_new(i, s),
         vif_ctx[i] # 0
  PROVE  /\ s \in Entries(i)' \/ <<i, s>> \in missed'
         /\ \A u \in Stations \ {s} : u \in Entries(i)' <=> u \in Entries(i)
         /\ \A k \in Slots \ {i} : Entries(k)' = Entries(k)
         /\ \A k, u : <<k, u>> # <<i, s>> /\ <<k, u>> \in missed => <<k, u>> \in missed'
<1>1. /\ peers' = IF nrf_wifi_fmac_peer_get_id(s) = -1 THEN nrf_wifi_fmac_peer_add(i, s) ELSE peers
      /\ missed' = IF \E p \in DOMAIN peers' : peers'[p] = [ra |-> s, if_idx |-> i]
                     THEN missed \ {<<i, s>>} ELSE missed \cup {<<i, s>>}
  BY DEF umac_event_connect_new
<1>2. s \in Entries(i)' \/ <<i, s>> \in missed'
  <2>1. CASE \E p \in DOMAIN peers' : peers'[p] = [ra |-> s, if_idx |-> i]
    <3>1. PICK p \in DOMAIN peers' : peers'[p] = [ra |-> s, if_idx |-> i]
      BY <2>1
    <3>2. peers'[p] # Nobody /\ peers'[p].if_idx = i /\ peers'[p].ra = s
      BY <3>1 DEF Nobody
    <3> QED  BY <3>1, <3>2 DEF Entries
  <2> QED  BY <1>1, <2>1
<1>3. \A k, u : <<k, u>> # <<i, s>> /\ <<k, u>> \in missed => <<k, u>> \in missed'
  BY <1>1
<1>4. CASE peers' = peers
  BY <1>2, <1>3, <1>4, SameEntries
<1>5. CASE peers' # peers
  <2>1. PICK q : q = (CHOOSE p \in FreePeers : \A r \in FreePeers : p <= r)
    OBVIOUS
  <2>2. FreePeers # {} /\ peers' = [peers EXCEPT ![q] = [ra |-> s, if_idx |-> i]]
    BY <1>1, <1>5, <2>1 DEF nrf_wifi_fmac_peer_add
  <2>3. q \in FreePeers
    <3>1. FreePeers \in SUBSET Nat
      BY DEF FreePeers, TableType
    <3> QED  BY <2>1, <2>2, <3>1, Least
  <2>4. q \in DOMAIN peers /\ peers[q] = Nobody
    BY <2>3 DEF FreePeers
  <2>5. PICK e : e = [ra |-> s, if_idx |-> i]
    OBVIOUS
  <2>6. e.ra = s /\ e.if_idx = i
    BY <2>5
  <2>7. peers' = [peers EXCEPT ![q] = e]
    BY <2>2, <2>5
  <2>8. \A k, u : ~Entered(k, u, q)
    BY <2>4 DEF Entered
  <2>9. \A k, u : k # i \/ u # s => (u \in Entries(k)' <=> u \in Entries(k))
    BY <2>4, <2>6, <2>7, <2>8, PlaceSet
  <2>10. ASSUME NEW k \in Slots \ {i} PROVE Entries(k)' = Entries(k)
    <3>1. \A u : u \in Entries(k)' <=> u \in Entries(k)
      BY <2>9, <2>10
    <3> QED  BY <3>1
  <2> QED  BY <1>2, <1>3, <2>9, <2>10
<1> QED  BY <1>4, <1>5

(* The event of one that has left removes its entry, and no other.         *)
LEMMA DelRemoved ==
  ASSUME TableType, OneEntry, NEW i \in Slots, NEW s \in Stations, umac_event_connect_del(i, s)
  PROVE  /\ vif_ctx[i] # 0 => s \notin Entries(i)'
         /\ \A u \in Stations \ {s} : u \in Entries(i)' <=> u \in Entries(i)
         /\ \A k \in Slots \ {i} : Entries(k)' = Entries(k)
<1>1. PICK q : q = nrf_wifi_fmac_peer_get_id(s)
  OBVIOUS
<1>2. peers' = IF vif_ctx[i] # 0 /\ q \in DOMAIN peers /\ peers[q].if_idx = i
                 THEN [peers EXCEPT ![q] = Nobody] ELSE peers
  BY <1>1 DEF umac_event_connect_del, nrf_wifi_fmac_peer_remove
<1>3. ASSUME NEW p \in DOMAIN peers, peers[p] # Nobody, peers[p].ra = s
      PROVE  q = p
  <2>1. KnownPeers(s) \in SUBSET Nat /\ p \in KnownPeers(s)
    BY <1>3 DEF KnownPeers, TableType
  <2>2. q \in KnownPeers(s)
    BY <1>1, <2>1, Least DEF nrf_wifi_fmac_peer_get_id
  <2> QED  BY <1>3, <2>2 DEF KnownPeers, OneEntry
<1>4. q \in DOMAIN peers => peers[q].ra = s /\ peers[q] # Nobody
  <2>1. CASE KnownPeers(s) = {}
    <3>1. q = -1
      BY <1>1, <2>1 DEF nrf_wifi_fmac_peer_get_id
    <3> QED  BY <3>1 DEF TableType
  <2>2. CASE KnownPeers(s) # {}
    <3>1. KnownPeers(s) \in SUBSET Nat
      BY DEF KnownPeers, TableType
    <3>2. q \in KnownPeers(s)
      BY <1>1, <2>2, <3>1, Least DEF nrf_wifi_fmac_peer_get_id
    <3> QED  BY <3>2 DEF KnownPeers
  <2> QED  BY <2>1, <2>2
<1>5. CASE vif_ctx[i] # 0 /\ q \in DOMAIN peers /\ peers[q].if_idx = i
  <2>1. peers' = [peers EXCEPT ![q] = Nobody] /\ peers[q].ra = s
    BY <1>2, <1>4, <1>5
  <2>2. \A k, u : k # i \/ u # s => ~Entered(k, u, q)
    BY <1>5, <2>1 DEF Entered
  <2>3. \A k, u : k # i \/ u # s => (u \in Entries(k)' <=> u \in Entries(k))
    <3>1. PICK e : e = Nobody
      OBVIOUS
    <3>2. peers' = [peers EXCEPT ![q] = e]
      BY <2>1, <3>1
    <3>3. \A k, u : ~(e # Nobody /\ e.if_idx = k /\ e.ra = u)
      BY <3>1
    <3> QED  BY <1>5, <2>2, <3>2, <3>3, PlaceSet
  <2>4. s \notin Entries(i)'
    <3>1. DOMAIN peers' = DOMAIN peers /\ peers'[q] = Nobody
          /\ \A p \in DOMAIN peers \ {q} : peers'[p] = peers[p]
      BY <1>5, <2>1 DEF TableType
    <3>2. \A p \in DOMAIN peers : peers'[p] # Nobody => peers'[p].ra # s
      BY <1>3, <3>1
    <3> QED  BY <3>1, <3>2 DEF Entries
  <2>5. ASSUME NEW k \in Slots \ {i} PROVE Entries(k)' = Entries(k)
    <3>1. \A u : u \in Entries(k)' <=> u \in Entries(k)
      BY <2>3, <2>5
    <3> QED  BY <3>1
  <2> QED  BY <2>3, <2>4, <2>5
<1>6. CASE ~(vif_ctx[i] # 0 /\ q \in DOMAIN peers /\ peers[q].if_idx = i)
  <2>1. peers' = peers
    BY <1>2, <1>6
  <2>2. vif_ctx[i] # 0 => s \notin Entries(i)
    BY <1>3, <1>6 DEF Entries
  <2> QED  BY <2>1, <2>2, SameEntries
<1> QED  BY <1>5, <1>6


(***************************************************************************)
(* The stations, step by step.                                             *)
(***************************************************************************)

(* The parts of the state that a step leaves alone, slot by slot.          *)
LEMMA HostStays ==
  ASSUME UNCHANGED host, NEW k
  PROVE  SameHost(k)
BY DEF host, SameHost

(* What the past has marked.                                               *)
LEMMA MarksStay ==
  ASSUME UNCHANGED history, NEW k
  PROVE  SameMarks(k)
BY DEF history, SameMarks

(* What the call under way is about.                                       *)
LEMMA CallStays ==
  ASSUME UNCHANGED call, NEW k
  PROVE  SameCall(k)
BY DEF SameCall, Deleting, Starting

(* A context that is written, or freed, is no other slot's.                *)
LEMMA OtherContext ==
  ASSUME IfInv, NEW i \in Slots, NEW k \in Slots \ {i}, vif_ctx[i] # 0, NEW e,
         ctx' = [ctx EXCEPT ![vif_ctx[i]] = e],
         vif_ctx' = vif_ctx \/ vif_ctx' = [vif_ctx EXCEPT ![i] = 0]
  PROVE  SameHost(k)
<1>1. HostType /\ vif_ctx[k] # vif_ctx[i]
  BY Typed, OwnContext DEF IfInv
<1>2. vif_ctx'[k] = vif_ctx[k]
  BY <1>1 DEF HostType
<1>3. vif_ctx[k] # 0 => vif_ctx[k] \in CtxIds
  BY <1>1 DEF HostType, CtxIds
<1>4. vif_ctx[k] # 0 => ctx'[vif_ctx[k]] = ctx[vif_ctx[k]]
  BY <1>1, <1>3 DEF HostType
<1> QED  BY <1>2, <1>4 DEF SameHost

(* The slot an action is about has an interface that is not being deleted, *)
(* or there is nothing to show of it.                                      *)
LEMMA ActingSlot ==
  ASSUME IfInv, StationInv, NEW i \in Slots, vif_ctx[i] # 0 \/ ~Unused(i),
         i \in removed => i \in removed', Deleting(i) => Deleting(i)', vif_ctx'[i] = vif_ctx[i]
  PROVE  \/ SlotInv(i)'
         \/ /\ vif_ctx[i] # 0 /\ Live(i) /\ ~Deleting(i)
            /\ Follows(i) /\ ApFollows(i) /\ BssidFollows(i)
<1>1. SlotInv(i)
  BY DEF StationInv
<1>2. CASE i \in removed \/ (vif_ctx[i] # 0 /\ Deleting(i))
  BY <1>2, GoneSlot
<1>3. CASE i \notin removed /\ vif_ctx[i] = 0
  BY <1>1, <1>3 DEF SlotInv
<1>4. CASE i \notin removed /\ vif_ctx[i] # 0 /\ ~Deleting(i)
  BY <1>1, <1>4, LiveSlot
<1> QED  BY <1>2, <1>3, <1>4

(* What a step of the RPU leaves of the other slots.                       *)
LEMMA RpuOthers ==
  ASSUME RpuOnly, NEW k, SameNews(k), rif'[k] = rif[k]
  PROVE  Same(k)
<1>1. SameHost(k) /\ SameMarks(k) /\ SameCall(k)
  BY HostStays, MarksStay, CallStays DEF RpuOnly
<1>2. Entries(k)' = Entries(k)
  BY SameEntries DEF RpuOnly, table
<1> QED  BY <1>1, <1>2 DEF Same

(* Of the slot it is about: all but what the RPU has of it.                *)
LEMMA RpuSlot ==
  ASSUME IfInv, StationInv, NEW i \in Slots, RpuOnly, ~Unused(i)
  PROVE  \/ SlotInv(i)'
         \/ /\ vif_ctx[i] # 0 /\ Live(i) /\ ~Deleting(i)
            /\ Follows(i) /\ ApFollows(i) /\ BssidFollows(i)
<1>1. UNCHANGED <<removed, call, vif_ctx>>
  BY DEF RpuOnly, history, host
<1> QED  BY <1>1, ActingSlot DEF Deleting

(* A step of the RPU on one interface leaves the others as they are.       *)
LEMMA RpuKeeps ==
  ASSUME RpuOnly, NEW i
  PROVE  /\ Entries(i)' = Entries(i) /\ missed' = missed /\ (Starting(i)' <=> Starting(i))
         /\ TypeOf(i)' = TypeOf(i) /\ vif_ctx' = vif_ctx /\ ctx' = ctx
         /\ retyped' = retyped /\ misaimed' = misaimed
<1>1. Entries(i)' = Entries(i)
  BY SameEntries DEF RpuOnly, table
<1>2. vif_ctx' = vif_ctx /\ ctx' = ctx /\ call' = call /\ missed' = missed
      /\ retyped' = retyped /\ misaimed' = misaimed
  BY DEF RpuOnly, host, history
<1> QED  BY <1>1, <1>2 DEF TypeOf, Starting

(* A station joins at the RPU, which says so last.                         *)
LEMMA JoinedStations ==
  ASSUME IfInv, StationInv, NEW i \in Slots, NEW s \in Stations, RpuJoined(i, s)
  PROVE  StationInv'
<1>1. RpuType /\ rif[i] \in RpuIf /\ rif[i].stations \subseteq Stations
  BY Typed, RifStations DEF IfInv
<1>2. /\ RpuOnly /\ rif[i].up /\ s \notin rif[i].stations
      /\ rif' = [rif EXCEPT ![i].stations = @ \cup {s}]
      /\ events' = Append(events, New(i, s))
  BY DEF RpuJoined, Announces, New
<1>3. /\ rif'[i].stations = rif[i].stations \cup {s} /\ rif'[i].leaving = rif[i].leaving
      /\ rif'[i].up = rif[i].up /\ rif'[i].type = rif[i].type /\ rif'[i].want = rif[i].want
      /\ \A k \in Slots \ {i} : rif'[k] = rif[k]
  BY <1>1, <1>2 DEF RpuType, RpuIf
<1>4. /\ ~NoNews(i, s)' /\ LastNew(i, s)' /\ ~LastDel(i, s)'
      /\ ~NoGain(i)' /\ LastGain(i, s)'
      /\ \A u \in Stations \ {s} : SameAbout(i, u)
      /\ \A k \in Slots \ {i} : SameNews(k)
  BY <1>1, <1>2, NewsOfNew
<1>5. \A k \in Slots \ {i} : Same(k)
  BY <1>2, <1>3, <1>4, RpuOthers
<1>6. SlotInv(i)'
  <2>1. ~Unused(i)
    BY <1>2 DEF Unused
  <2> SUFFICES ASSUME vif_ctx[i] # 0, Follows(i), ApFollows(i), BssidFollows(i)
               PROVE  SlotInv(i)'
    BY <1>2, <2>1, RpuSlot
  <2>2. /\ Entries(i)' = Entries(i) /\ missed' = missed /\ (Starting(i)' <=> Starting(i))
        /\ TypeOf(i)' = TypeOf(i) /\ vif_ctx' = vif_ctx
    BY <1>2, RpuKeeps
  <2>3. Followed(i, s)'
    BY <1>3, <1>4 DEF Followed
  <2>4. ASSUME NEW u \in Stations \ {s} PROVE Followed(i, u)'
    <3>1. Followed(i, u) /\ SameAbout(i, u)
      BY <1>4, <2>4 DEF Follows
    <3> QED  BY <1>3, <2>2, <2>4, <3>1 DEF Followed, SameAbout
  <2>5. ApFollows(i)'
    BY <1>2, <1>3, <2>2 DEF ApFollows
  <2>6. rif[i].type # "STATION"
    BY <1>2 DEF ApFollows, ApTypes
  <2>7. BssidFollows(i)'
    BY <1>3, <2>6 DEF BssidFollows
  <2> QED  BY <2>2, <2>3, <2>4, <2>5, <2>7, StillFollows DEF Follows
<1> QED  BY <1>5, <1>6, OneSlot

(* The access point answers, and the RPU says so last.                     *)
LEMMA ConnectedStations ==
  ASSUME IfInv, StationInv, NEW i \in Slots, RpuConnected(i)
  PROVE  StationInv'
<1>1. RpuType /\ rif[i] \in RpuIf
  BY Typed, RifStations DEF IfInv
<1>2. PICK s : s = rif[i].want
  OBVIOUS
<1>3. /\ RpuOnly /\ s # "none" /\ s \in Stations /\ rif[i].stations = {}
      /\ rif' = [rif EXCEPT ![i].stations = {s}, ![i].want = "none"]
      /\ events' = Append(events, New(i, s))
  BY <1>1, <1>2 DEF RpuConnected, Announces, New, RpuIf
<1>4. /\ rif'[i].stations = {s} /\ rif'[i].leaving = rif[i].leaving /\ rif'[i].want = "none"
      /\ rif'[i].up = rif[i].up /\ rif'[i].type = rif[i].type
      /\ \A k \in Slots \ {i} : rif'[k] = rif[k]
  BY <1>1, <1>3 DEF RpuType, RpuIf
<1>5. /\ ~NoNews(i, s)' /\ LastNew(i, s)' /\ ~LastDel(i, s)'
      /\ ~NoGain(i)' /\ LastGain(i, s)'
      /\ \A u \in Stations \ {s} : SameAbout(i, u)
      /\ \A k \in Slots \ {i} : SameNews(k)
  BY <1>1, <1>3, NewsOfNew
<1>6. \A k \in Slots \ {i} : Same(k)
  BY <1>3, <1>4, <1>5, RpuOthers
<1>7. SlotInv(i)'
  <2>1. ~Unused(i)
    BY <1>2, <1>3 DEF Unused
  <2> SUFFICES ASSUME vif_ctx[i] # 0, Follows(i), ApFollows(i), BssidFollows(i)
               PROVE  SlotInv(i)'
    BY <1>3, <2>1, RpuSlot
  <2>2. /\ Entries(i)' = Entries(i) /\ missed' = missed /\ (Starting(i)' <=> Starting(i))
        /\ TypeOf(i)' = TypeOf(i) /\ vif_ctx' = vif_ctx
    BY <1>3, RpuKeeps
  <2>3. Followed(i, s)'
    BY <1>4, <1>5 DEF Followed
  <2>4. ASSUME NEW u \in Stations \ {s} PROVE Followed(i, u)'
    <3>1. Followed(i, u) /\ SameAbout(i, u)
      BY <1>5, <2>4 DEF Follows
    <3> QED  BY <1>3, <1>4, <2>2, <2>4, <3>1 DEF Followed, SameAbout
  <2>5. ~Starting(i) /\ TypeOf(i) \notin ApTypes
    BY <1>2, <1>3 DEF ApFollows, Down
  <2>6. ApFollows(i)'
    BY <1>4, <2>2, <2>5 DEF ApFollows
  <2>7. BssidFollows(i)'
    BY <1>4, <1>5 DEF BssidFollows, Aims
  <2> QED  BY <2>2, <2>3, <2>4, <2>6, <2>7, StillFollows DEF Follows
<1> QED  BY <1>6, <1>7, OneSlot

(* The access point refuses, and no event says anything.                   *)
LEMMA RefusedStations ==
  ASSUME IfInv, StationInv, NEW i \in Slots, RpuRefused(i)
  PROVE  StationInv'
<1>1. RpuType /\ rif[i] \in RpuIf
  BY Typed, RifStations DEF IfInv
<1>2. /\ RpuOnly /\ rif[i].want # "none" /\ rif[i].stations = {} /\ events' = events
      /\ rif' = [rif EXCEPT ![i].want = "none"]
  BY DEF RpuRefused
<1>3. /\ rif'[i].stations = {} /\ rif'[i].up = rif[i].up /\ rif'[i].type = rif[i].type
      /\ \A k \in Slots \ {i} : rif'[k] = rif[k]
  BY <1>1, <1>2 DEF RpuType, RpuIf
<1>4. \A k \in Slots : SameNews(k)
  BY <1>2, NewsUnchanged
<1>5. \A k \in Slots \ {i} : Same(k)
  BY <1>2, <1>3, <1>4, RpuOthers
<1>6. SlotInv(i)'
  <2>1. ~Unused(i)
    BY <1>2 DEF Unused
  <2> SUFFICES ASSUME vif_ctx[i] # 0, Follows(i), ApFollows(i), BssidFollows(i)
               PROVE  SlotInv(i)'
    BY <1>2, <2>1, RpuSlot
  <2>2. /\ Entries(i)' = Entries(i) /\ missed' = missed /\ (Starting(i)' <=> Starting(i))
        /\ TypeOf(i)' = TypeOf(i) /\ vif_ctx' = vif_ctx
    BY <1>2, RpuKeeps
  <2>3. ASSUME NEW u \in Stations PROVE Followed(i, u)'
    <3>1. Followed(i, u) /\ SameAbout(i, u)
      BY <1>4, <2>3 DEF Follows, SameNews
    <3> QED  BY <1>2, <1>3, <2>2, <3>1 DEF Followed, SameAbout
  <2>4. ~Starting(i) /\ TypeOf(i) \notin ApTypes
    BY <1>2 DEF ApFollows, Down
  <2>5. ApFollows(i)'
    BY <1>3, <2>2, <2>4 DEF ApFollows
  <2>6. BssidFollows(i)'
    BY <1>3 DEF BssidFollows
  <2> QED  BY <2>2, <2>3, <2>5, <2>6, StillFollows DEF Follows
<1> QED  BY <1>5, <1>6, OneSlot

(* A station leaves at the RPU, which says so last.                        *)
LEMMA LeftStations ==
  ASSUME IfInv, StationInv, NEW i \in Slots, NEW s \in Stations, RpuLeft(i, s)
  PROVE  StationInv'
<1>1. RpuType /\ rif[i] \in RpuIf /\ rif[i].stations \subseteq Stations
  BY Typed, RifStations DEF IfInv
<1>2. /\ RpuOnly /\ s \in rif[i].stations
      /\ rif' = [rif EXCEPT ![i].stations = @ \ {s}, ![i].leaving = @ \ {s}]
      /\ events' = Append(events, Del(i, s))
  BY DEF RpuLeft, Announces, Del
<1>3. /\ rif'[i].stations = rif[i].stations \ {s} /\ rif'[i].leaving = rif[i].leaving \ {s}
      /\ rif'[i].up = rif[i].up /\ rif'[i].type = rif[i].type /\ rif'[i].want = rif[i].want
      /\ \A k \in Slots \ {i} : rif'[k] = rif[k]
  BY <1>1, <1>2 DEF RpuType, RpuIf
<1>4. /\ ~NoNews(i, s)' /\ ~LastNew(i, s)' /\ LastDel(i, s)'
      /\ SameGains(i)
      /\ \A u \in Stations \ {s} : SameAbout(i, u)
      /\ \A k \in Slots \ {i} : SameNews(k)
  BY <1>1, <1>2, NewsOfDel
<1>5. \A k \in Slots \ {i} : Same(k)
  BY <1>2, <1>3, <1>4, RpuOthers
<1>6. SlotInv(i)'
  <2>1. ~Unused(i)
    BY <1>2 DEF Unused
  <2> SUFFICES ASSUME vif_ctx[i] # 0, Follows(i), ApFollows(i), BssidFollows(i)
               PROVE  SlotInv(i)'
    BY <1>2, <2>1, RpuSlot
  <2>2. /\ Entries(i)' = Entries(i) /\ missed' = missed /\ (Starting(i)' <=> Starting(i))
        /\ TypeOf(i)' = TypeOf(i) /\ vif_ctx' = vif_ctx /\ ctx' = ctx
        /\ retyped' = retyped /\ misaimed' = misaimed
    BY <1>2, RpuKeeps
  <2>3. Followed(i, s)'
    BY <1>3, <1>4 DEF Followed
  <2>4. ASSUME NEW u \in Stations \ {s} PROVE Followed(i, u)'
    <3>1. Followed(i, u) /\ SameAbout(i, u)
      BY <1>4, <2>4 DEF Follows
    <3> QED  BY <1>3, <2>2, <2>4, <3>1 DEF Followed, SameAbout
  <2>5. Down(i) => Down(i)'
    BY <1>3 DEF Down
  <2>6. ApFollows(i)'
    BY <1>3, <2>2, <2>5 DEF ApFollows
  <2>7. ASSUME NEW u \in Stations, Aims(i, u) PROVE Aims(i, u)'
    BY <1>4, <2>2, <2>7 DEF Aims, SameGains
  <2>8. BssidFollows(i)'
    BY <1>1, <1>3, <2>2, <2>7 DEF BssidFollows
  <2> QED  BY <2>2, <2>3, <2>4, <2>6, <2>8, StillFollows DEF Follows
<1> QED  BY <1>5, <1>6, OneSlot


(* A command about one interface leaves the RPU's others as they are.      *)
OneChanged(i) == (\A k \in Slots \ {i} : rif'[k] = rif[k]) /\ \A k : SameNews(k)

(* A command changes the interface it names, if it is sent at all.         *)
LEMMA CommandedOthers ==
  ASSUME IfInv, NEW i \in Slots, Live(i) /\ ~Deleting(i), NEW cmd, NEW sent \in BOOLEAN,
         NEW new \in RpuIf, umac_cmd_cfg(sent, cmd, i, new)
  PROVE  (rif'[i] = IF sent THEN new ELSE rif[i]) /\ OneChanged(i)
<1>1. rif' = IF sent THEN [rif EXCEPT ![i] = new] ELSE rif
  BY Commanded
<1>2. rif \in [Slots -> RpuIf]
  BY Typed DEF IfInv, RpuType
<1>3. events' = events
  BY DEF umac_cmd_cfg, rpu
<1>4. \A k : SameNews(k)
  BY <1>3, NewsUnchanged
<1> QED  BY <1>1, <1>2, <1>4 DEF OneChanged

(* So does a command that is sent, which has its effect.                   *)
LEMMA SentOthers ==
  ASSUME IfInv, NEW i \in Slots, Live(i) /\ ~Deleting(i), NEW cmd,
         NEW new \in RpuIf, umac_cmd_cfg(TRUE, cmd, i, new)
  PROVE  rif'[i] = new /\ OneChanged(i)
<1>1. PICK sent \in BOOLEAN : sent = TRUE
  OBVIOUS
<1>2. umac_cmd_cfg(sent, cmd, i, new)
  BY <1>1
<1> QED  BY <1>1, <1>2, CommandedOthers

(* A callers' interface is the slot an action is about.                    *)
LEMMA CalledSlot ==
  ASSUME IfInv, StationInv, NEW i \in Slots, call = Idle, Live(i), vif_ctx' = vif_ctx,
         i \in removed => i \in removed'
  PROVE  \/ SlotInv(i)'
         \/ vif_ctx'[i] # 0 /\ Follows(i) /\ ApFollows(i) /\ BssidFollows(i)
<1>1. ~Deleting(i) /\ vif_ctx[i] # 0
  BY DEF Deleting, Idle, Live
<1> QED  BY <1>1, ActingSlot

(* What an interface follows it follows when the RPU lets go of more.      *)
LEMMA LessFollowed ==
  ASSUME NEW i, NEW s, Followed(i, s), SameAbout(i, s), s \in Entries(i)' => s \in Entries(i),
         rif'[i].stations = rif[i].stations, rif[i].leaving \subseteq rif'[i].leaving,
         \/ s \in rif'[i].leaving
         \/ s \in Entries(i)' <=> s \in Entries(i)
         \/ <<i, s>> \in missed',
         <<i, s>> \in missed => <<i, s>> \in missed'
  PROVE  Followed(i, s)'
BY DEF Followed, SameAbout

(* The RPU is told to let go of a station, which leaves later.             *)
LEMMA LetsGoStations ==
  ASSUME IfInv, StationInv, NEW i \in Slots, NEW s \in Stations, call = Idle, Live(i), NEW cmd,
         LetsGo(cmd, i, s)
  PROVE  StationInv'
<1>1. ~Deleting(i) /\ rif[i] \in RpuIf /\ rif[i].stations \subseteq Stations
  BY RifStations DEF Deleting, Idle
<1>2. PICK new : new = [rif[i] EXCEPT !.leaving = @ \cup ({s} \cap rif[i].stations)]
  OBVIOUS
<1>3. /\ new \in RpuIf /\ new.stations = rif[i].stations /\ new.want = rif[i].want
      /\ new.up = rif[i].up /\ new.type = rif[i].type /\ rif[i].leaving \subseteq new.leaving
  BY <1>1, <1>2 DEF RpuIf
<1>4. umac_cmd_cfg(TRUE, cmd, i, new) /\ UNCHANGED <<host, table, call, history>>
  BY <1>2 DEF LetsGo
<1>5. rif'[i] = new /\ (\A k \in Slots \ {i} : rif'[k] = rif[k]) /\ \A k : SameNews(k)
  <2>1. rif'[i] = new /\ OneChanged(i)
    BY <1>1, <1>3, <1>4, SentOthers
  <2> QED  BY <2>1 DEF OneChanged
<1>6. \A k \in Slots : SameHost(k) /\ SameMarks(k) /\ SameCall(k) /\ Entries(k)' = Entries(k)
  BY <1>4, HostStays, MarksStay, CallStays, SameEntries DEF table
<1>7. \A k \in Slots \ {i} : Same(k)
  BY <1>5, <1>6 DEF Same
<1>8. SlotInv(i)'
  <2>1. vif_ctx' = vif_ctx /\ ctx' = ctx /\ removed' = removed /\ TypeOf(i)' = TypeOf(i)
        /\ retyped' = retyped /\ misaimed' = misaimed
    BY <1>4 DEF host, history, TypeOf
  <2> SUFFICES ASSUME vif_ctx'[i] # 0, Follows(i), ApFollows(i), BssidFollows(i)
               PROVE  SlotInv(i)'
    BY <2>1, CalledSlot
  <2>2. ASSUME NEW u \in Stations PROVE Followed(i, u)'
    BY <1>3, <1>5, <1>6, <2>2, LessFollowed DEF Follows, SameNews, SameMarks
  <2>3. ApFollows(i)'
    BY <1>3, <1>5, <1>6, <2>1 DEF ApFollows, Down, SameCall
  <2>4. ASSUME NEW u \in Stations, Aims(i, u) PROVE Aims(i, u)'
    BY <1>5, <2>1, <2>4 DEF Aims, SameNews, SameGains
  <2>5. BssidFollows(i)'
    BY <1>1, <1>3, <1>5, <2>1, <2>4 DEF BssidFollows
  <2> QED  BY <2>2, <2>3, <2>5, StillFollows DEF Follows
<1> QED  BY <1>7, <1>8, OneSlot

(* The RPU turns to another access point by command.                       *)
LEMMA AssocStations ==
  ASSUME IfInv, StationInv, NEW i \in Slots, NEW s \in Stations, nrf_wifi_sys_fmac_assoc(i, s)
  PROVE  StationInv'
<1>1. /\ call = Idle /\ Live(i) /\ ~Deleting(i) /\ TypeOf(i) \notin ApTypes
      /\ RpuType /\ HostType /\ vif_ctx[i] # 0
  BY Typed DEF nrf_wifi_sys_fmac_assoc, Idle, Deleting, IfInv, Live
<1>2. /\ UNCHANGED <<vif_ctx, adds, num_sta, num_ap, table, call,
                     drifted, untold, removed, retyped, missed>>
      /\ ctx' = [ctx EXCEPT ![vif_ctx[i]].bssid = s]
  BY DEF nrf_wifi_sys_fmac_assoc
<1>3. PICK new : new = IF rif[i].type \in StaTypes THEN [Dropping(i) EXCEPT !.want = s] ELSE rif[i]
  OBVIOUS
<1>4. PICK sent \in BOOLEAN :
        /\ umac_cmd_cfg(sent, "ASSOCIATE", i, new)
        /\ IF sent THEN misaimed' = misaimed \ {i} /\ UNCHANGED changes
                   ELSE misaimed' = misaimed \cup {i} /\ Change
  BY <1>3 DEF nrf_wifi_sys_fmac_assoc
<1>5. /\ new \in RpuIf /\ new.type = rif[i].type /\ new.stations = rif[i].stations
      /\ rif[i].type \in StaTypes => ~new.up /\ new.leaving = rif[i].stations
      /\ rif[i].type \notin StaTypes => new = rif[i]
  <2>1. rif[i] \in RpuIf
    BY RifStations
  <2>2. CASE rif[i].type \in StaTypes
    <3>1. new = [Dropping(i) EXCEPT !.want = s]
      BY <1>3, <2>2
    <3>2. new \in RpuIf /\ new.type = rif[i].type
      BY <1>1, <3>1, DroppingType
    <3> QED  BY <2>1, <2>2, <3>1, <3>2 DEF Dropping, RpuIf
  <2>3. CASE rif[i].type \notin StaTypes
    BY <1>3, <2>1, <2>3
  <2> QED  BY <2>2, <2>3
<1>6. /\ rif'[i] = IF sent THEN new ELSE rif[i]
      /\ \A k \in Slots \ {i} : rif'[k] = rif[k]
      /\ \A k : SameNews(k)
  <2>1. (rif'[i] = IF sent THEN new ELSE rif[i]) /\ OneChanged(i)
    BY <1>1, <1>4, <1>5, CommandedOthers
  <2> QED  BY <2>1 DEF OneChanged
<1>7. \A k \in Slots : SameCall(k) /\ Entries(k)' = Entries(k)
  BY <1>2, CallStays, SameEntries DEF table
<1>8. \A k \in Slots \ {i} : SameHost(k)
  <2>1. PICK e : e = [ctx[vif_ctx[i]] EXCEPT !.bssid = s]
    OBVIOUS
  <2>2. ctx' = [ctx EXCEPT ![vif_ctx[i]] = e]
    BY <1>2, <2>1
  <2> QED  BY <1>1, <1>2, <2>2, OtherContext
<1>9. \A k \in Slots \ {i} : SameMarks(k)
  BY <1>2, <1>4 DEF SameMarks
<1>10. \A k \in Slots \ {i} : Same(k)
  BY <1>6, <1>7, <1>8, <1>9 DEF Same
<1>11. SlotInv(i)'
  <2> SUFFICES ASSUME vif_ctx'[i] # 0, Follows(i), ApFollows(i), BssidFollows(i)
               PROVE  SlotInv(i)'
    BY <1>1, <1>2, CalledSlot
  <2>1. TypeOf(i)' = TypeOf(i)
    <3>1. vif_ctx[i] \in CtxIds /\ ctx[vif_ctx[i]] \in Contexts
      BY <1>1 DEF HostType, CtxIds
    <3> QED  BY <1>1, <1>2, <3>1 DEF TypeOf, HostType, Contexts
  <2>2. ASSUME NEW u \in Stations PROVE Followed(i, u)'
    <3>1. Followed(i, u) /\ SameAbout(i, u) /\ Entries(i)' = Entries(i) /\ missed' = missed
      BY <1>2, <1>6, <1>7, <2>2 DEF Follows, SameNews
    <3>2. CASE rif'[i] = rif[i]
      BY <3>1, <3>2 DEF Followed, SameAbout
    <3>3. CASE rif'[i].stations = rif[i].stations /\ rif'[i].leaving = rif[i].stations
      BY <3>1, <3>3 DEF Followed, SameAbout
    <3> QED  BY <1>5, <1>6, <3>2, <3>3
  <2>3. ~Starting(i)'
    BY <1>1, <1>2 DEF Starting, Idle
  <2>4. ApFollows(i)'
    BY <1>1, <1>5, <1>6, <2>1, <2>3 DEF ApFollows
  <2>5. BssidFollows(i)'
    <3>1. CASE ~sent
      BY <1>4, <3>1 DEF BssidFollows
    <3>2. CASE sent
      BY <1>5, <1>6, <3>2 DEF BssidFollows, StaTypes
    <3> QED  BY <3>1, <3>2
  <2> QED  BY <2>2, <2>4, <2>5, StillFollows DEF Follows
<1> QED  BY <1>10, <1>11, OneSlot

(* An access point starts, and stays down until the flush.                 *)
LEMMA StartApStations ==
  ASSUME IfInv, StationInv, NEW i \in Slots, nrf_wifi_sys_fmac_start_ap(i)
  PROVE  StationInv'
<1>1. /\ Live(i) /\ ~Deleting(i) /\ call = Idle /\ UNCHANGED <<host, table, history>>
      /\ TypeOf(i) \in ApTypes /\ ~rif[i].up
  BY DEF nrf_wifi_sys_fmac_start_ap, Idle, Deleting
<1>2. PICK sent \in BOOLEAN : /\ umac_cmd_cfg(sent, "SET_WIPHY", i, rif[i])
                              /\ IF sent THEN call' = [op |-> "start_ap", if_idx |-> i]
                                         ELSE UNCHANGED call
  BY DEF nrf_wifi_sys_fmac_start_ap
<1>3. rif'[i] = rif[i] /\ (\A k \in Slots \ {i} : rif'[k] = rif[k]) /\ \A k : SameNews(k)
  <2>1. rif[i] \in RpuIf
    BY RifStations
  <2>2. (rif'[i] = IF sent THEN rif[i] ELSE rif[i]) /\ OneChanged(i)
    BY <1>1, <1>2, <2>1, CommandedOthers
  <2> QED  BY <2>2 DEF OneChanged
<1>4. \A k \in Slots : SameHost(k) /\ SameMarks(k) /\ Entries(k)' = Entries(k)
  BY <1>1, HostStays, MarksStay, SameEntries DEF table
<1>5. \A k \in Slots \ {i} : SameCall(k)
  BY <1>1, <1>2 DEF SameCall, Deleting, Starting, Idle
<1>6. \A k \in Slots \ {i} : Same(k)
  BY <1>3, <1>4, <1>5 DEF Same
<1>7. SlotInv(i)'
  <2>1. vif_ctx' = vif_ctx /\ ctx' = ctx /\ removed' = removed /\ TypeOf(i)' = TypeOf(i)
    BY <1>1 DEF host, history, TypeOf
  <2> SUFFICES ASSUME vif_ctx'[i] # 0, Follows(i), ApFollows(i), BssidFollows(i)
               PROVE  SlotInv(i)'
    BY <1>1, <2>1, CalledSlot
  <2>2. ASSUME NEW u \in Stations PROVE Followed(i, u)'
    BY <1>3, <1>4, <2>2, FollowedKept DEF Follows, SameNews
  <2>3. Down(i)
    BY <1>1 DEF ApFollows
  <2>4. ApFollows(i)'
    BY <1>1, <1>3, <2>1, <2>3 DEF ApFollows, Down
  <2>5. BssidFollows(i)'
    BY <1>3, <1>4, <2>1, RifStations, BssidKept DEF SameNews
  <2> QED  BY <2>2, <2>4, <2>5, StillFollows DEF Follows
<1> QED  BY <1>6, <1>7, OneSlot

(* Its entries go while it is down, and then it is up.                     *)
LEMMA StartApFlushStations ==
  ASSUME IfInv, StationInv, StartApFlush
  PROVE  StationInv'
<1>1. PICK i : i = call.if_idx
  OBVIOUS
<1>2. TableType /\ CallType
  BY Typed DEF IfInv
<1>3. i \in Slots /\ Live(i) /\ ~Deleting(i) /\ Starting(i) /\ vif_ctx[i] # 0
  BY <1>1, <1>2 DEF StartApFlush, CallType, IfInv, CallLive, Deleting, Starting, Live
<1>4. call' = Idle /\ UNCHANGED <<host, history>> /\ nrf_wifi_fmac_peers_flush(i)
  BY <1>1 DEF StartApFlush
<1>5. PICK new : new = [rif[i] EXCEPT !.up = rif[i].type \in ApTypes]
  OBVIOUS
<1>6. /\ new \in RpuIf /\ new.type = rif[i].type /\ new.stations = rif[i].stations
      /\ new.leaving = rif[i].leaving /\ new.want = rif[i].want
      /\ new.up => rif[i].type \in ApTypes
  <2>1. rif[i] \in RpuIf
    BY <1>3, RifStations
  <2>2. (rif[i].type \in ApTypes) = TRUE \/ (rif[i].type \in ApTypes) = FALSE
    OBVIOUS
  <2>3. CASE rif[i].type \in ApTypes
    <3>1. new = [rif[i] EXCEPT !.up = TRUE]
      BY <1>5, <2>2, <2>3
    <3> QED  BY <2>1, <2>3, <3>1 DEF RpuIf
  <2>4. CASE rif[i].type \notin ApTypes
    <3>1. new = [rif[i] EXCEPT !.up = FALSE]
      BY <1>5, <2>2, <2>4
    <3> QED  BY <2>1, <2>4, <3>1 DEF RpuIf
  <2> QED  BY <2>3, <2>4
<1>7. PICK sent \in BOOLEAN : umac_cmd_cfg(sent, "START_AP", i, new)
  BY <1>1, <1>5 DEF StartApFlush
<1>8. /\ rif'[i] = new \/ rif'[i] = rif[i]
      /\ \A k \in Slots \ {i} : rif'[k] = rif[k]
      /\ \A k : SameNews(k)
  <2>1. (rif'[i] = IF sent THEN new ELSE rif[i]) /\ OneChanged(i)
    BY <1>3, <1>6, <1>7, CommandedOthers
  <2> QED  BY <2>1 DEF OneChanged
<1>9. \A k : SameHost(k) /\ SameMarks(k)
  BY <1>4, HostStays, MarksStay
<1>10. Entries(i)' = {} /\ \A k \in Slots \ {i} : Entries(k)' = Entries(k)
  BY <1>2, <1>3, <1>4, Flushed
<1>11. \A k \in Slots : SameCall(k) /\ ~Starting(k)'
  BY <1>1, <1>3, <1>4 DEF SameCall, Deleting, Starting, Idle
<1>12. \A k \in Slots \ {i} : Same(k)
  BY <1>8, <1>9, <1>10, <1>11 DEF Same
<1>13. SlotInv(i)'
  <2>1. vif_ctx' = vif_ctx /\ ctx' = ctx /\ removed' = removed /\ TypeOf(i)' = TypeOf(i)
    BY <1>4 DEF host, history, TypeOf
  <2> SUFFICES ASSUME Follows(i), ApFollows(i), BssidFollows(i)
               PROVE  SlotInv(i)'
    BY <1>3, <2>1, ActingSlot
  <2>2. /\ rif'[i].stations = rif[i].stations /\ rif'[i].leaving = rif[i].leaving
        /\ rif'[i].want = rif[i].want /\ rif'[i].type = rif[i].type
    BY <1>6, <1>8
  <2>3. Down(i) /\ ~rif[i].up
    BY <1>3 DEF ApFollows
  <2>4. ASSUME NEW u \in Stations PROVE Followed(i, u)'
    <3>1. Followed(i, u) /\ SameAbout(i, u)
      BY <1>8, <2>4 DEF Follows, SameNews
    <3> QED  BY <1>10, <2>2, <2>3, <3>1 DEF Followed, SameAbout, Down
  <2>5. ApFollows(i)'
    BY <1>3, <1>6, <1>8, <1>11, <2>2, <2>3 DEF ApFollows, Down
  <2>6. BssidFollows(i)'
    BY <2>2, <2>3 DEF BssidFollows, Down
  <2> QED  BY <1>3, <2>1, <2>4, <2>5, <2>6, StillFollows DEF Follows
<1> QED  BY <1>3, <1>12, <1>13, OneSlot

(* What dropping every client of an interface leaves of it.                *)
LEMMA DroppingFields ==
  ASSUME IfInv, NEW i \in Slots
  PROVE  /\ Dropping(i) \in RpuIf /\ Dropping(i).stations = rif[i].stations
         /\ Dropping(i).leaving = rif[i].stations /\ Dropping(i).want = "none" /\ ~Dropping(i).up
<1>1. rif[i] \in RpuIf
  BY RifStations
<1> QED  BY <1>1 DEF Dropping, RpuIf

(* An access point stops: its entries go, and its clients are to leave.    *)
LEMMA StopApStations ==
  ASSUME IfInv, StationInv, NEW i \in Slots, nrf_wifi_sys_fmac_stop_ap(i)
  PROVE  StationInv'
<1>1. TableType /\ rif[i].stations \subseteq Stations
  BY Typed, RifStations DEF IfInv
<1>2. /\ Live(i) /\ ~Deleting(i) /\ call = Idle /\ nrf_wifi_fmac_peers_flush(i)
      /\ UNCHANGED <<host, call, drifted, untold, removed, retyped, misaimed>>
  BY DEF nrf_wifi_sys_fmac_stop_ap, Idle, Deleting
<1>3. PICK sent \in BOOLEAN :
        /\ umac_cmd_cfg(sent, "STOP_AP", i, Dropping(i))
        /\ IF sent THEN UNCHANGED <<missed, changes>>
           ELSE missed' = missed \cup ({i} \X rif[i].stations) /\ Change
  BY DEF nrf_wifi_sys_fmac_stop_ap
<1>4. /\ rif'[i] = IF sent THEN Dropping(i) ELSE rif[i]
      /\ \A k \in Slots \ {i} : rif'[k] = rif[k]
      /\ \A k : SameNews(k)
  <2>1. Dropping(i) \in RpuIf
    BY DroppingFields
  <2>2. (rif'[i] = IF sent THEN Dropping(i) ELSE rif[i]) /\ OneChanged(i)
    BY <1>2, <1>3, <2>1, CommandedOthers
  <2> QED  BY <2>2 DEF OneChanged
<1>5. /\ \A k, s : <<k, s>> \in missed => <<k, s>> \in missed'
      /\ ~sent => \A s \in rif[i].stations : <<i, s>> \in missed'
  BY <1>3
<1>6. \A k \in Slots : SameHost(k) /\ SameMarks(k) /\ SameCall(k)
  <2>1. \A k : SameHost(k) /\ SameCall(k)
    BY <1>2, HostStays, CallStays
  <2> QED  BY <1>2, <1>5, <2>1 DEF SameMarks
<1>7. Entries(i)' = {} /\ \A k \in Slots \ {i} : Entries(k)' = Entries(k)
  BY <1>1, <1>2, Flushed
<1>8. \A k \in Slots \ {i} : Same(k)
  BY <1>4, <1>6, <1>7 DEF Same
<1>9. SlotInv(i)'
  <2>1. vif_ctx' = vif_ctx /\ ctx' = ctx /\ removed' = removed /\ TypeOf(i)' = TypeOf(i)
    BY <1>2 DEF host, TypeOf
  <2> SUFFICES ASSUME vif_ctx'[i] # 0, Follows(i), ApFollows(i), BssidFollows(i)
               PROVE  SlotInv(i)'
    BY <1>2, <2>1, CalledSlot
  <2>2. ~Starting(i)'
    BY <1>2 DEF Starting, Idle
  <2>3. CASE sent
    <3>1. /\ rif'[i].stations = rif[i].stations /\ rif'[i].leaving = rif[i].stations
          /\ rif'[i].want = "none" /\ ~rif'[i].up
      BY <1>4, <2>3, DroppingFields
    <3>2. ASSUME NEW u \in Stations PROVE Followed(i, u)'
      <4>1. Followed(i, u) /\ SameAbout(i, u)
        BY <1>4, <3>2 DEF Follows, SameNews
      <4> QED  BY <1>7, <3>1, <4>1 DEF Followed, SameAbout
    <3>3. ApFollows(i)' /\ BssidFollows(i)'
      BY <2>2, <3>1 DEF ApFollows, BssidFollows, Down
    <3> QED  BY <3>2, <3>3, StillFollows DEF Follows
  <2>4. CASE ~sent
    <3>1. rif'[i] = rif[i]
      BY <1>4, <2>4
    <3>2. ASSUME NEW u \in Stations PROVE Followed(i, u)'
      <4>1. Followed(i, u) /\ SameAbout(i, u)
        BY <1>4, <3>2 DEF Follows, SameNews
      <4> QED  BY <1>5, <1>7, <2>4, <3>1, <4>1 DEF Followed, SameAbout
    <3>3. ApFollows(i)'
      BY <2>1, <2>2, <3>1, ApKept
    <3>4. BssidFollows(i)'
      BY <1>1, <1>4, <1>6, <2>1, <3>1, BssidKept DEF SameNews
    <3> QED  BY <3>2, <3>3, <3>4, StillFollows DEF Follows
  <2> QED  BY <2>3, <2>4
<1> QED  BY <1>8, <1>9, OneSlot


(* A step that does not touch the slots, their stations or the table.      *)
LEMMA NothingStations ==
  ASSUME IfInv, StationInv, UNCHANGED <<host, table, call, history, rif>>,
         \A k \in Slots : SameNews(k)
  PROVE  StationInv'
<1>1. \A k \in Slots : SameHost(k) /\ SameMarks(k) /\ SameCall(k) /\ Entries(k)' = Entries(k)
  BY HostStays, MarksStay, CallStays, SameEntries DEF table
<1>2. \A k \in Slots : Same(k)
  BY <1>1 DEF Same
<1> QED  BY <1>2, SlotKept DEF StationInv

(* The other commands, one by one.                                         *)
LEMMA SetModeStations ==
  ASSUME IfInv, StationInv, NEW i \in Slots, NEW m \in RawModes, nrf_wifi_sys_fmac_set_mode(i, m)
  PROVE  StationInv'
<1>1. /\ Live(i) /\ ~Deleting(i) /\ call = Idle /\ RpuType /\ HistoryType
      /\ UNCHANGED <<host, table, call, drifted, untold, removed, retyped, misaimed, missed>>
  BY Typed DEF nrf_wifi_sys_fmac_set_mode, Idle, Deleting, IfInv
<1>2. rif' = rif /\ \A k \in Slots : SameNews(k)
  <2>1. CASE UNCHANGED <<rpu, changes>>
    BY <2>1, NewsUnchanged DEF rpu
  <2>2. CASE ~UNCHANGED <<rpu, changes>>
    <3>1. PICK answer \in {m, "bad"} :
            /\ Command("RAW_CONFIG_MODE", i, rif[i])
            /\ events' = Append(events, [ev |-> "MODE_SET", if_idx |-> i, arg |-> answer])
      BY <2>2 DEF nrf_wifi_sys_fmac_set_mode
    <3>2. rif' = [rif EXCEPT ![i] = rif[i]]
      BY <1>1, <3>1, Obeyed
    <3>3. PICK x : x = [ev |-> "MODE_SET", if_idx |-> i, arg |-> answer]
      OBVIOUS
    <3>4. x \in Event /\ x.ev = "MODE_SET"
      BY <3>3 DEF Event
    <3>5. \A k \in Slots : SameNews(k)
      BY <1>1, <3>1, <3>3, <3>4, NewsOfMode
    <3> QED  BY <1>1, <3>2, <3>5 DEF RpuType
  <2> QED  BY <2>1, <2>2
<1>3. \A k \in Slots : SameHost(k) /\ SameCall(k) /\ Entries(k)' = Entries(k)
  BY <1>1, HostStays, CallStays, SameEntries DEF table
<1>4. \A k \in Slots : SameMarks(k)
  BY <1>1 DEF SameMarks
<1>5. \A k \in Slots : Same(k)
  BY <1>2, <1>3, <1>4 DEF Same
<1> QED  BY <1>5, SlotKept DEF StationInv

LEMMA ChgVifStations ==
  ASSUME IfInv, StationInv, NEW i \in Slots, NEW t \in IfTypes, nrf_wifi_sys_fmac_chg_vif(i, t)
  PROVE  StationInv' \/ UNCHANGED vars
<1>1. /\ Live(i) /\ ~Deleting(i) /\ call = Idle /\ UNCHANGED <<table, call>>
      /\ vif_ctx[i] # 0 /\ t \in Types
  BY DEF nrf_wifi_sys_fmac_chg_vif, Idle, Deleting, Live, Types
<1>2. PICK new : new = [Dropping(i) EXCEPT !.type = t]
  OBVIOUS
<1>3. \/ UNCHANGED <<host, rpu, history>>
      \/ /\ umac_cmd_cfg(TRUE, "SET_INTERFACE", i, new)
         /\ ctx' = [ctx EXCEPT ![vif_ctx[i]].if_type = t]
         /\ UNCHANGED <<vif_ctx, removed, retyped, misaimed, missed>>
  BY <1>2 DEF nrf_wifi_sys_fmac_chg_vif, nrf_wifi_fmac_vif_update_if_type
<1>4. CASE UNCHANGED <<host, rpu, history>>
  BY <1>1, <1>4 DEF vars
<1>5. CASE ~UNCHANGED <<host, rpu, history>>
  <2>1. /\ umac_cmd_cfg(TRUE, "SET_INTERFACE", i, new)
        /\ ctx' = [ctx EXCEPT ![vif_ctx[i]].if_type = t]
        /\ UNCHANGED <<vif_ctx, removed, retyped, misaimed, missed>>
    BY <1>3, <1>5
  <2>2. /\ new \in RpuIf /\ new.stations = rif[i].stations /\ new.leaving = rif[i].stations
        /\ new.want = "none" /\ ~new.up
    <3>1. /\ Dropping(i) \in RpuIf /\ Dropping(i).stations = rif[i].stations
          /\ Dropping(i).leaving = rif[i].stations /\ Dropping(i).want = "none" /\ ~Dropping(i).up
      BY DroppingFields
    <3> HIDE DEF Dropping
    <3> QED  BY <1>1, <1>2, <3>1 DEF RpuIf
  <2>3. rif'[i] = new /\ (\A k \in Slots \ {i} : rif'[k] = rif[k]) /\ \A k : SameNews(k)
    <3>1. umac_cmd_cfg(TRUE, "SET_INTERFACE", i, new) /\ new \in RpuIf
      BY <2>1, <2>2
    <3>2. rif'[i] = new /\ OneChanged(i)
      BY <1>1, <3>1, SentOthers
    <3> QED  BY <3>2 DEF OneChanged
  <2>4. \A k \in Slots \ {i} : SameHost(k)
    <3>1. PICK e : e = [ctx[vif_ctx[i]] EXCEPT !.if_type = t]
      OBVIOUS
    <3>2. ctx' = [ctx EXCEPT ![vif_ctx[i]] = e]
      BY <2>1, <3>1
    <3> QED  BY <1>1, <2>1, <3>2, OtherContext
  <2>5. \A k \in Slots : SameMarks(k) /\ SameCall(k) /\ Entries(k)' = Entries(k)
    <3>1. \A k : SameMarks(k)
      BY <2>1 DEF SameMarks
    <3> QED  BY <1>1, <3>1, CallStays, SameEntries DEF table
  <2>6. \A k \in Slots \ {i} : Same(k)
    BY <2>3, <2>4, <2>5 DEF Same
  <2>7. SlotInv(i)'
    <3> SUFFICES ASSUME vif_ctx'[i] # 0, Follows(i) PROVE SlotInv(i)'
      BY <1>1, <2>1, CalledSlot
    <3>1. ASSUME NEW u \in Stations PROVE Followed(i, u)'
      <4>1. Followed(i, u) /\ SameAbout(i, u)
        BY <2>3, <3>1 DEF Follows, SameNews
      <4> QED  BY <2>2, <2>3, <2>5, <4>1 DEF Followed, SameAbout
    <3>2. ~Starting(i)'
      BY <1>1 DEF Starting, Idle
    <3>3. ApFollows(i)' /\ BssidFollows(i)'
      BY <2>2, <2>3, <3>2 DEF ApFollows, BssidFollows, Down
    <3> QED  BY <3>1, <3>3, StillFollows DEF Follows
  <2> QED  BY <2>6, <2>7, OneSlot
<1> QED  BY <1>4, <1>5

LEMMA AddVifStations ==
  ASSUME IfInv, StationInv, NEW t \in IfTypes, nrf_wifi_sys_fmac_add_vif(t)
  PROVE  StationInv' \/ UNCHANGED vars
<1>1. TypeOK /\ HostType /\ RpuType
  BY Typed DEF IfInv
<1>2. call = Idle /\ adds < MAX_ADDS /\ UNCHANGED <<table, call>>
  BY DEF nrf_wifi_sys_fmac_add_vif
<1>3. PICK i, c : i = nrf_wifi_fmac_vif_idx_get /\ c = adds + 1
  OBVIOUS
<1>4. \/ UNCHANGED <<host, rpu, history>>
      \/ /\ i # MAX_NUM_VIFS
         /\ vif_ctx' = [vif_ctx EXCEPT ![i] = c]
         /\ ctx' = [ctx EXCEPT ![c] = [live |-> TRUE, if_type |-> t, bssid |-> "none"]]
         /\ rif' = IF i # 0 THEN [rif EXCEPT ![i].type = t] ELSE rif
         /\ retyped' = retyped \ {i}
         /\ UNCHANGED <<events, removed, misaimed, missed>>
  BY <1>3 DEF nrf_wifi_sys_fmac_add_vif
<1>5. CASE UNCHANGED <<host, rpu, history>>
  BY <1>2, <1>5 DEF vars
<1>6. CASE ~UNCHANGED <<host, rpu, history>>
  <2>1. /\ i \in Slots /\ vif_ctx[i] = 0
        /\ vif_ctx' = [vif_ctx EXCEPT ![i] = c]
        /\ ctx' = [ctx EXCEPT ![c] = [live |-> TRUE, if_type |-> t, bssid |-> "none"]]
        /\ rif' = IF i # 0 THEN [rif EXCEPT ![i].type = t] ELSE rif
        /\ retyped' = retyped \ {i}
        /\ UNCHANGED <<events, removed, misaimed, missed>>
    BY <1>1, <1>3, <1>4, <1>6, FirstSlot
  <2>2. \A j \in Slots : vif_ctx[j] # c
    BY <1>1, <1>3 DEF IfInv, HandedOut, HostType
  <2>3. vif_ctx'[i] = c /\ c # 0 /\ \A j \in Slots \ {i} : vif_ctx'[j] = vif_ctx[j]
    BY <1>1, <1>3, <2>1 DEF HostType
  <2>4. \A k \in Slots \ {i} : SameHost(k)
    <3>1. PICK e : e = [live |-> TRUE, if_type |-> t, bssid |-> "none"]
      OBVIOUS
    <3>2. ctx' = [ctx EXCEPT ![c] = e]
      BY <2>1, <3>1
    <3>3. ASSUME NEW k \in Slots \ {i}, vif_ctx[k] # 0 PROVE ctx'[vif_ctx[k]] = ctx[vif_ctx[k]]
      <4>1. vif_ctx[k] \in CtxIds
        BY <1>1, <3>3 DEF HostType, CtxIds
      <4> QED  BY <1>1, <2>2, <3>2, <4>1 DEF HostType
    <3> QED  BY <2>3, <3>3 DEF SameHost
  <2>5. \A k \in Slots \ {i} : SameMarks(k)
    BY <2>1 DEF SameMarks
  <2>6. \A k \in Slots : SameCall(k) /\ Entries(k)' = Entries(k) /\ SameNews(k)
    BY <1>2, <2>1, CallStays, SameEntries, NewsUnchanged DEF table
  <2>7. /\ \A k \in Slots \ {i} : rif'[k] = rif[k]
        /\ rif'[i].stations = rif[i].stations /\ rif'[i].leaving = rif[i].leaving
        /\ rif'[i].want = rif[i].want /\ rif'[i].up = rif[i].up
    <3>1. rif[i] \in RpuIf
      BY <2>1, RifStations
    <3> QED  BY <1>1, <2>1, <3>1 DEF RpuType, RpuIf
  <2>8. \A k \in Slots \ {i} : Same(k)
    BY <2>4, <2>5, <2>6, <2>7 DEF Same
  <2>9. SlotInv(i)'
    <3>1. CASE i \in removed
      BY <2>1, <3>1, GoneSlot
    <3>2. CASE i \notin removed
      <4>1. Unused(i)
        BY <2>1, <3>2 DEF StationInv, SlotInv
      <4>2. ASSUME NEW u \in Stations PROVE Followed(i, u)'
        <5>1. NoNews(i, u) /\ rif[i].stations = {} /\ Entries(i) = {}
          BY <4>1, <4>2 DEF Unused
        <5>2. ~LastNew(i, u) /\ ~LastDel(i, u)
          BY <5>1, NoLast
        <5>3. SameNews(i) /\ Entries(i)' = Entries(i)
          BY <2>1, <2>6
        <5>4. SameAbout(i, u)
          BY <4>2, <5>3 DEF SameNews
        <5> QED  BY <2>7, <5>1, <5>2, <5>3, <5>4 DEF Followed, SameAbout
      <4>3. ~Starting(i)'
        BY <1>2 DEF Starting, Idle
      <4>4. ApFollows(i)' /\ BssidFollows(i)'
        BY <2>7, <4>1, <4>3 DEF Unused, ApFollows, BssidFollows, Down
      <4> QED  BY <2>3, <4>2, <4>4, StillFollows DEF Follows
    <3> QED  BY <3>1, <3>2
  <2> QED  BY <2>1, <2>8, <2>9, OneSlot
<1> QED  BY <1>5, <1>6

(* An interface goes: whatever its stations, nothing is promised of it.    *)
LEMMA FreedStations ==
  ASSUME IfInv, StationInv, NEW i \in Slots, Live(i), ctx' = [ctx EXCEPT ![vif_ctx[i]] = Freed],
         vif_ctx' = vif_ctx \/ vif_ctx' = [vif_ctx EXCEPT ![i] = 0],
         removed' = removed \cup {i}, UNCHANGED <<table, rif, events, retyped, misaimed, missed>>,
         \A k \in Slots \ {i} : SameCall(k)
  PROVE  StationInv'
<1>1. \A k \in Slots \ {i} : SameHost(k)
  BY OtherContext DEF Live
<1>2. \A k : SameMarks(k)
  BY DEF SameMarks
<1>3. \A k \in Slots : Entries(k)' = Entries(k) /\ SameNews(k)
  BY SameEntries, NewsUnchanged DEF table
<1>4. \A k \in Slots \ {i} : Same(k)
  BY <1>1, <1>2, <1>3 DEF Same
<1>5. SlotInv(i)'
  BY GoneSlot
<1> QED  BY <1>4, <1>5, OneSlot

LEMMA ClearCtxStations ==
  ASSUME IfInv, StationInv, NEW i \in Slots, nrf_wifi_fmac_vif_clear_ctx(i)
  PROVE  StationInv'
<1>1. /\ Live(i) /\ ctx' = [ctx EXCEPT ![vif_ctx[i]] = Freed]
      /\ vif_ctx' = [vif_ctx EXCEPT ![i] = 0] /\ removed' = removed \cup {i}
      /\ UNCHANGED <<table, call, rpu, retyped, misaimed, missed>>
  BY DEF nrf_wifi_fmac_vif_clear_ctx
<1>2. \A k : SameCall(k)
  BY <1>1, CallStays
<1>3. UNCHANGED <<rif, events>>
  BY <1>1 DEF rpu
<1> QED  BY <1>1, <1>2, <1>3, FreedStations

LEMMA DelVifStations ==
  ASSUME IfInv, StationInv, NEW i \in Slots, nrf_wifi_sys_fmac_del_vif(i)
  PROVE  StationInv' \/ UNCHANGED vars
<1>1. Live(i) /\ ~Deleting(i) /\ call = Idle /\ UNCHANGED table /\ vif_ctx[i] # 0
  BY DEF nrf_wifi_sys_fmac_del_vif, Idle, Deleting, Live
<1>2. CASE UNCHANGED <<host, call, rpu, history>>
  BY <1>1, <1>2 DEF vars
<1>3. CASE /\ call' = [op |-> "del_vif", if_idx |-> i]
           /\ IF i # 0 THEN umac_cmd_cfg(TRUE, "DEL_INTERFACE", i, NoInterface) ELSE UNCHANGED rpu
           /\ UNCHANGED <<host, drifted, untold, removed, retyped, misaimed, missed>>
  <2>1. (\A k \in Slots \ {i} : rif'[k] = rif[k]) /\ \A k : SameNews(k)
    <3>1. CASE i # 0
      <4>1. NoInterface \in RpuIf
        BY DEF NoInterface, RpuIf
      <4>2. umac_cmd_cfg(TRUE, "DEL_INTERFACE", i, NoInterface)
        BY <1>3, <3>1
      <4>3. OneChanged(i)
        BY <1>1, <4>1, <4>2, SentOthers
      <4> QED  BY <4>3 DEF OneChanged
    <3>2. CASE i = 0
      BY <1>3, <3>2, NewsUnchanged DEF rpu
    <3> QED  BY <3>1, <3>2
  <2>2. \A k : SameHost(k) /\ SameMarks(k)
    <3>1. \A k : SameMarks(k)
      BY <1>3 DEF SameMarks
    <3> QED  BY <1>3, <3>1, HostStays
  <2>3. \A k \in Slots \ {i} : SameCall(k)
    BY <1>1, <1>3 DEF SameCall, Deleting, Starting, Idle
  <2>4. \A k : Entries(k)' = Entries(k)
    BY <1>1, SameEntries DEF table
  <2>5. \A k \in Slots \ {i} : Same(k)
    BY <2>1, <2>2, <2>3, <2>4 DEF Same
  <2>6. SlotInv(i)'
    <3>1. vif_ctx'[i] # 0 /\ Deleting(i)'
      BY <1>1, <1>3 DEF Deleting, host
    <3> QED  BY <3>1, GoneSlot
  <2> QED  BY <2>5, <2>6, OneSlot
<1>4. CASE /\ ctx' = [ctx EXCEPT ![vif_ctx[i]] = Freed] /\ removed' = removed \cup {i}
           /\ UNCHANGED <<vif_ctx, call, rpu, retyped, misaimed, missed>>
  <2>1. \A k : SameCall(k)
    BY <1>4, CallStays
  <2>2. UNCHANGED <<rif, events>>
    BY <1>4 DEF rpu
  <2> QED  BY <1>1, <1>4, <2>1, <2>2, FreedStations
<1> QED  BY <1>2, <1>3, <1>4 DEF nrf_wifi_sys_fmac_del_vif

LEMMA DelVifFreeStations ==
  ASSUME IfInv, StationInv, DelVifFree
  PROVE  StationInv'
<1>1. PICK i : i = call.if_idx
  OBVIOUS
<1>2. i \in Slots /\ Live(i) /\ Deleting(i)
  BY <1>1, Typed DEF DelVifFree, CallType, IfInv, CallLive, Deleting
<1>3. /\ ctx' = [ctx EXCEPT ![vif_ctx[i]] = Freed] /\ removed' = removed \cup {i} /\ call' = Idle
      /\ UNCHANGED <<vif_ctx, table, rpu, retyped, misaimed, missed>>
  BY <1>1 DEF DelVifFree
<1>4. \A k \in Slots \ {i} : SameCall(k)
  BY <1>1, <1>3 DEF SameCall, Deleting, Starting, Idle
<1>5. UNCHANGED <<rif, events>>
  BY <1>3 DEF rpu
<1> QED  BY <1>2, <1>3, <1>4, <1>5, FreedStations


LEMMA ConnectNewStations ==
  ASSUME IfInv, IfInv', StationInv, NEW i \in Slots, NEW s \in Stations,
         umac_event_connect_new(i, s)
  PROVE  StationInv'
<1>1. RpuType /\ TableType /\ TableType' /\ HostType /\ rif[i].stations \subseteq Stations
  <2>1. RpuType /\ TableType /\ HostType
    BY Typed DEF IfInv
  <2>2. TableType'
    BY DEF IfInv, TypeOK, TableType
  <2> QED  BY <2>1, <2>2, RifStations
<1>2. /\ events # <<>> /\ Head(events) = New(i, s) /\ events' = Tail(events)
      /\ UNCHANGED <<vif_ctx, call, rif, removed, retyped, misaimed>>
  BY DEF umac_event_connect_new, umac_event_ctrl_process, New
<1>3. /\ ~NoNews(i, s) /\ ~NoGain(i)
      /\ LastNew(i, s) <=> LastNew(i, s)' \/ NoNews(i, s)'
      /\ LastDel(i, s) <=> LastDel(i, s)'
      /\ \A u \in Stations : LastGain(i, u) <=> LastGain(i, u)' \/ (u = s /\ NoGain(i)')
      /\ \A u \in Stations \ {s} : SameAbout(i, u)
      /\ \A k \in Slots \ {i} : SameNews(k)
  BY <1>1, <1>2, NewTaken
<1>4. ~Unused(i)
  BY <1>3 DEF Unused
<1>5. \A k \in Slots : SameCall(k)
  BY <1>2, CallStays
<1>6. CASE vif_ctx[i] = 0
  <2>1. ctx' = ctx /\ peers' = peers /\ missed' = missed
    BY <1>6 DEF umac_event_connect_new
  <2>2. \A k : SameMarks(k) /\ SameHost(k)
    BY <1>2, <2>1 DEF SameMarks, SameHost
  <2>3. \A k : Entries(k)' = Entries(k)
    BY <2>1, SameEntries
  <2>4. \A k \in Slots \ {i} : Same(k)
    BY <1>2, <1>3, <1>5, <2>2, <2>3 DEF Same
  <2>5. SlotInv(i)'
    <3>1. i \in removed
      BY <1>4, <1>6 DEF StationInv, SlotInv
    <3> QED  BY <1>2, <3>1, GoneSlot
  <2> QED  BY <2>4, <2>5, OneSlot
<1>7. CASE vif_ctx[i] # 0
  <2>1. /\ s \in Entries(i)' \/ <<i, s>> \in missed'
        /\ \A u \in Stations \ {s} : u \in Entries(i)' <=> u \in Entries(i)
        /\ \A k \in Slots \ {i} : Entries(k)' = Entries(k)
        /\ \A k, u : <<k, u>> # <<i, s>> /\ <<k, u>> \in missed => <<k, u>> \in missed'
    BY <1>1, <1>7, NewEntered
  <2>2. ctx' = IF Live(i) /\ TypeOf(i) = "STATION"
                THEN [ctx EXCEPT ![vif_ctx[i]].bssid = s]
                ELSE ctx
    BY <1>7 DEF umac_event_connect_new
  <2>3. \A k \in Slots \ {i} : SameHost(k)
    <3>1. CASE ctx' = ctx
      BY <1>2, <3>1 DEF SameHost
    <3>2. CASE ctx' # ctx
      <4>1. PICK e : e = [ctx[vif_ctx[i]] EXCEPT !.bssid = s]
        OBVIOUS
      <4>2. ctx' = [ctx EXCEPT ![vif_ctx[i]] = e]
        BY <2>2, <3>2, <4>1
      <4> QED  BY <1>2, <1>7, <4>2, OtherContext
    <3> QED  BY <3>1, <3>2
  <2>4. \A k \in Slots \ {i} : SameMarks(k)
    BY <1>2, <2>1 DEF SameMarks
  <2>5. \A k \in Slots \ {i} : Same(k)
    BY <1>2, <1>3, <1>5, <2>1, <2>3, <2>4 DEF Same
  <2>6. SlotInv(i)'
    <3> SUFFICES ASSUME Live(i), Follows(i), ApFollows(i), BssidFollows(i)
                 PROVE  SlotInv(i)'
      BY <1>2, <1>7, ActingSlot DEF Deleting
    <3>1. vif_ctx[i] \in CtxIds /\ ctx[vif_ctx[i]] \in Contexts
      BY <1>1, <1>7 DEF HostType, CtxIds
    <3>2. TypeOf(i)' = TypeOf(i) /\ (TypeOf(i) = "STATION" => ctx'[vif_ctx'[i]].bssid = s)
      <4>1. vif_ctx' = vif_ctx /\ ctx \in [CtxIds -> Contexts]
        BY <1>1, <1>2 DEF HostType
      <4>2. CASE TypeOf(i) # "STATION"
        BY <2>2, <4>1, <4>2 DEF TypeOf
      <4>3. CASE TypeOf(i) = "STATION"
        <5>1. ctx' = [ctx EXCEPT ![vif_ctx[i]].bssid = s]
          BY <2>2, <4>3
        <5>2. ctx'[vif_ctx[i]].if_type = ctx[vif_ctx[i]].if_type /\ ctx'[vif_ctx[i]].bssid = s
          BY <3>1, <4>1, <5>1 DEF Contexts
        <5> QED  BY <4>1, <5>2 DEF TypeOf
      <4> QED  BY <4>2, <4>3
    <3>3. Followed(i, s)'
      <4>1. Followed(i, s)
        BY DEF Follows
      <4> QED  BY <1>2, <1>3, <2>1, <4>1 DEF Followed
    <3>4. ASSUME NEW u \in Stations \ {s} PROVE Followed(i, u)'
      <4>1. Followed(i, u) /\ SameAbout(i, u) /\ (u \in Entries(i)' <=> u \in Entries(i))
        BY <1>3, <2>1, <3>4 DEF Follows
      <4>2. <<i, u>> \in missed => <<i, u>> \in missed'
        BY <2>1, <3>4
      <4> QED  BY <1>2, <4>1, <4>2 DEF Followed, SameAbout
    <3>5. ApFollows(i)'
      BY <1>2, <1>5, <3>2, ApKept DEF SameCall
    <3>6. BssidFollows(i)'
      <4> SUFFICES ASSUME i \notin retyped \cup misaimed, TypeOf(i) = "STATION",
                          rif[i].type = "STATION", NEW u \in rif[i].stations \ rif[i].leaving
                   PROVE  Aims(i, u)'
        BY <1>2, <3>2 DEF BssidFollows
      <4>1. u \in Stations /\ LastGain(i, u)
        BY <1>1, <1>3 DEF BssidFollows, Aims
      <4> QED  BY <1>3, <3>2, <4>1 DEF Aims
    <3> QED  BY <1>2, <1>7, <3>3, <3>4, <3>5, <3>6, StillFollows DEF Follows
  <2> QED  BY <2>5, <2>6, OneSlot
<1> QED  BY <1>6, <1>7

LEMMA ConnectDelStations ==
  ASSUME IfInv, OneEntry, StationInv, NEW i \in Slots, NEW s \in Stations,
         umac_event_connect_del(i, s)
  PROVE  StationInv'
<1>1. RpuType /\ TableType /\ rif[i].stations \subseteq Stations
  BY Typed, RifStations DEF IfInv
<1>2. /\ events # <<>> /\ Head(events) = Del(i, s) /\ events' = Tail(events)
      /\ missed' = missed \ {<<i, s>>}
      /\ UNCHANGED <<host, call, rif, removed, retyped, misaimed>>
  BY DEF umac_event_connect_del, umac_event_ctrl_process, Del
<1>3. /\ ~NoNews(i, s) /\ SameGains(i)
      /\ LastNew(i, s) <=> LastNew(i, s)'
      /\ LastDel(i, s) <=> LastDel(i, s)' \/ NoNews(i, s)'
      /\ \A u \in Stations \ {s} : SameAbout(i, u)
      /\ \A k \in Slots \ {i} : SameNews(k)
  BY <1>1, <1>2, DelTaken
<1>4. /\ vif_ctx[i] # 0 => s \notin Entries(i)'
      /\ \A u \in Stations \ {s} : u \in Entries(i)' <=> u \in Entries(i)
      /\ \A k \in Slots \ {i} : Entries(k)' = Entries(k)
  BY <1>1, DelRemoved
<1>5. \A k : SameCall(k) /\ SameHost(k)
  BY <1>2, CallStays, HostStays
<1>6. \A k \in Slots \ {i} : SameMarks(k)
  BY <1>2 DEF SameMarks
<1>7. \A k \in Slots \ {i} : Same(k)
  BY <1>2, <1>3, <1>4, <1>5, <1>6 DEF Same
<1>8. SlotInv(i)'
  <2>1. ~Unused(i)
    BY <1>3 DEF Unused
  <2>2. vif_ctx' = vif_ctx /\ ctx' = ctx /\ TypeOf(i)' = TypeOf(i)
    BY <1>2 DEF host, TypeOf
  <2> SUFFICES ASSUME vif_ctx[i] # 0, Follows(i), ApFollows(i), BssidFollows(i)
               PROVE  SlotInv(i)'
    BY <1>2, <2>1, <2>2, ActingSlot DEF Deleting
  <2>3. Followed(i, s)'
    <3>1. Followed(i, s)
      BY DEF Follows
    <3> QED  BY <1>2, <1>3, <1>4, <3>1 DEF Followed
  <2>4. ASSUME NEW u \in Stations \ {s} PROVE Followed(i, u)'
    <3>1. Followed(i, u) /\ SameAbout(i, u) /\ (u \in Entries(i)' <=> u \in Entries(i))
      BY <1>3, <1>4, <2>4 DEF Follows
    <3>2. <<i, u>> \in missed => <<i, u>> \in missed'
      BY <1>2, <2>4
    <3> QED  BY <1>2, <3>1, <3>2 DEF Followed, SameAbout
  <2>5. ApFollows(i)'
    BY <1>2, <1>5, <2>2, ApKept DEF SameCall
  <2>6. ASSUME NEW u \in Stations, Aims(i, u) PROVE Aims(i, u)'
    BY <1>3, <2>2, <2>6 DEF Aims, SameGains
  <2>7. BssidFollows(i)'
    BY <1>1, <1>2, <2>2, <2>6 DEF BssidFollows
  <2> QED  BY <2>2, <2>3, <2>4, <2>5, <2>7, StillFollows DEF Follows
<1> QED  BY <1>7, <1>8, OneSlot

LEMMA ModeSetStations ==
  ASSUME IfInv, StationInv, NEW i \in Slots, NEW m \in RawModes \cup {"bad"},
         nrf_wifi_fmac_if_mode_set_event_proc(i, m)
  PROVE  StationInv'
<1>1. RpuType /\ HostType
  BY Typed DEF IfInv
<1>2. /\ events # <<>> /\ Head(events).ev = "MODE_SET" /\ events' = Tail(events)
      /\ UNCHANGED <<vif_ctx, peers, call, rif, removed, misaimed, missed>>
  BY DEF nrf_wifi_fmac_if_mode_set_event_proc
<1>3. \A k \in Slots : SameNews(k)
  BY <1>1, <1>2, ModeTaken
<1>4. \A k \in Slots : SameCall(k) /\ Entries(k)' = Entries(k)
  BY <1>2, CallStays, SameEntries
<1>5. CASE UNCHANGED <<ctx, retyped>>
  <2>1. \A k : SameHost(k) /\ SameMarks(k)
    BY <1>2, <1>5 DEF SameHost, SameMarks
  <2>2. \A k \in Slots : Same(k)
    BY <1>2, <1>3, <1>4, <2>1 DEF Same
  <2> QED  BY <2>2, SlotKept DEF StationInv
<1>6. CASE ~UNCHANGED <<ctx, retyped>>
  <2>1. /\ Live(i) /\ m \in RawModes /\ retyped' = retyped \cup {i}
        /\ ctx' = [ctx EXCEPT ![vif_ctx[i]].if_type = m]
    BY <1>6 DEF nrf_wifi_fmac_if_mode_set_event_proc
  <2>2. vif_ctx[i] # 0
    BY <2>1 DEF Live
  <2>3. \A k \in Slots \ {i} : SameHost(k)
    <3>1. PICK e : e = [ctx[vif_ctx[i]] EXCEPT !.if_type = m]
      OBVIOUS
    <3>2. ctx' = [ctx EXCEPT ![vif_ctx[i]] = e]
      BY <2>1, <3>1
    <3> QED  BY <1>2, <2>2, <3>2, OtherContext
  <2>4. \A k : SameMarks(k)
    BY <1>2, <2>1 DEF SameMarks
  <2>5. \A k \in Slots \ {i} : Same(k)
    BY <1>2, <1>3, <1>4, <2>3, <2>4 DEF Same
  <2>6. SlotInv(i)'
    <3> SUFFICES ASSUME Follows(i), ApFollows(i), BssidFollows(i) PROVE SlotInv(i)'
      BY <1>2, <2>2, ActingSlot DEF Deleting
    <3>1. ASSUME NEW u \in Stations PROVE Followed(i, u)'
      <4>1. SameAbout(i, u) /\ Followed(i, u) /\ Entries(i)' = Entries(i)
        BY <1>3, <1>4, <3>1 DEF Follows, SameNews
      <4> QED  BY <1>2, <2>4, <4>1, FollowedKept
    <3>2. TypeOf(i)' \notin ApTypes
      <4>1. m \in Types /\ m \notin ApTypes
        BY <2>1 DEF Types, ApTypes
      <4>2. TypeOf(i)' = m
        BY <1>2, <2>1, <4>1, RetypedLive
      <4> QED  BY <4>1, <4>2
    <3>3. ApFollows(i)'
      BY <1>2, <1>4, <3>2 DEF ApFollows, Down, SameCall
    <3>4. BssidFollows(i)'
      BY <2>1 DEF BssidFollows
    <3> QED  BY <1>2, <2>2, <3>1, <3>3, <3>4, StillFollows DEF Follows
  <2> QED  BY <2>5, <2>6, OneSlot
<1> QED  BY <1>5, <1>6

LEMMA NoEvents ==
  ASSUME events = <<>>, NEW i
  PROVE  NoGain(i) /\ \A s \in Stations : NoNews(i, s)
BY DEF NoGain, NoNews, NoneOf

(* A device that has just booted.                                          *)
LEMMA BootedStations ==
  ASSUME vif_ctx = [i \in Slots |-> 0], rif = RpuBooted, events = <<>>,
         \A i \in Slots : Entries(i) = {}
  PROVE  StationInv
<1> SUFFICES ASSUME NEW i \in Slots PROVE SlotInv(i)
  BY DEF StationInv
<1>1. ~Live(i)
  BY DEF Live
<1>2. rif[i].stations = {} /\ rif[i].want = "none" /\ ~rif[i].up
  BY DEF RpuBooted, NoInterface
<1>3. Unused(i)
  BY <1>2, NoEvents DEF Unused
<1> QED  BY <1>1, <1>3 DEF SlotInv

LEMMA StationInit ==
  ASSUME Init
  PROVE  StationInv
<1>1. \A i \in Slots : Entries(i) = {}
  BY DEF Init, Entries
<1> QED  BY <1>1, BootedStations DEF Init

LEMMA DevRemovedStations ==
  ASSUME DevRemoved
  PROVE  StationInv'
<1>1. /\ vif_ctx' = [i \in Slots |-> 0] /\ rif' = RpuBooted /\ events' = <<>>
      /\ peers' = [p \in DOMAIN peers |-> Nobody]
  BY DEF DevRemoved
<1>2. \A i \in Slots : Entries(i)' = {}
  BY <1>1, AllFlushed
<1> SUFFICES ASSUME NEW i \in Slots PROVE SlotInv(i)'
  BY DEF StationInv
<1>3. ~Live(i)'
  BY <1>1 DEF Live
<1>4. rif'[i].stations = {} /\ rif'[i].want = "none" /\ ~rif'[i].up
  BY <1>1 DEF RpuBooted, NoInterface
<1>5. NoGain(i)' /\ \A s \in Stations : NoNews(i, s)'
  BY <1>1 DEF NoGain, NoNews, NoneOf
<1>6. Unused(i)'
  BY <1>2, <1>4, <1>5 DEF Unused
<1> QED  BY <1>3, <1>6, UnusedSlot

LEMMA StutterStations ==
  ASSUME IfInv, StationInv, UNCHANGED vars
  PROVE  StationInv'
<1>1. UNCHANGED <<host, table, call, history, rif>> /\ events' = events
  BY DEF vars, rpu
<1> QED  BY <1>1, NewsUnchanged, NothingStations

LEMMA GetInterfaceStations ==
  ASSUME IfInv, StationInv, NEW i \in MAX_NUM_VIFS .. MAX_NUM_VIFS + 1,
         nrf_wifi_sys_fmac_get_interface(i)
  PROVE  StationInv'
<1>1. CASE i > MAX_NUM_VIFS
  <2>1. UNCHANGED vars
    BY <1>1 DEF nrf_wifi_sys_fmac_get_interface
  <2> QED  BY <2>1, StutterStations
<1>2. CASE i = MAX_NUM_VIFS
  <2>1. i \notin Slots
    BY <1>2 DEF Slots
  <2>2. UNCHANGED <<rif, events, host, table, call, history>>
    BY <1>2, <2>1 DEF nrf_wifi_sys_fmac_get_interface, Tells, umac_cmd_cfg, Command
  <2> QED  BY <2>2, NewsUnchanged, NothingStations
<1> QED  BY <1>1, <1>2

LEMMA NextKeepsStations ==
  ASSUME IfInv, IfInv', OneEntry, StationInv, [Next]_vars
  PROVE  StationInv'
<1>1. ASSUME NEW i \in Slots, call = Idle, Live(i), Telling(i)
      PROVE  StationInv'
  BY <1>1, TellingNothing, StutterStations
<1>2. CASE call = Idle /\ (nrf_wifi_sys_fmac_set_tx_rate \/ nrf_wifi_sys_fmac_conf_ltf_gi)
  <2>1. 0 \in Slots
    BY DEF Slots
  <2>2. UNCHANGED vars
    BY <1>2, <2>1, TellsNothing
       DEF nrf_wifi_sys_fmac_set_tx_rate, nrf_wifi_sys_fmac_conf_ltf_gi
  <2> QED  BY <2>2, StutterStations
<1>3. ASSUME NEW i \in Slots, NEW s \in Stations,
             \/ nrf_wifi_sys_fmac_deauth(i, s) \/ nrf_wifi_sys_fmac_disassoc(i, s)
             \/ nrf_wifi_sys_fmac_del_sta(i, s)
      PROVE  StationInv'
  BY <1>3, LetsGoStations DEF nrf_wifi_sys_fmac_deauth, nrf_wifi_sys_fmac_disassoc,
                              nrf_wifi_sys_fmac_del_sta
<1>4. ASSUME NEW t \in IfTypes, nrf_wifi_sys_fmac_add_vif(t)
      PROVE  StationInv'
  BY <1>4, AddVifStations, StutterStations
<1>5. ASSUME NEW i \in Slots,
             \/ nrf_wifi_sys_fmac_del_vif(i)
             \/ \E t \in IfTypes : nrf_wifi_sys_fmac_chg_vif(i, t)
      PROVE  StationInv'
  BY <1>5, DelVifStations, ChgVifStations, StutterStations
<1>6. ASSUME NEW i \in Slots,
             \/ nrf_wifi_fmac_vif_clear_ctx(i)
             \/ nrf_wifi_sys_fmac_start_ap(i) \/ nrf_wifi_sys_fmac_stop_ap(i)
             \/ \E m \in RawModes : nrf_wifi_sys_fmac_set_mode(i, m)
             \/ \E m \in RawModes \cup {"bad"} : nrf_wifi_fmac_if_mode_set_event_proc(i, m)
      PROVE  StationInv'
  BY <1>6, ClearCtxStations, StartApStations, StopApStations, SetModeStations, ModeSetStations
<1>7. ASSUME NEW i \in Slots, NEW s \in Stations,
             \/ nrf_wifi_sys_fmac_assoc(i, s)
             \/ umac_event_connect_new(i, s) \/ umac_event_connect_del(i, s)
      PROVE  StationInv'
  BY <1>7, AssocStations, ConnectNewStations, ConnectDelStations
<1>8. ASSUME NEW i \in Slots, NEW s \in Stations,
             RpuConnected(i) \/ RpuRefused(i) \/ RpuJoined(i, s) \/ RpuLeft(i, s)
      PROVE  StationInv'
  BY <1>8, ConnectedStations, RefusedStations, JoinedStations, LeftStations
<1>9. ASSUME NEW i \in MAX_NUM_VIFS .. MAX_NUM_VIFS + 1, call = Idle,
             nrf_wifi_sys_fmac_get_interface(i)
      PROVE  StationInv'
  BY <1>9, GetInterfaceStations
<1>10. CASE DelVifFree \/ StartApFlush \/ DevRemoved
  BY <1>10, DelVifFreeStations, StartApFlushStations, DevRemovedStations
<1>11. CASE UNCHANGED vars
  BY <1>11, StutterStations
<1>12. \E s : s \in Stations
  OBVIOUS
<1> QED
  BY <1>1, <1>2, <1>3, <1>4, <1>5, <1>6, <1>7, <1>8, <1>9, <1>10, <1>11, <1>12 DEF Next

(* With no event under way, nothing is left for the table to learn.        *)
LEMMA StationsSettled ==
  ASSUME IfInv, OneEntry, StationInv
  PROVE  StationsAgree
<1>1. ASSUME Settled, NEW i \in Slots \ removed, Live(i)
      PROVE  /\ Follows(i) /\ BssidFollows(i) /\ NoGain(i) /\ \A s \in Stations : NoNews(i, s)
             /\ rif[i].stations \subseteq Stations /\ Entries(i) \subseteq Stations
  <2>1. ~Deleting(i)
    BY <1>1 DEF Settled, Deleting, Idle
  <2>2. Follows(i) /\ BssidFollows(i)
    BY <1>1, <2>1 DEF StationInv, SlotInv
  <2>3. NoGain(i) /\ \A s \in Stations : NoNews(i, s)
    BY <1>1, NoEvents DEF Settled
  <2>4. rif[i].stations \subseteq Stations /\ Entries(i) \subseteq Stations
    BY <1>1, RifStations, EntryTypes, Typed DEF IfInv
  <2> QED  BY <2>2, <2>3, <2>4
<1>2. EntriesRight
  <2> SUFFICES ASSUME Settled, NEW i \in Slots \ removed, Live(i)
               PROVE  /\ Entries(i) \subseteq rif[i].stations
                      /\ \A s \in rif[i].stations \ rif[i].leaving :
                           s \in Entries(i) \/ <<i, s>> \in missed
    BY DEF EntriesRight
  <2>1. \A s \in Stations : /\ s \in Entries(i) => s \in rif[i].stations
                            /\ s \in rif[i].stations \ rif[i].leaving =>
                                 s \in Entries(i) \/ <<i, s>> \in missed
    BY <1>1 DEF Follows, Followed
  <2> QED  BY <1>1, <2>1
<1>3. BssidRight
  <2> SUFFICES ASSUME Settled, NEW i \in Slots \ (removed \cup retyped \cup misaimed), Live(i),
                      TypeOf(i) = "STATION", rif[i].type = "STATION",
                      NEW s \in rif[i].stations \ rif[i].leaving
               PROVE  ctx[vif_ctx[i]].bssid = s
    BY DEF BssidRight
  <2>1. Aims(i, s) /\ NoGain(i) /\ s \in Stations
    BY <1>1 DEF BssidFollows
  <2>2. ~LastGain(i, s)
    <3>1. New(i, s) \in Gains(i) /\ NoneOf(events, Gains(i))
      BY <2>1 DEF Gains, NoGain
    <3>2. ~LastOf(events, Gains(i), New(i, s))
      BY <3>1, NotBoth
    <3> QED  BY <3>2 DEF LastGain, New, Gains
  <2> QED  BY <2>1, <2>2 DEF Aims
<1> QED  BY <1>2, <1>3 DEF StationsAgree

(* What the driver holds of stations is what the RPU has, however late its *)
(* events come: entries, and the access point frames go to, through every  *)
(* association, start and stop, those that cannot be sent included         *)
(* (umac_event_connect, fmac_peer.c, assoc, start_ap, stop_ap).            *)
THEOREM StationsRight == Spec => []StationsAgree
<1>1. Init => StationInv
  BY StationInit
<1>2. IfInv /\ IfInv' /\ OneEntry /\ StationInv /\ [Next]_vars => StationInv'
  BY NextKeepsStations
<1>3. IfInv /\ OneEntry /\ StationInv => StationsAgree
  BY StationsSettled
<1> QED  BY <1>1, <1>2, <1>3, Inductive, EntriesUnique, PTL DEF Spec
=============================================================================
