------------------------------- MODULE FmacIf -------------------------------
(***************************************************************************)
(* The interfaces of the system mode: fmac_vif.c, the calls of             *)
(* system/fmac_api.c that name an interface, and the events of             *)
(* system/fmac_event.c that change what the driver knows of one.           *)
(*                                                                         *)
(* The driver keeps a context per interface (vif_ctx[], with its type and  *)
(* the BSSID frames are sent to), how many of each kind there are, and a   *)
(* table of peers.  The RPU keeps its own interfaces and stations: it is   *)
(* told of changes by commands, and tells of changes by events, which come *)
(* in order and late.                                                      *)
(*                                                                         *)
(* One call runs at a time; the event tasklet runs between any two steps   *)
(* of it.  A command that can be sent is taken to be obeyed at once: the   *)
(* events of the meantime are those still in the channel.  A call fails    *)
(* for want of memory, because the RPU is not initialised or because the   *)
(* HAL refuses the command; the choice of "sent" stands for all three.     *)
(* Callers name interfaces that add_vif gave them and that they have not   *)
(* deleted since.                                                          *)
(*                                                                         *)
(* Left out: ciphers (written to contexts and peers, read nowhere), what a *)
(* command carries besides its interface, and events that only call back   *)
(* into the OS.                                                            *)
(***************************************************************************)
EXTENDS Integers, FiniteSets, Sequences

CONSTANTS
  Stations,      (* MAC addresses of access points and clients             *)
  IfTypes,       (* types of enum nrf_wifi_iftype callers ask for          *)
  RawModes,      (* types the RPU can be told to give an interface         *)
  MAX_NUM_VIFS, MAX_NUM_STAS, MAX_NUM_APS, MAX_PEERS,
  MAX_ADDS,      (* bound: contexts ever allocated                         *)
  MAX_EVENTS,    (* bound: events in the channel                           *)
  MAX_CHANGES    (* bound: changes, deletions and failures that leave marks*)

StaTypes == {"STATION", "P2P_CLIENT"}
ApTypes  == {"AP", "P2P_GO"}

ASSUME IfAssumption ==
  /\ Stations # {} /\ "none" \notin Stations
  /\ IfTypes \subseteq StaTypes \cup ApTypes
  /\ RawModes \subseteq {"STATION", "STA_TX_INJECTOR", "STA_PROMISC", "MONITOR",
                         "STA_PROMISC_TX_INJECTOR", "MONITOR_TX_INJECTOR"}
  /\ MAX_NUM_VIFS \in 1 .. 255   (* numbers of interfaces are unsigned char *)
  /\ MAX_NUM_STAS \in Nat /\ MAX_NUM_APS \in Nat
  /\ MAX_PEERS \in Nat \ {0} /\ MAX_ADDS \in Nat /\ MAX_EVENTS \in Nat
  /\ MAX_CHANGES \in Nat

Slots  == 0 .. MAX_NUM_VIFS - 1
CtxIds == 1 .. MAX_ADDS           (* 0 is NULL *)
Types  == IfTypes \cup RawModes \cup {"STATION"}
Freed  == [live |-> FALSE, if_type |-> "STATION", bssid |-> "none"]
Nobody == [ra |-> "none", if_idx |-> 0]
Idle   == [op |-> "none", if_idx |-> 0]

Injects(t) == t \in {"STA_TX_INJECTOR", "STA_PROMISC_TX_INJECTOR", "MONITOR_TX_INJECTOR"}

VARIABLES
  vif_ctx,   (* [Slots -> context, or NULL]                                *)
  ctx,       (* the contexts: allocated or freed, if_type, bssid           *)
  adds,      (* contexts allocated so far                                  *)
  num_sta, num_ap,
  peers,     (* tx_config.peers[0 .. MAX_PEERS - 1]; Nobody: peer_id is -1 *)
  bcast,     (* the interface of peers[MAX_PEERS], or -1                   *)
  call,      (* the call that runs                                         *)
  (* RPU *)
  rif,       (* its interfaces                                             *)
  events,    (* the events it has sent and that are not handled            *)
  astray,    (* commands it got for interfaces it does not have            *)
  (* history *)
  drifted,   (* a counter may be off: see each place                       *)
  untold,    (* slots whose interface the RPU was not told about           *)
  removed,   (* slots whose interface was deleted, or cleared, once        *)
  retyped,   (* slots whose type a mode event has set                      *)
  misaimed,  (* slots whose BSSID is that of an association never sent     *)
  changes,   (* how many of MAX_CHANGES there were                         *)
  missed     (* <<slot, station>>: it has no entry, and the RPU has it     *)

host    == <<vif_ctx, ctx, adds, num_sta, num_ap>>
table   == <<peers, bcast>>
rpu     == <<rif, events, astray>>
history == <<changes, drifted, untold, removed, retyped, misaimed, missed>>
vars    == <<host, table, call, rpu, history>>

Contexts == [live : BOOLEAN, if_type : Types, bssid : Stations \cup {"none"}]

TypeOK ==
  /\ vif_ctx \in [Slots -> 0 .. MAX_ADDS]
  /\ ctx \in [CtxIds -> Contexts] /\ adds \in 0 .. MAX_ADDS
  /\ num_sta \in 0 .. 255 /\ num_ap \in 0 .. 255
  /\ peers \in [0 .. MAX_PEERS - 1 -> {Nobody} \cup [ra : Stations, if_idx : Slots]]
  /\ bcast \in Slots \cup {-1}
  /\ call \in [op : {"none", "del_vif", "start_ap"}, if_idx : Slots]
  /\ rif \in [Slots -> [type : Types \cup {"none"}, up : BOOLEAN,
                        want : Stations \cup {"none"},
                        stations : SUBSET Stations, leaving : SUBSET Stations]]
  /\ events \in Seq([ev : {"NEW_STATION", "DEL_STATION"}, if_idx : Slots, arg : Stations]
                    \cup [ev : {"MODE_SET"}, if_idx : Slots, arg : RawModes \cup {"bad"}])
  /\ Len(events) <= MAX_EVENTS
  /\ \A c \in astray : c[2] \in 0 .. MAX_NUM_VIFS
  /\ drifted \in BOOLEAN /\ changes \in 0 .. MAX_CHANGES
  /\ untold \subseteq Slots /\ removed \subseteq Slots
  /\ retyped \subseteq Slots /\ misaimed \subseteq Slots
  /\ missed \subseteq Slots \X Stations

NoInterface == [type |-> "none", up |-> FALSE, want |-> "none",
                stations |-> {}, leaving |-> {}]

(* The firmware adds the default interface, a station, by itself.          *)
RpuBooted == [i \in Slots |-> IF i = 0 THEN [NoInterface EXCEPT !.type = "STATION"]
                                       ELSE NoInterface]

Init ==
  /\ vif_ctx = [i \in Slots |-> 0]
  /\ ctx = [c \in CtxIds |-> Freed]
  /\ adds = 0 /\ num_sta = 0 /\ num_ap = 0
  /\ peers = [p \in 0 .. MAX_PEERS - 1 |-> Nobody] /\ bcast = -1
  /\ call = Idle
  /\ rif = RpuBooted
  /\ events = <<>> /\ astray = {}
  /\ changes = 0 /\ drifted = FALSE /\ untold = {} /\ removed = {} /\ retyped = {}
  /\ misaimed = {} /\ missed = {}

Change == changes < MAX_CHANGES /\ changes' = changes + 1

Live(i) == vif_ctx[i] # 0 /\ ctx[vif_ctx[i]].live
TypeOf(i) == ctx[vif_ctx[i]].if_type
Entries(i) == {peers[p].ra : p \in {q \in DOMAIN peers : peers[q] # Nobody
                                                         /\ peers[q].if_idx = i}}

(***************************************************************************)
(* fmac_vif.c.                                                             *)
(***************************************************************************)

nrf_wifi_fmac_vif_check_if_limit(t) ==
  \/ t \in StaTypes /\ num_sta > MAX_NUM_STAS
  \/ t \in ApTypes /\ num_ap > MAX_NUM_APS
  \/ t \notin StaTypes \cup ApTypes

(* The counters are unsigned char.                                         *)
Counted(n, t, kind, by) == IF t \in kind THEN (n + by + 256) % 256 ELSE n

nrf_wifi_fmac_vif_incr_if_type(t) ==
  /\ num_sta' = Counted(num_sta, t, StaTypes, 1)
  /\ num_ap' = Counted(num_ap, t, ApTypes, 1)

nrf_wifi_fmac_vif_decr_if_type(t) ==
  /\ num_sta' = Counted(num_sta, t, StaTypes, -1)
  /\ num_ap' = Counted(num_ap, t, ApTypes, -1)

(* A mutant: the old kind stays counted.                                   *)
UpdateWithoutDecr(i, t) ==
  /\ nrf_wifi_fmac_vif_incr_if_type(t)
  /\ ctx' = [ctx EXCEPT ![vif_ctx[i]].if_type = t]

nrf_wifi_fmac_vif_update_if_type(i, t) ==
  /\ num_sta' = Counted(Counted(num_sta, TypeOf(i), StaTypes, -1), t, StaTypes, 1)
  /\ num_ap' = Counted(Counted(num_ap, TypeOf(i), ApTypes, -1), t, ApTypes, 1)
  /\ ctx' = [ctx EXCEPT ![vif_ctx[i]].if_type = t]

nrf_wifi_fmac_get_num_vifs == num_sta + num_ap

(* The memory goes and the slot is NULL again; no counter is touched and   *)
(* the RPU keeps the interface.                                            *)
nrf_wifi_fmac_vif_clear_ctx(i) ==
  /\ call = Idle /\ Live(i)
  /\ ctx' = [ctx EXCEPT ![vif_ctx[i]] = Freed]
  /\ vif_ctx' = [vif_ctx EXCEPT ![i] = 0]
  /\ Change /\ drifted' = TRUE /\ untold' = untold \cup {i} /\ removed' = removed \cup {i}
  /\ UNCHANGED <<adds, num_sta, num_ap, table, call, rpu, retyped, misaimed, missed>>

nrf_wifi_fmac_vif_idx_get ==
  IF \A i \in Slots : vif_ctx[i] # 0 THEN MAX_NUM_VIFS
  ELSE CHOOSE i \in Slots : vif_ctx[i] = 0 /\ \A j \in Slots : j < i => vif_ctx[j] # 0

(***************************************************************************)
(* fmac_peer.c.  An entry is looked up by its address alone, whatever its  *)
(* interface.                                                              *)
(***************************************************************************)

KnownPeers(s) == {p \in DOMAIN peers : peers[p] # Nobody /\ peers[p].ra = s}
FreePeers == {p \in DOMAIN peers : peers[p] = Nobody}

nrf_wifi_fmac_peer_get_id(s) ==
  IF KnownPeers(s) = {} THEN -1
  ELSE CHOOSE p \in KnownPeers(s) : \A q \in KnownPeers(s) : p <= q

nrf_wifi_fmac_peer_add(i, s) ==
  IF FreePeers = {} THEN peers
  ELSE [peers EXCEPT ![CHOOSE p \in FreePeers : \A q \in FreePeers : p <= q] =
          [ra |-> s, if_idx |-> i]]

nrf_wifi_fmac_peer_remove(i, p) ==
  IF p \in DOMAIN peers /\ peers[p].if_idx = i THEN [peers EXCEPT ![p] = Nobody] ELSE peers

(* A mutant: the interface of an entry is not looked at.                   *)
FlushAll(i) == peers' = [p \in DOMAIN peers |-> Nobody] /\ bcast' = -1

(* The broadcast entry goes too, whatever its interface.                   *)
nrf_wifi_fmac_peers_flush(i) ==
  /\ peers' = [p \in DOMAIN peers |->
                 IF peers[p] # Nobody /\ peers[p].if_idx = i THEN Nobody ELSE peers[p]]
  /\ bcast' = -1

(***************************************************************************)
(* Commands.  The RPU obeys one for an interface it has.                   *)
(***************************************************************************)

(* The RPU gets cmd for interface i, which becomes new if it has it.       *)
Command(cmd, i, new) ==
  IF i \in Slots /\ rif[i].type # "none"
    THEN rif' = [rif EXCEPT ![i] = new] /\ UNCHANGED astray
    ELSE astray' = astray \cup {<<cmd, i>>} /\ UNCHANGED rif

(* umac_cmd_cfg: the command is sent, or none of it is.                    *)
umac_cmd_cfg(sent, cmd, i, new) ==
  IF sent THEN Command(cmd, i, new) /\ UNCHANGED events ELSE UNCHANGED rpu

(* What connections an interface had, the RPU gives up.                    *)
Dropping(i) == [rif[i] EXCEPT !.up = FALSE, !.want = "none", !.leaving = rif[i].stations]

(* A call that only tells the RPU of interface i, and changes nothing of   *)
(* the driver's: the command is allocated, sent and freed.  One that fails *)
(* changes nothing at all.                                                 *)
Tells(cmd, i) ==
  /\ umac_cmd_cfg(TRUE, cmd, i, rif[i])
  /\ UNCHANGED <<host, table, call, history>>

nrf_wifi_sys_fmac_scan(i)             == Tells("TRIGGER_SCAN", i)
nrf_wifi_sys_fmac_abort_scan(i)       == Tells("ABORT_SCAN", i)
nrf_wifi_sys_fmac_scan_res_get(i)     == Tells("GET_SCAN_RESULTS", i)
nrf_wifi_sys_fmac_auth(i)             == Tells("AUTHENTICATE", i)
nrf_wifi_sys_fmac_set_key(i)          == Tells("SET_KEY", i)
nrf_wifi_sys_fmac_chg_sta(i)          == Tells("SET_STATION", i)
nrf_wifi_sys_fmac_set_bss(i)          == Tells("SET_BSS", i)
nrf_wifi_sys_fmac_chg_bcn(i)          == Tells("SET_BEACON", i)
nrf_wifi_sys_fmac_add_sta(i)          == Tells("NEW_STATION", i)
nrf_wifi_sys_fmac_mgmt_frame_reg(i)   == Tells("REGISTER_FRAME", i)
nrf_wifi_sys_fmac_p2p_dev_start(i)    == Tells("START_P2P_DEVICE", i)
nrf_wifi_sys_fmac_p2p_dev_stop(i)     == Tells("STOP_P2P_DEVICE", i)
nrf_wifi_sys_fmac_p2p_roc_start(i)    == Tells("REMAIN_ON_CHANNEL", i)
nrf_wifi_sys_fmac_p2p_roc_stop(i)     == Tells("CANCEL_REMAIN_ON_CHANNEL", i)
nrf_wifi_sys_fmac_mgmt_tx(i)          == Tells("FRAME", i)
nrf_wifi_sys_fmac_set_vif_macaddr(i)  == Tells("CHANGE_MACADDR", i)
nrf_wifi_sys_fmac_set_wiphy_params(i) == Tells("SET_WIPHY", i)
nrf_wifi_sys_fmac_get_tx_power(i)     == Tells("GET_TX_POWER", i)
nrf_wifi_sys_fmac_get_channel(i)      == Tells("GET_CHANNEL", i)
nrf_wifi_sys_fmac_get_station(i)      == Tells("GET_STATION", i)
nrf_wifi_sys_fmac_set_qos_map(i)      == Tells("SET_QOS_MAP", i)
nrf_wifi_sys_fmac_set_power_save(i)   == Tells("SET_POWER_SAVE", i)
nrf_wifi_sys_fmac_set_uapsd_queue(i)  == Tells("CONFIG_UAPSD", i)
nrf_wifi_sys_fmac_set_power_save_timeout(i) == Tells("SET_POWER_SAVE_TIMEOUT", i)
nrf_wifi_sys_fmac_get_wiphy(i)        == i < MAX_NUM_VIFS /\ Tells("GET_WIPHY", i)
nrf_wifi_sys_fmac_register_frame(i)   == i < MAX_NUM_VIFS /\ Tells("REGISTER_FRAME", i)
nrf_wifi_sys_fmac_twt_setup(i)        == Tells("CONFIG_TWT", i)
nrf_wifi_sys_fmac_twt_teardown(i)     == Tells("TEARDOWN_TWT", i)
nrf_wifi_sys_fmac_set_mcast_addr(i)   == Tells("MCAST_FILTER", i)
nrf_wifi_sys_fmac_get_conn_info(i)    == Tells("GET_CONNECTION_INFO", i)
nrf_wifi_sys_fmac_get_power_save_info(i) == Tells("GET_POWER_SAVE_INFO", i)
nrf_wifi_sys_fmac_set_listen_interval(i) == Tells("SET_LISTEN_INTERVAL", i)
nrf_wifi_sys_fmac_set_ps_wakeup_mode(i)  == Tells("CONFIG_EXTENDED_PS", i)
nrf_wifi_sys_fmac_set_ps_exit_strategy(i) == Tells("PS_EXIT_STRATEGY", i)

(* Commands to the system part of the RPU: no gate and no copy.            *)
nrf_wifi_sys_fmac_set_channel(i)       == Tells("CHANNEL", i)
nrf_wifi_sys_fmac_set_packet_filter(i) == Tells("RAW_CONFIG_FILTER", i)
nrf_wifi_sys_fmac_set_tx_rate          == Tells("TX_FIX_DATA_RATE", 0)
nrf_wifi_sys_fmac_conf_ltf_gi          == Tells("HE_GI_LTF_CONFIG", 0)

(* The one call that takes any number, and takes one too many.             *)
nrf_wifi_sys_fmac_get_interface(i) ==
  IF i > MAX_NUM_VIFS
    THEN UNCHANGED vars
    ELSE Tells("GET_INTERFACE", i)

(***************************************************************************)
(* Interfaces come, change and go.                                         *)
(***************************************************************************)

(* The default interface needs no command: the RPU has it, as a station.   *)
nrf_wifi_sys_fmac_add_vif(t) ==
  /\ call = Idle /\ adds < MAX_ADDS
  /\ LET i == nrf_wifi_fmac_vif_idx_get
         c == adds + 1
     IN \E sent \in BOOLEAN :
        IF nrf_wifi_fmac_vif_check_if_limit(t) \/ i = MAX_NUM_VIFS \/ ~sent
        THEN UNCHANGED <<host, rpu, history>>
        ELSE /\ vif_ctx' = [vif_ctx EXCEPT ![i] = c]
             /\ ctx' = [ctx EXCEPT ![c] = [live |-> TRUE, if_type |-> t, bssid |-> "none"]]
             /\ adds' = c
             /\ nrf_wifi_fmac_vif_incr_if_type(t)
             /\ rif' = IF i # 0 THEN [rif EXCEPT ![i].type = t] ELSE rif
             /\ untold' = IF i = 0 /\ rif[0].type # t THEN untold \cup {0} ELSE untold \ {i}
             /\ retyped' = retyped \ {i}
             /\ UNCHANGED <<events, astray, changes, drifted, removed, misaimed, missed>>
  /\ UNCHANGED <<table, call>>

(* An interface whose type is a raw mode cannot be deleted.  The context   *)
(* is freed whether or not the RPU was told, the counter goes down only    *)
(* when it was, and the slot keeps pointing to the memory.                 *)
nrf_wifi_sys_fmac_del_vif(i) ==
  /\ call = Idle /\ Live(i)
  /\ IF TypeOf(i) \notin StaTypes \cup ApTypes
     THEN UNCHANGED <<host, call, rpu, history>>
     ELSE \E sent \in BOOLEAN :
       \/ /\ i = 0 \/ sent
          /\ call' = [op |-> "del_vif", if_idx |-> i]
          /\ IF i # 0 THEN umac_cmd_cfg(TRUE, "DEL_INTERFACE", i, NoInterface)
                      ELSE UNCHANGED rpu
          /\ Change
          /\ UNCHANGED <<host, drifted, untold, removed, retyped, misaimed, missed>>
       \/ /\ i # 0 /\ ~sent
          /\ ctx' = [ctx EXCEPT ![vif_ctx[i]] = Freed]
          /\ Change /\ drifted' = TRUE
          /\ untold' = untold \cup {i} /\ removed' = removed \cup {i}
          /\ UNCHANGED <<vif_ctx, adds, num_sta, num_ap, call, rpu, retyped, misaimed, missed>>
  /\ UNCHANGED table

DelVifFree ==
  /\ call.op = "del_vif"
  /\ nrf_wifi_fmac_vif_decr_if_type(TypeOf(call.if_idx))
  /\ ctx' = [ctx EXCEPT ![vif_ctx[call.if_idx]] = Freed]
  /\ removed' = removed \cup {call.if_idx}
  /\ call' = Idle
  /\ UNCHANGED <<vif_ctx, adds, table, rpu, changes, drifted, untold, retyped, misaimed, missed>>

nrf_wifi_sys_fmac_chg_vif(i, t) ==
  /\ call = Idle /\ Live(i)
  /\ \E sent \in BOOLEAN :
       IF nrf_wifi_fmac_vif_check_if_limit(t) \/ ~sent
       THEN UNCHANGED <<host, rpu, history>>
       ELSE /\ umac_cmd_cfg(TRUE, "SET_INTERFACE", i, [Dropping(i) EXCEPT !.type = t])
            /\ nrf_wifi_fmac_vif_update_if_type(i, t)
            /\ Change /\ untold' = untold \ {i}
            /\ UNCHANGED <<vif_ctx, adds, drifted, removed, retyped, misaimed, missed>>
  /\ UNCHANGED <<table, call>>

(* The RPU answers with the mode it has set, or that it has not.           *)
nrf_wifi_sys_fmac_set_mode(i, m) ==
  /\ call = Idle /\ Live(i) /\ Len(events) < MAX_EVENTS
  /\ \E sent \in BOOLEAN, answer \in {m, "bad"} :
       IF sent
       THEN /\ Command("RAW_CONFIG_MODE", i, rif[i])
            /\ events' = Append(events, [ev |-> "MODE_SET", if_idx |-> i, arg |-> answer])
            /\ Change
       ELSE UNCHANGED <<rpu, changes>>
  /\ UNCHANGED <<host, table, call, drifted, untold, removed, retyped, misaimed, missed>>

(***************************************************************************)
(* Stations.                                                               *)
(***************************************************************************)

(* Frames go to the new access point from here on, whatever happens next.  *)
nrf_wifi_sys_fmac_assoc(i, s) ==
  /\ call = Idle /\ Live(i) /\ TypeOf(i) \notin ApTypes
  /\ ctx' = [ctx EXCEPT ![vif_ctx[i]].bssid = s]
  /\ \E sent \in BOOLEAN :
       /\ umac_cmd_cfg(sent, "ASSOCIATE", i,
                       IF rif[i].type \in StaTypes THEN [Dropping(i) EXCEPT !.want = s]
                                                   ELSE rif[i])
       /\ IF sent THEN misaimed' = misaimed \ {i} /\ UNCHANGED changes
                  ELSE misaimed' = misaimed \cup {i} /\ Change
  /\ UNCHANGED <<vif_ctx, adds, num_sta, num_ap, table, call,
                 drifted, untold, removed, retyped, missed>>

(* Three calls by which the RPU lets go of a station.                      *)
LetsGo(cmd, i, s) ==
  /\ umac_cmd_cfg(TRUE, cmd, i,
                  [rif[i] EXCEPT !.leaving = @ \cup ({s} \cap rif[i].stations)])
  /\ UNCHANGED <<host, table, call, history>>

nrf_wifi_sys_fmac_deauth(i, s)   == call = Idle /\ Live(i) /\ LetsGo("DEAUTHENTICATE", i, s)
nrf_wifi_sys_fmac_disassoc(i, s) == call = Idle /\ Live(i) /\ LetsGo("DEAUTHENTICATE", i, s)
nrf_wifi_sys_fmac_del_sta(i, s)  == call = Idle /\ Live(i) /\ LetsGo("DEL_STATION", i, s)

(* A pairwise key needs the entry of its peer; a group key needs none.     *)
nrf_wifi_sys_fmac_add_key(i, type, s) ==
  IF type = "PAIRWISE" /\ nrf_wifi_fmac_peer_get_id(s) = -1
    THEN UNCHANGED vars
    ELSE Tells("NEW_KEY", i)

nrf_wifi_sys_fmac_del_key(i) == Tells("DEL_KEY", i)

(* SET_WIPHY, then the entries of the interface are flushed, then START_AP.*)
(* Callers start what the RPU has not up.                                  *)
nrf_wifi_sys_fmac_start_ap(i) ==
  /\ call = Idle /\ Live(i) /\ TypeOf(i) \in ApTypes /\ ~rif[i].up
  /\ \E sent \in BOOLEAN :
       /\ umac_cmd_cfg(sent, "SET_WIPHY", i, rif[i])
       /\ IF sent THEN call' = [op |-> "start_ap", if_idx |-> i]
                  ELSE UNCHANGED call
  /\ UNCHANGED <<host, table, history>>

StartApFlush ==
  /\ call.op = "start_ap"
  /\ LET i == call.if_idx IN
     /\ nrf_wifi_fmac_peers_flush(i)
     /\ \E sent \in BOOLEAN :
          umac_cmd_cfg(sent, "START_AP", i,
                       [rif[i] EXCEPT !.up = rif[i].type \in ApTypes])
  /\ call' = Idle
  /\ UNCHANGED <<host, history>>

(* The flush is not undone when STOP_AP cannot be sent.                    *)
nrf_wifi_sys_fmac_stop_ap(i) ==
  /\ call = Idle /\ Live(i) /\ TypeOf(i) \in ApTypes
  /\ nrf_wifi_fmac_peers_flush(i)
  /\ \E sent \in BOOLEAN :
       /\ umac_cmd_cfg(sent, "STOP_AP", i, Dropping(i))
       /\ IF sent THEN UNCHANGED <<missed, changes>>
                  ELSE missed' = missed \cup ({i} \X rif[i].stations) /\ Change
  /\ UNCHANGED <<host, call, drifted, untold, removed, retyped, misaimed>>

(***************************************************************************)
(* Events (umac_event_ctrl_process, umac_event_sys_proc_events).  A slot   *)
(* that is NULL has its UMAC events dropped; one whose context was freed   *)
(* does not, and its type then reads as anything.                          *)
(***************************************************************************)

umac_event_ctrl_process(ev, i, s) ==
  /\ events # <<>> /\ Head(events) = [ev |-> ev, if_idx |-> i, arg |-> s]
  /\ events' = Tail(events)

umac_event_connect_new(i, s) ==
  /\ umac_event_ctrl_process("NEW_STATION", i, s)
  /\ IF vif_ctx[i] = 0 THEN UNCHANGED <<ctx, peers, missed>>
     ELSE LET known == nrf_wifi_fmac_peer_get_id(s) IN
          /\ ctx' = IF Live(i) /\ TypeOf(i) = "STATION"
                      THEN [ctx EXCEPT ![vif_ctx[i]].bssid = s] ELSE ctx
          /\ peers' = IF known = -1 THEN nrf_wifi_fmac_peer_add(i, s) ELSE peers
          /\ missed' = IF \E p \in DOMAIN peers' : peers'[p] = [ra |-> s, if_idx |-> i]
                         THEN missed \ {<<i, s>>} ELSE missed \cup {<<i, s>>}
  /\ UNCHANGED <<vif_ctx, adds, num_sta, num_ap, bcast, call, rif, astray,
                 changes, drifted, untold, removed, retyped, misaimed>>

umac_event_connect_del(i, s) ==
  /\ umac_event_ctrl_process("DEL_STATION", i, s)
  /\ peers' = IF vif_ctx[i] = 0 THEN peers
              ELSE nrf_wifi_fmac_peer_remove(i, nrf_wifi_fmac_peer_get_id(s))
  /\ missed' = missed \ {<<i, s>>}
  /\ UNCHANGED <<host, bcast, call, rif, astray,
                 changes, drifted, untold, removed, retyped, misaimed>>

Kind(t) == IF t \in StaTypes THEN "sta" ELSE IF t \in ApTypes THEN "ap" ELSE "raw"

(* The type changes; no counter does.  Whatever the slot points to is      *)
(* written: of a write through NULL, or to freed memory, nothing follows   *)
(* here.                                                                   *)
nrf_wifi_fmac_if_mode_set_event_proc(i, m) ==
  /\ events # <<>> /\ Head(events) = [ev |-> "MODE_SET", if_idx |-> i, arg |-> m]
  /\ events' = Tail(events)
  /\ IF m = "bad" THEN UNCHANGED <<ctx, bcast, drifted, retyped>>
     ELSE /\ bcast' = IF Injects(m) THEN i ELSE -1
          /\ IF Live(i)
             THEN /\ ctx' = [ctx EXCEPT ![vif_ctx[i]].if_type = m]
                  /\ drifted' = (drifted \/ Kind(m) # Kind(TypeOf(i)))
                  /\ retyped' = retyped \cup {i}
             ELSE UNCHANGED <<ctx, drifted, retyped>>
  /\ UNCHANGED <<vif_ctx, adds, num_sta, num_ap, peers, call, rif, astray,
                 changes, untold, removed, misaimed, missed>>

(***************************************************************************)
(* RPU.                                                                    *)
(***************************************************************************)

Announces(ev, i, s) ==
  /\ Len(events) < MAX_EVENTS
  /\ events' = Append(events, [ev |-> ev, if_idx |-> i, arg |-> s])

RpuOnly == UNCHANGED <<host, table, call, astray, history>>

RpuJoined(i, s) ==
  /\ rif[i].up /\ s \notin rif[i].stations
  /\ rif' = [rif EXCEPT ![i].stations = @ \cup {s}]
  /\ Announces("NEW_STATION", i, s)
  /\ RpuOnly

RpuConnected(i) ==
  /\ rif[i].want # "none" /\ rif[i].stations = {}
  /\ rif' = [rif EXCEPT ![i].stations = {rif[i].want}, ![i].want = "none"]
  /\ Announces("NEW_STATION", i, rif[i].want)
  /\ RpuOnly

RpuRefused(i) ==
  /\ rif[i].want # "none" /\ rif[i].stations = {}
  /\ rif' = [rif EXCEPT ![i].want = "none"]
  /\ UNCHANGED events /\ RpuOnly

RpuLeft(i, s) ==
  /\ s \in rif[i].stations
  /\ rif' = [rif EXCEPT ![i].stations = @ \ {s}, ![i].leaving = @ \ {s}]
  /\ Announces("DEL_STATION", i, s)
  /\ RpuOnly

(***************************************************************************)
(* When no interface is left the caller removes the device, and starts     *)
(* anew: the device context goes with all it holds.                        *)
(***************************************************************************)
DevRemoved ==
  /\ call = Idle /\ adds > 0 /\ nrf_wifi_fmac_get_num_vifs = 0
  /\ vif_ctx' = [i \in Slots |-> 0]
  /\ peers' = [p \in DOMAIN peers |-> Nobody] /\ bcast' = -1
  /\ rif' = RpuBooted
  /\ events' = <<>>
  /\ drifted' = FALSE /\ untold' = {} /\ removed' = {} /\ retyped' = {}
  /\ misaimed' = {} /\ missed' = {}
  /\ UNCHANGED <<ctx, adds, num_sta, num_ap, call, astray, changes>>

(* Explored with no event waiting: events change nothing they look at.     *)
Telling(i) ==
  \/ nrf_wifi_sys_fmac_scan(i) \/ nrf_wifi_sys_fmac_abort_scan(i)
  \/ nrf_wifi_sys_fmac_scan_res_get(i) \/ nrf_wifi_sys_fmac_auth(i)
  \/ nrf_wifi_sys_fmac_set_key(i) \/ nrf_wifi_sys_fmac_del_key(i)
  \/ nrf_wifi_sys_fmac_chg_sta(i) \/ nrf_wifi_sys_fmac_add_sta(i)
  \/ nrf_wifi_sys_fmac_set_bss(i) \/ nrf_wifi_sys_fmac_chg_bcn(i)
  \/ nrf_wifi_sys_fmac_mgmt_frame_reg(i) \/ nrf_wifi_sys_fmac_mgmt_tx(i)
  \/ nrf_wifi_sys_fmac_p2p_dev_start(i) \/ nrf_wifi_sys_fmac_p2p_dev_stop(i)
  \/ nrf_wifi_sys_fmac_p2p_roc_start(i) \/ nrf_wifi_sys_fmac_p2p_roc_stop(i)
  \/ nrf_wifi_sys_fmac_set_vif_macaddr(i) \/ nrf_wifi_sys_fmac_set_wiphy_params(i)
  \/ nrf_wifi_sys_fmac_get_tx_power(i) \/ nrf_wifi_sys_fmac_get_channel(i)
  \/ nrf_wifi_sys_fmac_get_station(i) \/ nrf_wifi_sys_fmac_set_qos_map(i)
  \/ nrf_wifi_sys_fmac_set_power_save(i) \/ nrf_wifi_sys_fmac_set_uapsd_queue(i)
  \/ nrf_wifi_sys_fmac_set_power_save_timeout(i) \/ nrf_wifi_sys_fmac_get_wiphy(i)
  \/ nrf_wifi_sys_fmac_register_frame(i) \/ nrf_wifi_sys_fmac_twt_setup(i)
  \/ nrf_wifi_sys_fmac_twt_teardown(i) \/ nrf_wifi_sys_fmac_set_mcast_addr(i)
  \/ nrf_wifi_sys_fmac_get_conn_info(i) \/ nrf_wifi_sys_fmac_get_power_save_info(i)
  \/ nrf_wifi_sys_fmac_set_listen_interval(i) \/ nrf_wifi_sys_fmac_set_ps_wakeup_mode(i)
  \/ nrf_wifi_sys_fmac_set_ps_exit_strategy(i) \/ nrf_wifi_sys_fmac_set_channel(i)
  \/ nrf_wifi_sys_fmac_set_packet_filter(i) \/ nrf_wifi_sys_fmac_get_interface(i)
  \/ \E type \in {"GROUP", "PAIRWISE"}, s \in Stations : nrf_wifi_sys_fmac_add_key(i, type, s)

Next ==
  \/ \E t \in IfTypes : nrf_wifi_sys_fmac_add_vif(t)
  \/ \E i \in Slots :
       \/ nrf_wifi_sys_fmac_del_vif(i) \/ nrf_wifi_fmac_vif_clear_ctx(i)
       \/ nrf_wifi_sys_fmac_start_ap(i) \/ nrf_wifi_sys_fmac_stop_ap(i)
       \/ \E t \in IfTypes : nrf_wifi_sys_fmac_chg_vif(i, t)
       \/ \E m \in RawModes : nrf_wifi_sys_fmac_set_mode(i, m)
       \/ call = Idle /\ events = <<>> /\ Live(i) /\ Telling(i)
       \/ RpuConnected(i) \/ RpuRefused(i)
  \/ \E i \in Slots, s \in Stations :
       \/ nrf_wifi_sys_fmac_assoc(i, s) \/ nrf_wifi_sys_fmac_deauth(i, s)
       \/ nrf_wifi_sys_fmac_disassoc(i, s) \/ nrf_wifi_sys_fmac_del_sta(i, s)
       \/ umac_event_connect_new(i, s) \/ umac_event_connect_del(i, s)
       \/ RpuJoined(i, s) \/ RpuLeft(i, s)
  \/ \E i \in Slots, m \in RawModes \cup {"bad"} : nrf_wifi_fmac_if_mode_set_event_proc(i, m)
  \/ call = Idle /\ events = <<>> /\ nrf_wifi_sys_fmac_set_tx_rate
  \/ call = Idle /\ events = <<>> /\ nrf_wifi_sys_fmac_conf_ltf_gi
  \/ call = Idle /\ \E i \in MAX_NUM_VIFS .. MAX_NUM_VIFS + 1 :
       nrf_wifi_sys_fmac_get_interface(i)
  \/ DelVifFree \/ StartApFlush \/ DevRemoved

Spec == Init /\ [][Next]_vars

(***************************************************************************)
(* Properties.                                                             *)
(***************************************************************************)

(* The slots whose interface is of a kind.                                 *)
Of(kind) == {i \in Slots : Live(i) /\ TypeOf(i) \in kind}

(* The counters, by which interfaces are admitted and the device is kept,  *)
(* are the numbers of interfaces there are, as long as no deletion went    *)
(* wrong, no context was cleared and no mode event changed a kind.         *)
CountersExact ==
  drifted \/ (num_sta = Cardinality(Of(StaTypes)) /\ num_ap = Cardinality(Of(ApTypes)))

(* The RPU has the interfaces the driver has, of the same types, and no    *)
(* others, except where it could not be told, is not told (the type of the *)
(* default interface), or has set the type itself.                         *)
RpuAgrees ==
  call = Idle =>
    \A i \in Slots \ (untold \cup retyped) :
      IF Live(i) THEN rif[i].type = TypeOf(i) ELSE i = 0 \/ rif[i].type = "none"

(* A slot that was not deleted points to a context that is allocated, and  *)
(* no two point to one.                                                    *)
Backed ==
  /\ \A i \in Slots \ removed : vif_ctx[i] # 0 => Live(i)
  /\ \A i, j \in Slots : i # j /\ vif_ctx[i] # 0 => vif_ctx[i] # vif_ctx[j]

(* Every command is for an interface the RPU has, but for the one number   *)
(* get_interface lets through.                                             *)
CommandsReach == astray \subseteq {<<"GET_INTERFACE", MAX_NUM_VIFS>>}

(* What the driver and the RPU know of the interfaces agrees through       *)
(* additions, changes and deletions, those that fail included              *)
(* (fmac_api.c:2107-2395, fmac_vif.c).                                     *)
InterfacesAgree == CountersExact /\ RpuAgrees /\ Backed /\ CommandsReach

Settled == events = <<>> /\ call = Idle

(* No station has two entries: an address finds its entry.                 *)
OneEntry == \A p, q \in DOMAIN peers :
              p # q /\ peers[p] # Nobody => peers[p].ra # peers[q].ra

(* With no event under way, the entries of an interface are the stations   *)
(* the RPU has on it, but for those that found the table full, or          *)
(* themselves entered under another interface, or lost their entries to a  *)
(* stop_ap that could not be sent.                                         *)
EntriesRight ==
  Settled => \A i \in Slots \ removed : Live(i) =>
    /\ Entries(i) \subseteq rif[i].stations
    /\ \A s \in rif[i].stations \ rif[i].leaving : s \in Entries(i) \/ <<i, s>> \in missed

(* And a station sends to the access point it is connected to, unless an   *)
(* association since could not be sent, or the interface was in a raw mode.*)
BssidRight ==
  Settled => \A i \in Slots \ (removed \cup retyped \cup misaimed) :
    Live(i) /\ TypeOf(i) = "STATION" /\ rif[i].type = "STATION" /\ rif[i].want = "none" =>
      \A s \in rif[i].stations \ rif[i].leaving : ctx[vif_ctx[i]].bssid = s

(* What the driver holds of stations is what the RPU has, however late its *)
(* events come (umac_event_connect, fmac_peer.c, assoc, start_ap, stop_ap).*)
StationsAgree == OneEntry /\ EntriesRight /\ BssidRight
=============================================================================
