------------------------------- MODULE PktRam -------------------------------
(***************************************************************************)
(* The layout of packet RAM, in bytes from RPU_MEM_PKT_BASE.               *)
(*                                                                         *)
(* From the bottom each TX token has a slice of max_ampdu_len_per_token;   *)
(* at the top are the buffers of the three receive pools.  FMAC gathers as *)
(* many frames for a token as it thinks will fit, the HAL puts one after   *)
(* the other into the slice without looking where it ends.  TxPath and     *)
(* RxPath take for granted that places are apart; here they are addresses. *)
(*                                                                         *)
(* The base is a multiple of 4, so that alignment may be reckoned from it. *)
(* tx_lock is held from the first frame gathered to the command sent and   *)
(* in the TX_DONE handler; the receive path runs without it.  What is      *)
(* mapped can be unmapped, as on every bus; a receive buffer that cannot   *)
(* be mapped leaves no trace.                                              *)
(***************************************************************************)
EXTENDS Integers, Sequences

CONSTANTS
  NUM_TX_TOKENS,          (* NRF70_MAX_TX_TOKENS                           *)
  MAX_TX_AGGREGATION,     (* data_config.max_tx_aggregation                *)
  TX_BUF_HEADROOM, RX_BUF_HEADROOM,
  MAX_TX_LEN,             (* max_tx_frm_sz - tx_buf_headroom_sz            *)
  RPU_PKTRAM_SIZE,
  NRF70_RX_NUM_BUFS, NRF70_RX_MAX_DATA_SIZE,
  Lens,                   (* of the frames that are sent                   *)
  Configs                 (* values of cfg_params, and FMAC's limit; the   *)
                          (* buf_sz of a pool counts its headroom          *)

Pool  == 0 .. 2           (* MAX_NUM_OF_RX_QUEUES                          *)
Token == 0 .. NUM_TX_TOKENS - 1

Config == [max_ampdu_len_per_token : Nat, avail_ampdu_len_per_token : Nat,
           num_bufs : [Pool -> Nat], buf_sz : [Pool -> Nat]]

(* TX_BUF_HEADROOM is 52.                                                  *)
ASSUME RamAssumption ==
  /\ NUM_TX_TOKENS \in Nat \ {0} /\ MAX_TX_AGGREGATION \in Nat \ {0}
  /\ TX_BUF_HEADROOM \in Nat /\ TX_BUF_HEADROOM % 4 = 0 /\ RX_BUF_HEADROOM \in Nat
  /\ MAX_TX_LEN \in Nat /\ RPU_PKTRAM_SIZE \in Nat
  /\ NRF70_RX_NUM_BUFS \in Nat /\ NRF70_RX_MAX_DATA_SIZE \in Nat
  /\ Lens \subseteq Nat /\ Configs \subseteq Config

VARIABLES
  cfg_params,       (* never changes                                       *)
  tx_buf_info,      (* of the HAL: where a frame is, by desc_id            *)
  rx_buf_info,      (* of the HAL: by pool and buffer                      *)
  tx_frame_offset,  (* where the next frame of the command goes            *)
  use,              (* of a token: "free", "cmd", "rpu" or "lost"          *)
  coalesced,        (* send_pkt_coalesce_count_p                           *)
  stage,            (* of the thread with tx_lock: "idle", "gather", "map" *)
  token, txq, ampdu_len,
                    (* its command; a frame has its length, and the length *)
                    (* of all that are gathered once it is                 *)
  num_tx_pkts       (* frames of the command that are mapped               *)

command == <<stage, token, txq, ampdu_len, num_tx_pkts>>
ramvars == <<cfg_params, tx_buf_info, rx_buf_info, tx_frame_offset, use, coalesced, command>>

None  == [addr |-> 0, len |-> 0, mapped |-> FALSE]
Entry == [addr : Int, len : Nat, mapped : BOOLEAN]
Mapped(addr, len) == [addr |-> addr, len |-> len, mapped |-> TRUE]

TxDesc == 0 .. NUM_TX_TOKENS * MAX_TX_AGGREGATION - 1
RxBuf  == UNION {{p} \X (0 .. cfg_params.num_bufs[p] - 1) : p \in Pool}

desc_id(t, frame) == t * MAX_TX_AGGREGATION + frame

-----------------------------------------------------------------------------
(* Addresses.                                                              *)

Align(n) == ((n + 3) \div 4) * 4

tx_token_base_addr(t) == t * cfg_params.max_ampdu_len_per_token

RxSize(c, p) == c.num_bufs[p] * c.buf_sz[p]

rx_pool_base(c, p) ==
  (RPU_PKTRAM_SIZE - NRF70_RX_NUM_BUFS * NRF70_RX_MAX_DATA_SIZE)
  + (IF p > 0 THEN RxSize(c, 0) ELSE 0) + (IF p > 1 THEN RxSize(c, 1) ELSE 0)

bounce_buf_addr(s) == rx_pool_base(cfg_params, s[1]) + s[2] * cfg_params.buf_sz[s[1]]

RamInit ==
  /\ cfg_params \in Configs
  /\ tx_buf_info = [d \in TxDesc |-> None]
  /\ rx_buf_info = [s \in RxBuf |-> None]
  /\ tx_frame_offset = 0
  /\ use = [t \in Token |-> "free"] /\ coalesced = [t \in Token |-> 0]
  /\ stage = "idle" /\ token = 0 /\ txq = <<>> /\ ampdu_len = 0 /\ num_tx_pkts = 0

-----------------------------------------------------------------------------
(* _tx_pending_process, for a token that is free or was just answered.     *)

Gather(t) ==
  /\ stage = "idle" /\ use[t] = "free"
  /\ stage' = "gather" /\ token' = t /\ use' = [use EXCEPT ![t] = "cmd"]
  /\ txq' = <<>> /\ ampdu_len' = 0 /\ num_tx_pkts' = 0
  /\ UNCHANGED <<cfg_params, tx_buf_info, rx_buf_info, tx_frame_offset, coalesced>>

Take(len) ==
  /\ ampdu_len' = ampdu_len + TX_BUF_HEADROOM + len
  /\ txq' = Append(txq, [len |-> len, upto |-> ampdu_len'])
  /\ UNCHANGED <<token, num_tx_pkts, cfg_params, tx_buf_info, rx_buf_info, tx_frame_offset, use>>

(* Mutant: the headroom is not counted.                                    *)
FitsWithout(len) == ampdu_len + len < cfg_params.avail_ampdu_len_per_token

Fits(len) == ampdu_len + TX_BUF_HEADROOM + len < cfg_params.avail_ampdu_len_per_token

(* One turn of the loop.                                                   *)
TakeNext(len) ==
  /\ stage = "gather" /\ Len(txq) < MAX_TX_AGGREGATION /\ Fits(len)
  /\ Take(len) /\ UNCHANGED <<stage, coalesced>>

(* When the loop has taken none, one frame is sent whatever its length.    *)
TakeOne(len) ==
  /\ stage = "gather" /\ txq = <<>>
  /\ Take(len) /\ stage' = "map" /\ coalesced' = [coalesced EXCEPT ![token] = 1]

(* The loop ends: the frame is too long, of another flow, not to be sent   *)
(* now, or there is none; tx_cmd_prepare counts the frames.                *)
Gathered ==
  /\ stage = "gather" /\ txq # <<>>
  /\ stage' = "map" /\ coalesced' = [coalesced EXCEPT ![token] = Len(txq)]
  /\ UNCHANGED <<token, txq, ampdu_len, num_tx_pkts, cfg_params, tx_buf_info, rx_buf_info,
                 tx_frame_offset, use>>

-----------------------------------------------------------------------------
(* tx_cmd_prep_callbk_fn and nrf_wifi_sys_hal_buf_map_tx, for each frame.  *)

(* Mutant: the offset goes on where the last command left it.              *)
FrameGoesOn == Align(tx_frame_offset)

(* Where the next frame of the command goes.                               *)
FrameAddr == Align(IF num_tx_pkts = 0 THEN tx_token_base_addr(token) ELSE tx_frame_offset)

FrameLen == Align(txq[num_tx_pkts + 1].len)

frame_desc == desc_id(token, num_tx_pkts)

Accepted == ~tx_buf_info[frame_desc].mapped /\ txq[num_tx_pkts + 1].len <= MAX_TX_LEN

(* The command is given up: its descriptor is never answered.              *)
GiveUp ==
  /\ use' = [use EXCEPT ![token] = "lost"] /\ stage' = "idle"
  /\ UNCHANGED <<token, txq, ampdu_len, num_tx_pkts>>

Written ==
  /\ stage = "map" /\ num_tx_pkts < Len(txq)
  /\ Accepted
  /\ tx_frame_offset' = FrameAddr + FrameLen + TX_BUF_HEADROOM
  /\ UNCHANGED <<cfg_params, rx_buf_info, coalesced>>

MapTx ==
  /\ Written
  /\ tx_buf_info' = [tx_buf_info EXCEPT ![frame_desc] = Mapped(FrameAddr, FrameLen)]
  /\ num_tx_pkts' = num_tx_pkts + 1
  /\ UNCHANGED <<stage, token, txq, ampdu_len, use>>

MapTxFails ==
  /\ Written
  /\ GiveUp /\ UNCHANGED tx_buf_info

(* Too long, or its descriptor is mapped already.                          *)
MapTxRefused ==
  /\ stage = "map" /\ num_tx_pkts < Len(txq)
  /\ ~Accepted
  /\ GiveUp
  /\ UNCHANGED <<cfg_params, tx_buf_info, rx_buf_info, tx_frame_offset, coalesced>>

SendTx ==
  /\ stage = "map" /\ num_tx_pkts = Len(txq)
  /\ \/ /\ stage' = "idle" /\ use' = [use EXCEPT ![token] = "rpu"]
        /\ UNCHANGED <<token, txq, ampdu_len, num_tx_pkts>>
     \/ GiveUp
  /\ UNCHANGED <<cfg_params, tx_buf_info, rx_buf_info, tx_frame_offset, coalesced>>

(* Mutant: the last frame stays mapped.                                    *)
DoneButLast(t) == {desc_id(t, frame) : frame \in 0 .. coalesced[t] - 2}

(* The descriptors that TX_DONE unmaps.                                    *)
Done(t) == {desc_id(t, frame) : frame \in 0 .. coalesced[t] - 1}

TxDone(t) ==
  /\ stage = "idle" /\ use[t] = "rpu"
  /\ use' = [use EXCEPT ![t] = "free"]
  /\ tx_buf_info' = [d \in TxDesc |-> IF d \in Done(t) THEN None ELSE tx_buf_info[d]]
  /\ UNCHANGED <<cfg_params, rx_buf_info, tx_frame_offset, coalesced, command>>

-----------------------------------------------------------------------------
(* nrf_wifi_sys_hal_buf_map_rx and nrf_wifi_sys_hal_buf_unmap_rx.          *)

MapRx(s) ==
  /\ ~rx_buf_info[s].mapped
  /\ rx_buf_info' = [rx_buf_info EXCEPT ![s] =
       Mapped(bounce_buf_addr(s) + RX_BUF_HEADROOM, cfg_params.buf_sz[s[1]])]
  /\ UNCHANGED <<cfg_params, tx_buf_info, tx_frame_offset, use, coalesced, command>>

UnmapRx(s) ==
  /\ rx_buf_info[s].mapped
  /\ rx_buf_info' = [rx_buf_info EXCEPT ![s] = None]
  /\ UNCHANGED <<cfg_params, tx_buf_info, tx_frame_offset, use, coalesced, command>>

RamNext ==
  \/ \E t \in Token : Gather(t) \/ TxDone(t)
  \/ \E len \in Lens : TakeNext(len) \/ TakeOne(len)
  \/ Gathered \/ MapTx \/ MapTxFails \/ MapTxRefused \/ SendTx
  \/ \E s \in RxBuf : MapRx(s) \/ UnmapRx(s)

RamSpec == RamInit /\ [][RamNext]_ramvars

-----------------------------------------------------------------------------
(* Properties.                                                             *)

RamTypeOK ==
  /\ cfg_params \in Configs
  /\ tx_buf_info \in [TxDesc -> Entry] /\ rx_buf_info \in [RxBuf -> Entry]
  /\ tx_frame_offset \in Nat
  /\ use \in [Token -> {"free", "cmd", "rpu", "lost"}] /\ coalesced \in [Token -> Nat]
  /\ stage \in {"idle", "gather", "map"} /\ token \in Token
  /\ txq \in Seq([len : Lens, upto : Nat]) /\ ampdu_len \in Nat /\ num_tx_pkts \in Nat

(* What the driver needs of its configuration, and does not check: slices  *)
(* are aligned and hold the longest frame, each frame gathered may waste 3 *)
(* bytes, and tokens and receive pools fit into packet RAM.                *)
Sized(c) ==
  /\ c.max_ampdu_len_per_token % 4 = 0
  /\ c.avail_ampdu_len_per_token + 3 * MAX_TX_AGGREGATION <= c.max_ampdu_len_per_token + 1
  /\ Align(MAX_TX_LEN) + TX_BUF_HEADROOM <= c.max_ampdu_len_per_token
  /\ NUM_TX_TOKENS * c.max_ampdu_len_per_token <= rx_pool_base(c, 0)
  /\ RxSize(c, 0) + RxSize(c, 1) + RxSize(c, 2) <= NRF70_RX_NUM_BUFS * NRF70_RX_MAX_DATA_SIZE

(* The bytes that are a frame's or a buffer's own: a frame's headroom      *)
(* follows it, a receive buffer's precedes it.                             *)
Frame(d)  == [first |-> tx_buf_info[d].addr,
              end   |-> tx_buf_info[d].addr + tx_buf_info[d].len + TX_BUF_HEADROOM]
Buffer(s) == [first |-> rx_buf_info[s].addr - RX_BUF_HEADROOM,
              end   |-> rx_buf_info[s].addr - RX_BUF_HEADROOM + rx_buf_info[s].len]

Inside(x)   == 0 <= x.first /\ x.end <= RPU_PKTRAM_SIZE
Apart(x, y) == x.end <= y.first \/ y.end <= x.first

FramesMapped  == {d \in TxDesc : tx_buf_info[d].mapped}
BuffersMapped == {s \in RxBuf : rx_buf_info[s].mapped}

(* In a configuration that fits, no two frames or buffers that are mapped  *)
(* share a byte of packet RAM, and none lies outside of it, whatever the   *)
(* lengths of the frames, the batches they go in and the mappings that     *)
(* fail (nrf_wifi_sys_hal_buf_map_tx, nrf_wifi_sys_hal_buf_map_rx).        *)
PlacesApart ==
  Sized(cfg_params) =>
    /\ \A d \in FramesMapped :
         /\ Inside(Frame(d))
         /\ \A e \in FramesMapped : d # e => Apart(Frame(d), Frame(e))
         /\ \A s \in BuffersMapped : Apart(Frame(d), Buffer(s))
    /\ \A s \in BuffersMapped :
         /\ Inside(Buffer(s))
         /\ \A r \in BuffersMapped : s # r => Apart(Buffer(s), Buffer(r))

(* TX_DONE finds every frame of its command mapped, and a free token has   *)
(* none mapped for the next command to be refused (tx_done_process,        *)
(* tx_cmd_prep_callbk_fn), although all tokens share one table.            *)
TokensMapped ==
  \A t \in Token :
    /\ use[t] = "rpu" => /\ coalesced[t] > 0
                         /\ \A frame \in 0 .. coalesced[t] - 1 :
                              tx_buf_info[desc_id(t, frame)].mapped
    /\ use[t] = "free" => \A frame \in 0 .. MAX_TX_AGGREGATION - 1 :
                            ~tx_buf_info[desc_id(t, frame)].mapped
=============================================================================
