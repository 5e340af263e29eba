------------------------------- MODULE TxPath -------------------------------
(***************************************************************************)
(* The transmit path of the system-mode FMAC (tx.c, fmac_ap.c, fmac_peer.c)*)
(*                                                                         *)
(* Network-stack threads submit frames; each is queued for its peer and    *)
(* access category and goes to the RPU in a batch that occupies one TX     *)
(* descriptor.  The RPU answers each command with a TX_DONE event, whose   *)
(* handler reuses the descriptor for the next batch or frees it.  Events   *)
(* also add and remove peers and report the power-save state of AP clients.*)
(*                                                                         *)
(* tx_lock serialises the senders with the three event handlers that take  *)
(* it.  A handler's loop over access categories is one step per iteration, *)
(* and ev # Idle means that the event thread holds tx_lock meanwhile.  The *)
(* peer table is written without the lock.                                 *)
(***************************************************************************)
EXTENDS Integers, FiniteSets, SequencesExt

CONSTANTS
  AC_MAX,               (* NRF_WIFI_FMAC_AC_MAX; 5 in the code             *)
  NUM_TX_TOKENS,        (* NRF70_MAX_TX_TOKENS                             *)
  MAX_PEERS,            (* unicast peer slots; slot MAX_PEERS is multicast *)
  MAX_TX_AGGREGATION,   (* data_config.max_tx_aggregation                  *)
  MAX_TX_PENDING_QLEN,  (* NRF70_MAX_TX_PENDING_QLEN                       *)
  UINT_MAX,             (* largest value of outstanding_descs[]; 2^32 - 1  *)
  Frame,                (* network buffers                                 *)
  Flow,                 (* [Frame -> source and destination address pair]  *)
  Emergency,            (* frames of priority AC_TWT_PRIORITY_EMERGENCY    *)
  MAX_CALLS,            (* bound: concurrent nrf_wifi_fmac_start_xmit calls*)
  MAX_PS_FRAMES,        (* bound: num_frames of a PS_GET_FRAMES event      *)
  Failures,             (* HAL calls that may fail: "bmp", "map", "send"   *)
  ApMode,               (* the interface is an AP                          *)
  Multicast,            (* the stack sends multicast frames                *)
  TwtEnabled,           (* the OS layer negotiates TWT sleep               *)
  PeersLeave            (* stations are deleted, the AP is restarted       *)

AC       == 0 .. AC_MAX - 1
AC_MC    == AC_MAX - 1
AC_VO    == AC_MAX - 2
AC_BK    == 0
DataAC   == AC_BK .. AC_VO
UPeer    == 0 .. MAX_PEERS - 1
Peer     == 0 .. MAX_PEERS
Desc     == 0 .. NUM_TX_TOKENS - 1

num_tx_tokens_per_ac == NUM_TX_TOKENS \div AC_MAX
Reserved             == num_tx_tokens_per_ac * AC_MAX

(* set_spare_desc_q_map asserts that num_tx_tokens_per_ac is not zero.     *)
ASSUME SizeAssumption ==
  /\ AC_MAX \in Nat /\ AC_MAX >= 2
  /\ NUM_TX_TOKENS \in Nat /\ NUM_TX_TOKENS >= AC_MAX
  /\ MAX_PEERS \in Nat \ {0}
  /\ MAX_TX_AGGREGATION \in Nat \ {0}
  /\ MAX_TX_PENDING_QLEN \in Nat \ {0}
  /\ UINT_MAX \in Nat /\ UINT_MAX >= NUM_TX_TOKENS
  /\ MAX_CALLS \in Nat /\ MAX_PS_FRAMES \in Nat

ASSUME ConfigAssumption ==
  /\ Emergency \subseteq Frame
  /\ Failures \subseteq {"bmp", "map", "send"}
  /\ ApMode \in BOOLEAN /\ Multicast \in BOOLEAN
  /\ TwtEnabled \in BOOLEAN /\ PeersLeave \in BOOLEAN

VARIABLES
  (* tx_config, under tx_lock *)
  pendq,        (* data_pending_txq: [Peer -> [AC -> Seq(Frame)]]          *)
  txq,          (* pkt_info_p[].pkt: [Desc -> Seq(Frame)]                  *)
  alloc,        (* buf_pool_bmp_p: descriptors whose bit is set            *)
  outstanding,  (* outstanding_descs: [AC -> 0..UINT_MAX]                  *)
  spare_map,    (* spare_desc_queue_map: set bits as <<nibble, bit>>       *)
  mapped,       (* number of mapped tx_buf_info entries of each descriptor *)
  curr_peer_opp,(* [AC -> UPeer]: where the round robin starts             *)
  wakeup_q,     (* wakeup_client_q, without its duplicates                 *)
  ps_tokens,    (* peers[].ps_token_count                                  *)
  tim,          (* peers[].pend_q_bmp (drv) and its copy in RPU memory     *)
                (* (rpu): [Peer -> SUBSET AC] each                         *)
  (* written without tx_lock *)
  live,         (* peers whose peer_id is not -1                           *)
  ps_mode,      (* peers in NRF_WIFI_CLIENT_PS_MODE                        *)
  twt_asleep,   (* twt_sleep_status = NRF_WIFI_FMAC_TWT_STATE_SLEEP        *)
  (* threads *)
  calls,        (* start_xmit calls between the peer look-up and tx_lock   *)
  ev,           (* the event thread, when it holds tx_lock                 *)
  (* environment *)
  rpu,          (* descriptors whose TX command the RPU is executing       *)
  stack         (* buffers that are free or belong to the network stack    *)

pool  == <<alloc, outstanding, spare_map>>
cmd   == <<txq, mapped, rpu, wakeup_q, stack>>
sched == <<curr_peer_opp, ps_tokens>>
peers == <<live, ps_mode, twt_asleep>>
vars  == <<pendq, txq, alloc, outstanding, spare_map, mapped, curr_peer_opp, wakeup_q,
           ps_tokens, tim, live, ps_mode, twt_asleep, calls, ev, rpu, stack>>

Call == [nb : Frame, peer : Peer, ac : AC]
Idle == [op |-> "idle", ac |-> 0, desc |-> 0, q |-> 0]
Event == [op : {"idle", "kick", "done"}, ac : AC, desc : Desc, q : AC]

TypeOK ==
  /\ pendq \in [Peer -> [AC -> Seq(Frame)]]
  /\ txq \in [Desc -> Seq(Frame)]
  /\ alloc \subseteq Desc
  /\ outstanding \in [AC -> 0 .. UINT_MAX]
  /\ spare_map \subseteq (Nat \X DataAC)
  /\ mapped \in [Desc -> Nat]
  /\ curr_peer_opp \in [AC -> UPeer]
  /\ wakeup_q \in Seq(Peer)
  /\ ps_tokens \in [Peer -> Nat]
  /\ tim \in [drv : [Peer -> SUBSET AC], rpu : [Peer -> SUBSET AC]]
  /\ live \subseteq UPeer /\ ps_mode \subseteq UPeer
  /\ twt_asleep \in BOOLEAN
  /\ calls \subseteq Call
  /\ ev \in Event
  /\ rpu \subseteq Desc
  /\ stack \subseteq Frame

Init ==
  /\ pendq = [p \in Peer |-> [ac \in AC |-> <<>>]]
  /\ txq = [d \in Desc |-> <<>>]
  /\ alloc = {}
  /\ outstanding = [ac \in AC |-> 0]
  /\ spare_map = {}
  /\ mapped = [d \in Desc |-> 0]
  /\ curr_peer_opp = [ac \in AC |-> 0]
  /\ wakeup_q = <<>>
  /\ ps_tokens = [p \in Peer |-> 0]
  /\ tim = [drv |-> [p \in Peer |-> {}], rpu |-> [p \in Peer |-> {}]]
  /\ live = {} /\ ps_mode = {}
  /\ twt_asleep = FALSE
  /\ calls = {}
  /\ ev = Idle
  /\ rpu = {}
  /\ stack = Frame

-----------------------------------------------------------------------------
(* The descriptor pool *)

Incr(n) == IF n = UINT_MAX THEN 0 ELSE n + 1
Decr(n) == IF n = 0 THEN UINT_MAX ELSE n - 1

(* The bit of spare_desc_queue_map that stands for queue q holding spare   *)
(* descriptor d.  A nibble has a bit for each of BK..VO; the position that *)
(* AC_MC computes to is the first bit of the next nibble.                  *)
SpareBit(d, q) ==
  LET idx == d % Reserved
  IN  IF q = AC_MC THEN <<idx + 1, AC_BK>> ELSE <<idx, q>>

SpareBits(d, q) == IF d < Reserved THEN {} ELSE {SpareBit(d, q)}

(* The queue that tx_buff_req_free charges descriptor d to.                *)
TxDoneQueue(d) ==
  LET set == {b \in DataAC : <<d % Reserved, b>> \in spare_map}
  IN  IF d < Reserved THEN d % AC_MAX
      ELSE IF set = {} THEN AC_BK
      ELSE CHOOSE b \in set : \A c \in set : b <= c

(* Mutant: the spare descriptors are tried before the reserved ones.       *)
TxDescGetSpareFirst(q) ==
  LET own   == {d \in Desc \ alloc : d < Reserved /\ d % AC_MAX = q}
      spare == {d \in Desc \ alloc : d >= Reserved}
      free  == IF spare # {} THEN spare ELSE own
  IN  {d \in free : \A e \in free : d <= e}

(* The descriptor tx_desc_get hands to queue q, as a set of at most one:   *)
(* the first free one of q's own, or else the first free spare one.        *)
TxDescGet(q) ==
  LET own   == {d \in Desc \ alloc : d < Reserved /\ d % AC_MAX = q}
      spare == {d \in Desc \ alloc : d >= Reserved}
      free  == IF own # {} THEN own ELSE spare
  IN  {d \in free : \A e \in free : d <= e}

(* Descriptor d is marked and charged to queue q.                          *)
Charge(d, q) ==
  /\ alloc' = alloc \cup {d}
  /\ outstanding' = [outstanding EXCEPT ![q] = Incr(@)]
  /\ spare_map' = spare_map \cup SpareBits(d, q)

(* Mutant: the descriptor is kept although nothing could be sent.          *)
ChargeKeeps(d, q) == Charge(d, q)

(* Charge, then tx_desc_free because nothing could be sent.                *)
ChargeAndFree(d, q) ==
  /\ spare_map' = spare_map \ SpareBits(d, q)
  /\ UNCHANGED <<alloc, outstanding>>

TxDescFree(d, q) ==
  /\ alloc' = alloc \ {d}
  /\ outstanding' = [outstanding EXCEPT ![q] = Decr(@)]
  /\ spare_map' = spare_map \ SpareBits(d, q)

(* Mutant: the old category's bit stays set.                               *)
RechargeKeepsBit(d, q, ac) ==
  /\ outstanding' = IF q = ac THEN outstanding
                    ELSE [outstanding EXCEPT ![q] = Decr(@), ![ac] = Incr(@)]
  /\ spare_map' = spare_map \cup SpareBits(d, ac)
  /\ UNCHANGED alloc

(* The descriptor of a completed command goes from queue q to queue ac.    *)
Recharge(d, q, ac) ==
  /\ outstanding' = IF q = ac THEN outstanding
                    ELSE [outstanding EXCEPT ![q] = Decr(@), ![ac] = Incr(@)]
  /\ spare_map' = IF q = ac THEN spare_map
                  ELSE (spare_map \ SpareBits(d, q)) \cup SpareBits(d, ac)
  /\ UNCHANGED alloc

-----------------------------------------------------------------------------
(* Whose turn it is *)

CanXmit(f) == f \in Emergency \/ ~twt_asleep

(* The first peer of the wake-up queue with a token and a frame to send.   *)
WakeupPeer(pq, ac) ==
  LET ready(i) == ps_tokens[wakeup_q[i]] > 0 /\ pq[wakeup_q[i]][ac] # <<>>
  IN  {wakeup_q[i] : i \in {j \in DOMAIN wakeup_q :
                               ready(j) /\ \A k \in 1 .. j - 1 : ~ready(k)}}

(* Mutant: clients in power save are not skipped.                          *)
RoundRobinAsleepToo(pq, ac) ==
  LET busy    == {p \in UPeer : pq[p][ac] # <<>>}
      dist(p) == (p + MAX_PEERS - curr_peer_opp[ac]) % MAX_PEERS
  IN  {p \in busy : \A r \in busy : dist(p) <= dist(r)}

(* The first peer from curr_peer_opp on that is awake and has a frame.     *)
RoundRobinPeer(pq, ac) ==
  LET awake   == {p \in UPeer : p \notin ps_mode /\ pq[p][ac] # <<>>}
      dist(p) == (p + MAX_PEERS - curr_peer_opp[ac]) % MAX_PEERS
  IN  {p \in awake : \A r \in awake : dist(p) <= dist(r)}

TxCurrPeerOppGet(pq, ac) ==
  IF ac = AC_MC THEN {MAX_PEERS}
  ELSE IF WakeupPeer(pq, ac) # {} THEN WakeupPeer(pq, ac)
  ELSE RoundRobinPeer(pq, ac)

(* Mutant: the next opportunity is not taken modulo MAX_PEERS.             *)
TakeOppNoWrap(pq, ac, p) ==
  LET woken == ac # AC_MC /\ WakeupPeer(pq, ac) # {}
  IN  /\ ps_tokens' = IF woken THEN [ps_tokens EXCEPT ![p] = @ - 1] ELSE ps_tokens
      /\ curr_peer_opp' = IF woken \/ ac = AC_MC THEN curr_peer_opp
                          ELSE [curr_peer_opp EXCEPT ![ac] = p + 1]

(* What the choice of peer p leaves behind, whether or not it sends.       *)
TakeOpp(pq, ac, p) ==
  LET woken == ac # AC_MC /\ WakeupPeer(pq, ac) # {}
  IN  /\ ps_tokens' = IF woken THEN [ps_tokens EXCEPT ![p] = @ - 1] ELSE ps_tokens
      /\ curr_peer_opp' = IF woken \/ ac = AC_MC THEN curr_peer_opp
                          ELSE [curr_peer_opp EXCEPT ![ac] = (p + 1) % MAX_PEERS]

(* How many frames of queue q may go in one command: frames of one flow    *)
(* that may be sent now, as many as their sizes, which are not modelled,   *)
(* allow below max_tx_aggregation.                                         *)
BatchLen(q) ==
  {n \in 1 .. Len(q) : /\ n <= MAX_TX_AGGREGATION
                       /\ \A i \in 1 .. n : CanXmit(q[i]) /\ Flow[q[i]] = Flow[q[1]]}

(* Mutant: the bit of an empty queue is not cleared.                       *)
UpdatePendQBmpSets(t, pq, p, ac, written) ==
  LET set == t.drv[p] \cup {ac}
  IN  IF ~ApMode \/ p = MAX_PEERS THEN t
      ELSE [drv |-> [t.drv EXCEPT ![p] = set],
            rpu |-> IF written THEN [t.rpu EXCEPT ![p] = set] ELSE t.rpu]

UpdatePendQBmp(t, pq, p, ac, written) ==
  LET set == IF pq[p][ac] = <<>> THEN t.drv[p] \ {ac} ELSE t.drv[p] \cup {ac}
  IN  IF ~ApMode \/ p = MAX_PEERS THEN t
      ELSE [drv |-> [t.drv EXCEPT ![p] = set],
            rpu |-> IF written THEN [t.rpu EXCEPT ![p] = set] ELSE t.rpu]

Written == IF "bmp" \in Failures THEN BOOLEAN ELSE {TRUE}

ListDelNode(q, p) ==
  IF \E i \in DOMAIN q : q[i] = p
  THEN RemoveAt(q, CHOOSE i \in DOMAIN q : q[i] = p)
  ELSE q

(* tx_cmd_init: the batch is mapped and sent with descriptor d; "frees" is *)
(* what the caller releases when it is told that this failed.              *)
TxCmdInit(d, batch, p, frees) ==
  \/ /\ mapped[d] = 0
     /\ mapped' = [mapped EXCEPT ![d] = Len(batch)]
     /\ txq' = [txq EXCEPT ![d] = <<>>]
     /\ wakeup_q' = IF ps_tokens'[p] = 0 THEN ListDelNode(wakeup_q, p) ELSE wakeup_q
     /\ \/ /\ rpu' = rpu \cup {d}
           /\ stack' = stack \cup Range(batch)
        \/ /\ "send" \in Failures
           /\ rpu' = rpu
           /\ stack' = stack \cup Range(batch) \cup frees
  \/ /\ "map" \in Failures \/ mapped[d] # 0
     /\ \E k \in mapped[d] .. Len(batch) - 1 : mapped' = [mapped EXCEPT ![d] = k]
     /\ txq' = [txq EXCEPT ![d] = batch]
     /\ stack' = stack \cup frees
     /\ UNCHANGED <<rpu, wakeup_q>>

(* Mutant: the last frame of the batch is peeked and not dequeued.         *)
DequeuedButLast(pq, p, ac, n) == [pq EXCEPT ![p][ac] = SubSeq(@, n, Len(@))]

Dequeued(pq, p, ac, n) == [pq EXCEPT ![p][ac] = SubSeq(@, n + 1, Len(@))]

(* _tx_pending_process takes n frames of peer p for category ac.           *)
PendingBatch(pq, t, ac, p, n) ==
  /\ p \in TxCurrPeerOppGet(pq, ac)
  /\ n \in BatchLen(pq[p][ac])
  /\ TakeOpp(pq, ac, p)
  /\ pendq' = Dequeued(pq, p, ac, n)
  /\ \E w \in Written : tim' = UpdatePendQBmp(t, pendq', p, ac, w)

(* _tx_pending_process returns 0.                                          *)
NoPendingBatch(pq, t, ac) ==
  /\ pendq' = pq
  /\ tim' = t
  /\ \/ /\ TxCurrPeerOppGet(pq, ac) = {}
        /\ UNCHANGED sched
     \/ \E p \in TxCurrPeerOppGet(pq, ac) : BatchLen(pq[p][ac]) = {} /\ TakeOpp(pq, ac, p)

(* tx_pending_process: descriptor d has been charged to ac for this.       *)
TxPendingProcess(pq, t, d, ac, frees) ==
  \/ \E p \in Peer, n \in 1 .. MAX_TX_AGGREGATION :
       /\ PendingBatch(pq, t, ac, p, n)
       /\ Charge(d, ac)
       /\ TxCmdInit(d, SubSeq(pq[p][ac], 1, n), p, frees)
  \/ /\ NoPendingBatch(pq, t, ac)
     /\ ChargeAndFree(d, ac)
     /\ UNCHANGED cmd

-----------------------------------------------------------------------------
(* Sending: nrf_wifi_fmac_start_xmit                                       *)

(* The peer and the category are looked up before tx_lock is taken.  A     *)
(* frame for an unknown peer is freed at once and leaves no trace.         *)
XmitLookup(f, p, ac) ==
  /\ f \in stack /\ Cardinality(calls) < MAX_CALLS
  /\ \/ p \in live /\ ac \in DataAC
     \/ Multicast /\ p = MAX_PEERS /\ ac = AC_MC
  /\ calls' = calls \cup {[nb |-> f, peer |-> p, ac |-> ac]}
  /\ stack' = stack \ {f}
  /\ UNCHANGED <<pendq, pool, txq, mapped, rpu, wakeup_q, sched, tim, peers, ev>>

XmitEnter(c) == ev = Idle /\ calls' = calls \ {c}

HasRoom(c) == Len(pendq[c.peer][c.ac]) < MAX_TX_PENDING_QLEN

Enqueued(c) ==
  [pendq EXCEPT ![c.peer][c.ac] =
     IF c.nb \in Emergency THEN <<c.nb>> \o @ ELSE Append(@, c.nb)]

EnqueuedBmp(c, written) == UpdatePendQBmp(tim, Enqueued(c), c.peer, c.ac, written)

(* Mutant: frames of one flow are collected even if no descriptor is busy. *)
HeldThoughIdle(c) ==
  LET q == Enqueued(c)[c.peer][c.ac]
  IN  Flow[Head(q)] = Flow[c.nb] /\ Len(q) < MAX_TX_AGGREGATION

(* tx_process: with as many descriptors in use as the category owns, a     *)
(* frame that can join the batch being collected waits for a TX_DONE.      *)
HeldForAggregation(c) ==
  LET q == Enqueued(c)[c.peer][c.ac]
  IN  /\ outstanding[c.ac] >= num_tx_tokens_per_ac
      /\ Flow[Head(q)] = Flow[c.nb]
      /\ Len(q) < MAX_TX_AGGREGATION

GoesOn(c) == c.peer \notin ps_mode /\ ~HeldForAggregation(c) /\ CanXmit(c.nb)

XmitQueueFull(c) ==
  /\ XmitEnter(c)
  /\ ~HasRoom(c)
  /\ stack' = stack \cup {c.nb}
  /\ UNCHANGED <<pendq, pool, txq, mapped, rpu, wakeup_q, sched, tim, peers, ev>>

(* tx_enqueue reports the failed write of the bitmap as its own failure.   *)
XmitBitmapFails(c) ==
  /\ XmitEnter(c)
  /\ HasRoom(c)
  /\ "bmp" \in Failures /\ ApMode /\ c.peer # MAX_PEERS
  /\ pendq' = Enqueued(c)
  /\ tim' = EnqueuedBmp(c, FALSE)
  /\ stack' = stack \cup {c.nb}
  /\ UNCHANGED <<pool, txq, mapped, rpu, wakeup_q, sched, peers, ev>>

XmitQueued(c) ==
  /\ XmitEnter(c)
  /\ HasRoom(c)
  /\ ~GoesOn(c) \/ TxDescGet(c.ac) = {}
  /\ pendq' = Enqueued(c)
  /\ tim' = EnqueuedBmp(c, TRUE)
  /\ UNCHANGED <<pool, cmd, sched, peers, ev>>

XmitSends(c) ==
  /\ XmitEnter(c)
  /\ HasRoom(c)
  /\ GoesOn(c)
  /\ \E d \in TxDescGet(c.ac) :
       TxPendingProcess(Enqueued(c), EnqueuedBmp(c, TRUE), d, c.ac, {c.nb})
  /\ UNCHANGED <<peers, ev>>

Xmit(c) == XmitQueueFull(c) \/ XmitBitmapFails(c) \/ XmitQueued(c) \/ XmitSends(c)

-----------------------------------------------------------------------------
(* TX_DONE events: tx_done_process and tx_buff_req_free                    *)

(* Mutant: the loop over the coalesced frames stops after the first.       *)
UnmappedOne(d) == [mapped EXCEPT ![d] = IF @ > 0 THEN @ - 1 ELSE 0]

Unmapped(d) == [mapped EXCEPT ![d] = 0]

(* The buffers are unmapped and the search for a next batch begins.        *)
TxDone(d) ==
  /\ ev = Idle
  /\ d \in rpu
  /\ rpu' = rpu \ {d}
  /\ mapped' = Unmapped(d)
  /\ ev' = [op |-> "done", desc |-> d, q |-> TxDoneQueue(d),
            ac |-> IF d < Reserved THEN TxDoneQueue(d) ELSE AC_VO]
  /\ UNCHANGED <<pendq, pool, txq, wakeup_q, stack, sched, tim, peers, calls>>

(* The descriptor carries the next batch, unless the RPU sleeps.           *)
TxDoneServes ==
  /\ ev.op = "done"
  /\ \E p \in Peer, n \in 1 .. MAX_TX_AGGREGATION :
       /\ PendingBatch(pendq, tim, ev.ac, p, n)
       /\ Recharge(ev.desc, ev.q, ev.ac)
       /\ LET batch == SubSeq(pendq[p][ev.ac], 1, n)
          IN  \/ ~twt_asleep /\ TxCmdInit(ev.desc, batch, p, {})
              \/ /\ twt_asleep
                 /\ txq' = [txq EXCEPT ![ev.desc] = batch]
                 /\ UNCHANGED <<mapped, rpu, wakeup_q, stack>>
  /\ ev' = Idle
  /\ UNCHANGED <<peers, calls>>

(* Nothing in this category.  A reserved descriptor serves only its own;   *)
(* a spare one tries VO down to BK before it is freed.                     *)
TxDoneFindsNone ==
  /\ ev.op = "done"
  /\ NoPendingBatch(pendq, tim, ev.ac)
  /\ IF ev.desc < Reserved \/ ev.ac = AC_BK
     THEN TxDescFree(ev.desc, ev.q) /\ ev' = Idle
     ELSE UNCHANGED pool /\ ev' = [ev EXCEPT !.ac = @ - 1]
  /\ UNCHANGED <<cmd, peers, calls>>

-----------------------------------------------------------------------------
(* Power save of AP clients: sap_client_ps_get_frames, _update_pmmode      *)

KickAll == ev' = [Idle EXCEPT !.op = "kick", !.ac = AC_VO]

WakeupEnqueue(p) ==
  wakeup_q' = IF p \in Range(wakeup_q) THEN wakeup_q ELSE Append(wakeup_q, p)

PsGetFrames(p, num_frames) ==
  /\ ev = Idle
  /\ p \in live
  /\ ps_tokens' = [ps_tokens EXCEPT ![p] = num_frames]
  /\ WakeupEnqueue(p)
  /\ KickAll
  /\ UNCHANGED <<pendq, pool, txq, mapped, rpu, stack, curr_peer_opp, tim, peers, calls>>

ClientSleeps(p) ==
  /\ ev = Idle
  /\ p \in live
  /\ ps_mode' = ps_mode \cup {p}
  /\ UNCHANGED <<pendq, pool, cmd, sched, tim, live, twt_asleep, calls, ev>>

ClientWakes(p) ==
  /\ ev = Idle
  /\ p \in live
  /\ ps_mode' = ps_mode \ {p}
  /\ WakeupEnqueue(p)
  /\ KickAll
  /\ UNCHANGED <<pendq, pool, txq, mapped, rpu, stack, sched, tim, live, twt_asleep, calls>>

(* One iteration of the loop over VO..BK that both handlers end with.      *)
Kick ==
  /\ ev.op = "kick"
  /\ \/ /\ TxDescGet(ev.ac) = {}
        /\ UNCHANGED <<pendq, pool, cmd, sched, tim>>
     \/ \E d \in TxDescGet(ev.ac) : TxPendingProcess(pendq, tim, d, ev.ac, {})
  /\ ev' = IF ev.ac = AC_BK THEN Idle ELSE [ev EXCEPT !.ac = @ - 1]
  /\ UNCHANGED <<peers, calls>>

-----------------------------------------------------------------------------
(* The peer table and the TWT state                                        *)

(* NEW_STATION takes the first unused slot.                                *)
PeerAdd(p) ==
  /\ ev = Idle
  /\ p \notin live /\ \A r \in UPeer : r < p => r \in live
  /\ live' = live \cup {p}
  /\ UNCHANGED <<pendq, pool, cmd, sched, tim, ps_mode, twt_asleep, calls, ev>>

(* The entries of the peers in gone are zeroed; their queues, and their    *)
(* places in the wake-up queue, stay.                                      *)
Forget(gone) ==
  /\ live' = live \ gone
  /\ ps_mode' = ps_mode \ gone
  /\ ps_tokens' = [p \in Peer |-> IF p \in gone THEN 0 ELSE ps_tokens[p]]
  /\ tim' = [tim EXCEPT !.drv = [p \in Peer |-> IF p \in gone THEN {} ELSE @[p]]]
  /\ UNCHANGED <<pendq, pool, cmd, curr_peer_opp, twt_asleep, calls, ev>>

PeerRemove(p) == PeersLeave /\ ev = Idle /\ p \in live /\ Forget({p})

(* start_ap and stop_ap run on a control thread, without tx_lock.          *)
PeersFlush == PeersLeave /\ ApMode /\ live # {} /\ Forget(live)

(* twt_sleep_status is set by the OS layer.                                *)
TwtChange ==
  /\ TwtEnabled /\ ev = Idle
  /\ twt_asleep' = ~twt_asleep
  /\ UNCHANGED <<pendq, pool, cmd, sched, tim, live, ps_mode, calls, ev>>

-----------------------------------------------------------------------------
Events ==
  \/ \E d \in Desc : TxDone(d)
  \/ TxDoneServes
  \/ TxDoneFindsNone
  \/ Kick
  \/ \E p \in UPeer :
       \/ \E n \in 0 .. MAX_PS_FRAMES : PsGetFrames(p, n)
       \/ ClientSleeps(p)
       \/ ClientWakes(p)
       \/ PeerAdd(p)
       \/ PeerRemove(p)

Next ==
  \/ \E f \in Frame, p \in Peer, ac \in AC : XmitLookup(f, p, ac)
  \/ \E c \in calls : Xmit(c)
  \/ Events
  \/ PeersFlush
  \/ TwtChange

Spec == Init /\ [][Next]_vars

(* A handler that holds tx_lock finishes, a sender gets the lock in the    *)
(* end, and the RPU completes every command: the event thread works its    *)
(* queue in order, so no other event can keep a TX_DONE waiting for ever.  *)
Fairness ==
  /\ WF_vars(TxDoneServes) /\ WF_vars(TxDoneFindsNone) /\ WF_vars(Kick)
  /\ SF_vars(\E c \in calls : Xmit(c))
  /\ \A d \in Desc : SF_vars(TxDone(d))

FairSpec == Spec /\ Fairness

-----------------------------------------------------------------------------
(* Properties *)

QueuesOf(d) == {b \in DataAC : <<d % Reserved, b>> \in spare_map}

(* The nibble of an allocated spare descriptor names one category, that of *)
(* a free one none: what set_, clear_ and get_spare_desc_q_map and the     *)
(* derivation of tx_done_q in tx_buff_req_free rely on.                    *)
SpareMapExact ==
  \A d \in Desc : d >= Reserved =>
    Cardinality(QueuesOf(d)) = (IF d \in alloc THEN 1 ELSE 0)

(* outstanding_descs[] counts the descriptors in use by each category as   *)
(* tx_buff_req_free will attribute them, whatever descriptors tx_desc_get  *)
(* lent, TX_DONE events moved and empty batches gave back.                 *)
OutstandingExact ==
  \A ac \in AC : outstanding[ac] = Cardinality({d \in alloc : TxDoneQueue(d) = ac})

(* The records of who uses which descriptor, the bitmap, the nibbles and   *)
(* the counters, agree after every loan, move and return.                  *)
PoolExact == SpareMapExact /\ OutstandingExact

(* A descriptor in use waits for a TX_DONE: its bit of buf_pool_bmp_p is   *)
(* cleared only by tx_done_process, so one without a command at the RPU    *)
(* would be lost for good.                                                 *)
AwaitsTxDone == alloc = rpu \cup (IF ev.op = "done" THEN {ev.desc} ELSE {})

(* A free descriptor has no mapped buffer and no frame, so that            *)
(* tx_cmd_prep_callbk_fn never meets a buffer that is already mapped and   *)
(* _tx_pending_process starts from an empty txq.                           *)
FreeDescClean == \A d \in Desc \ alloc : mapped[d] = 0 /\ txq[d] = <<>>

(* Where frame f is: with the stack, with a sender, or in a queue.         *)
PlacesInQueue(f, p, ac) ==
  {<<"pendq", p, ac, i>> : i \in {j \in DOMAIN pendq[p][ac] : pendq[p][ac][j] = f}}

PlacesInDesc(f, d) == {<<"txq", d, i>> : i \in {j \in DOMAIN txq[d] : txq[d][j] = f}}

Places(f) ==
  (IF f \in stack THEN {<<"stack">>} ELSE {})
  \cup {<<"call", c>> : c \in {x \in calls : x.nb = f}}
  \cup (UNION {PlacesInQueue(f, p, ac) : p \in Peer, ac \in AC})
  \cup (UNION {PlacesInDesc(f, d) : d \in Desc})

(* A network buffer has one owner: start_xmit frees it or the driver keeps *)
(* it in one queue until tx_cmd_init frees it, and none is lost.           *)
OneOwner == \A f \in Frame : Cardinality(Places(f)) = 1

(* The bitmap in RPU memory, from which an AP's beacons announce buffered  *)
(* frames, agrees with the queues after every update_pend_q_bmp.           *)
TimExact ==
  ApMode => \A p \in UPeer : tim.rpu[p] = {ac \in AC : pendq[p][ac] # <<>>}

(* Frames for a client in power save leave its queue only in exchange for  *)
(* one of the tokens that a PS_GET_FRAMES event gave it.                   *)
PsTokenSpent ==
  [][\A p \in ps_mode, ac \in AC :
       Len(pendq'[p][ac]) < Len(pendq[p][ac]) => ps_tokens'[p] = ps_tokens[p] - 1]_vars

Pending(f, p) == \E ac \in AC : f \in Range(pendq[p][ac])

(* A frame for a client that is awake does not stay queued for ever, with  *)
(* its descriptors busy, with frames held for aggregation and with other   *)
(* clients sharing the category.                                           *)
AwakeServed ==
  \A f \in Frame, p \in Peer :
    Pending(f, p) /\ p \notin ps_mode ~> ~Pending(f, p) \/ p \in ps_mode

(* The pool implements the token pool of TxTokens.                         *)
NoAC == AC_MAX
holder == [d \in Desc |-> IF d \in alloc THEN TxDoneQueue(d) ELSE NoAC]
Tokens == INSTANCE TxTokens
ImplementsTokens == Tokens!Spec
=============================================================================
