---------------------------- MODULE TxPathProofs ----------------------------
(***************************************************************************)
(* Proofs about the transmit path (TxPath), for every size of the pool.    *)
(*                                                                         *)
(* First the type invariant, one lemma per action.  Then the accounts of   *)
(* the descriptor pool: AccountInv, the inductive invariant, adds to the   *)
(* types what the pool's three records say of one another (PoolInv) and    *)
(* what the threads rely on (ThreadInv).  Only four operations touch the   *)
(* pool (PoolStep): each keeps PoolInv, and every action is one of them or *)
(* leaves the pool alone.  The pool implements TxTokens.                   *)
(*                                                                         *)
(* Then three invariants of their own: what a descriptor holds (DescInv),  *)
(* the traffic indication map of an AP (TimInv), and where every network   *)
(* buffer is (OwnInv).                                                     *)
(***************************************************************************)
EXTENDS TxPath, FiniteSetTheorems, SequenceTheorems, WellFoundedInduction, TLAPS

USE SizeAssumption

(* Every non-empty set of natural numbers has a least element.             *)
LEMMA Least ==
  ASSUME NEW S \in SUBSET Nat, S # {}
  PROVE  \E m \in S : \A n \in S : m <= n
<1> DEFINE R == OpToRel(<, Nat)
<1>1. IsWellFoundedOn(R, Nat)
  BY NatLessThanWellFounded
<1>2. PICK m \in S : \A n \in S : <<n, m>> \notin R
  BY <1>1, WFMin, Zenon
<1>3. \A n \in S : ~(n < m)
  BY <1>2 DEF OpToRel
<1> QED  BY <1>3

(* There are fewer spare descriptors than reserved ones, so that           *)
(* spare_desc_indx tells them apart.                                       *)
LEMMA ReservedBounds ==
  /\ Reserved \in Nat /\ Reserved >= AC_MAX
  /\ Reserved <= NUM_TX_TOKENS /\ NUM_TX_TOKENS < Reserved + AC_MAX
<1> DEFINE n == num_tx_tokens_per_ac
<1>1. n \in Nat /\ n >= 1
  BY DEF num_tx_tokens_per_ac
<1>2. NUM_TX_TOKENS = AC_MAX * n + (NUM_TX_TOKENS % AC_MAX)
  BY DEF num_tx_tokens_per_ac
<1>3. NUM_TX_TOKENS % AC_MAX \in 0 .. AC_MAX - 1
  OBVIOUS
<1>4. AC_MAX * n \in Nat /\ AC_MAX * n >= AC_MAX /\ Reserved = AC_MAX * n
  BY <1>1 DEF Reserved
<1> QED  BY <1>2, <1>3, <1>4

(* The nibble of a spare descriptor is its number past the reserved ones   *)
(* (spare_desc_indx).                                                      *)
LEMMA SpareIndex ==
  ASSUME NEW d \in Desc, d >= Reserved
  PROVE  d % Reserved = d - Reserved
BY ReservedBounds DEF Desc

(* A reserved descriptor belongs to the category desc %                    *)
(* NRF_WIFI_FMAC_AC_MAX.                                                   *)
LEMMA ReservedQueue ==
  ASSUME NEW d \in Desc
  PROVE  d % AC_MAX \in AC
BY DEF Desc, AC

-----------------------------------------------------------------------------
(* The types of the variables, one definition per group                    *)

PendqType == [Peer -> [AC -> Seq(Frame)]]
TimType   == [drv : [Peer -> SUBSET AC], rpu : [Peer -> SUBSET AC]]

PoolType ==
  alloc \subseteq Desc /\ outstanding \in [AC -> 0 .. UINT_MAX] /\ spare_map \subseteq (Nat \X DataAC)

CmdType ==
  /\ txq \in [Desc -> Seq(Frame)] /\ mapped \in [Desc -> Nat] /\ rpu \subseteq Desc
  /\ wakeup_q \in Seq(Peer) /\ stack \subseteq Frame

SchedType == curr_peer_opp \in [AC -> UPeer] /\ ps_tokens \in [Peer -> Nat]

PeersType == live \subseteq UPeer /\ ps_mode \subseteq UPeer /\ twt_asleep \in BOOLEAN

ThreadType == calls \subseteq Call /\ ev \in Event

(* The type invariant, group by group.                                     *)
LEMMA TypeParts ==
  TypeOK <=> /\ pendq \in PendqType /\ tim \in TimType
             /\ PoolType /\ CmdType /\ SchedType /\ PeersType /\ ThreadType
BY DEF TypeOK, PendqType, TimType, PoolType, CmdType, SchedType, PeersType, ThreadType

(* The same in the next state.                                             *)
LEMMA TypePartsNext ==
  /\ pendq' \in PendqType /\ tim' \in TimType
  /\ PoolType' /\ CmdType' /\ SchedType' /\ PeersType' /\ ThreadType'
  => TypeOK'
BY DEF TypeOK, PendqType, TimType, PoolType, CmdType, SchedType, PeersType, ThreadType

(* The multicast category is the one beyond the data categories; slot      *)
(* MAX_PEERS is a peer.                                                    *)
LEMMA ConstantTypes ==
  /\ AC_BK \in DataAC /\ AC_VO \in DataAC /\ DataAC \subseteq AC /\ AC_MC \in AC
  /\ AC = DataAC \cup {AC_MC} /\ AC_MC \notin DataAC /\ DataAC \subseteq Nat
  /\ UPeer \subseteq Peer /\ MAX_PEERS \in Peer /\ 0 \in UPeer
  /\ 0 \in Desc
BY DEF AC_BK, AC_VO, DataAC, AC, AC_MC, UPeer, Peer, Desc

(* The position that a spare descriptor's bit is computed to is always one *)
(* of a category's bits in some nibble.                                    *)
LEMMA SpareBitsType ==
  ASSUME NEW d \in Desc, NEW q \in AC
  PROVE  SpareBits(d, q) \subseteq (Nat \X DataAC)
<1>1. d % Reserved \in Nat
  BY ReservedBounds DEF Desc
<1>2. q = AC_MC \/ q \in DataAC
  BY ConstantTypes
<1>3. (d % Reserved) + 1 \in Nat
  BY <1>1
<1> QED  BY <1>1, <1>2, <1>3, ConstantTypes DEF SpareBits, SpareBit

(* tx_buff_req_free attributes every descriptor to some category.          *)
LEMMA TxDoneQueueType ==
  ASSUME NEW d \in Desc
  PROVE  TxDoneQueue(d) \in AC
<1> DEFINE S == {b \in DataAC : <<d % Reserved, b>> \in spare_map}
<1>1. CASE d < Reserved
  BY <1>1, ReservedQueue DEF TxDoneQueue
<1>2. CASE ~(d < Reserved) /\ S = {}
  BY <1>2, ConstantTypes DEF TxDoneQueue
<1>3. CASE ~(d < Reserved) /\ S # {}
  <2>1. S \in SUBSET Nat
    BY ConstantTypes
  <2>2. \E m \in S : \A n \in S : m <= n
    BY <1>3, <2>1, Least
  <2>3. (CHOOSE m \in S : \A n \in S : m <= n) \in S
    BY <2>2
  <2>4. TxDoneQueue(d) \in S
    BY <1>3, <2>3, Zenon DEF TxDoneQueue
  <2> QED  BY <2>4, ConstantTypes
<1> QED  BY <1>1, <1>2, <1>3

(* Counting wraps within unsigned int.                                     *)
LEMMA CountType ==
  ASSUME NEW n \in 0 .. UINT_MAX
  PROVE  Incr(n) \in 0 .. UINT_MAX /\ Decr(n) \in 0 .. UINT_MAX
BY DEF Incr, Decr

(* Every operation on the pool keeps its type.                             *)
LEMMA PoolOperationsType ==
  ASSUME PoolType, NEW d \in Desc, NEW q \in AC, NEW ac \in AC,
         \/ Charge(d, q)
         \/ ChargeAndFree(d, q)
         \/ TxDescFree(d, q)
         \/ Recharge(d, q, ac)
         \/ UNCHANGED pool
  PROVE  PoolType'
<1>1. outstanding' \in [AC -> 0 .. UINT_MAX]
  BY CountType DEF PoolType, Charge, ChargeAndFree, TxDescFree, Recharge, pool
<1>2. alloc' \subseteq Desc
  BY DEF PoolType, Charge, ChargeAndFree, TxDescFree, Recharge, pool
<1>3. spare_map' \subseteq (Nat \X DataAC)
  <2>1. SpareBits(d, q) \subseteq (Nat \X DataAC) /\ SpareBits(d, ac) \subseteq (Nat \X DataAC)
    BY SpareBitsType
  <2>2. spare_map' \subseteq spare_map \cup SpareBits(d, q) \cup SpareBits(d, ac)
    BY DEF Charge, ChargeAndFree, TxDescFree, Recharge, pool
  <2> QED  BY <2>1, <2>2 DEF PoolType
<1> QED  BY <1>1, <1>2, <1>3 DEF PoolType

(* tx_curr_peer_opp_get: a woken client has a token to spend, a round-     *)
(* robin pick is unicast.                                                  *)
LEMMA PeerChoiceType ==
  ASSUME SchedType, CmdType, NEW pq \in PendqType, NEW ac \in AC, NEW p \in TxCurrPeerOppGet(pq, ac)
  PROVE  /\ p \in Peer
         /\ p \in WakeupPeer(pq, ac) => ps_tokens[p] > 0
         /\ ac # AC_MC /\ WakeupPeer(pq, ac) # {} => p \in WakeupPeer(pq, ac)
         /\ ac # AC_MC /\ WakeupPeer(pq, ac) = {} => p \in UPeer
<1>1. RoundRobinPeer(pq, ac) \subseteq UPeer
  BY DEF RoundRobinPeer
<1>2. \A r \in WakeupPeer(pq, ac) : r \in Peer /\ ps_tokens[r] > 0
  BY DEF WakeupPeer, CmdType
<1>3. CASE ac = AC_MC
  BY <1>2, <1>3, ConstantTypes DEF TxCurrPeerOppGet
<1>4. CASE ac # AC_MC
  BY <1>1, <1>2, <1>4, ConstantTypes DEF TxCurrPeerOppGet
<1> QED  BY <1>3, <1>4

(* Spending a token and moving the round robin on stay in range.           *)
LEMMA TakeOppType ==
  ASSUME SchedType, CmdType, NEW pq \in PendqType, NEW ac \in AC, NEW p \in TxCurrPeerOppGet(pq, ac),
         TakeOpp(pq, ac, p)
  PROVE  SchedType'
<1> DEFINE woken == ac # AC_MC /\ WakeupPeer(pq, ac) # {}
<1>1. /\ p \in Peer
      /\ woken => ps_tokens[p] > 0
      /\ ac # AC_MC /\ ~woken => p \in UPeer
  BY PeerChoiceType
<1>2. ps_tokens' \in [Peer -> Nat]
  <2>1. CASE woken
    <3>1. ps_tokens' = [ps_tokens EXCEPT ![p] = @ - 1]
      BY <2>1 DEF TakeOpp
    <3>2. ps_tokens[p] \in Nat /\ ps_tokens[p] - 1 \in Nat
      BY <1>1, <2>1 DEF SchedType
    <3> QED  BY <3>1, <3>2 DEF SchedType
  <2>2. CASE ~woken
    BY <2>2 DEF TakeOpp, SchedType
  <2> QED  BY <2>1, <2>2
<1>3. curr_peer_opp' \in [AC -> UPeer]
  <2>1. CASE woken \/ ac = AC_MC
    BY <2>1 DEF TakeOpp, SchedType
  <2>2. CASE ~woken /\ ac # AC_MC
    <3>1. curr_peer_opp' = [curr_peer_opp EXCEPT ![ac] = (p + 1) % MAX_PEERS]
      BY <2>2 DEF TakeOpp
    <3>2. (p + 1) % MAX_PEERS \in UPeer
      BY <1>1, <2>2 DEF UPeer
    <3> QED  BY <3>1, <3>2 DEF SchedType
  <2> QED  BY <2>1, <2>2
<1> QED  BY <1>2, <1>3 DEF SchedType

(* update_pend_q_bmp writes a bitmap of categories.                        *)
LEMMA BitmapType ==
  ASSUME NEW t \in TimType, NEW pq, NEW p \in Peer, NEW ac \in AC, NEW w \in BOOLEAN
  PROVE  UpdatePendQBmp(t, pq, p, ac, w) \in TimType
<1> DEFINE set == IF pq[p][ac] = <<>> THEN t.drv[p] \ {ac} ELSE t.drv[p] \cup {ac}
<1>1. set \subseteq AC
  BY DEF TimType
<1>2. [t.drv EXCEPT ![p] = set] \in [Peer -> SUBSET AC]
  BY <1>1 DEF TimType
<1>3. (IF w THEN [t.rpu EXCEPT ![p] = set] ELSE t.rpu) \in [Peer -> SUBSET AC]
  BY <1>1 DEF TimType
<1> HIDE DEF set
<1>4. UpdatePendQBmp(t, pq, p, ac, w)
        = IF ~ApMode \/ p = MAX_PEERS THEN t
          ELSE [drv |-> [t.drv EXCEPT ![p] = set], rpu |-> IF w THEN [t.rpu EXCEPT ![p] = set] ELSE t.rpu]
  BY Zenon DEF UpdatePendQBmp, set
<1> QED  BY <1>2, <1>3, <1>4 DEF TimType

(* Splitting a queue into a batch and the rest.                            *)
LEMMA SubSeqType ==
  ASSUME NEW q \in Seq(Frame), NEW n \in 1 .. Len(q)
  PROVE  /\ SubSeq(q, 1, n) \in Seq(Frame) /\ Len(SubSeq(q, 1, n)) = n
         /\ SubSeq(q, n + 1, Len(q)) \in Seq(Frame)
<1>1. Len(q) \in Nat /\ \A i \in 1 .. Len(q) : q[i] \in Frame
  BY LenProperties, ElementOfSeq
<1>2. SubSeq(q, 1, n) \in Seq(Frame) /\ Len(SubSeq(q, 1, n)) = n
  BY <1>1, SubSeqProperties
<1>3. SubSeq(q, n + 1, Len(q)) \in Seq(Frame)
  BY <1>1, SubSeqProperties
<1> QED  BY <1>2, <1>3

(* What _tx_pending_process leaves behind has the right type.              *)
LEMMA PendingBatchType ==
  ASSUME SchedType, CmdType, NEW pq \in PendqType, NEW t \in TimType, NEW ac \in AC,
         NEW p \in Peer, NEW n \in 1 .. MAX_TX_AGGREGATION, PendingBatch(pq, t, ac, p, n)
  PROVE  /\ pendq' \in PendqType /\ tim' \in TimType /\ SchedType'
         /\ SubSeq(pq[p][ac], 1, n) \in Seq(Frame) /\ Len(SubSeq(pq[p][ac], 1, n)) = n
         /\ n \in 1 .. Len(pq[p][ac])
<1>1. p \in TxCurrPeerOppGet(pq, ac) /\ n \in BatchLen(pq[p][ac]) /\ TakeOpp(pq, ac, p)
  BY DEF PendingBatch
<1>2. pq[p][ac] \in Seq(Frame)
  BY DEF PendqType
<1>3. n \in 1 .. Len(pq[p][ac])
  BY <1>1 DEF BatchLen
<1>4. SchedType'
  BY <1>1, TakeOppType
<1>5. pendq' \in PendqType
  <2>1. pendq' = [pq EXCEPT ![p][ac] = SubSeq(@, n + 1, Len(@))]
    BY DEF PendingBatch, Dequeued
  <2>2. SubSeq(pq[p][ac], n + 1, Len(pq[p][ac])) \in Seq(Frame)
    BY <1>2, <1>3, SubSeqType
  <2> QED  BY <2>1, <2>2 DEF PendqType
<1>6. tim' \in TimType
  <2>1. \A w \in Written : w \in BOOLEAN
    BY DEF Written
  <2>2. PICK w \in Written : tim' = UpdatePendQBmp(t, pendq', p, ac, w)
    BY Zenon DEF PendingBatch
  <2> QED  BY <2>1, <2>2, BitmapType
<1> QED  BY <1>2, <1>3, <1>4, <1>5, <1>6, SubSeqType

(* The same when it returns 0.                                             *)
LEMMA NoPendingBatchType ==
  ASSUME SchedType, CmdType, NEW pq \in PendqType, NEW t \in TimType, NEW ac \in AC,
         NoPendingBatch(pq, t, ac)
  PROVE  pendq' \in PendqType /\ tim' \in TimType /\ SchedType'
<1>1. CASE UNCHANGED sched
  BY <1>1 DEF NoPendingBatch, SchedType, sched
<1>2. ASSUME NEW p \in TxCurrPeerOppGet(pq, ac), TakeOpp(pq, ac, p)  PROVE SchedType'
  BY <1>2, TakeOppType
<1> QED  BY <1>1, <1>2 DEF NoPendingBatch

(* Deleting a client from the wake-up queue.                               *)
LEMMA ListDelNodeType ==
  ASSUME NEW q \in Seq(Peer), NEW p
  PROVE  ListDelNode(q, p) \in Seq(Peer)
<1>1. CASE ~ \E i \in DOMAIN q : q[i] = p
  BY <1>1, Zenon DEF ListDelNode
<1>2. CASE \E i \in DOMAIN q : q[i] = p
  <2>1. PICK i \in DOMAIN q : ListDelNode(q, p) = RemoveAt(q, i)
    <3>1. (CHOOSE i \in DOMAIN q : q[i] = p) \in DOMAIN q
      BY <1>2, Zenon
    <3> QED  BY <1>2, <3>1, Zenon DEF ListDelNode
  <2>2. i \in 1 .. Len(q) /\ Len(q) \in Nat /\ \A j \in 1 .. Len(q) : q[j] \in Peer
    BY LenProperties, ElementOfSeq
  <2>3. SubSeq(q, 1, i - 1) \in Seq(Peer) /\ SubSeq(q, i + 1, Len(q)) \in Seq(Peer)
    BY <2>2, SubSeqProperties
  <2> QED  BY <2>1, <2>3, ConcatProperties DEF RemoveAt
<1> QED  BY <1>1, <1>2

(* tx_cmd_init, whether or not mapping and sending succeed.                *)
LEMMA TxCmdInitType ==
  ASSUME CmdType, NEW d \in Desc, NEW batch \in Seq(Frame), NEW p \in Peer,
         NEW frees \in SUBSET Frame, TxCmdInit(d, batch, p, frees)
  PROVE  CmdType'
<1>1. Len(batch) \in Nat /\ <<>> \in Seq(Frame) /\ Range(batch) \subseteq Frame
  BY LenProperties, ElementOfSeq, EmptySeq DEF Range
<1>2. mapped' \in [Desc -> Nat]
  <2>1. PICK k \in Nat : mapped' = [mapped EXCEPT ![d] = k]
    BY <1>1 DEF TxCmdInit, CmdType
  <2> QED  BY <2>1 DEF CmdType
<1>3. txq' \in [Desc -> Seq(Frame)]
  <2>1. txq' = [txq EXCEPT ![d] = <<>>] \/ txq' = [txq EXCEPT ![d] = batch]
    BY DEF TxCmdInit
  <2> QED  BY <1>1, <2>1 DEF CmdType
<1>4. wakeup_q' \in Seq(Peer)
  <2>1. wakeup_q' = wakeup_q \/ wakeup_q' = ListDelNode(wakeup_q, p)
    BY DEF TxCmdInit
  <2> QED  BY <2>1, ListDelNodeType DEF CmdType
<1>5. rpu' \subseteq Desc /\ stack' \subseteq Frame
  BY <1>1 DEF TxCmdInit, CmdType
<1> QED  BY <1>2, <1>3, <1>4, <1>5 DEF CmdType

(* tx_pending_process with a descriptor, with a batch or without.          *)
LEMMA TxPendingProcessType ==
  ASSUME PoolType, SchedType, CmdType, NEW pq \in PendqType, NEW t \in TimType, NEW d \in Desc,
         NEW ac \in AC, NEW frees \in SUBSET Frame, TxPendingProcess(pq, t, d, ac, frees)
  PROVE  pendq' \in PendqType /\ tim' \in TimType /\ SchedType' /\ PoolType' /\ CmdType'
<1>1. ASSUME NEW p \in Peer, NEW n \in 1 .. MAX_TX_AGGREGATION,
             PendingBatch(pq, t, ac, p, n), Charge(d, ac),
             TxCmdInit(d, SubSeq(pq[p][ac], 1, n), p, frees)
      PROVE  pendq' \in PendqType /\ tim' \in TimType /\ SchedType' /\ PoolType' /\ CmdType'
  <2>1. /\ pendq' \in PendqType /\ tim' \in TimType /\ SchedType'
        /\ SubSeq(pq[p][ac], 1, n) \in Seq(Frame)
    BY <1>1, PendingBatchType
  <2>2. CmdType'
    BY <1>1, <2>1, TxCmdInitType
  <2> QED  BY <1>1, <2>1, <2>2, PoolOperationsType
<1>2. ASSUME NoPendingBatch(pq, t, ac), ChargeAndFree(d, ac), UNCHANGED cmd
      PROVE  pendq' \in PendqType /\ tim' \in TimType /\ SchedType' /\ PoolType' /\ CmdType'
  <2>1. pendq' \in PendqType /\ tim' \in TimType /\ SchedType'
    BY <1>2, NoPendingBatchType
  <2>2. CmdType'
    BY <1>2 DEF CmdType, cmd
  <2> QED  BY <1>2, <2>1, <2>2, PoolOperationsType
<1> QED  BY <1>1, <1>2 DEF TxPendingProcess

-----------------------------------------------------------------------------
(* Type correctness, action by action                                      *)

(* tx_enqueue, at the head for emergency frames and at the tail for        *)
(* others.                                                                 *)
LEMMA EnqueuedType ==
  ASSUME TypeOK, NEW c \in calls, NEW w \in BOOLEAN
  PROVE  Enqueued(c) \in PendqType /\ EnqueuedBmp(c, w) \in TimType
<1>1. c.nb \in Frame /\ c.peer \in Peer /\ c.ac \in AC
  BY DEF TypeOK, Call
<1>2. pendq \in PendqType /\ tim \in TimType
  BY TypeParts
<1>3. pendq[c.peer][c.ac] \in Seq(Frame)
  BY <1>1, <1>2 DEF PendqType
<1>4. Append(pendq[c.peer][c.ac], c.nb) \in Seq(Frame) /\ <<c.nb>> \o pendq[c.peer][c.ac] \in Seq(Frame)
  BY <1>1, <1>3, AppendProperties, ConcatProperties
<1>5. Enqueued(c) \in PendqType
  BY <1>1, <1>2, <1>4 DEF Enqueued, PendqType
<1>6. EnqueuedBmp(c, w) \in TimType
  BY <1>1, <1>2, BitmapType DEF EnqueuedBmp
<1> QED  BY <1>5, <1>6

(* tx_desc_get returns a free descriptor.                                  *)
LEMMA TxDescGetType ==
  ASSUME NEW ac
  PROVE  TxDescGet(ac) \subseteq Desc \ alloc
BY DEF TxDescGet

(* nrf_wifi_fmac_start_xmit under tx_lock.                                 *)
LEMMA XmitType ==
  ASSUME TypeOK, NEW c \in calls, Xmit(c)
  PROVE  TypeOK'
<1> USE TypeParts, TypePartsNext
<1>1. c.nb \in Frame /\ c.peer \in Peer /\ c.ac \in AC
  BY DEF TypeOK, Call
<1>2. ThreadType'
  BY DEF Xmit, XmitQueueFull, XmitBitmapFails, XmitQueued, XmitSends, XmitEnter, ThreadType
<1>3. PeersType'
  BY DEF Xmit, XmitQueueFull, XmitBitmapFails, XmitQueued, XmitSends, peers, PeersType
<1>4. CASE XmitQueueFull(c)
  <2>1. PoolType' /\ SchedType'
    BY <1>4 DEF XmitQueueFull, pool, PoolType, SchedType, sched
  <2>2. CmdType'
    BY <1>1, <1>4 DEF XmitQueueFull, CmdType
  <2>3. pendq' \in PendqType /\ tim' \in TimType
    BY <1>4 DEF XmitQueueFull
  <2> QED  BY <1>2, <1>3, <2>1, <2>2, <2>3
<1>5. CASE XmitBitmapFails(c)
  <2>1. PoolType' /\ SchedType'
    BY <1>5 DEF XmitBitmapFails, pool, PoolType, SchedType, sched
  <2>2. CmdType'
    BY <1>1, <1>5 DEF XmitBitmapFails, CmdType
  <2>3. pendq' \in PendqType /\ tim' \in TimType
    BY <1>5, EnqueuedType DEF XmitBitmapFails
  <2> QED  BY <1>2, <1>3, <2>1, <2>2, <2>3
<1>6. CASE XmitQueued(c)
  <2>1. PoolType' /\ SchedType' /\ CmdType'
    BY <1>6 DEF XmitQueued, pool, PoolType, SchedType, sched, CmdType, cmd
  <2>2. pendq' \in PendqType /\ tim' \in TimType
    BY <1>6, EnqueuedType DEF XmitQueued
  <2> QED  BY <1>2, <1>3, <2>1, <2>2
<1>7. CASE XmitSends(c)
  <2>1. PICK d \in TxDescGet(c.ac) :
          TxPendingProcess(Enqueued(c), EnqueuedBmp(c, TRUE), d, c.ac, {c.nb})
    BY <1>7 DEF XmitSends
  <2>2. Enqueued(c) \in PendqType /\ EnqueuedBmp(c, TRUE) \in TimType
    BY EnqueuedType
  <2>3. d \in Desc /\ {c.nb} \in SUBSET Frame
    BY <1>1, TxDescGetType
  <2>4. pendq' \in PendqType /\ tim' \in TimType /\ SchedType' /\ PoolType' /\ CmdType'
    BY <1>1, <2>1, <2>2, <2>3, TxPendingProcessType
  <2> QED  BY <1>2, <1>3, <2>4
<1> QED  BY <1>4, <1>5, <1>6, <1>7 DEF Xmit

(* nrf_wifi_fmac_start_xmit before tx_lock.                                *)
LEMMA XmitLookupType ==
  ASSUME TypeOK, NEW f \in Frame, NEW p \in Peer, NEW ac \in AC, XmitLookup(f, p, ac)
  PROVE  TypeOK'
<1> USE TypeParts, TypePartsNext
<1>1. ThreadType'
  <2>1. [nb |-> f, peer |-> p, ac |-> ac] \in Call
    BY DEF Call
  <2> QED  BY <2>1 DEF XmitLookup, ThreadType
<1>2. PoolType' /\ SchedType' /\ PeersType'
  BY DEF XmitLookup, PoolType, pool, SchedType, sched, PeersType, peers
<1>3. CmdType'
  BY DEF XmitLookup, CmdType
<1>4. pendq' \in PendqType /\ tim' \in TimType
  BY DEF XmitLookup
<1> QED  BY <1>1, <1>2, <1>3, <1>4

(* What the event thread carries between two iterations of a handler's     *)
(* loop.                                                                   *)
LEMMA EventType ==
  ASSUME ThreadType
  PROVE  ev.ac \in AC /\ ev.desc \in Desc /\ ev.q \in AC
BY DEF ThreadType, Event

(* The next category of a handler's loop.                                  *)
LEMMA NextCategory ==
  ASSUME ThreadType, ev.ac # AC_BK
  PROVE  [ev EXCEPT !.ac = @ - 1] \in Event
<1>1. ev.ac - 1 \in AC
  BY EventType DEF AC, AC_BK
<1> QED  BY <1>1 DEF ThreadType, Event

(* tx_done_process up to the search for a batch.                           *)
LEMMA TxDoneType ==
  ASSUME TypeOK, NEW d \in Desc, TxDone(d)
  PROVE  TypeOK'
<1> USE TypeParts, TypePartsNext
<1>1. ThreadType'
  <2>1. TxDoneQueue(d) \in AC /\ AC_VO \in AC
    BY TxDoneQueueType, ConstantTypes
  <2>2. ev' \in Event
    BY <2>1 DEF TxDone, Event
  <2> QED  BY <2>2 DEF TxDone, ThreadType
<1>2. PoolType' /\ SchedType' /\ PeersType'
  BY DEF TxDone, PoolType, pool, SchedType, sched, PeersType, peers
<1>3. CmdType'
  BY DEF TxDone, Unmapped, CmdType
<1>4. pendq' \in PendqType /\ tim' \in TimType
  BY DEF TxDone
<1> QED  BY <1>1, <1>2, <1>3, <1>4

(* The event thread without tx_lock.                                       *)
LEMMA IdleType == Idle \in Event
BY ConstantTypes DEF Idle, Event, AC_BK

(* tx_buff_req_free when it finds a batch.                                 *)
LEMMA TxDoneServesType ==
  ASSUME TypeOK, TxDoneServes
  PROVE  TypeOK'
<1> USE TypeParts, TypePartsNext
<1>1. PeersType' /\ ThreadType'
  BY IdleType DEF TxDoneServes, PeersType, peers, ThreadType
<1>2. PICK p \in Peer, n \in 1 .. MAX_TX_AGGREGATION :
        /\ PendingBatch(pendq, tim, ev.ac, p, n)
        /\ Recharge(ev.desc, ev.q, ev.ac)
        /\ LET batch == SubSeq(pendq[p][ev.ac], 1, n)
           IN  \/ ~twt_asleep /\ TxCmdInit(ev.desc, batch, p, {})
               \/ /\ twt_asleep
                  /\ txq' = [txq EXCEPT ![ev.desc] = batch]
                  /\ UNCHANGED <<mapped, rpu, wakeup_q, stack>>
  BY DEF TxDoneServes
<1> DEFINE batch == SubSeq(pendq[p][ev.ac], 1, n)
<1>3. ev.ac \in AC /\ ev.desc \in Desc /\ ev.q \in AC
  BY EventType
<1>4. /\ pendq' \in PendqType /\ tim' \in TimType /\ SchedType'
      /\ batch \in Seq(Frame)
  BY <1>2, <1>3, PendingBatchType
<1>5. PoolType'
  BY <1>2, <1>3, PoolOperationsType
<1>6. CmdType'
  <2> HIDE DEF batch
  <2>1. CASE TxCmdInit(ev.desc, batch, p, {})
    BY <1>3, <1>4, <2>1, TxCmdInitType
  <2>2. CASE txq' = [txq EXCEPT ![ev.desc] = batch] /\ UNCHANGED <<mapped, rpu, wakeup_q, stack>>
    BY <1>3, <1>4, <2>2 DEF CmdType
  <2> QED  BY <1>2, <2>1, <2>2 DEF batch
<1> QED  BY <1>1, <1>4, <1>5, <1>6

(* tx_buff_req_free when a category has none.                              *)
LEMMA TxDoneFindsNoneType ==
  ASSUME TypeOK, TxDoneFindsNone
  PROVE  TypeOK'
<1> USE TypeParts, TypePartsNext
<1>1. ev.ac \in AC /\ ev.desc \in Desc /\ ev.q \in AC
  BY EventType
<1>2. PeersType' /\ CmdType'
  BY DEF TxDoneFindsNone, PeersType, peers, CmdType, cmd
<1>3. ThreadType'
  BY IdleType, NextCategory DEF TxDoneFindsNone, ThreadType
<1>4. pendq' \in PendqType /\ tim' \in TimType /\ SchedType'
  BY <1>1, NoPendingBatchType DEF TxDoneFindsNone
<1>5. PoolType'
  BY <1>1, PoolOperationsType DEF TxDoneFindsNone
<1> QED  BY <1>2, <1>3, <1>4, <1>5

(* One iteration of the loop that PS_GET_FRAMES and update_pmmode end      *)
(* with.                                                                   *)
LEMMA KickType ==
  ASSUME TypeOK, Kick
  PROVE  TypeOK'
<1> USE TypeParts, TypePartsNext
<1>1. ev.ac \in AC
  BY EventType
<1>2. PeersType'
  BY DEF Kick, PeersType, peers
<1>3. ThreadType'
  BY IdleType, NextCategory DEF Kick, ThreadType
<1>4. pendq' \in PendqType /\ tim' \in TimType /\ SchedType' /\ PoolType' /\ CmdType'
  <2>1. CASE UNCHANGED <<pendq, pool, cmd, sched, tim>>
    BY <2>1 DEF SchedType, sched, PoolType, pool, CmdType, cmd
  <2>2. ASSUME NEW d \in TxDescGet(ev.ac), TxPendingProcess(pendq, tim, d, ev.ac, {})
        PROVE  pendq' \in PendqType /\ tim' \in TimType /\ SchedType' /\ PoolType' /\ CmdType'
    <3>1. d \in Desc
      BY TxDescGetType
    <3> QED  BY <1>1, <2>2, <3>1, TxPendingProcessType
  <2> QED  BY <2>1, <2>2 DEF Kick
<1> QED  BY <1>2, <1>3, <1>4

(* A client enters the wake-up queue.                                      *)
LEMMA WakeupEnqueueType ==
  ASSUME wakeup_q \in Seq(Peer), NEW p \in UPeer, WakeupEnqueue(p)
  PROVE  wakeup_q' \in Seq(Peer)
BY ConstantTypes, AppendProperties DEF WakeupEnqueue

(* sap_client_ps_get_frames.                                               *)
LEMMA PsGetFramesType ==
  ASSUME TypeOK, NEW p \in UPeer, NEW n \in 0 .. MAX_PS_FRAMES, PsGetFrames(p, n)
  PROVE  TypeOK'
<1> USE TypeParts, TypePartsNext
<1>1. ThreadType'
  BY IdleType, ConstantTypes DEF PsGetFrames, KickAll, ThreadType, Event
<1>2. PoolType' /\ PeersType'
  BY DEF PsGetFrames, PoolType, pool, PeersType, peers
<1>3. SchedType'
  BY ConstantTypes DEF PsGetFrames, SchedType
<1>4. CmdType'
  BY WakeupEnqueueType DEF PsGetFrames, CmdType
<1>5. pendq' \in PendqType /\ tim' \in TimType
  BY DEF PsGetFrames
<1> QED  BY <1>1, <1>2, <1>3, <1>4, <1>5

(* sap_client_update_pmmode, to power save.                                *)
LEMMA ClientSleepsType ==
  ASSUME TypeOK, NEW p \in UPeer, ClientSleeps(p)
  PROVE  TypeOK'
<1> USE TypeParts, TypePartsNext
<1>1. PoolType' /\ CmdType' /\ SchedType' /\ ThreadType'
  BY DEF ClientSleeps, PoolType, pool, CmdType, cmd, SchedType, sched, ThreadType
<1>2. PeersType' /\ pendq' \in PendqType /\ tim' \in TimType
  BY DEF ClientSleeps, PeersType
<1> QED  BY <1>1, <1>2

(* sap_client_update_pmmode, to active.                                    *)
LEMMA ClientWakesType ==
  ASSUME TypeOK, NEW p \in UPeer, ClientWakes(p)
  PROVE  TypeOK'
<1> USE TypeParts, TypePartsNext
<1>1. ThreadType'
  BY IdleType, ConstantTypes DEF ClientWakes, KickAll, ThreadType, Event
<1>2. PoolType' /\ SchedType' /\ PeersType'
  BY DEF ClientWakes, PoolType, pool, SchedType, sched, PeersType
<1>3. CmdType'
  BY WakeupEnqueueType DEF ClientWakes, CmdType
<1>4. pendq' \in PendqType /\ tim' \in TimType
  BY DEF ClientWakes
<1> QED  BY <1>1, <1>2, <1>3, <1>4

(* nrf_wifi_fmac_peer_add.                                                 *)
LEMMA PeerAddType ==
  ASSUME TypeOK, NEW p \in UPeer, PeerAdd(p)
  PROVE  TypeOK'
<1> USE TypeParts, TypePartsNext
<1>1. PoolType' /\ CmdType' /\ SchedType' /\ ThreadType'
  BY DEF PeerAdd, PoolType, pool, CmdType, cmd, SchedType, sched, ThreadType
<1>2. PeersType' /\ pendq' \in PendqType /\ tim' \in TimType
  BY DEF PeerAdd, PeersType
<1> QED  BY <1>1, <1>2

(* nrf_wifi_fmac_peer_remove and peers_flush.                              *)
LEMMA ForgetType ==
  ASSUME TypeOK, NEW gone, Forget(gone)
  PROVE  TypeOK'
<1> USE TypeParts, TypePartsNext
<1>1. PoolType' /\ CmdType' /\ ThreadType'
  BY DEF Forget, PoolType, pool, CmdType, cmd, ThreadType
<1>2. PeersType' /\ pendq' \in PendqType
  BY DEF Forget, PeersType
<1>3. SchedType'
  BY DEF Forget, SchedType
<1>4. tim' \in TimType
  BY DEF Forget, TimType
<1> QED  BY <1>1, <1>2, <1>3, <1>4

(* The OS layer's change of twt_sleep_status.                              *)
LEMMA TwtChangeType ==
  ASSUME TypeOK, TwtChange
  PROVE  TypeOK'
<1> USE TypeParts, TypePartsNext
<1>1. PoolType' /\ CmdType' /\ SchedType' /\ ThreadType'
  BY DEF TwtChange, PoolType, pool, CmdType, cmd, SchedType, sched, ThreadType
<1>2. PeersType' /\ pendq' \in PendqType /\ tim' \in TimType
  BY DEF TwtChange, PeersType
<1> QED  BY <1>1, <1>2

(* Every variable keeps its type, for any number of descriptors, peers,    *)
(* categories and frames and whatever fails: no counter leaves its range,  *)
(* no peer or descriptor number leaves its table.                          *)
THEOREM TypeCorrect == Spec => []TypeOK
<1>1. Init => TypeOK
  BY EmptySeq, IdleType, ConstantTypes DEF Init, TypeOK, TimType
<1>2. TypeOK /\ [Next]_vars => TypeOK'
  <2> SUFFICES ASSUME TypeOK, [Next]_vars PROVE TypeOK'
    OBVIOUS
  <2>1. ASSUME NEW f \in Frame, NEW p \in Peer, NEW ac \in AC, XmitLookup(f, p, ac) PROVE TypeOK'
    BY <2>1, XmitLookupType
  <2>2. ASSUME NEW c \in calls, Xmit(c) PROVE TypeOK'
    BY <2>2, XmitType
  <2>3. ASSUME NEW d \in Desc, TxDone(d) PROVE TypeOK'
    BY <2>3, TxDoneType
  <2>4. CASE TxDoneServes
    BY <2>4, TxDoneServesType
  <2>5. CASE TxDoneFindsNone
    BY <2>5, TxDoneFindsNoneType
  <2>6. CASE Kick
    BY <2>6, KickType
  <2>7. ASSUME NEW p \in UPeer, NEW n \in 0 .. MAX_PS_FRAMES, PsGetFrames(p, n) PROVE TypeOK'
    BY <2>7, PsGetFramesType
  <2>8. ASSUME NEW p \in UPeer, ClientSleeps(p) \/ ClientWakes(p) \/ PeerAdd(p) \/ PeerRemove(p)
        PROVE  TypeOK'
    BY <2>8, ClientSleepsType, ClientWakesType, PeerAddType, ForgetType DEF PeerRemove
  <2>9. CASE PeersFlush
    BY <2>9, ForgetType DEF PeersFlush
  <2>10. CASE TwtChange
    BY <2>10, TwtChangeType
  <2>11. CASE UNCHANGED vars
    BY <2>11 DEF vars, TypeOK
  <2> QED  BY <2>1, <2>2, <2>3, <2>4, <2>5, <2>6, <2>7, <2>8, <2>9, <2>10, <2>11 DEF Next, Events
<1> QED  BY <1>1, <1>2, PTL DEF Spec

-----------------------------------------------------------------------------
(* The accounts of the pool                                                *)

(* A spare descriptor is never lent to the multicast queue: its nibble has *)
(* no bit for AC_MC (see the run TxSpareMulticast).                        *)
SpareUnicastOnly == Multicast => Reserved = NUM_TX_TOKENS

(* Descriptor d may be charged to queue q.                                 *)
Fits(d, q) == IF d < Reserved THEN d % AC_MAX = q ELSE q \in DataAC

NibbleExact ==
  \A d \in Desc : d >= Reserved =>
    IF d \in alloc THEN \E q \in DataAC : QueuesOf(d) = {q} ELSE QueuesOf(d) = {}

PoolInv == NibbleExact /\ OutstandingExact

Users(ac) == {d \in alloc : TxDoneQueue(d) = ac}

(* The least bit of a nibble with one bit.                                 *)
LEMMA LeastOfSingleton ==
  ASSUME NEW q \in Int
  PROVE  (CHOOSE b \in {q} : \A c \in {q} : b <= c) = q
OBVIOUS

(* The category that a completed descriptor is attributed to: its own, or  *)
(* the one its nibble names.                                               *)
LEMMA QueueOf ==
  ASSUME NEW d \in Desc
  PROVE  /\ d < Reserved => TxDoneQueue(d) = d % AC_MAX
         /\ d >= Reserved => \A q \in DataAC : QueuesOf(d) = {q} => TxDoneQueue(d) = q
<1>1. d < Reserved => TxDoneQueue(d) = d % AC_MAX
  BY Zenon DEF TxDoneQueue
<1>2. ASSUME d >= Reserved, NEW q \in DataAC, QueuesOf(d) = {q}  PROVE TxDoneQueue(d) = q
  <2>1. q \in Int /\ ~(d < Reserved)
    BY <1>2, ReservedBounds, ConstantTypes DEF Desc
  <2>2. {b \in DataAC : <<d % Reserved, b>> \in spare_map} = {q}
    BY <1>2 DEF QueuesOf
  <2>3. TxDoneQueue(d) = CHOOSE b \in {q} : \A c \in {q} : b <= c
    BY <2>1, <2>2, Zenon DEF TxDoneQueue
  <2> QED  BY <2>1, <2>3, LeastOfSingleton
<1> QED  BY <1>1, <1>2

(* The same in the next state.                                             *)
LEMMA QueueOfNext ==
  ASSUME NEW d \in Desc
  PROVE  /\ d < Reserved => TxDoneQueue(d)' = d % AC_MAX
         /\ d >= Reserved => \A q \in DataAC : QueuesOf(d)' = {q} => TxDoneQueue(d)' = q
<1>1. d < Reserved => TxDoneQueue(d)' = d % AC_MAX
  BY Zenon DEF TxDoneQueue
<1>2. ASSUME d >= Reserved, NEW q \in DataAC, QueuesOf(d)' = {q}  PROVE TxDoneQueue(d)' = q
  <2>1. q \in Int /\ ~(d < Reserved)
    BY <1>2, ReservedBounds, ConstantTypes DEF Desc
  <2>2. {b \in DataAC : <<d % Reserved, b>> \in spare_map'} = {q}
    BY <1>2 DEF QueuesOf
  <2>3. TxDoneQueue(d)' = CHOOSE b \in {q} : \A c \in {q} : b <= c
    BY <2>1, <2>2, Zenon DEF TxDoneQueue
  <2> QED  BY <2>1, <2>3, LeastOfSingleton
<1> QED  BY <1>1, <1>2

(* Setting and clearing the bits of one descriptor touches no other's.     *)
LEMMA NibbleChange ==
  ASSUME NEW d \in Desc, NEW off \in SUBSET DataAC, NEW on \in SUBSET DataAC,
         spare_map' = (spare_map \ {<<d % Reserved, x>> : x \in off}) \cup {<<d % Reserved, x>> : x \in on},
         d >= Reserved
  PROVE  \A e \in Desc : e >= Reserved =>
           QueuesOf(e)' = IF e = d THEN (QueuesOf(e) \ off) \cup on ELSE QueuesOf(e)
<1> SUFFICES ASSUME NEW e \in Desc, e >= Reserved
             PROVE  QueuesOf(e)' = IF e = d THEN (QueuesOf(e) \ off) \cup on ELSE QueuesOf(e)
  OBVIOUS
<1>1. e % Reserved = d % Reserved <=> e = d
  BY SpareIndex, ReservedBounds DEF Desc
<1>2. \A b \in DataAC : <<e % Reserved, b>> \in spare_map' <=>
         \/ <<e % Reserved, b>> \in spare_map /\ ~(e = d /\ b \in off)
         \/ e = d /\ b \in on
  BY <1>1
<1>3. QueuesOf(e)' = {b \in DataAC : <<e % Reserved, b>> \in spare_map'}
  BY DEF QueuesOf
<1> QED  BY <1>2, <1>3 DEF QueuesOf

(* The bit of a category that may have the descriptor lies in the          *)
(* descriptor's own nibble.                                                *)
LEMMA SpareBitsFit ==
  ASSUME NEW d \in Desc, NEW q \in AC, Fits(d, q)
  PROVE  SpareBits(d, q) = IF d < Reserved THEN {} ELSE {<<d % Reserved, x>> : x \in {q}}
BY ConstantTypes DEF SpareBits, SpareBit, Fits

BitsOf(d, set) == UNION {SpareBits(d, q) : q \in set}

(* The bits of no category, and of one.                                    *)
LEMMA BitsOfFew ==
  ASSUME NEW d
  PROVE  BitsOf(d, {}) = {} /\ \A q : BitsOf(d, {q}) = SpareBits(d, q)
BY DEF BitsOf

(* The nibbles after an operation that clears the bit of category q (or of *)
(* none) and sets that of category ac (or of none).                        *)
LEMMA NibblesAfter ==
  ASSUME NEW d \in Desc, NEW off \in SUBSET AC, NEW on \in SUBSET AC,
         \A q \in off \cup on : Fits(d, q),
         spare_map' = (spare_map \ BitsOf(d, off)) \cup BitsOf(d, on)
  PROVE  \A e \in Desc : e >= Reserved =>
           QueuesOf(e)' = IF e = d THEN (QueuesOf(e) \ off) \cup on ELSE QueuesOf(e)
<1>1. CASE d < Reserved
  <2>1. \A q \in off \cup on : SpareBits(d, q) = {}
    BY <1>1, SpareBitsFit
  <2>2. spare_map' = spare_map
    BY <2>1 DEF BitsOf
  <2>3. \A e \in Desc : e >= Reserved => e # d
    BY <1>1, ReservedBounds DEF Desc
  <2> QED  BY <2>2, <2>3 DEF QueuesOf
<1>2. CASE d >= Reserved
  <2>1. ~(d < Reserved)
    BY <1>2, ReservedBounds DEF Desc
  <2>2. off \in SUBSET DataAC /\ on \in SUBSET DataAC
    BY <2>1 DEF Fits
  <2>3. \A q \in off \cup on : SpareBits(d, q) = {<<d % Reserved, q>>}
    BY <2>1, SpareBitsFit
  <2>4. /\ BitsOf(d, off) = {<<d % Reserved, x>> : x \in off}
        /\ BitsOf(d, on) = {<<d % Reserved, x>> : x \in on}
    BY <2>3 DEF BitsOf
  <2> QED  BY <1>2, <2>2, <2>4, NibbleChange
<1> QED  BY <1>1, <1>2, ReservedBounds DEF Desc

(* The category a descriptor in use is attributed to is one that may have  *)
(* it.                                                                     *)
LEMMA Attribution ==
  ASSUME NibbleExact, NEW d \in alloc, alloc \subseteq Desc
  PROVE  /\ TxDoneQueue(d) \in AC /\ Fits(d, TxDoneQueue(d))
         /\ d >= Reserved => QueuesOf(d) = {TxDoneQueue(d)}
<1>1. d \in Desc /\ (d < Reserved <=> ~(d >= Reserved))
  BY ReservedBounds DEF Desc
<1>2. CASE d < Reserved
  BY <1>1, <1>2, QueueOf, ReservedQueue DEF Fits
<1>3. CASE d >= Reserved
  <2>1. PICK q \in DataAC : QueuesOf(d) = {q}
    BY <1>1, <1>3 DEF NibbleExact
  <2>2. TxDoneQueue(d) = q
    BY <1>1, <1>3, <2>1, QueueOf
  <2> QED  BY <1>1, <1>3, <2>1, <2>2, ConstantTypes DEF Fits
<1> QED  BY <1>1, <1>2, <1>3

(* No category has more descriptors than there are, so no counter wraps.   *)
LEMMA UsersFinite ==
  ASSUME alloc \subseteq Desc, NEW ac
  PROVE  /\ IsFiniteSet(Users(ac)) /\ Cardinality(Users(ac)) \in Nat
         /\ \A d \in Desc \ alloc : Cardinality(Users(ac)) < NUM_TX_TOKENS
<1>1. IsFiniteSet(Desc) /\ Cardinality(Desc) = NUM_TX_TOKENS
  BY FS_Interval DEF Desc
<1>2. Users(ac) \in SUBSET Desc
  BY DEF Users
<1>3. IsFiniteSet(Users(ac))
  BY <1>1, <1>2, FS_Subset
<1>4. Cardinality(Users(ac)) \in Nat
  BY <1>3, FS_CardinalityType
<1>5. ASSUME NEW d \in Desc \ alloc  PROVE Cardinality(Users(ac)) < NUM_TX_TOKENS
  <2>1. Users(ac) \in SUBSET (Desc \ {d})
    BY <1>2, <1>5 DEF Users
  <2>2. IsFiniteSet(Desc \ {d}) /\ Cardinality(Desc \ {d}) = NUM_TX_TOKENS - 1
    BY <1>1, <1>5, FS_RemoveElement
  <2>3. Cardinality(Users(ac)) <= NUM_TX_TOKENS - 1
    BY <2>1, <2>2, FS_Subset
  <2> QED  BY <1>4, <2>3
<1> QED  BY <1>3, <1>4, <1>5

(* outstanding_descs[] counts users.                                       *)
LEMMA Exactness == OutstandingExact <=> \A ac \in AC : outstanding[ac] = Cardinality(Users(ac))
BY DEF OutstandingExact, Users

(* The same in the next state.                                             *)
LEMMA ExactnessNext ==
  (\A ac \in AC : outstanding'[ac] = Cardinality(Users(ac)')) => OutstandingExact'
BY DEF OutstandingExact, Users

(* A free descriptor is charged to a category that may have it.            *)
LEMMA ChargeInv ==
  ASSUME PoolType, PoolInv, NEW q \in AC, NEW d \in Desc \ alloc, Fits(d, q), Charge(d, q)
  PROVE  PoolInv' /\ TxDoneQueue(d)' = q /\ \A e \in alloc : TxDoneQueue(e)' = TxDoneQueue(e)
<1>1. spare_map' = (spare_map \ BitsOf(d, {})) \cup BitsOf(d, {q})
  BY BitsOfFew DEF Charge
<1>2. \A e \in Desc : e >= Reserved =>
        QueuesOf(e)' = IF e = d THEN QueuesOf(e) \cup {q} ELSE QueuesOf(e)
  <2>1. \A e \in Desc : e >= Reserved =>
          QueuesOf(e)' = IF e = d THEN (QueuesOf(e) \ {}) \cup {q} ELSE QueuesOf(e)
    BY <1>1, NibblesAfter
  <2>2. \A e \in Desc : (QueuesOf(e) \ {}) \cup {q} = QueuesOf(e) \cup {q}
    OBVIOUS
  <2> QED  BY <2>1, <2>2, Zenon
<1>3. alloc' = alloc \cup {d} /\ alloc \subseteq Desc
  BY DEF Charge, PoolType
<1>4. NibbleExact'
  <2> SUFFICES ASSUME NEW e \in Desc, e >= Reserved
               PROVE  IF e \in alloc' THEN \E x \in DataAC : QueuesOf(e)' = {x} ELSE QueuesOf(e)' = {}
    BY DEF NibbleExact
  <2>1. CASE e = d
    <3>1. QueuesOf(e) = {} /\ q \in DataAC
      BY <2>1, ReservedBounds DEF PoolInv, NibbleExact, Fits, Desc
    <3> QED  BY <1>2, <1>3, <2>1, <3>1
  <2>2. CASE e # d
    BY <1>2, <1>3, <2>2 DEF PoolInv, NibbleExact
  <2> QED  BY <2>1, <2>2
<1>5. ASSUME NEW e \in alloc  PROVE TxDoneQueue(e)' = TxDoneQueue(e)
  <2>1. e \in Desc /\ e # d /\ (e < Reserved \/ e >= Reserved)
    BY <1>3, ReservedBounds DEF Desc
  <2>2. CASE e < Reserved
    BY <2>1, <2>2, QueueOf, QueueOfNext
  <2>3. CASE e >= Reserved
    <3>1. PICK x \in DataAC : QueuesOf(e) = {x}
      BY <2>1, <2>3 DEF PoolInv, NibbleExact
    <3>2. QueuesOf(e)' = {x}
      BY <1>2, <2>1, <2>3, <3>1
    <3> QED  BY <2>1, <2>3, <3>1, <3>2, QueueOf, QueueOfNext
  <2> QED  BY <2>1, <2>2, <2>3
<1>6. TxDoneQueue(d)' = q
  <2>1. CASE d < Reserved
    BY <2>1, QueueOfNext DEF Fits
  <2>2. CASE d >= Reserved
    <3>1. QueuesOf(d) = {} /\ q \in DataAC
      BY <2>2, ReservedBounds DEF PoolInv, NibbleExact, Fits, Desc
    <3>2. QueuesOf(d)' = {q}
      BY <1>2, <2>2, <3>1
    <3> QED  BY <2>2, <3>1, <3>2, QueueOfNext
  <2> QED  BY <2>1, <2>2, ReservedBounds DEF Desc
<1>7. \A ac \in AC : Users(ac)' = IF ac = q THEN Users(ac) \cup {d} ELSE Users(ac)
  BY <1>3, <1>5, <1>6 DEF Users
<1>8. ASSUME NEW ac \in AC  PROVE outstanding'[ac] = Cardinality(Users(ac)')
  <2>1. IsFiniteSet(Users(ac)) /\ Cardinality(Users(ac)) \in Nat /\ Cardinality(Users(ac)) < NUM_TX_TOKENS
    BY <1>3, UsersFinite
  <2>2. outstanding[ac] = Cardinality(Users(ac))
    BY Exactness DEF PoolInv
  <2>3. CASE ac = q
    <3>1. outstanding'[ac] = outstanding[ac] + 1
      BY <2>1, <2>2, <2>3 DEF Charge, Incr, PoolType
    <3>2. d \notin Users(ac)
      BY DEF Users
    <3>3. Cardinality(Users(ac) \cup {d}) = Cardinality(Users(ac)) + 1
      BY <2>1, <3>2, FS_AddElement
    <3> QED  BY <1>7, <2>2, <2>3, <3>1, <3>3
  <2>4. CASE ac # q
    BY <1>7, <2>2, <2>4 DEF Charge, PoolType
  <2> QED  BY <2>3, <2>4
<1> QED  BY <1>4, <1>5, <1>6, <1>8, ExactnessNext DEF PoolInv

(* A descriptor is freed by the category it is attributed to.              *)
LEMMA TxDescFreeInv ==
  ASSUME PoolType, PoolInv, NEW d \in alloc, NEW q, q = TxDoneQueue(d), TxDescFree(d, q)
  PROVE  PoolInv' /\ \A e \in alloc' : TxDoneQueue(e)' = TxDoneQueue(e)
<1>1. q \in AC /\ Fits(d, q) /\ (d >= Reserved => QueuesOf(d) = {q}) /\ d \in Desc
  BY Attribution DEF PoolType, PoolInv
<1>2. \A e \in Desc : e >= Reserved =>
        QueuesOf(e)' = IF e = d THEN QueuesOf(e) \ {q} ELSE QueuesOf(e)
  <2>1. spare_map' = (spare_map \ BitsOf(d, {q})) \cup BitsOf(d, {})
    BY BitsOfFew DEF TxDescFree
  <2>2. \A e \in Desc : e >= Reserved =>
          QueuesOf(e)' = IF e = d THEN (QueuesOf(e) \ {q}) \cup {} ELSE QueuesOf(e)
    BY <1>1, <2>1, NibblesAfter
  <2>3. \A e \in Desc : (QueuesOf(e) \ {q}) \cup {} = QueuesOf(e) \ {q}
    OBVIOUS
  <2> QED  BY <2>2, <2>3, Zenon
<1>3. alloc' = alloc \ {d} /\ alloc \subseteq Desc
  BY DEF TxDescFree, PoolType
<1>4. NibbleExact'
  <2> SUFFICES ASSUME NEW e \in Desc, e >= Reserved
               PROVE  IF e \in alloc' THEN \E x \in DataAC : QueuesOf(e)' = {x} ELSE QueuesOf(e)' = {}
    BY DEF NibbleExact
  <2>1. CASE e = d
    BY <1>1, <1>2, <1>3, <2>1
  <2>2. CASE e # d
    BY <1>2, <1>3, <2>2 DEF PoolInv, NibbleExact
  <2> QED  BY <2>1, <2>2
<1>5. ASSUME NEW e \in alloc'  PROVE TxDoneQueue(e)' = TxDoneQueue(e)
  <2>1. e \in Desc /\ e \in alloc /\ e # d /\ (e < Reserved \/ e >= Reserved)
    BY <1>3, ReservedBounds DEF Desc
  <2>2. CASE e < Reserved
    BY <2>1, <2>2, QueueOf, QueueOfNext
  <2>3. CASE e >= Reserved
    <3>1. PICK x \in DataAC : QueuesOf(e) = {x}
      BY <2>1, <2>3 DEF PoolInv, NibbleExact
    <3>2. QueuesOf(e)' = {x}
      BY <1>2, <2>1, <2>3, <3>1
    <3> QED  BY <2>1, <2>3, <3>1, <3>2, QueueOf, QueueOfNext
  <2> QED  BY <2>1, <2>2, <2>3
<1>6. \A ac \in AC : Users(ac)' = IF ac = q THEN Users(ac) \ {d} ELSE Users(ac)
  BY <1>3, <1>5 DEF Users
<1>7. ASSUME NEW ac \in AC  PROVE outstanding'[ac] = Cardinality(Users(ac)')
  <2>1. IsFiniteSet(Users(ac)) /\ Cardinality(Users(ac)) \in Nat
    BY <1>3, UsersFinite
  <2>2. outstanding[ac] = Cardinality(Users(ac))
    BY Exactness DEF PoolInv
  <2>3. CASE ac = q
    <3>1. d \in Users(ac)
      BY <2>3 DEF Users
    <3>2. Cardinality(Users(ac) \ {d}) = Cardinality(Users(ac)) - 1 /\ IsFiniteSet(Users(ac) \ {d})
      BY <2>1, <3>1, FS_RemoveElement
    <3>3. Cardinality(Users(ac) \ {d}) \in Nat
      BY <3>2, FS_CardinalityType
    <3>4. outstanding'[ac] = outstanding[ac] - 1
      BY <2>1, <2>2, <2>3, <3>2, <3>3 DEF TxDescFree, Decr, PoolType
    <3> QED  BY <1>6, <2>2, <2>3, <3>2, <3>4
  <2>4. CASE ac # q
    BY <1>6, <2>2, <2>4 DEF TxDescFree, PoolType
  <2> QED  BY <2>3, <2>4
<1> QED  BY <1>4, <1>5, <1>7, ExactnessNext DEF PoolInv

(* A step that leaves the pool alone leaves every attribution alone.       *)
LEMMA PoolUnchanged ==
  ASSUME PoolType, PoolInv, alloc' = alloc, outstanding' = outstanding, spare_map' = spare_map
  PROVE  PoolInv' /\ \A e \in Desc : TxDoneQueue(e)' = TxDoneQueue(e)
<1>1. \A e \in Desc : QueuesOf(e)' = QueuesOf(e)
  BY DEF QueuesOf
<1>2. \A e \in Desc : TxDoneQueue(e)' = TxDoneQueue(e)
  BY DEF TxDoneQueue
<1>3. NibbleExact'
  BY <1>1 DEF PoolInv, NibbleExact
<1>4. \A ac \in AC : Users(ac)' = Users(ac)
  BY <1>2 DEF Users, PoolType
<1>5. \A ac \in AC : outstanding'[ac] = Cardinality(Users(ac)')
  BY <1>4, Exactness DEF PoolInv
<1> QED  BY <1>2, <1>3, <1>5, ExactnessNext DEF PoolInv

(* A completed descriptor moves to a category that may have it.            *)
LEMMA RechargeInv ==
  ASSUME PoolType, PoolInv, NEW d \in alloc, NEW q, q = TxDoneQueue(d), NEW ac \in AC, Fits(d, ac),
         Recharge(d, q, ac)
  PROVE  PoolInv' /\ TxDoneQueue(d)' = ac /\ \A e \in alloc \ {d} : TxDoneQueue(e)' = TxDoneQueue(e)
<1>1. q \in AC /\ Fits(d, q) /\ (d >= Reserved => QueuesOf(d) = {q}) /\ d \in Desc
  BY Attribution DEF PoolType, PoolInv
<1>2. alloc' = alloc /\ alloc \subseteq Desc
  BY DEF Recharge, PoolType
<1>3. CASE q = ac
  <2>1. spare_map' = spare_map /\ outstanding' = outstanding
    BY <1>3 DEF Recharge
  <2> QED  BY <1>1, <1>2, <1>3, <2>1, PoolUnchanged
<1>4. CASE q # ac
  <2>1. d >= Reserved /\ ac \in DataAC
    BY <1>1, <1>4, ReservedBounds DEF Fits, Desc
  <2>2. spare_map' = (spare_map \ BitsOf(d, {q})) \cup BitsOf(d, {ac})
    BY <1>4, BitsOfFew DEF Recharge
  <2>3. \A e \in Desc : e >= Reserved =>
          QueuesOf(e)' = IF e = d THEN (QueuesOf(e) \ {q}) \cup {ac} ELSE QueuesOf(e)
    BY <1>1, <2>2, NibblesAfter
  <2>4. QueuesOf(d)' = {ac}
    BY <1>1, <2>1, <2>3
  <2>5. NibbleExact'
    <3> SUFFICES ASSUME NEW e \in Desc, e >= Reserved
                 PROVE  IF e \in alloc' THEN \E x \in DataAC : QueuesOf(e)' = {x} ELSE QueuesOf(e)' = {}
      BY DEF NibbleExact
    <3>1. CASE e = d
      BY <1>2, <2>1, <2>4, <3>1
    <3>2. CASE e # d
      BY <1>2, <2>3, <3>2 DEF PoolInv, NibbleExact
    <3> QED  BY <3>1, <3>2
  <2>6. TxDoneQueue(d)' = ac
    BY <1>1, <2>1, <2>4, QueueOfNext
  <2>7. ASSUME NEW e \in alloc \ {d}  PROVE TxDoneQueue(e)' = TxDoneQueue(e)
    <3>1. e \in Desc /\ (e < Reserved \/ e >= Reserved)
      BY <1>2, ReservedBounds DEF Desc
    <3>2. CASE e < Reserved
      BY <3>1, <3>2, QueueOf, QueueOfNext
    <3>3. CASE e >= Reserved
      <4>1. PICK x \in DataAC : QueuesOf(e) = {x}
        BY <3>1, <3>3 DEF PoolInv, NibbleExact
      <4>2. QueuesOf(e)' = {x}
        BY <2>3, <3>1, <3>3, <4>1
      <4> QED  BY <3>1, <3>3, <4>1, <4>2, QueueOf, QueueOfNext
    <3> QED  BY <3>1, <3>2, <3>3
  <2>8. \A x \in AC : Users(x)' = IF x = q THEN Users(x) \ {d}
                                  ELSE IF x = ac THEN Users(x) \cup {d} ELSE Users(x)
    BY <1>2, <1>4, <2>6, <2>7 DEF Users
  <2>9. ASSUME NEW x \in AC  PROVE outstanding'[x] = Cardinality(Users(x)')
    <3>1. IsFiniteSet(Users(x)) /\ Cardinality(Users(x)) \in Nat
      BY <1>2, UsersFinite
    <3>2. outstanding[x] = Cardinality(Users(x))
      BY Exactness DEF PoolInv
    <3>3. outstanding' = [outstanding EXCEPT ![q] = Decr(@), ![ac] = Incr(@)]
      BY <1>4 DEF Recharge
    <3>4. CASE x = q
      <4>1. d \in Users(x)
        BY <3>4 DEF Users
      <4>2. Cardinality(Users(x) \ {d}) = Cardinality(Users(x)) - 1 /\ IsFiniteSet(Users(x) \ {d})
        BY <3>1, <4>1, FS_RemoveElement
      <4>3. Cardinality(Users(x) \ {d}) \in Nat
        BY <4>2, FS_CardinalityType
      <4>4. outstanding'[x] = outstanding[x] - 1
        BY <1>4, <3>1, <3>2, <3>3, <3>4, <4>2, <4>3 DEF Decr, PoolType
      <4> QED  BY <2>8, <3>2, <3>4, <4>2, <4>4
    <3>5. CASE x = ac
      <4>1. d \notin Users(x)
        BY <1>4, <3>5 DEF Users
      <4>2. Cardinality(Users(x) \cup {d}) = Cardinality(Users(x)) + 1
        BY <3>1, <4>1, FS_AddElement
      <4>3. Cardinality(Users(x)) < NUM_TX_TOKENS
        <5>1. IsFiniteSet(Desc) /\ Cardinality(Desc) = NUM_TX_TOKENS
          BY FS_Interval DEF Desc
        <5>2. Users(x) \cup {d} \in SUBSET Desc
          BY <1>1, <1>2 DEF Users
        <5> QED  BY <3>1, <4>2, <5>1, <5>2, FS_Subset
      <4>4. outstanding'[x] = outstanding[x] + 1
        BY <1>4, <3>1, <3>2, <3>3, <3>5, <4>3 DEF Incr, PoolType
      <4> QED  BY <1>4, <2>8, <3>2, <3>5, <4>2, <4>4
    <3>6. CASE x # q /\ x # ac
      BY <2>8, <3>2, <3>3, <3>6 DEF PoolType
    <3> QED  BY <3>4, <3>5, <3>6
  <2> QED  BY <2>5, <2>6, <2>7, <2>9, ExactnessNext DEF PoolInv
<1> QED  BY <1>3, <1>4

-----------------------------------------------------------------------------
(* The inductive invariant: the accounts, and what the threads that will   *)
(* touch them rely on                                                      *)

ThreadInv ==
  /\ rpu \subseteq alloc
  /\ \A c \in calls : c.ac = AC_MC => Multicast
  /\ ev.op = "kick" => ev.ac \in DataAC
  /\ ev.op = "done" =>
       \E d \in alloc \ rpu : ev.desc = d /\ ev.q = TxDoneQueue(d) /\ Fits(d, ev.ac)

AccountInv == TypeOK /\ PoolInv /\ ThreadInv

(* What a step may do to the pool.                                         *)
PoolStep ==
  \/ UNCHANGED pool
  \/ \E ac \in AC : \E d \in TxDescGet(ac) : Fits(d, ac) /\ Charge(d, ac)
  \/ \E d \in alloc : TxDescFree(d, TxDoneQueue(d))
  \/ \E d \in alloc, ac \in AC : Fits(d, ac) /\ Recharge(d, TxDoneQueue(d), ac)

(* Every kind of step on the pool keeps its accounts.                      *)
LEMMA PoolStepInv ==
  ASSUME AccountInv, PoolStep
  PROVE  PoolInv'
<1>1. PoolType /\ PoolInv
  BY TypeParts DEF AccountInv
<1>2. CASE UNCHANGED pool
  BY <1>1, <1>2, PoolUnchanged DEF pool
<1>3. ASSUME NEW ac \in AC, NEW d \in TxDescGet(ac), Fits(d, ac), Charge(d, ac)  PROVE PoolInv'
  <2>1. d \in Desc \ alloc
    BY TxDescGetType
  <2> QED  BY <1>1, <1>3, <2>1, ChargeInv
<1>4. ASSUME NEW d \in alloc, TxDescFree(d, TxDoneQueue(d))  PROVE PoolInv'
  BY <1>1, <1>4, TxDescFreeInv
<1>5. ASSUME NEW d \in alloc, NEW ac \in AC, Fits(d, ac), Recharge(d, TxDoneQueue(d), ac)  PROVE PoolInv'
  BY <1>1, <1>5, RechargeInv
<1> QED  BY <1>2, <1>3, <1>4, <1>5 DEF PoolStep

(* A step that leaves the pool and the commands alone and starts no loop   *)
(* but that over all categories keeps what the threads rely on.            *)
LEMMA ThreadInvKept ==
  ASSUME AccountInv, UNCHANGED pool, rpu' = rpu, calls' \subseteq calls,
         \/ ev' = ev
         \/ ev'.op = "kick" /\ ev'.ac = AC_VO
  PROVE  ThreadInv'
<1>1. PoolType /\ PoolInv /\ ThreadInv /\ ThreadType
  BY TypeParts DEF AccountInv
<1>2. \A e \in Desc : TxDoneQueue(e)' = TxDoneQueue(e)
  BY <1>1, PoolUnchanged DEF pool
<1>3. alloc' = alloc
  BY DEF pool
<1>4. CASE ev' = ev
  <2>1. CASE ev.op = "done"
    <3>1. PICK d \in alloc \ rpu : ev.desc = d /\ ev.q = TxDoneQueue(d) /\ Fits(d, ev.ac)
      BY <1>1, <2>1 DEF ThreadInv
    <3>2. ev'.q = TxDoneQueue(d)'
      BY <1>1, <1>2, <1>4, <3>1 DEF PoolType
    <3> QED  BY <1>1, <1>3, <1>4, <2>1, <3>1, <3>2 DEF ThreadInv, Fits
  <2>2. CASE ev.op # "done"
    BY <1>1, <1>3, <1>4, <2>2 DEF ThreadInv
  <2> QED  BY <2>1, <2>2
<1>5. CASE ev'.op = "kick" /\ ev'.ac = AC_VO
  BY <1>1, <1>3, <1>5, ConstantTypes DEF ThreadInv
<1> QED  BY <1>4, <1>5

(* A descriptor obtained for category ac may have it.                      *)
LEMMA LentFits ==
  ASSUME SpareUnicastOnly, NEW ac \in AC, ac = AC_MC => Multicast, NEW d \in TxDescGet(ac)
  PROVE  d \in Desc \ alloc /\ Fits(d, ac)
<1>1. d \in Desc \ alloc
  BY TxDescGetType
<1>2. CASE d < Reserved
  BY <1>2, ReservedBounds DEF TxDescGet, Fits, Desc
<1>3. CASE ~(d < Reserved)
  <2>1. Reserved # NUM_TX_TOKENS
    BY <1>1, <1>3, ReservedBounds DEF Desc
  <2> QED  BY <1>1, <1>3, <2>1, ConstantTypes DEF SpareUnicastOnly, Fits
<1> QED  BY <1>1, <1>2, <1>3

(* Charging a free descriptor and freeing it at once changes nothing.      *)
LEMMA ChargeAndFreeNothing ==
  ASSUME PoolType, PoolInv, NEW q \in AC, NEW d \in Desc \ alloc, Fits(d, q), ChargeAndFree(d, q)
  PROVE  UNCHANGED pool
<1>1. spare_map \ SpareBits(d, q) = spare_map
  <2>1. CASE d < Reserved
    BY <2>1, SpareBitsFit
  <2>2. CASE ~(d < Reserved)
    <3>1. SpareBits(d, q) = {<<d % Reserved, q>>} /\ q \in DataAC
      BY <2>2, SpareBitsFit DEF Fits
    <3>2. QueuesOf(d) = {}
      BY <2>2, ReservedBounds DEF PoolInv, NibbleExact, Desc
    <3> QED  BY <3>1, <3>2 DEF QueuesOf
  <2> QED  BY <2>1, <2>2
<1> QED  BY <1>1 DEF ChargeAndFree, pool

(* tx_pending_process charges a descriptor that tx_desc_get found, or      *)
(* nothing.                                                                *)
LEMMA TxPendingProcessStep ==
  ASSUME SpareUnicastOnly, AccountInv, NEW ac \in AC, ac = AC_MC => Multicast, NEW d \in TxDescGet(ac),
         NEW pq, NEW t, NEW frees, TxPendingProcess(pq, t, d, ac, frees)
  PROVE  PoolStep /\ rpu' \subseteq alloc'
<1>1. d \in Desc \ alloc /\ Fits(d, ac) /\ PoolType /\ PoolInv /\ rpu \subseteq alloc
  BY LentFits, TypeParts DEF AccountInv, ThreadInv
<1>2. CASE Charge(d, ac) /\ \E batch, p : TxCmdInit(d, batch, p, frees)
  <2>1. rpu' \subseteq rpu \cup {d}
    BY <1>2 DEF TxCmdInit
  <2>2. PoolStep
    BY <1>1, <1>2 DEF PoolStep
  <2> QED  BY <1>1, <1>2, <2>1, <2>2 DEF Charge
<1>3. CASE ChargeAndFree(d, ac) /\ UNCHANGED cmd
  <2>1. UNCHANGED pool
    BY <1>1, <1>3, ChargeAndFreeNothing
  <2> QED  BY <1>1, <1>3, <2>1 DEF PoolStep, pool, cmd
<1> QED  BY <1>2, <1>3 DEF TxPendingProcess

(* A sender's effect on the pool.                                          *)
LEMMA XmitStep ==
  ASSUME SpareUnicastOnly, AccountInv, NEW c \in calls, Xmit(c)
  PROVE  PoolStep /\ ThreadInv'
<1>1. ev = Idle /\ ev' = ev /\ calls' \subseteq calls
  BY DEF Xmit, XmitQueueFull, XmitBitmapFails, XmitQueued, XmitSends, XmitEnter
<1>2. c.ac \in AC /\ (c.ac = AC_MC => Multicast) /\ ThreadInv
  BY DEF AccountInv, ThreadInv, TypeOK, Call
<1>3. CASE XmitQueueFull(c) \/ XmitBitmapFails(c) \/ XmitQueued(c)
  <2>1. UNCHANGED pool /\ rpu' = rpu
    BY <1>3 DEF XmitQueueFull, XmitBitmapFails, XmitQueued, cmd
  <2> QED  BY <1>1, <2>1, ThreadInvKept DEF PoolStep
<1>4. CASE XmitSends(c)
  <2>1. PICK d \in TxDescGet(c.ac) :
          TxPendingProcess(Enqueued(c), EnqueuedBmp(c, TRUE), d, c.ac, {c.nb})
    BY <1>4 DEF XmitSends
  <2>2. PoolStep /\ rpu' \subseteq alloc'
    BY <1>2, <2>1, TxPendingProcessStep
  <2> QED  BY <1>1, <1>2, <2>2 DEF ThreadInv, Idle
<1> QED  BY <1>3, <1>4 DEF Xmit

(* A TX_DONE event names a descriptor in use and starts from the category  *)
(* it is charged to.                                                       *)
LEMMA TxDoneStep ==
  ASSUME AccountInv, NEW d \in Desc, TxDone(d)
  PROVE  PoolStep /\ ThreadInv'
<1>1. PoolType /\ PoolInv /\ ThreadInv /\ UNCHANGED pool /\ alloc \subseteq Desc
  BY TypeParts DEF AccountInv, TxDone, PoolType
<1>2. d \in alloc /\ alloc' = alloc /\ rpu' = rpu \ {d} /\ calls' = calls
  BY <1>1 DEF TxDone, ThreadInv, pool
<1>3. TxDoneQueue(d)' = TxDoneQueue(d)
  BY <1>1, PoolUnchanged DEF pool
<1>4. ev' = [op |-> "done", desc |-> d, q |-> TxDoneQueue(d), ac |-> IF d < Reserved THEN TxDoneQueue(d) ELSE AC_VO]
  BY DEF TxDone
<1>5. Fits(d, IF d < Reserved THEN TxDoneQueue(d) ELSE AC_VO)
  BY <1>1, <1>2, Attribution, ConstantTypes DEF Fits, PoolInv
<1> QED  BY <1>1, <1>2, <1>3, <1>4, <1>5 DEF PoolStep, ThreadInv, Fits

(* tx_buff_req_free moves the charge to the category it found a batch in.  *)
LEMMA TxDoneServesStep ==
  ASSUME AccountInv, TxDoneServes
  PROVE  PoolStep /\ ThreadInv'
<1>1. ThreadInv /\ ev.ac \in AC
  BY EventType, TypeParts DEF AccountInv
<1>2. ev.desc \in alloc /\ ev.q = TxDoneQueue(ev.desc) /\ Fits(ev.desc, ev.ac)
  BY <1>1 DEF TxDoneServes, ThreadInv
<1>3. Recharge(ev.desc, ev.q, ev.ac) /\ ev' = Idle /\ calls' = calls /\ rpu' \subseteq rpu \cup {ev.desc}
  BY DEF TxDoneServes, TxCmdInit
<1>4. PoolStep
  BY <1>1, <1>2, <1>3 DEF PoolStep
<1> QED  BY <1>1, <1>2, <1>3, <1>4 DEF ThreadInv, Recharge, Idle

(* tx_buff_req_free frees the descriptor only after the last category.     *)
LEMMA TxDoneFindsNoneStep ==
  ASSUME AccountInv, TxDoneFindsNone
  PROVE  PoolStep /\ ThreadInv'
<1>1. ThreadInv /\ ev.ac \in AC /\ ev.desc \in Desc /\ PoolType /\ PoolInv
  BY EventType, TypeParts DEF AccountInv
<1>2. PICK d \in alloc \ rpu : ev.desc = d /\ ev.q = TxDoneQueue(d) /\ Fits(d, ev.ac)
  BY <1>1 DEF TxDoneFindsNone, ThreadInv
<1>3. calls' = calls /\ rpu' = rpu
  BY DEF TxDoneFindsNone, cmd
<1>4. CASE TxDescFree(ev.desc, ev.q) /\ ev' = Idle
  BY <1>1, <1>2, <1>3, <1>4 DEF PoolStep, ThreadInv, TxDescFree, Idle
<1>5. CASE ~(d < Reserved \/ ev.ac = AC_BK) /\ UNCHANGED pool /\ ev' = [ev EXCEPT !.ac = @ - 1]
  <2>1. TxDoneQueue(d)' = ev.q
    BY <1>1, <1>2, <1>5, PoolUnchanged DEF pool
  <2>2. ev'.op = "done" /\ ev'.desc = d /\ ev'.q = ev.q /\ ev'.ac = ev.ac - 1 /\ alloc' = alloc
    BY <1>1, <1>2, <1>5, TypeParts DEF AccountInv, ThreadType, Event, pool, TxDoneFindsNone
  <2>3. Fits(d, ev.ac - 1)
    BY <1>1, <1>2, <1>5 DEF Fits, DataAC, AC_BK, AC_VO
  <2> QED  BY <1>1, <1>2, <1>3, <1>5, <2>1, <2>2, <2>3 DEF PoolStep, ThreadInv, Fits
<1> QED  BY <1>2, <1>4, <1>5 DEF TxDoneFindsNone

(* The kick loop visits data categories only.                              *)
LEMMA KickStep ==
  ASSUME SpareUnicastOnly, AccountInv, Kick
  PROVE  PoolStep /\ ThreadInv'
<1>1. ThreadInv /\ ev.op = "kick" /\ ev.ac \in DataAC /\ calls' = calls
  BY DEF AccountInv, Kick, ThreadInv
<1>2. ev.ac \in AC /\ ev.ac # AC_MC
  BY <1>1, ConstantTypes
<1>3. PoolStep /\ rpu' \subseteq alloc'
  <2>1. CASE UNCHANGED <<pendq, pool, cmd, sched, tim>>
    BY <1>1, <2>1 DEF PoolStep, ThreadInv, pool, cmd
  <2>2. ASSUME NEW d \in TxDescGet(ev.ac), TxPendingProcess(pendq, tim, d, ev.ac, {})
        PROVE  PoolStep /\ rpu' \subseteq alloc'
    BY <1>2, <2>2, TxPendingProcessStep
  <2> QED  BY <2>1, <2>2 DEF Kick
<1>4. (ev'.op = "kick" => ev'.ac \in DataAC) /\ ev'.op # "done"
  <2>1. CASE ev.ac = AC_BK
    BY <2>1 DEF Kick, Idle
  <2>2. CASE ev.ac # AC_BK
    <3>1. ev.ac - 1 \in DataAC
      BY <1>1, <2>2 DEF DataAC, AC_BK, AC_VO
    <3>2. ev' = [ev EXCEPT !.ac = @ - 1]
      BY <2>2 DEF Kick
    <3>3. ev \in Event
      BY TypeParts DEF AccountInv, ThreadType
    <3> QED  BY <1>1, <3>1, <3>2, <3>3 DEF Event
  <2> QED  BY <2>1, <2>2
<1> QED  BY <1>1, <1>3, <1>4 DEF ThreadInv

(* Every other step leaves the pool alone.                                 *)
LEMMA ElsewhereStep ==
  ASSUME AccountInv,
         \/ \E f \in Frame, p \in Peer, ac \in AC : XmitLookup(f, p, ac)
         \/ \E p \in UPeer, n \in 0 .. MAX_PS_FRAMES : PsGetFrames(p, n)
         \/ \E p \in UPeer : ClientSleeps(p) \/ ClientWakes(p) \/ PeerAdd(p) \/ PeerRemove(p)
         \/ PeersFlush
         \/ TwtChange
         \/ UNCHANGED vars
  PROVE  PoolStep /\ ThreadInv'
<1>1. CASE \E f \in Frame, p \in Peer, ac \in AC : XmitLookup(f, p, ac)
  <2>1. PICK f \in Frame, p \in Peer, ac \in AC : XmitLookup(f, p, ac)
    BY <1>1
  <2>2. UNCHANGED pool /\ rpu' = rpu /\ ev' = ev
    BY <2>1 DEF XmitLookup
  <2>3. ac = AC_MC => Multicast
    BY <2>1, ConstantTypes DEF XmitLookup
  <2>4. \A c \in calls' : c.ac = AC_MC => Multicast
    BY <2>1, <2>3 DEF XmitLookup, AccountInv, ThreadInv
  <2>5. PoolType /\ PoolInv /\ ThreadInv
    BY TypeParts DEF AccountInv
  <2>6. \A e \in Desc : TxDoneQueue(e)' = TxDoneQueue(e)
    BY <2>2, <2>5, PoolUnchanged DEF pool
  <2>7. alloc' = alloc /\ alloc \subseteq Desc
    BY <2>2, <2>5 DEF pool, PoolType
  <2>8. ev'.op = "done" =>
          \E d \in alloc' \ rpu' : ev'.desc = d /\ ev'.q = TxDoneQueue(d)' /\ Fits(d, ev'.ac)
    BY <2>2, <2>5, <2>6, <2>7 DEF ThreadInv
  <2> QED  BY <2>2, <2>4, <2>5, <2>7, <2>8 DEF PoolStep, ThreadInv, Fits
<1>2. CASE \E p \in UPeer, n \in 0 .. MAX_PS_FRAMES : PsGetFrames(p, n)
  <2>1. UNCHANGED pool /\ rpu' = rpu /\ calls' = calls /\ ev'.op = "kick" /\ ev'.ac = AC_VO
    BY <1>2 DEF PsGetFrames, KickAll, Idle
  <2> QED  BY <2>1, ThreadInvKept DEF PoolStep
<1>3. CASE \E p \in UPeer : ClientWakes(p)
  <2>1. UNCHANGED pool /\ rpu' = rpu /\ calls' = calls /\ ev'.op = "kick" /\ ev'.ac = AC_VO
    BY <1>3 DEF ClientWakes, KickAll, Idle
  <2> QED  BY <2>1, ThreadInvKept DEF PoolStep
<1>4. CASE \/ \E p \in UPeer : ClientSleeps(p) \/ PeerAdd(p) \/ PeerRemove(p)
           \/ PeersFlush \/ TwtChange \/ UNCHANGED vars
  <2>1. UNCHANGED pool /\ rpu' = rpu /\ calls' = calls /\ ev' = ev
    BY <1>4 DEF ClientSleeps, PeerAdd, PeerRemove, PeersFlush, Forget, TwtChange, vars, pool, cmd
  <2> QED  BY <2>1, ThreadInvKept DEF PoolStep
<1> QED  BY <1>1, <1>2, <1>3, <1>4

(* The effect of any step of the transmit path on the pool.                *)
LEMMA EveryStep ==
  ASSUME SpareUnicastOnly, AccountInv, [Next]_vars
  PROVE  PoolStep /\ ThreadInv'
<1>1. ASSUME NEW c \in calls, Xmit(c)  PROVE PoolStep /\ ThreadInv'
  BY <1>1, XmitStep
<1>2. ASSUME NEW d \in Desc, TxDone(d)  PROVE PoolStep /\ ThreadInv'
  BY <1>2, TxDoneStep
<1>3. CASE TxDoneServes
  BY <1>3, TxDoneServesStep
<1>4. CASE TxDoneFindsNone
  BY <1>4, TxDoneFindsNoneStep
<1>5. CASE Kick
  BY <1>5, KickStep
<1> QED  BY <1>1, <1>2, <1>3, <1>4, <1>5, ElsewhereStep DEF Next, Events

(* tx_init starts with an empty pool.                                      *)
LEMMA AccountInit == Init => PoolInv /\ ThreadInv
<1> SUFFICES ASSUME Init PROVE PoolInv /\ ThreadInv
  OBVIOUS
<1>1. NibbleExact
  BY DEF Init, NibbleExact, QueuesOf
<1>2. \A ac \in AC : Users(ac) = {}
  BY DEF Init, Users
<1>3. OutstandingExact
  BY <1>2, FS_EmptySet, Exactness DEF Init
<1>4. ThreadInv
  BY DEF Init, ThreadInv, Idle
<1> QED  BY <1>1, <1>3, <1>4 DEF PoolInv

(* The inductive invariant holds for every size of the pool, as long as no *)
(* multicast frame can take a spare descriptor.                            *)
THEOREM AccountsKept ==
  ASSUME SpareUnicastOnly
  PROVE  Spec => []AccountInv
<1>1. Init /\ TypeOK => AccountInv
  BY AccountInit DEF AccountInv
<1>2. AccountInv /\ TypeOK' /\ [Next]_vars => AccountInv'
  <2> SUFFICES ASSUME AccountInv, TypeOK', [Next]_vars PROVE AccountInv'
    OBVIOUS
  <2>1. PoolStep /\ ThreadInv'
    BY EveryStep
  <2>2. PoolInv'
    BY <2>1, PoolStepInv
  <2> QED  BY <2>1, <2>2 DEF AccountInv
<1> QED  BY <1>1, <1>2, TypeCorrect, PTL DEF Spec

(* outstanding_descs[] is exact, tx_buff_req_free always finds the         *)
(* category that a completed descriptor was charged to, and the nibble of  *)
(* a spare descriptor in use names that one category.                      *)
THEOREM PoolCorrect ==
  ASSUME SpareUnicastOnly
  PROVE  Spec => []PoolExact
<1>1. AccountInv => SpareMapExact
  <2> SUFFICES ASSUME AccountInv, NEW d \in Desc, d >= Reserved
               PROVE  Cardinality(QueuesOf(d)) = IF d \in alloc THEN 1 ELSE 0
    BY DEF SpareMapExact
  <2>1. IF d \in alloc THEN \E q \in DataAC : QueuesOf(d) = {q} ELSE QueuesOf(d) = {}
    BY DEF AccountInv, PoolInv, NibbleExact
  <2> QED  BY <2>1, FS_Singleton, FS_EmptySet
<1>2. AccountInv => PoolExact
  BY <1>1 DEF AccountInv, PoolInv, PoolExact
<1> QED  BY <1>2, AccountsKept, PTL

-----------------------------------------------------------------------------
(* The pool implements the abstract token pool                             *)

(* The abstract holder of a descriptor.                                    *)
LEMMA HolderOf ==
  ASSUME AccountInv, NEW d \in Desc
  PROVE  /\ holder[d] = IF d \in alloc THEN TxDoneQueue(d) ELSE NoAC
         /\ holder[d] = NoAC <=> d \notin alloc
<1>1. d \in alloc => TxDoneQueue(d) \in AC
  BY Attribution, TypeParts DEF AccountInv, PoolInv, PoolType
<1>2. NoAC \notin AC
  BY DEF NoAC, AC
<1> QED  BY <1>1, <1>2 DEF holder

(* The abstract pool has the same tokens.                                  *)
LEMMA SameSizes == Tokens!Token = Desc /\ Tokens!AC = AC /\ Tokens!Reserved = Reserved
BY DEF Tokens!Token, Desc, Tokens!AC, AC, Tokens!Reserved, Reserved, num_tx_tokens_per_ac

(* A charge is an abstract Take.                                           *)
LEMMA ChargeTakes ==
  ASSUME AccountInv, NEW ac \in AC, NEW d \in TxDescGet(ac), Fits(d, ac), Charge(d, ac)
  PROVE  Tokens!Take(ac, d)
<1>1. PoolType /\ PoolInv /\ d \in Desc \ alloc
  BY TypeParts, TxDescGetType DEF AccountInv
<1>2. \A e \in Desc : e \notin alloc <=> holder[e] = NoAC
  BY HolderOf
<1>3. d \in Tokens!Available(ac)
  <2> DEFINE own   == {e \in Desc \ alloc : e < Reserved /\ e % AC_MAX = ac}
             spare == {e \in Desc \ alloc : e >= Reserved}
  <2>1. d \in IF own # {} THEN own ELSE spare
    BY DEF TxDescGet
  <2>2. /\ own = {t \in Tokens!Token : holder[t] = NoAC /\ t < Tokens!Reserved /\ t % AC_MAX = ac}
        /\ spare = {t \in Tokens!Token : holder[t] = NoAC /\ t >= Tokens!Reserved}
    BY <1>2, SameSizes
  <2> HIDE DEF own, spare
  <2> QED  BY <2>1, <2>2 DEF Tokens!Available
<1>4. \A e \in alloc : TxDoneQueue(e)' = TxDoneQueue(e)
  BY <1>1, ChargeInv
<1>5. PoolInv' /\ TxDoneQueue(d)' = ac
  BY <1>1, ChargeInv
<1>6. holder' = [holder EXCEPT ![d] = ac]
  <2>1. alloc' = alloc \cup {d}
    BY DEF Charge
  <2> QED  BY <1>1, <1>4, <1>5, <2>1 DEF holder
<1> QED  BY <1>3, <1>6 DEF Tokens!Take

(* tx_desc_free is an abstract Give.                                       *)
LEMMA TxDescFreeGives ==
  ASSUME AccountInv, NEW d \in alloc, TxDescFree(d, TxDoneQueue(d))
  PROVE  Tokens!Give(d)
<1>1. PoolType /\ PoolInv /\ d \in Desc
  BY TypeParts DEF AccountInv, PoolType
<1>2. \A e \in alloc' : TxDoneQueue(e)' = TxDoneQueue(e)
  BY <1>1, TxDescFreeInv
<1>3. alloc' = alloc \ {d}
  BY DEF TxDescFree
<1>4. holder' = [holder EXCEPT ![d] = NoAC]
  BY <1>1, <1>2, <1>3 DEF holder
<1> QED  BY <1>1, <1>4, HolderOf DEF Tokens!Give

(* A recharge hands a spare token on, or changes nothing.                  *)
LEMMA RechargeHandsOn ==
  ASSUME AccountInv, NEW d \in alloc, NEW ac \in AC, Fits(d, ac), Recharge(d, TxDoneQueue(d), ac)
  PROVE  Tokens!HandOn(d, ac) \/ UNCHANGED holder
<1>1. PoolType /\ PoolInv /\ d \in Desc /\ alloc \subseteq Desc
  BY TypeParts DEF AccountInv, PoolType
<1>2. TxDoneQueue(d)' = ac /\ \A e \in alloc \ {d} : TxDoneQueue(e)' = TxDoneQueue(e)
  BY <1>1, RechargeInv
<1>3. alloc' = alloc
  BY DEF Recharge
<1>4. holder' = [holder EXCEPT ![d] = ac]
  BY <1>1, <1>2, <1>3 DEF holder
<1>5. CASE d >= Reserved
  BY <1>1, <1>4, <1>5, HolderOf, SameSizes DEF Tokens!HandOn
<1>6. CASE d < Reserved
  <2>1. holder[d] = ac
    BY <1>1, <1>6, HolderOf, QueueOf DEF Fits
  <2> QED  BY <1>1, <1>4, <2>1 DEF holder
<1> QED  BY <1>1, <1>5, <1>6, ReservedBounds DEF Desc

(* The bitmap, the counters and the nibble map together behave as the      *)
(* token pool of TxTokens: a category takes a spare descriptor only when   *)
(* its own are used up, no other category ever holds a reserved one, and   *)
(* only a spare one is handed on.                                          *)
THEOREM PoolImplementsTokens ==
  ASSUME SpareUnicastOnly
  PROVE  Spec => ImplementsTokens
<1>1. Init => Tokens!Init
  <2> SUFFICES ASSUME Init PROVE holder = [t \in Tokens!Token |-> NoAC]
    BY DEF Tokens!Init
  <2> QED  BY SameSizes DEF Init, holder
<1>2. AccountInv /\ [Next]_vars => [Tokens!Next]_holder
  <2> SUFFICES ASSUME AccountInv, [Next]_vars PROVE [Tokens!Next]_holder
    OBVIOUS
  <2>1. PoolStep /\ alloc \subseteq Desc
    BY EveryStep, TypeParts DEF AccountInv, PoolType
  <2>2. CASE UNCHANGED pool
    <3>1. \A e \in Desc : TxDoneQueue(e)' = TxDoneQueue(e)
      BY <2>2, PoolUnchanged, TypeParts DEF AccountInv, pool
    <3> QED  BY <2>2, <3>1 DEF holder, pool
  <2>3. CASE \E ac \in AC : \E d \in TxDescGet(ac) : Fits(d, ac) /\ Charge(d, ac)
    BY <2>3, ChargeTakes, TxDescGetType, SameSizes DEF Tokens!Next
  <2>4. CASE \E d \in alloc : TxDescFree(d, TxDoneQueue(d))
    BY <2>1, <2>4, TxDescFreeGives, SameSizes DEF Tokens!Next
  <2>5. CASE \E d \in alloc, ac \in AC : Fits(d, ac) /\ Recharge(d, TxDoneQueue(d), ac)
    BY <2>1, <2>5, RechargeHandsOn, SameSizes DEF Tokens!Next
  <2> QED  BY <2>1, <2>2, <2>3, <2>4, <2>5 DEF PoolStep
<1> QED  BY <1>1, <1>2, AccountsKept, PTL DEF Spec, ImplementsTokens, Tokens!Spec

-----------------------------------------------------------------------------
(***************************************************************************)
(* What a descriptor holds                                                 *)
(***************************************************************************)

(* No HAL call of tx_cmd_init fails, and no frame is sent while the RPU    *)
(* sleeps in TWT (see the run TxTwtStrands).                               *)
Answered == {"map", "send"} \cap Failures = {} /\ (TwtEnabled => Emergency = {})

(* A free descriptor holds nothing, one at the RPU no queued frame, and    *)
(* the one whose TX_DONE is handled has been emptied.                      *)
DescInv ==
  /\ rpu \subseteq alloc
  /\ \A d \in Desc : d \notin alloc => mapped[d] = 0
  /\ \A d \in Desc : d \notin alloc \/ d \in rpu => txq[d] = <<>>
  /\ ev.op = "done" => ev.desc \in alloc \ rpu /\ mapped[ev.desc] = 0 /\ txq[ev.desc] = <<>>
  /\ twt_asleep => TwtEnabled
  /\ Answered => AwaitsTxDone

(* A step that is not about descriptors.                                   *)
LEMMA DescElsewhere ==
  ASSUME DescInv, UNCHANGED <<alloc, rpu, mapped, txq>>, twt_asleep' => TwtEnabled,
         \/ ev' = ev
         \/ ev.op # "done" /\ ev'.op # "done"
  PROVE  DescInv'
BY DEF DescInv, AwaitsTxDone

(* tx_cmd_init touches one descriptor; with nothing mapped and no failure, *)
(* its command is at the RPU.                                              *)
LEMMA TxCmdInitDesc ==
  ASSUME CmdType, NEW d \in Desc, NEW batch, NEW p, NEW frees, TxCmdInit(d, batch, p, frees)
  PROVE  /\ \A e \in Desc \ {d} : mapped'[e] = mapped[e] /\ txq'[e] = txq[e]
         /\ rpu' = rpu \/ (rpu' = rpu \cup {d} /\ txq'[d] = <<>>)
         /\ mapped[d] = 0 /\ {"map", "send"} \cap Failures = {} => rpu' = rpu \cup {d}
<1>1. (\E n : mapped' = [mapped EXCEPT ![d] = n]) /\ (\E q : txq' = [txq EXCEPT ![d] = q])
  BY DEF TxCmdInit
<1>2. \A e \in Desc \ {d} : mapped'[e] = mapped[e] /\ txq'[e] = txq[e]
  BY <1>1 DEF CmdType
<1>3. rpu' = rpu \/ (rpu' = rpu \cup {d} /\ txq' = [txq EXCEPT ![d] = <<>>])
  BY DEF TxCmdInit
<1>4. txq' = [txq EXCEPT ![d] = <<>>] => txq'[d] = <<>>
  BY DEF CmdType
<1>5. mapped[d] = 0 /\ {"map", "send"} \cap Failures = {} => rpu' = rpu \cup {d}
  BY DEF TxCmdInit
<1> QED  BY <1>2, <1>3, <1>4, <1>5

(* tx_pending_process with a free descriptor.                              *)
LEMMA PendingDesc ==
  ASSUME TypeOK, DescInv, NEW ac, NEW d \in TxDescGet(ac), NEW pq, NEW t, NEW frees,
         TxPendingProcess(pq, t, d, ac, frees), twt_asleep' = twt_asleep,
         ev.op # "done", ev'.op # "done"
  PROVE  DescInv'
<1>1. d \in Desc \ alloc /\ CmdType
  BY TxDescGetType, TypeParts
<1>2. CASE Charge(d, ac) /\ \E batch, p : TxCmdInit(d, batch, p, frees)
  <2>1. /\ \A e \in Desc \ {d} : mapped'[e] = mapped[e] /\ txq'[e] = txq[e]
        /\ rpu' = rpu \/ (rpu' = rpu \cup {d} /\ txq'[d] = <<>>)
        /\ mapped[d] = 0 /\ {"map", "send"} \cap Failures = {} => rpu' = rpu \cup {d}
    BY <1>1, <1>2, TxCmdInitDesc
  <2>2. alloc' = alloc \cup {d}
    BY <1>2 DEF Charge
  <2>3. mapped[d] = 0
    BY <1>1 DEF DescInv
  <2>4. d \notin rpu
    BY <1>1 DEF DescInv
  <2>5. Answered => AwaitsTxDone'
    BY <2>1, <2>2, <2>3 DEF DescInv, Answered, AwaitsTxDone
  <2> QED  BY <1>1, <2>1, <2>2, <2>4, <2>5 DEF DescInv
<1>3. CASE ChargeAndFree(d, ac) /\ UNCHANGED cmd
  <2>1. UNCHANGED <<alloc, rpu, mapped, txq>>
    BY <1>3 DEF ChargeAndFree, cmd
  <2> QED  BY <2>1, DescElsewhere DEF DescInv
<1> QED  BY <1>2, <1>3 DEF TxPendingProcess

LEMMA XmitDesc ==
  ASSUME TypeOK, DescInv, NEW c \in calls, Xmit(c)
  PROVE  DescInv'
<1>1. ev = Idle /\ ev' = ev /\ ev.op # "done" /\ twt_asleep' = twt_asleep
  <2>1. ev = Idle /\ UNCHANGED peers /\ ev' = ev
    BY DEF Xmit, XmitQueueFull, XmitBitmapFails, XmitQueued, XmitSends, XmitEnter
  <2> QED  BY <2>1 DEF peers, Idle
<1>2. CASE XmitQueueFull(c) \/ XmitBitmapFails(c) \/ XmitQueued(c)
  <2>1. UNCHANGED <<alloc, rpu, mapped, txq>>
    BY <1>2 DEF XmitQueueFull, XmitBitmapFails, XmitQueued, cmd, pool
  <2> QED  BY <1>1, <2>1, DescElsewhere DEF DescInv
<1>3. CASE XmitSends(c)
  <2>1. PICK d \in TxDescGet(c.ac) :
          TxPendingProcess(Enqueued(c), EnqueuedBmp(c, TRUE), d, c.ac, {c.nb})
    BY <1>3 DEF XmitSends
  <2> QED  BY <1>1, <2>1, PendingDesc
<1> QED  BY <1>2, <1>3 DEF Xmit

LEMMA TxDoneDesc ==
  ASSUME TypeOK, DescInv, NEW d \in Desc, TxDone(d)
  PROVE  DescInv'
<1>1. /\ ev = Idle /\ d \in rpu /\ rpu' = rpu \ {d} /\ mapped' = [mapped EXCEPT ![d] = 0]
      /\ ev'.op = "done" /\ ev'.desc = d /\ UNCHANGED <<alloc, txq, twt_asleep>>
  BY DEF TxDone, Unmapped, pool, peers
<1>2. mapped \in [Desc -> Nat]
  BY DEF TypeOK
<1>3. mapped'[d] = 0 /\ \A e \in Desc \ {d} : mapped'[e] = mapped[e]
  BY <1>1, <1>2
<1>4. d \in alloc /\ txq[d] = <<>>
  BY <1>1 DEF DescInv
<1>5. Answered => AwaitsTxDone'
  BY <1>1 DEF DescInv, AwaitsTxDone, Idle
<1> QED  BY <1>1, <1>3, <1>4, <1>5 DEF DescInv

(* The batch of a handled TX_DONE is sent, or put aside while the RPU      *)
(* sleeps, which Answered rules out.                                       *)
LEMMA TxDoneServesDesc ==
  ASSUME TypeOK, DescInv, TxDoneServes
  PROVE  DescInv'
<1>1. PICK d \in Desc : d = ev.desc
  BY EventType, TypeParts
<1>2. /\ ev' = Idle /\ ev.op = "done" /\ UNCHANGED <<alloc, twt_asleep>>
      /\ d \in alloc \ rpu /\ mapped[d] = 0 /\ CmdType
  BY <1>1, TypeParts DEF TxDoneServes, Recharge, peers, DescInv
<1>3. ev'.op # "done"
  BY <1>2 DEF Idle
<1>4. PICK p \in Peer, n \in 1 .. MAX_TX_AGGREGATION :
        /\ PendingBatch(pendq, tim, ev.ac, p, n)
        /\ \/ ~twt_asleep /\ \E batch : TxCmdInit(d, batch, p, {})
           \/ /\ twt_asleep /\ \E batch : txq' = [txq EXCEPT ![d] = batch]
              /\ UNCHANGED <<mapped, rpu>>
  BY <1>1 DEF TxDoneServes
<1>5. /\ \A e \in Desc \ {d} : mapped'[e] = mapped[e] /\ txq'[e] = txq[e]
      /\ rpu' = rpu \/ (rpu' = rpu \cup {d} /\ txq'[d] = <<>>)
  <2>1. CASE \E batch : TxCmdInit(d, batch, p, {})
    BY <1>2, <2>1, TxCmdInitDesc
  <2>2. CASE mapped' = mapped /\ rpu' = rpu /\ \E batch : txq' = [txq EXCEPT ![d] = batch]
    BY <1>2, <2>2 DEF CmdType
  <2> QED  BY <1>4, <2>1, <2>2
<1>6. ASSUME Answered PROVE AwaitsTxDone'
  <2>1. ~twt_asleep
    <3>1. 1 \in 1 .. n /\ \A i \in 1 .. n : CanXmit(pendq[p][ev.ac][i])
      BY <1>4 DEF PendingBatch, BatchLen
    <3>2. CanXmit(pendq[p][ev.ac][1])
      BY <3>1
    <3> QED  BY <1>6, <3>2 DEF CanXmit, Answered, DescInv
  <2>2. rpu' = rpu \cup {d}
    BY <1>2, <1>4, <1>6, <2>1, TxCmdInitDesc DEF Answered
  <2> QED  BY <1>1, <1>2, <1>3, <1>6, <2>2 DEF DescInv, AwaitsTxDone
<1> QED  BY <1>2, <1>3, <1>5, <1>6 DEF DescInv

LEMMA TxDoneFindsNoneDesc ==
  ASSUME TypeOK, DescInv, TxDoneFindsNone
  PROVE  DescInv'
<1>1. ev.op = "done" /\ UNCHANGED <<txq, mapped, rpu, twt_asleep>> /\ ev \in Event
  BY TypeParts DEF TxDoneFindsNone, cmd, peers, ThreadType
<1>2. CASE TxDescFree(ev.desc, ev.q) /\ ev' = Idle
  <2>1. alloc' = alloc \ {ev.desc} /\ ev'.op # "done"
    BY <1>2 DEF TxDescFree, Idle
  <2> QED  BY <1>1, <2>1 DEF DescInv, AwaitsTxDone
<1>3. CASE UNCHANGED pool /\ ev' = [ev EXCEPT !.ac = @ - 1]
  <2>1. alloc' = alloc /\ ev'.op = ev.op /\ ev'.desc = ev.desc
    BY <1>1, <1>3 DEF pool, Event
  <2> QED  BY <1>1, <2>1 DEF DescInv, AwaitsTxDone
<1> QED  BY <1>2, <1>3 DEF TxDoneFindsNone

LEMMA KickDesc ==
  ASSUME TypeOK, DescInv, Kick
  PROVE  DescInv'
<1>1. ev.op # "done" /\ ev'.op # "done" /\ twt_asleep' = twt_asleep
  <2>1. ev \in Event
    BY TypeParts DEF ThreadType
  <2> QED  BY <2>1 DEF Kick, Idle, peers, Event
<1>2. CASE UNCHANGED <<pendq, pool, cmd, sched, tim>>
  <2>1. UNCHANGED <<alloc, rpu, mapped, txq>>
    BY <1>2 DEF cmd, pool
  <2> QED  BY <1>1, <2>1, DescElsewhere DEF DescInv
<1>3. ASSUME NEW d \in TxDescGet(ev.ac), TxPendingProcess(pendq, tim, d, ev.ac, {})
      PROVE  DescInv'
  BY <1>1, <1>3, PendingDesc
<1> QED  BY <1>2, <1>3 DEF Kick

(* A free descriptor is clean, whatever fails, sleeps or leaves; and with  *)
(* commands that do not fail every descriptor in use waits for a TX_DONE.  *)
THEOREM DescriptorsKept == Spec => []DescInv
<1>1. Init => DescInv
  BY DEF Init, DescInv, AwaitsTxDone, Idle
<1>2. TypeOK /\ DescInv /\ [Next]_vars => DescInv'
  <2> SUFFICES ASSUME TypeOK, DescInv, [Next]_vars PROVE DescInv'
    OBVIOUS
  <2>1. ASSUME NEW c \in calls, Xmit(c) PROVE DescInv'
    BY <2>1, XmitDesc
  <2>2. ASSUME NEW d \in Desc, TxDone(d) PROVE DescInv'
    BY <2>2, TxDoneDesc
  <2>3. CASE TxDoneServes
    BY <2>3, TxDoneServesDesc
  <2>4. CASE TxDoneFindsNone
    BY <2>4, TxDoneFindsNoneDesc
  <2>5. CASE Kick
    BY <2>5, KickDesc
  <2>6. CASE \/ \E f \in Frame, p \in Peer, ac \in AC : XmitLookup(f, p, ac)
             \/ \E p \in UPeer : ClientSleeps(p) \/ PeerAdd(p) \/ PeerRemove(p)
             \/ PeersFlush \/ UNCHANGED vars
    <3>1. UNCHANGED <<alloc, rpu, mapped, txq, twt_asleep, ev>>
      BY <2>6 DEF XmitLookup, ClientSleeps, PeerAdd, PeerRemove, PeersFlush, Forget, vars, pool,
                  cmd, peers
    <3> QED  BY <3>1, DescElsewhere DEF DescInv
  <2>7. CASE \/ \E p \in UPeer, n \in 0 .. MAX_PS_FRAMES : PsGetFrames(p, n)
             \/ \E p \in UPeer : ClientWakes(p)
    <3>1. UNCHANGED <<alloc, rpu, mapped, txq, twt_asleep>> /\ ev.op # "done" /\ ev'.op # "done"
      <4>1. ev = Idle /\ KickAll /\ UNCHANGED pool /\ UNCHANGED <<rpu, mapped, txq, twt_asleep>>
        BY <2>7 DEF PsGetFrames, ClientWakes, peers
      <4> QED  BY <4>1 DEF KickAll, pool, Idle
    <3> QED  BY <3>1, DescElsewhere DEF DescInv
  <2>8. CASE TwtChange
    <3>1. UNCHANGED <<alloc, rpu, mapped, txq, ev>> /\ TwtEnabled
      BY <2>8 DEF TwtChange, pool, cmd
    <3> QED  BY <3>1, DescElsewhere
  <2> QED  BY <2>1, <2>2, <2>3, <2>4, <2>5, <2>6, <2>7, <2>8 DEF Next, Events
<1> QED  BY <1>1, <1>2, TypeCorrect, PTL DEF Spec

(* A free descriptor has no mapped buffer and no frame.                    *)
THEOREM FreeDescriptorsClean == Spec => []FreeDescClean
<1>1. DescInv => FreeDescClean
  BY DEF DescInv, FreeDescClean
<1> QED  BY <1>1, DescriptorsKept, PTL

(* A descriptor in use waits for a TX_DONE.                                *)
THEOREM DescriptorsAnswered ==
  ASSUME Answered
  PROVE  Spec => []AwaitsTxDone
<1>1. DescInv => AwaitsTxDone
  BY DEF DescInv
<1> QED  BY <1>1, DescriptorsKept, PTL

-----------------------------------------------------------------------------
(* The traffic indication map                                              *)

(* The writes of the bitmap succeed and no client is forgotten with its    *)
(* frames still queued.                                                    *)
TimWritten == "bmp" \notin Failures /\ ~PeersLeave

AnAp == ApMode

TimFits(t, pq) ==
  \A p \in UPeer :
    t.drv[p] = t.rpu[p] /\ \A ac \in AC : ac \in t.rpu[p] <=> pq[p][ac] # <<>>

(* Two states of the queues that differ in one queue at most.              *)
OthersSame(pq, old, p, ac) ==
  \A q \in UPeer, b \in AC : ~(q = p /\ b = ac) => pq[q][b] = old[q][b]

(* update_pend_q_bmp after one queue of one peer changed.                  *)
LEMMA BitmapFits ==
  ASSUME AnAp, NEW t \in TimType, NEW old, NEW pq, NEW p \in Peer, NEW ac \in AC, TimFits(t, old),
         OthersSame(pq, old, p, ac)
  PROVE  TimFits(UpdatePendQBmp(t, pq, p, ac, TRUE), pq)
<1>1. CASE p = MAX_PEERS
  <2>1. p \notin UPeer
    BY <1>1 DEF UPeer
  <2>2. \A q \in UPeer, b \in AC : pq[q][b] = old[q][b]
    BY <2>1 DEF OthersSame
  <2>3. UpdatePendQBmp(t, pq, p, ac, TRUE) = t
    BY <1>1, Zenon DEF UpdatePendQBmp
  <2>4. TimFits(t, pq)
    BY <2>2 DEF TimFits
  <2> QED  BY <2>3, <2>4, Zenon
<1>2. CASE p # MAX_PEERS
  <2>1. PICK set : set = IF pq[p][ac] = <<>> THEN t.drv[p] \ {ac} ELSE t.drv[p] \cup {ac}
    OBVIOUS
  <2>2. UpdatePendQBmp(t, pq, p, ac, TRUE)
          = [drv |-> [t.drv EXCEPT ![p] = set], rpu |-> [t.rpu EXCEPT ![p] = set]]
    BY <1>2, <2>1, Zenon DEF UpdatePendQBmp, AnAp
  <2>3. p \in UPeer
    BY <1>2 DEF Peer, UPeer
  <2>4. \A b \in AC : b \in set <=> pq[p][b] # <<>>
    BY <2>1, <2>3 DEF TimFits, OthersSame
  <2>5. /\ [t.drv EXCEPT ![p] = set][p] = set /\ [t.rpu EXCEPT ![p] = set][p] = set
        /\ \A q \in UPeer \ {p} : /\ [t.drv EXCEPT ![p] = set][q] = t.drv[q]
                                  /\ [t.rpu EXCEPT ![p] = set][q] = t.rpu[q]
    BY ConstantTypes DEF TimType
  <2>6. \A q \in UPeer \ {p} : \A b \in AC : b \in t.rpu[q] <=> pq[q][b] # <<>>
    BY DEF TimFits, OthersSame
  <2>7. PICK u : u = [drv |-> [t.drv EXCEPT ![p] = set], rpu |-> [t.rpu EXCEPT ![p] = set]]
    OBVIOUS
  <2>8. /\ u.drv[p] = set /\ u.rpu[p] = set
        /\ \A q \in UPeer \ {p} : u.drv[q] = t.drv[q] /\ u.rpu[q] = t.rpu[q]
    BY <2>5, <2>7
  <2>9. TimFits(u, pq)
    BY <2>4, <2>6, <2>8 DEF TimFits
  <2> QED  BY <2>2, <2>7, <2>9, Zenon
<1> QED  BY <1>1, <1>2

(* _tx_pending_process.                                                    *)
LEMMA PendingFits ==
  ASSUME AnAp, TimWritten, NEW pq \in PendqType, NEW t \in TimType, TimFits(t, pq), NEW ac \in AC,
         \/ NoPendingBatch(pq, t, ac)
         \/ \E p \in Peer, n \in 1 .. MAX_TX_AGGREGATION : PendingBatch(pq, t, ac, p, n)
  PROVE  TimFits(tim', pendq')
<1>1. CASE NoPendingBatch(pq, t, ac)
  BY <1>1 DEF NoPendingBatch
<1>2. ASSUME NEW p \in Peer, NEW n \in 1 .. MAX_TX_AGGREGATION, PendingBatch(pq, t, ac, p, n)
      PROVE  TimFits(tim', pendq')
  <2>1. tim' = UpdatePendQBmp(t, pendq', p, ac, TRUE)
    BY <1>2 DEF PendingBatch, Written, TimWritten
  <2>2. pendq' = [pq EXCEPT ![p][ac] = SubSeq(@, n + 1, Len(@))]
    BY <1>2 DEF PendingBatch, Dequeued
  <2>3. OthersSame(pendq', pq, p, ac)
    BY <2>2, ConstantTypes DEF PendqType, OthersSame
  <2>4. TimFits(UpdatePendQBmp(t, pendq', p, ac, TRUE), pendq')
    BY <2>3, BitmapFits, Zenon
  <2> QED  BY <2>1, <2>4, Zenon
<1> QED  BY <1>1, <1>2

(* tx_enqueue.                                                             *)
LEMMA EnqueuedFits ==
  ASSUME AnAp, TypeOK, TimFits(tim, pendq), NEW c \in calls
  PROVE  TimFits(EnqueuedBmp(c, TRUE), Enqueued(c))
<1>1. c.peer \in Peer /\ c.ac \in AC /\ pendq \in PendqType /\ tim \in TimType
  BY TypeParts DEF TypeOK, Call
<1>2. OthersSame(Enqueued(c), pendq, c.peer, c.ac)
  BY <1>1, ConstantTypes DEF PendqType, Enqueued, OthersSame
<1>3. TimFits(UpdatePendQBmp(tim, Enqueued(c), c.peer, c.ac, TRUE), Enqueued(c))
  BY <1>1, <1>2, BitmapFits, Zenon
<1> QED  BY <1>3, Zenon DEF EnqueuedBmp

TimInv == TimWritten /\ AnAp => TimFits(tim, pendq)

(* The bitmap in RPU memory agrees with the queues.                        *)
THEOREM TimKept ==
  ASSUME TimWritten
  PROVE  Spec => []TimExact
<1>1. Init => TimInv
  <2>1. UPeer \subseteq Peer
    BY ConstantTypes
  <2> QED  BY <2>1 DEF Init, TimInv, TimFits
<1>2. TypeOK /\ TimInv /\ [Next]_vars => TimInv'
  <2> SUFFICES ASSUME TypeOK, AnAp, TimFits(tim, pendq), [Next]_vars PROVE TimFits(tim', pendq')
    BY DEF TimInv, TimFits
  <2>0. pendq \in PendqType /\ tim \in TimType /\ ev.ac \in AC
    BY TypeParts, EventType
  <2>1. ASSUME NEW c \in calls, Xmit(c) PROVE TimFits(tim', pendq')
    <3>1. /\ TimFits(EnqueuedBmp(c, TRUE), Enqueued(c)) /\ c.ac \in AC
          /\ Enqueued(c) \in PendqType /\ EnqueuedBmp(c, TRUE) \in TimType
      BY EnqueuedFits, EnqueuedType DEF TypeOK, Call
    <3>2. CASE XmitQueueFull(c)
      BY <3>2 DEF XmitQueueFull
    <3>3. CASE XmitQueued(c)
      BY <3>1, <3>3 DEF XmitQueued
    <3>4. CASE XmitSends(c)
      <4>1. PICK d : TxPendingProcess(Enqueued(c), EnqueuedBmp(c, TRUE), d, c.ac, {c.nb})
        BY <3>4 DEF XmitSends
      <4>2. \/ NoPendingBatch(Enqueued(c), EnqueuedBmp(c, TRUE), c.ac)
            \/ \E p \in Peer, n \in 1 .. MAX_TX_AGGREGATION :
                 PendingBatch(Enqueued(c), EnqueuedBmp(c, TRUE), c.ac, p, n)
        BY <4>1, Zenon DEF TxPendingProcess
      <4> QED  BY <3>1, <4>2, PendingFits
    <3> QED  BY <2>1, <3>2, <3>3, <3>4 DEF Xmit, XmitBitmapFails, TimWritten
  <2>2. CASE TxDoneServes
    <3>1. \E p \in Peer, n \in 1 .. MAX_TX_AGGREGATION : PendingBatch(pendq, tim, ev.ac, p, n)
      BY <2>2, Zenon DEF TxDoneServes
    <3> QED  BY <2>0, <3>1, PendingFits
  <2>3. CASE TxDoneFindsNone
    <3>1. NoPendingBatch(pendq, tim, ev.ac)
      BY <2>3, Zenon DEF TxDoneFindsNone
    <3> QED  BY <2>0, <3>1, PendingFits
  <2>4. CASE Kick
    <3>1. \/ NoPendingBatch(pendq, tim, ev.ac) \/ UNCHANGED <<pendq, tim>>
          \/ \E p \in Peer, n \in 1 .. MAX_TX_AGGREGATION : PendingBatch(pendq, tim, ev.ac, p, n)
      BY <2>4, Zenon DEF Kick, TxPendingProcess
    <3> QED  BY <2>0, <3>1, PendingFits
  <2>5. CASE \/ \E f \in Frame, p \in Peer, ac \in AC : XmitLookup(f, p, ac)
             \/ \E d \in Desc : TxDone(d)
             \/ \E p \in UPeer :
                  \/ ClientSleeps(p) \/ ClientWakes(p) \/ PeerAdd(p)
                  \/ \E n \in 0 .. MAX_PS_FRAMES : PsGetFrames(p, n)
             \/ TwtChange \/ UNCHANGED vars
    <3>1. UNCHANGED <<pendq, tim>>
      BY <2>5 DEF XmitLookup, TxDone, ClientSleeps, ClientWakes, PeerAdd, PsGetFrames, TwtChange, vars
    <3> QED  BY <3>1
  <2> QED
    BY <2>1, <2>2, <2>3, <2>4, <2>5 DEF Next, Events, PeerRemove, PeersFlush, TimWritten
<1>3. TypeOK /\ TimInv => TimExact
  <2>1. ASSUME TimFits(tim, pendq), NEW p \in UPeer, tim \in TimType
        PROVE  tim.rpu[p] = {ac \in AC : pendq[p][ac] # <<>>}
    <3>1. tim.rpu[p] \subseteq AC /\ \A ac \in AC : ac \in tim.rpu[p] <=> pendq[p][ac] # <<>>
      BY <2>1, ConstantTypes DEF TimFits, TimType
    <3> QED  BY <3>1
  <2> QED  BY <2>1, TypeParts, Zenon DEF TimInv, TimExact, AnAp
<1> QED  BY <1>1, <1>2, <1>3, TypeCorrect, PTL DEF Spec

-----------------------------------------------------------------------------
(* Tokens                                                                  *)

(* A queue that _tx_pending_process shortens is of a client that is awake, *)
(* or of one that pays for it.                                             *)
LEMMA BatchPaid ==
  ASSUME TypeOK, NEW pq \in PendqType, NEW t, NEW ac \in AC, NEW p \in Peer, NEW n,
         PendingBatch(pq, t, ac, p, n), NEW r \in ps_mode, NEW b \in AC,
         pendq'[r][b] # pq[r][b]
  PROVE  ps_tokens'[r] = ps_tokens[r] - 1
<1>1. r \in UPeer /\ r \in Peer /\ r # MAX_PEERS /\ SchedType
  BY TypeParts, ConstantTypes DEF PeersType, UPeer
<1>2. pendq' = [pq EXCEPT ![p][ac] = SubSeq(@, n + 1, Len(@))]
  BY DEF PendingBatch, Dequeued
<1>3. r = p
  BY <1>1, <1>2 DEF PendqType
<1>4. p \in TxCurrPeerOppGet(pq, ac) /\ TakeOpp(pq, ac, p)
  BY DEF PendingBatch
<1>5. ac # AC_MC
  BY <1>1, <1>3, <1>4 DEF TxCurrPeerOppGet
<1>6. WakeupPeer(pq, ac) # {}
  BY <1>3, <1>4, <1>5 DEF TxCurrPeerOppGet, RoundRobinPeer
<1>7. ps_tokens' = [ps_tokens EXCEPT ![p] = @ - 1]
  BY <1>4, <1>5, <1>6 DEF TakeOpp
<1> QED  BY <1>1, <1>3, <1>7 DEF SchedType

LEMMA PendingPaid ==
  ASSUME TypeOK, NEW pq \in PendqType, NEW t, NEW ac \in AC,
         \/ NoPendingBatch(pq, t, ac)
         \/ \E p \in Peer, n \in 1 .. MAX_TX_AGGREGATION : PendingBatch(pq, t, ac, p, n),
         NEW r \in ps_mode, NEW b \in AC, pendq'[r][b] # pq[r][b]
  PROVE  ps_tokens'[r] = ps_tokens[r] - 1
BY BatchPaid DEF NoPendingBatch

(* Queueing a frame shortens no queue.                                     *)
LEMMA EnqueuedLonger ==
  ASSUME TypeOK, NEW c \in calls, NEW r \in Peer, NEW b \in AC
  PROVE  ~(Len(Enqueued(c)[r][b]) < Len(pendq[r][b]))
<1>1. c.nb \in Frame /\ c.peer \in Peer /\ c.ac \in AC /\ pendq \in PendqType
  BY TypeParts DEF TypeOK, Call
<1>2. pendq[r][b] \in Seq(Frame) /\ pendq[c.peer][c.ac] \in Seq(Frame)
  BY <1>1 DEF PendqType
<1>3. CASE r = c.peer /\ b = c.ac
  <2>1. Enqueued(c)[r][b] \in {Append(pendq[r][b], c.nb), <<c.nb>> \o pendq[r][b]}
    BY <1>1, <1>3 DEF Enqueued, PendqType
  <2>2. Len(Append(pendq[r][b], c.nb)) = Len(pendq[r][b]) + 1
    BY <1>1, <1>2, AppendProperties
  <2>3. Len(<<c.nb>> \o pendq[r][b]) = 1 + Len(pendq[r][b])
    BY <1>1, <1>2, ConcatProperties
  <2>4. Len(pendq[r][b]) \in Nat
    BY <1>2, LenProperties
  <2> QED  BY <2>1, <2>2, <2>3, <2>4
<1>4. CASE ~(r = c.peer /\ b = c.ac)
  <2>1. Enqueued(c)[r][b] = pendq[r][b]
    BY <1>1, <1>4 DEF Enqueued, PendqType
  <2>2. Len(pendq[r][b]) \in Nat
    BY <1>2, LenProperties
  <2> QED  BY <2>1, <2>2
<1> QED  BY <1>3, <1>4

(* Frames for a client in power save leave its queue only for a token.     *)
THEOREM TokensSpent == Spec => PsTokenSpent
<1>1. ASSUME TypeOK, [Next]_vars, NEW r \in ps_mode, NEW b \in AC,
             Len(pendq'[r][b]) < Len(pendq[r][b])
      PROVE  ps_tokens'[r] = ps_tokens[r] - 1
  <2>0. /\ pendq \in PendqType /\ ev.ac \in AC /\ r \in Peer
        /\ pendq' # pendq /\ pendq'[r][b] # pendq[r][b]
    <3>1. pendq \in PendqType /\ ev.ac \in AC /\ r \in Peer
      <4>1. PeersType /\ pendq \in PendqType /\ ThreadType
        BY <1>1, TypeParts
      <4> QED  BY <1>1, <4>1, EventType, ConstantTypes DEF PeersType
    <3>2. Len(pendq[r][b]) \in Nat
      BY <3>1, LenProperties DEF PendqType
    <3>3. Len(pendq'[r][b]) # Len(pendq[r][b])
      BY <1>1, <3>2
    <3> QED  BY <3>1, <3>3
  <2>1. ASSUME NEW c \in calls, Xmit(c) PROVE ps_tokens'[r] = ps_tokens[r] - 1
    <3>1. /\ Enqueued(c) \in PendqType /\ c.ac \in AC
          /\ ~(Len(Enqueued(c)[r][b]) < Len(pendq[r][b]))
      BY <1>1, <2>0, EnqueuedType, EnqueuedLonger DEF TypeOK, Call
    <3>2. pendq'[r][b] # Enqueued(c)[r][b]
      BY <1>1, <3>1
    <3>3. pendq' # pendq /\ pendq' # Enqueued(c)
      BY <2>0, <3>2
    <3>4. XmitSends(c)
      BY <2>1, <3>3 DEF Xmit, XmitQueueFull, XmitBitmapFails, XmitQueued
    <3>5. PICK d : TxPendingProcess(Enqueued(c), EnqueuedBmp(c, TRUE), d, c.ac, {c.nb})
      BY <3>4 DEF XmitSends
    <3>6. \/ NoPendingBatch(Enqueued(c), EnqueuedBmp(c, TRUE), c.ac)
          \/ \E p \in Peer, n \in 1 .. MAX_TX_AGGREGATION :
               PendingBatch(Enqueued(c), EnqueuedBmp(c, TRUE), c.ac, p, n)
      BY <3>5, Zenon DEF TxPendingProcess
    <3> QED  BY <1>1, <3>1, <3>2, <3>6, PendingPaid
  <2>2. CASE TxDoneServes
    <3>1. \E p \in Peer, n \in 1 .. MAX_TX_AGGREGATION : PendingBatch(pendq, tim, ev.ac, p, n)
      BY <2>2, Zenon DEF TxDoneServes
    <3> QED  BY <1>1, <2>0, <3>1, PendingPaid
  <2>3. CASE Kick
    <3>1. \/ NoPendingBatch(pendq, tim, ev.ac)
          \/ \E p \in Peer, n \in 1 .. MAX_TX_AGGREGATION : PendingBatch(pendq, tim, ev.ac, p, n)
      BY <2>0, <2>3, Zenon DEF Kick, TxPendingProcess
    <3> QED  BY <1>1, <2>0, <3>1, PendingPaid
  <2>4. \/ \E c \in calls : Xmit(c)
        \/ TxDoneServes \/ Kick
        \/ pendq' = pendq
    BY <1>1 DEF Next, Events, XmitLookup, TxDone, TxDoneFindsNone, NoPendingBatch, ClientSleeps,
                ClientWakes, PeerAdd, PsGetFrames, TwtChange, vars, PeerRemove, PeersFlush, Forget
  <2> QED  BY <2>0, <2>1, <2>2, <2>3, <2>4
<1>2. TypeOK /\ [Next]_vars
        => [\A p \in ps_mode, ac \in AC :
              Len(pendq'[p][ac]) < Len(pendq[p][ac]) => ps_tokens'[p] = ps_tokens[p] - 1]_vars
  BY <1>1
<1> QED  BY <1>2, TypeCorrect, PTL DEF Spec, PsTokenSpent

-----------------------------------------------------------------------------
(* Where the network buffers are                                           *)

(* Frame f is the i-th of a pending queue, or of the batch of a descriptor.*)
Queued(pq, f, p, ac, i) ==
  p \in Peer /\ ac \in AC /\ i \in 1 .. Len(pq[p][ac]) /\ pq[p][ac][i] = f

PutAside(tx, f, d, i) == d \in Desc /\ i \in 1 .. Len(tx[d]) /\ tx[d][i] = f

InQueue(pq, f) == \E p, ac, i : Queued(pq, f, p, ac, i)
InBatch(tx, f) == \E d, i : PutAside(tx, f, d, i)
InCall(cs, f)  == \E c \in cs : c.nb = f

(* Frame f is somewhere, and in one place.                                 *)
Owned(st, cs, pq, tx, f) ==
  /\ f \in st \/ InCall(cs, f) \/ InQueue(pq, f) \/ InBatch(tx, f)
  /\ f \in st => ~InCall(cs, f) /\ ~InQueue(pq, f) /\ ~InBatch(tx, f)
  /\ InCall(cs, f) => ~InQueue(pq, f) /\ ~InBatch(tx, f)
  /\ InQueue(pq, f) => ~InBatch(tx, f)
  /\ \A b, c \in cs : b.nb = f /\ c.nb = f => b = c
  /\ \A p, ac, i, q, bc, j :
       Queued(pq, f, p, ac, i) /\ Queued(pq, f, q, bc, j) => p = q /\ ac = bc /\ i = j
  /\ \A d, i, e, j : PutAside(tx, f, d, i) /\ PutAside(tx, f, e, j) => d = e /\ i = j

AllOwned(st, cs, pq, tx) == \A f \in Frame : Owned(st, cs, pq, tx, f)

(* tx_enqueue takes the frame of a call, at the head or at the tail.       *)
LEMMA EnqueueOwned ==
  ASSUME TypeOK, NEW c \in calls, AllOwned(stack, calls, pendq, txq)
  PROVE  AllOwned(stack, calls \ {c}, Enqueued(c), txq)
<1>1. c.nb \in Frame /\ c.peer \in Peer /\ c.ac \in AC /\ pendq \in PendqType
  BY TypeParts DEF TypeOK, Call
<1>2. PICK s \in Seq(Frame) : s = pendq[c.peer][c.ac]
  BY <1>1 DEF PendqType
<1>3. PICK t : t = Enqueued(c)[c.peer][c.ac]
  OBVIOUS
<1>4. /\ \A p \in Peer, ac \in AC :
           ~(p = c.peer /\ ac = c.ac) => Enqueued(c)[p][ac] = pendq[p][ac]
      /\ t = IF c.nb \in Emergency THEN <<c.nb>> \o s ELSE Append(s, c.nb)
  BY <1>1, <1>2, <1>3 DEF Enqueued, PendqType
<1>5. Len(s) \in Nat
  BY LenProperties
<1>6. PICK at \in 1 .. Len(s) + 1, shift \in {0, 1} :
        /\ Len(t) = Len(s) + 1 /\ t[at] = c.nb
        /\ \A i \in 1 .. Len(s) + 1 : i # at => i - shift \in 1 .. Len(s) /\ t[i] = s[i - shift]
        /\ \A i \in 1 .. Len(s) : i + shift \in 1 .. Len(t) /\ i + shift # at /\ t[i + shift] = s[i]
  <2>1. CASE c.nb \in Emergency
    <3>1. t = <<c.nb>> \o s /\ <<c.nb>> \in Seq(Frame) /\ Len(<<c.nb>>) = 1 /\ <<c.nb>>[1] = c.nb
      BY <1>1, <1>4, <2>1
    <3>2. Len(t) = 1 + Len(s) /\ t[1] = c.nb /\ \A i \in 1 .. 1 + Len(s) : i # 1 => t[i] = s[i - 1]
      BY <1>5, <3>1, ConcatProperties
    <3>3. \A i \in 1 .. Len(s) : i + 1 \in 1 .. 1 + Len(s) /\ i + 1 # 1 /\ (i + 1) - 1 = i
      BY <1>5
    <3>4. 1 \in 1 .. Len(s) + 1 /\ 1 \in {0, 1} /\ Len(t) = Len(s) + 1
      BY <1>5, <3>2
    <3>5. \A i \in 1 .. Len(s) + 1 : i # 1 => i - 1 \in 1 .. Len(s) /\ t[i] = s[i - 1]
      BY <1>5, <3>2
    <3>6. \A i \in 1 .. Len(s) : i + 1 \in 1 .. Len(t) /\ i + 1 # 1 /\ t[i + 1] = s[i]
      BY <1>5, <3>2, <3>3
    <3> QED  BY <3>2, <3>4, <3>5, <3>6
  <2>2. CASE c.nb \notin Emergency
    <3>1. t = Append(s, c.nb)
      BY <1>4, <2>2
    <3>2. Len(t) = Len(s) + 1 /\ t[Len(s) + 1] = c.nb /\ \A i \in 1 .. Len(s) : t[i] = s[i]
      BY <1>1, <1>5, <3>1, AppendProperties
    <3>3. Len(s) + 1 \in 1 .. Len(s) + 1 /\ 0 \in {0, 1}
      BY <1>5
    <3>4. \A i \in 1 .. Len(s) + 1 : i # Len(s) + 1 => i - 0 \in 1 .. Len(s) /\ t[i] = s[i - 0]
      BY <1>5, <3>2
    <3>5. \A i \in 1 .. Len(s) : i + 0 \in 1 .. Len(t) /\ i + 0 # Len(s) + 1 /\ t[i + 0] = s[i]
      BY <1>5, <3>2
    <3> QED  BY <3>2, <3>3, <3>4, <3>5
  <2> QED  BY <2>1, <2>2
<1>7. ASSUME NEW f, NEW p, NEW ac, NEW i, Queued(Enqueued(c), f, p, ac, i)
      PROVE  \/ f = c.nb /\ p = c.peer /\ ac = c.ac /\ i = at
             \/ p = c.peer /\ ac = c.ac /\ i \in Int /\ Queued(pendq, f, p, ac, i - shift)
             \/ ~(p = c.peer /\ ac = c.ac) /\ Queued(pendq, f, p, ac, i)
  <2>1. CASE p = c.peer /\ ac = c.ac
    <3>1. i \in 1 .. Len(s) + 1 /\ t[i] = f /\ i \in Int
      BY <1>3, <1>5, <1>6, <1>7, <2>1 DEF Queued
    <3>2. CASE i = at
      BY <1>6, <2>1, <3>1, <3>2
    <3>3. CASE i # at
      <4>1. i - shift \in 1 .. Len(s) /\ s[i - shift] = f
        BY <1>6, <3>1, <3>3
      <4>2. Queued(pendq, f, p, ac, i - shift)
        BY <1>1, <1>2, <2>1, <4>1 DEF Queued
      <4> QED  BY <2>1, <3>1, <4>2
    <3> QED  BY <3>2, <3>3
  <2>2. CASE ~(p = c.peer /\ ac = c.ac)
    BY <1>4, <1>7, <2>2 DEF Queued
  <2> QED  BY <2>1, <2>2
<1>8. Queued(Enqueued(c), c.nb, c.peer, c.ac, at)
  BY <1>1, <1>3, <1>6 DEF Queued
<1>9. ASSUME NEW f, NEW p, NEW ac, NEW i, Queued(pendq, f, p, ac, i)
      PROVE  InQueue(Enqueued(c), f)
  <2>1. CASE p = c.peer /\ ac = c.ac
    <3>1. Queued(Enqueued(c), f, p, ac, i + shift)
      BY <1>1, <1>2, <1>3, <1>6, <1>9, <2>1 DEF Queued
    <3> QED  BY <3>1 DEF InQueue
  <2>2. CASE ~(p = c.peer /\ ac = c.ac)
    <3>1. Queued(Enqueued(c), f, p, ac, i)
      BY <1>4, <1>9, <2>2 DEF Queued
    <3> QED  BY <3>1 DEF InQueue
  <2> QED  BY <2>1, <2>2
<1> SUFFICES ASSUME NEW f \in Frame, Owned(stack, calls, pendq, txq, f)
             PROVE  Owned(stack, calls \ {c}, Enqueued(c), txq, f)
  BY DEF AllOwned
<1>10. CASE f = c.nb
  <2>1. /\ f \notin stack /\ ~InBatch(txq, f) /\ ~InQueue(pendq, f)
        /\ \A b \in calls : b.nb = f => b = c
    BY <1>10 DEF Owned, InCall
  <2>2. ~InCall(calls \ {c}, f) /\ InQueue(Enqueued(c), f)
    BY <1>8, <1>10, <2>1 DEF InCall, InQueue
  <2>3. \A p, ac, i : Queued(Enqueued(c), f, p, ac, i) => p = c.peer /\ ac = c.ac /\ i = at
    BY <1>7, <2>1 DEF InQueue
  <2>4. ASSUME NEW p, NEW ac, NEW i, NEW q, NEW bc, NEW j,
               Queued(Enqueued(c), f, p, ac, i), Queued(Enqueued(c), f, q, bc, j)
        PROVE  p = q /\ ac = bc /\ i = j
    <3>1. p = c.peer /\ ac = c.ac /\ i = at
      BY <2>3, <2>4, Zenon
    <3>2. q = c.peer /\ bc = c.ac /\ j = at
      BY <2>3, <2>4, Zenon
    <3> QED  BY <3>1, <3>2, Zenon
  <2>5. \A d, i, e, j : PutAside(txq, f, d, i) /\ PutAside(txq, f, e, j) => d = e /\ i = j
    BY DEF Owned
  <2> QED  BY <2>1, <2>2, <2>4, <2>5, Zenon DEF Owned
<1>11. CASE f # c.nb
  <2>1. InCall(calls \ {c}, f) <=> InCall(calls, f)
    BY <1>11 DEF InCall
  <2>2. InQueue(Enqueued(c), f) <=> InQueue(pendq, f)
    BY <1>7, <1>9, <1>11, Zenon DEF InQueue
  <2>3. ASSUME NEW p, NEW ac, NEW i, NEW q, NEW bc, NEW j,
               Queued(Enqueued(c), f, p, ac, i), Queued(Enqueued(c), f, q, bc, j)
        PROVE  p = q /\ ac = bc /\ i = j
    <3>1. \A x, u, k, y, v, l :
            Queued(pendq, f, x, u, k) /\ Queued(pendq, f, y, v, l) => x = y /\ u = v /\ k = l
      BY DEF Owned
    <3>2. \/ p = c.peer /\ ac = c.ac /\ i \in Int /\ Queued(pendq, f, p, ac, i - shift)
          \/ ~(p = c.peer /\ ac = c.ac) /\ Queued(pendq, f, p, ac, i)
      BY <1>7, <1>11, <2>3, Zenon
    <3>3. \/ q = c.peer /\ bc = c.ac /\ j \in Int /\ Queued(pendq, f, q, bc, j - shift)
          \/ ~(q = c.peer /\ bc = c.ac) /\ Queued(pendq, f, q, bc, j)
      BY <1>7, <1>11, <2>3, Zenon
    <3>4. p = q /\ ac = bc
      BY <3>1, <3>2, <3>3, Zenon
    <3>5. CASE p = c.peer /\ ac = c.ac
      <4>1. i - shift = j - shift /\ i \in Int /\ j \in Int
        BY <3>1, <3>2, <3>3, <3>4, <3>5, Zenon
      <4> QED  BY <3>4, <4>1
    <3>6. CASE ~(p = c.peer /\ ac = c.ac)
      BY <3>1, <3>2, <3>3, <3>4, <3>6, Zenon
    <3> QED  BY <3>5, <3>6
  <2>4. \A b, d \in calls \ {c} : b.nb = f /\ d.nb = f => b = d
    BY DEF Owned
  <2> QED  BY <2>1, <2>2, <2>3, <2>4, Zenon DEF Owned
<1> QED  BY <1>10, <1>11

(* Queue ac of peer p loses its first n frames, those of batch b.          *)
LosesBatch(pq, r, p, ac, n, b) ==
  /\ \A f, q, bc, i : Queued(r, f, q, bc, i) =>
       \/ ~(q = p /\ bc = ac) /\ Queued(pq, f, q, bc, i)
       \/ q = p /\ bc = ac /\ i \in Nat \ {0} /\ Queued(pq, f, p, ac, i + n)
  /\ \A f, q, bc, i : Queued(pq, f, q, bc, i) => InQueue(r, f) \/ f \in Range(b)
  /\ Len(b) = n
  /\ \A i \in 1 .. n : Queued(pq, b[i], p, ac, i)
  /\ \A f : f \in Range(b) <=> \E i \in 1 .. n : b[i] = f
  /\ \A f : f \in Range(b) => \E i \in 1 .. n : Queued(pq, f, p, ac, i)

(* _tx_pending_process takes the first n frames of a queue.                *)
LEMMA DequeuePlaces ==
  ASSUME NEW pq \in PendqType, NEW p \in Peer, NEW ac \in AC, NEW n \in 1 .. Len(pq[p][ac])
  PROVE  LosesBatch(pq, Dequeued(pq, p, ac, n), p, ac, n, SubSeq(pq[p][ac], 1, n))
<1>1. PICK s \in Seq(Frame) : s = pq[p][ac]
  BY DEF PendqType
<1>2. Len(s) \in Nat /\ n \in 1 .. Len(s) /\ n \in Nat
  BY <1>1, LenProperties
<1>3. PICK t : t = SubSeq(s, n + 1, Len(s))
  OBVIOUS
<1>4. Len(t) = Len(s) - n /\ \A i \in 1 .. Len(s) - n : t[i] = s[i + n]
  <2>1. n + 1 \in 1 .. Len(s) + 1 /\ Len(s) \in n .. Len(s)
    BY <1>2
  <2>2. /\ Len(t) = (IF n + 1 <= Len(s) THEN Len(s) - (n + 1) + 1 ELSE 0)
        /\ \A i \in 1 .. Len(s) - (n + 1) + 1 : t[i] = s[(n + 1) + i - 1]
    BY <1>2, <1>3, <2>1, SubSeqProperties
  <2>3. \A i \in 1 .. Len(s) - n : (n + 1) + i - 1 = i + n
    BY <1>2
  <2> QED  BY <1>2, <2>2, <2>3
<1>5. PICK b : b = SubSeq(s, 1, n)
  OBVIOUS
<1>6. Len(b) = n /\ b \in Seq(Frame) /\ \A i \in 1 .. n : b[i] = s[i]
  <2>1. 1 \in 1 .. Len(s) + 1 /\ n \in 0 .. Len(s) /\ \A i \in 1 .. n - 1 + 1 : 1 + i - 1 = i
    BY <1>2
  <2>2. /\ b \in Seq(Frame) /\ Len(b) = (IF 1 <= n THEN n - 1 + 1 ELSE 0)
        /\ \A i \in 1 .. n - 1 + 1 : b[i] = s[1 + i - 1]
    BY <1>2, <1>5, <2>1, SubSeqProperties
  <2> QED  BY <1>2, <2>1, <2>2
<1>7. /\ Dequeued(pq, p, ac, n)[p][ac] = t
      /\ \A q \in Peer, bc \in AC : ~(q = p /\ bc = ac) => Dequeued(pq, p, ac, n)[q][bc] = pq[q][bc]
  BY <1>1, <1>3 DEF Dequeued, PendqType
<1>8. ASSUME NEW f, NEW q, NEW bc, NEW i, Queued(Dequeued(pq, p, ac, n), f, q, bc, i)
      PROVE  \/ ~(q = p /\ bc = ac) /\ Queued(pq, f, q, bc, i)
             \/ q = p /\ bc = ac /\ i \in Nat \ {0} /\ Queued(pq, f, p, ac, i + n)
  <2>1. CASE q = p /\ bc = ac
    <3>1. i \in 1 .. Len(t) /\ t[i] = f
      BY <1>7, <1>8, <2>1 DEF Queued
    <3>2. i \in Nat \ {0} /\ i + n \in 1 .. Len(s) /\ s[i + n] = f
      BY <1>2, <1>4, <3>1
    <3> QED  BY <1>1, <2>1, <3>2 DEF Queued
  <2>2. CASE ~(q = p /\ bc = ac)
    BY <1>7, <1>8, <2>2 DEF Queued
  <2> QED  BY <2>1, <2>2
<1>9. \A f : f \in Range(b) <=> \E i \in 1 .. n : b[i] = f
  <2>1. DOMAIN b = 1 .. n
    BY <1>6
  <2> QED  BY <2>1 DEF Range
<1>10. ASSUME NEW f, NEW q, NEW bc, NEW i, Queued(pq, f, q, bc, i)
       PROVE  InQueue(Dequeued(pq, p, ac, n), f) \/ f \in Range(b)
  <2>1. CASE q = p /\ bc = ac
    <3>1. i \in 1 .. Len(s) /\ s[i] = f
      BY <1>1, <1>10, <2>1 DEF Queued
    <3>2. CASE i <= n
      BY <1>2, <1>6, <1>9, <3>1, <3>2
    <3>3. CASE ~(i <= n)
      <4>1. i - n \in 1 .. Len(t) /\ t[i - n] = f
        BY <1>2, <1>4, <3>1, <3>3
      <4>2. Queued(Dequeued(pq, p, ac, n), f, p, ac, i - n)
        BY <1>7, <4>1 DEF Queued
      <4> QED  BY <4>2 DEF InQueue
    <3> QED  BY <3>2, <3>3
  <2>2. CASE ~(q = p /\ bc = ac)
    <3>1. Queued(Dequeued(pq, p, ac, n), f, q, bc, i)
      BY <1>7, <1>10, <2>2 DEF Queued
    <3> QED  BY <3>1 DEF InQueue
  <2> QED  BY <2>1, <2>2
<1>11. \A i \in 1 .. n : Queued(pq, b[i], p, ac, i)
  BY <1>1, <1>2, <1>6 DEF Queued
<1>12. b = SubSeq(pq[p][ac], 1, n)
  BY <1>1, <1>5
<1>13. \A f : f \in Range(b) => \E i \in 1 .. n : Queued(pq, f, p, ac, i)
  BY <1>9, <1>11, Zenon
<1>14. LosesBatch(pq, Dequeued(pq, p, ac, n), p, ac, n, b)
  BY <1>6, <1>8, <1>9, <1>10, <1>11, <1>13, Zenon DEF LosesBatch
<1> QED  BY <1>12, <1>14, Zenon

(* The frames of a batch that was sent or given up go to the stack.        *)
LEMMA DequeueToStack ==
  ASSUME NEW pq \in PendqType, NEW p \in Peer, NEW ac \in AC, NEW n \in 1 .. Len(pq[p][ac]),
         NEW st, NEW cs, NEW tx, AllOwned(st, cs, pq, tx)
  PROVE  AllOwned(st \cup Range(SubSeq(pq[p][ac], 1, n)), cs, Dequeued(pq, p, ac, n), tx)
<1>1. PICK batch : batch = SubSeq(pq[p][ac], 1, n)
  OBVIOUS
<1>2. PICK b, r : b = Range(batch) /\ r = Dequeued(pq, p, ac, n)
  OBVIOUS
<1>3. /\ \A f, q, bc, i : Queued(r, f, q, bc, i) =>
              \/ ~(q = p /\ bc = ac) /\ Queued(pq, f, q, bc, i)
              \/ q = p /\ bc = ac /\ i \in Nat \ {0} /\ Queued(pq, f, p, ac, i + n)
      /\ \A f, q, bc, i : Queued(pq, f, q, bc, i) => InQueue(r, f) \/ f \in b
      /\ \A f : f \in b => \E i \in 1 .. n : Queued(pq, f, p, ac, i)
  <2>1. LosesBatch(pq, r, p, ac, n, batch)
    BY <1>1, <1>2, DequeuePlaces
  <2> QED  BY <1>2, <2>1, Zenon DEF LosesBatch
<1> SUFFICES ASSUME NEW f \in Frame, Owned(st, cs, pq, tx, f)
             PROVE  Owned(st \cup b, cs, r, tx, f)
  BY <1>1, <1>2 DEF AllOwned
<1>4. \A x, u, k, y, v, l :
         Queued(pq, f, x, u, k) /\ Queued(pq, f, y, v, l) => x = y /\ u = v /\ k = l
  BY DEF Owned
<1>5. /\ \A d, i, e, j : PutAside(tx, f, d, i) /\ PutAside(tx, f, e, j) => d = e /\ i = j
      /\ \A x, y \in cs : x.nb = f /\ y.nb = f => x = y
  BY DEF Owned
<1>6. ASSUME NEW x, NEW u, NEW i, NEW y, NEW v, NEW j,
             Queued(r, f, x, u, i), Queued(r, f, y, v, j)
      PROVE  x = y /\ u = v /\ i = j
  <2>1. \/ ~(x = p /\ u = ac) /\ Queued(pq, f, x, u, i)
        \/ x = p /\ u = ac /\ i \in Nat \ {0} /\ Queued(pq, f, p, ac, i + n)
    BY <1>3, <1>6, Zenon
  <2>2. \/ ~(y = p /\ v = ac) /\ Queued(pq, f, y, v, j)
        \/ y = p /\ v = ac /\ j \in Nat \ {0} /\ Queued(pq, f, p, ac, j + n)
    BY <1>3, <1>6, Zenon
  <2>3. CASE x = p /\ u = ac
    <3>1. y = p /\ v = ac /\ i + n = j + n /\ i \in Nat /\ j \in Nat
      BY <1>4, <2>1, <2>2, <2>3, Zenon
    <3>2. i = j
      BY <3>1
    <3> QED  BY <2>3, <3>1, <3>2
  <2>4. CASE ~(x = p /\ u = ac)
    BY <1>4, <2>1, <2>2, <2>4, Zenon
  <2> QED  BY <2>3, <2>4
<1>7. InQueue(r, f) => InQueue(pq, f)
  BY <1>3, Zenon DEF InQueue
<1>8. CASE f \in b
  <2>1. PICK i \in 1 .. n : Queued(pq, f, p, ac, i)
    BY <1>3, <1>8
  <2>2. InQueue(pq, f) /\ f \notin st /\ ~InCall(cs, f) /\ ~InBatch(tx, f)
    <3>1. InQueue(pq, f)
      BY <2>1 DEF InQueue
    <3> QED  BY <3>1 DEF Owned
  <2>3. ASSUME NEW x, NEW u, NEW j, Queued(r, f, x, u, j) PROVE FALSE
    <3>1. \/ ~(x = p /\ u = ac) /\ Queued(pq, f, x, u, j)
          \/ x = p /\ u = ac /\ j \in Nat \ {0} /\ Queued(pq, f, p, ac, j + n)
      BY <1>3, <2>3, Zenon
    <3>2. j \in Nat \ {0} /\ j + n = i
      BY <1>4, <2>1, <3>1, Zenon
    <3> QED  BY <2>1, <3>2
  <2>4. ~InQueue(r, f)
    BY <2>3 DEF InQueue
  <2>5. f \in st \cup b
    BY <1>8
  <2> QED  BY <1>5, <1>6, <2>2, <2>4, <2>5, Zenon DEF Owned
<1>9. CASE f \notin b
  <2>1. InQueue(pq, f) => InQueue(r, f)
    BY <1>3, <1>9, Zenon DEF InQueue
  <2>2. f \in st \cup b <=> f \in st
    BY <1>9
  <2>3. /\ f \in st \/ InCall(cs, f) \/ InQueue(pq, f) \/ InBatch(tx, f)
        /\ f \in st => ~InCall(cs, f) /\ ~InQueue(pq, f) /\ ~InBatch(tx, f)
        /\ InCall(cs, f) => ~InQueue(pq, f) /\ ~InBatch(tx, f)
        /\ InQueue(pq, f) => ~InBatch(tx, f)
    BY DEF Owned
  <2> QED  BY <1>5, <1>6, <1>7, <2>1, <2>2, <2>3, Zenon DEF Owned
<1> QED  BY <1>8, <1>9

(* The frames of a batch are put aside with a descriptor that had none.    *)
LEMMA DequeueToDesc ==
  ASSUME NEW pq \in PendqType, NEW p \in Peer, NEW ac \in AC, NEW n \in 1 .. Len(pq[p][ac]),
         NEW st, NEW cs, NEW tx \in [Desc -> Seq(Frame)], NEW d \in Desc, tx[d] = <<>>,
         AllOwned(st, cs, pq, tx)
  PROVE  AllOwned(st, cs, Dequeued(pq, p, ac, n),
                  [tx EXCEPT ![d] = SubSeq(pq[p][ac], 1, n)])
<1>1. PICK b : b = SubSeq(pq[p][ac], 1, n)
  OBVIOUS
<1>2. PICK r, y : r = Dequeued(pq, p, ac, n) /\ y = [tx EXCEPT ![d] = b]
  OBVIOUS
<1>3. /\ \A f, q, bc, i : Queued(r, f, q, bc, i) => Queued(pq, f, q, bc, i) \/ InQueue(pq, f)
      /\ \A f, q, bc, i : Queued(pq, f, q, bc, i) => InQueue(r, f) \/ f \in Range(b)
      /\ Len(b) = n
      /\ \A i \in 1 .. n : Queued(pq, b[i], p, ac, i)
      /\ \A f : f \in Range(b) <=> \E i \in 1 .. n : b[i] = f
  <2>1. LosesBatch(pq, r, p, ac, n, b)
    BY <1>1, <1>2, DequeuePlaces
  <2> QED  BY <2>1, Zenon DEF LosesBatch, InQueue
<1>4. AllOwned(st \cup Range(b), cs, r, tx)
  BY <1>1, <1>2, DequeueToStack
<1>5. y[d] = b /\ \A e \in Desc : e # d => y[e] = tx[e]
  BY <1>2
<1>6. \A f, e, i : PutAside(tx, f, e, i) => e # d
  BY DEF PutAside
<1>7. \A f, e, i : PutAside(y, f, e, i)
                     <=> PutAside(tx, f, e, i) \/ (e = d /\ i \in 1 .. n /\ b[i] = f)
  BY <1>3, <1>5, <1>6 DEF PutAside
<1> SUFFICES ASSUME NEW f \in Frame, Owned(st, cs, pq, tx, f),
                    Owned(st \cup Range(b), cs, r, tx, f)
             PROVE  Owned(st, cs, r, y, f)
  BY <1>1, <1>2, <1>4 DEF AllOwned
<1>8. /\ \A x, u, k, w, v, l :
           Queued(pq, f, x, u, k) /\ Queued(pq, f, w, v, l) => x = w /\ u = v /\ k = l
      /\ \A e, i, g, j : PutAside(tx, f, e, i) /\ PutAside(tx, f, g, j) => e = g /\ i = j
      /\ \A x, w \in cs : x.nb = f /\ w.nb = f => x = w
      /\ InQueue(pq, f) => f \notin st /\ ~InCall(cs, f) /\ ~InBatch(tx, f)
  BY DEF Owned
<1>9. \A x, u, k, w, v, l :
         Queued(r, f, x, u, k) /\ Queued(r, f, w, v, l) => x = w /\ u = v /\ k = l
  BY DEF Owned
<1>10. CASE f \in Range(b)
  <2>1. PICK i \in 1 .. n : b[i] = f /\ Queued(pq, f, p, ac, i)
    BY <1>3, <1>10
  <2>2. InQueue(pq, f)
    BY <2>1 DEF InQueue
  <2>3. ~InQueue(r, f)
    BY <1>10 DEF Owned
  <2>4. ASSUME NEW e, NEW k, PutAside(y, f, e, k) PROVE e = d /\ k = i
    <3>1. ~PutAside(tx, f, e, k)
      BY <1>8, <2>2, Zenon DEF InBatch
    <3>2. e = d /\ k \in 1 .. n /\ b[k] = f
      BY <1>7, <2>4, <3>1, Zenon
    <3>3. Queued(pq, b[k], p, ac, k)
      BY <1>3, <3>2, Zenon
    <3>4. Queued(pq, f, p, ac, k)
      BY <3>2, <3>3
    <3>5. k = i
      BY <1>8, <2>1, <3>4, Zenon
    <3> QED  BY <3>2, <3>5
  <2>5. ASSUME NEW e, NEW k, NEW g, NEW l, PutAside(y, f, e, k), PutAside(y, f, g, l)
        PROVE  e = g /\ k = l
    <3>1. e = d /\ k = i
      BY <2>4, <2>5, Zenon
    <3>2. g = d /\ l = i
      BY <2>4, <2>5, Zenon
    <3> QED  BY <3>1, <3>2, Zenon
  <2>6. InBatch(y, f)
    <3>1. PutAside(y, f, d, i)
      BY <1>7, <2>1, Zenon
    <3> QED  BY <3>1 DEF InBatch
  <2> QED  BY <1>8, <1>9, <2>2, <2>3, <2>5, <2>6, Zenon DEF Owned
<1>11. CASE f \notin Range(b)
  <2>1. \A e, i : PutAside(y, f, e, i) <=> PutAside(tx, f, e, i)
    BY <1>3, <1>7, <1>11, Zenon
  <2>2. InBatch(y, f) <=> InBatch(tx, f)
    BY <2>1, Zenon DEF InBatch
  <2>3. f \in st \cup Range(b) <=> f \in st
    BY <1>11
  <2>4. \A e, k, g, l : PutAside(y, f, e, k) /\ PutAside(y, f, g, l) => e = g /\ k = l
    BY <1>8, <2>1, Zenon
  <2>5. /\ f \in st \/ InCall(cs, f) \/ InQueue(r, f) \/ InBatch(tx, f)
        /\ f \in st => ~InCall(cs, f) /\ ~InQueue(r, f) /\ ~InBatch(tx, f)
        /\ InCall(cs, f) => ~InQueue(r, f) /\ ~InBatch(tx, f)
        /\ InQueue(r, f) => ~InBatch(tx, f)
    BY <2>3, Zenon DEF Owned
  <2> QED  BY <1>8, <1>9, <2>2, <2>4, <2>5, Zenon DEF Owned
<1> QED  BY <1>10, <1>11

(* start_xmit takes a frame from the stack.                                *)
LEMMA LookupOwned ==
  ASSUME AllOwned(stack, calls, pendq, txq), NEW b, b.nb \in stack
  PROVE  AllOwned(stack \ {b.nb}, calls \cup {b}, pendq, txq)
<1> SUFFICES ASSUME NEW f \in Frame, Owned(stack, calls, pendq, txq, f)
             PROVE  Owned(stack \ {b.nb}, calls \cup {b}, pendq, txq, f)
  BY DEF AllOwned
<1>1. CASE f = b.nb
  <2>1. f \notin stack \ {b.nb} /\ InCall(calls \cup {b}, f)
    BY <1>1 DEF InCall
  <2>2. ~InCall(calls, f) /\ ~InQueue(pendq, f) /\ ~InBatch(txq, f)
    BY <1>1 DEF Owned
  <2>3. \A x, y \in calls \cup {b} : x.nb = f /\ y.nb = f => x = y
    BY <2>2 DEF InCall
  <2> QED  BY <2>1, <2>2, <2>3 DEF Owned
<1>2. CASE f # b.nb
  <2>1. (f \in stack \ {b.nb} <=> f \in stack) /\ (InCall(calls \cup {b}, f) <=> InCall(calls, f))
    BY <1>2 DEF InCall
  <2>2. \A x, y \in calls \cup {b} : x.nb = f /\ y.nb = f => x = y
    BY <1>2 DEF Owned
  <2> QED  BY <2>1, <2>2 DEF Owned
<1> QED  BY <1>1, <1>2

(* start_xmit frees the frame of a call whose queue is full.               *)
LEMMA RefusedOwned ==
  ASSUME AllOwned(stack, calls, pendq, txq), NEW b \in calls
  PROVE  AllOwned(stack \cup {b.nb}, calls \ {b}, pendq, txq)
<1> SUFFICES ASSUME NEW f \in Frame, Owned(stack, calls, pendq, txq, f)
             PROVE  Owned(stack \cup {b.nb}, calls \ {b}, pendq, txq, f)
  BY DEF AllOwned
<1>1. CASE f = b.nb
  <2>1. f \in stack \cup {b.nb} /\ InCall(calls, f)
    BY <1>1 DEF InCall
  <2>2. ~InCall(calls \ {b}, f)
    BY <1>1 DEF Owned, InCall
  <2> QED  BY <2>1, <2>2 DEF Owned
<1>2. CASE f # b.nb
  <2>1. (f \in stack \cup {b.nb} <=> f \in stack) /\ (InCall(calls \ {b}, f) <=> InCall(calls, f))
    BY <1>2 DEF InCall
  <2> QED  BY <2>1 DEF Owned
<1> QED  BY <1>1, <1>2

(* A command that nothing makes fail takes its batch from the driver.      *)
LEMMA CmdSent ==
  ASSUME CmdType, Failures = {}, NEW d \in Desc, mapped[d] = 0, txq[d] = <<>>,
         NEW batch, NEW p, NEW frees, TxCmdInit(d, batch, p, frees)
  PROVE  txq' = txq /\ stack' = stack \cup Range(batch)
<1>1. txq' = [txq EXCEPT ![d] = <<>>] /\ stack' = stack \cup Range(batch)
  BY DEF TxCmdInit
<1> QED  BY <1>1 DEF CmdType

LEMMA PendingOwned ==
  ASSUME TypeOK, DescInv, Failures = {}, NEW ac \in AC, NEW d \in TxDescGet(ac),
         NEW pq \in PendqType, NEW t, NEW frees, NEW cs, AllOwned(stack, cs, pq, txq),
         TxPendingProcess(pq, t, d, ac, frees)
  PROVE  AllOwned(stack', cs, pendq', txq')
<1>1. d \in Desc \ alloc /\ CmdType /\ mapped[d] = 0 /\ txq[d] = <<>>
  BY TxDescGetType, TypeParts DEF DescInv
<1>2. CASE NoPendingBatch(pq, t, ac) /\ UNCHANGED cmd
  <2>1. pendq' = pq /\ UNCHANGED <<stack, txq>>
    BY <1>2 DEF NoPendingBatch, cmd
  <2> QED  BY <2>1
<1>3. ASSUME NEW p \in Peer, NEW n \in 1 .. MAX_TX_AGGREGATION, PendingBatch(pq, t, ac, p, n),
             TxCmdInit(d, SubSeq(pq[p][ac], 1, n), p, frees)
      PROVE  AllOwned(stack', cs, pendq', txq')
  <2>1. n \in 1 .. Len(pq[p][ac]) /\ pendq' = Dequeued(pq, p, ac, n)
    BY <1>3 DEF PendingBatch, BatchLen
  <2>2. txq' = txq /\ stack' = stack \cup Range(SubSeq(pq[p][ac], 1, n))
    BY <1>1, <1>3, CmdSent
  <2>3. AllOwned(stack \cup Range(SubSeq(pq[p][ac], 1, n)), cs, Dequeued(pq, p, ac, n), txq)
    BY <2>1, DequeueToStack
  <2> QED  BY <2>1, <2>2, <2>3
<1> QED  BY <1>2, <1>3 DEF TxPendingProcess

(* Every buffer the driver was given is in one place.                      *)
OwnInv == AllOwned(stack, calls, pendq, txq)

LEMMA XmitOwned ==
  ASSUME TypeOK, DescInv, Failures = {}, OwnInv, NEW c \in calls, Xmit(c)
  PROVE  OwnInv'
<1>1. calls' = calls \ {c} /\ c.peer \in Peer /\ c.ac \in AC /\ c \in Call
  BY TypeParts DEF Xmit, XmitQueueFull, XmitBitmapFails, XmitQueued, XmitSends, XmitEnter,
                   ThreadType, Call
<1>2. AllOwned(stack, calls \ {c}, Enqueued(c), txq) /\ Enqueued(c) \in PendqType
  BY EnqueueOwned, EnqueuedType, TypeParts DEF OwnInv
<1>3. CASE XmitQueueFull(c)
  <2>1. stack' = stack \cup {c.nb} /\ UNCHANGED <<pendq, txq>>
    BY <1>3 DEF XmitQueueFull
  <2> QED  BY <1>1, <2>1, RefusedOwned DEF OwnInv
<1>4. CASE XmitBitmapFails(c)
  BY <1>4 DEF XmitBitmapFails
<1>5. CASE XmitQueued(c)
  <2>1. pendq' = Enqueued(c) /\ UNCHANGED <<stack, txq>>
    BY <1>5 DEF XmitQueued, cmd
  <2> QED  BY <1>1, <1>2, <2>1 DEF OwnInv
<1>6. CASE XmitSends(c)
  <2>1. PICK d \in TxDescGet(c.ac) :
          TxPendingProcess(Enqueued(c), EnqueuedBmp(c, TRUE), d, c.ac, {c.nb})
    BY <1>6 DEF XmitSends
  <2>2. AllOwned(stack', calls \ {c}, pendq', txq')
    BY <1>1, <1>2, <2>1, PendingOwned
  <2> QED  BY <1>1, <2>2 DEF OwnInv
<1> QED  BY <1>3, <1>4, <1>5, <1>6 DEF Xmit

LEMMA TxDoneServesOwned ==
  ASSUME TypeOK, DescInv, Failures = {}, OwnInv, TxDoneServes
  PROVE  OwnInv'
<1>1. PICK d \in Desc, ac \in AC : d = ev.desc /\ ac = ev.ac
  BY EventType, TypeParts
<1>2. mapped[d] = 0 /\ txq[d] = <<>> /\ CmdType /\ calls' = calls /\ pendq \in PendqType
      /\ txq \in [Desc -> Seq(Frame)]
  BY <1>1, TypeParts DEF TxDoneServes, DescInv, CmdType
<1>3. PICK p \in Peer, n \in 1 .. MAX_TX_AGGREGATION :
        /\ PendingBatch(pendq, tim, ac, p, n)
        /\ \/ TxCmdInit(d, SubSeq(pendq[p][ac], 1, n), p, {})
           \/ txq' = [txq EXCEPT ![d] = SubSeq(pendq[p][ac], 1, n)] /\ stack' = stack
  BY <1>1 DEF TxDoneServes
<1>4. n \in 1 .. Len(pendq[p][ac]) /\ pendq' = Dequeued(pendq, p, ac, n)
  BY <1>3 DEF PendingBatch, BatchLen
<1>5. CASE TxCmdInit(d, SubSeq(pendq[p][ac], 1, n), p, {})
  <2>1. txq' = txq /\ stack' = stack \cup Range(SubSeq(pendq[p][ac], 1, n))
    BY <1>2, <1>5, CmdSent
  <2>2. AllOwned(stack \cup Range(SubSeq(pendq[p][ac], 1, n)), calls,
                 Dequeued(pendq, p, ac, n), txq)
    BY <1>2, <1>4, DequeueToStack DEF OwnInv
  <2> QED  BY <1>2, <1>4, <2>1, <2>2 DEF OwnInv
<1>6. CASE txq' = [txq EXCEPT ![d] = SubSeq(pendq[p][ac], 1, n)] /\ stack' = stack
  <2>1. AllOwned(stack, calls, Dequeued(pendq, p, ac, n),
                 [txq EXCEPT ![d] = SubSeq(pendq[p][ac], 1, n)])
    BY <1>2, <1>4, DequeueToDesc DEF OwnInv
  <2> QED  BY <1>2, <1>4, <1>6, <2>1 DEF OwnInv
<1> QED  BY <1>3, <1>5, <1>6

(* The parts of Places.                                                    *)
LEMMA PlacesParts ==
  ASSUME NEW f, NEW x
  PROVE  x \in Places(f) <=>
           \/ f \in stack /\ x = <<"stack">>
           \/ \E c \in calls : c.nb = f /\ x = <<"call", c>>
           \/ \E p \in Peer, ac \in AC : x \in PlacesInQueue(f, p, ac)
           \/ \E d \in Desc : x \in PlacesInDesc(f, d)
<1>1. x \in UNION {PlacesInQueue(f, p, ac) : p \in Peer, ac \in AC}
        <=> \E p \in Peer, ac \in AC : x \in PlacesInQueue(f, p, ac)
  BY SMT
<1>2. x \in UNION {PlacesInDesc(f, d) : d \in Desc} <=> \E d \in Desc : x \in PlacesInDesc(f, d)
  BY SMT
<1> QED  BY <1>1, <1>2 DEF Places

(* A frame in one place has one element in Places.                         *)
LEMMA OnePlace ==
  ASSUME TypeOK, OwnInv, NEW f \in Frame
  PROVE  Cardinality(Places(f)) = 1
<1>1. /\ f \in stack \/ InCall(calls, f) \/ InQueue(pendq, f) \/ InBatch(txq, f)
      /\ f \in stack => ~InCall(calls, f) /\ ~InQueue(pendq, f) /\ ~InBatch(txq, f)
      /\ InCall(calls, f) => ~InQueue(pendq, f) /\ ~InBatch(txq, f)
      /\ InQueue(pendq, f) => ~InBatch(txq, f)
      /\ \A b, c \in calls : b.nb = f /\ c.nb = f => b = c
      /\ \A p, ac, i, q, bc, j :
           Queued(pendq, f, p, ac, i) /\ Queued(pendq, f, q, bc, j) => p = q /\ ac = bc /\ i = j
      /\ \A d, i, e, j : PutAside(txq, f, d, i) /\ PutAside(txq, f, e, j) => d = e /\ i = j
  BY DEF OwnInv, AllOwned, Owned
<1>2. /\ \A p \in Peer, ac \in AC : DOMAIN pendq[p][ac] = 1 .. Len(pendq[p][ac])
      /\ \A d \in Desc : DOMAIN txq[d] = 1 .. Len(txq[d])
  BY LenProperties DEF TypeOK
<1>3. \A x : x \in Places(f) <=>
         \/ f \in stack /\ x = <<"stack">>
         \/ \E c \in calls : c.nb = f /\ x = <<"call", c>>
         \/ \E p, ac, i : Queued(pendq, f, p, ac, i) /\ x = <<"pendq", p, ac, i>>
         \/ \E d, i : PutAside(txq, f, d, i) /\ x = <<"txq", d, i>>
  <2> SUFFICES ASSUME NEW x
               PROVE  x \in Places(f) <=>
                        \/ f \in stack /\ x = <<"stack">>
                        \/ \E c \in calls : c.nb = f /\ x = <<"call", c>>
                        \/ \E p, ac, i : Queued(pendq, f, p, ac, i) /\ x = <<"pendq", p, ac, i>>
                        \/ \E d, i : PutAside(txq, f, d, i) /\ x = <<"txq", d, i>>
    OBVIOUS
  <2>1. \A p \in Peer, ac \in AC : x \in PlacesInQueue(f, p, ac)
          <=> \E i : Queued(pendq, f, p, ac, i) /\ x = <<"pendq", p, ac, i>>
    BY <1>2 DEF Queued, PlacesInQueue
  <2>2. \A d \in Desc : x \in PlacesInDesc(f, d)
          <=> \E i : PutAside(txq, f, d, i) /\ x = <<"txq", d, i>>
    BY <1>2 DEF PutAside, PlacesInDesc
  <2>3. /\ \A p, ac, i : Queued(pendq, f, p, ac, i) => p \in Peer /\ ac \in AC
        /\ \A d, i : PutAside(txq, f, d, i) => d \in Desc
    BY DEF Queued, PutAside
  <2>4. (\E p \in Peer, ac \in AC : x \in PlacesInQueue(f, p, ac))
          <=> \E p, ac, i : Queued(pendq, f, p, ac, i) /\ x = <<"pendq", p, ac, i>>
    BY <2>1, <2>3
  <2>5. (\E d \in Desc : x \in PlacesInDesc(f, d))
          <=> \E d, i : PutAside(txq, f, d, i) /\ x = <<"txq", d, i>>
    BY <2>2, <2>3
  <2> QED  BY <2>4, <2>5, PlacesParts, Zenon
<1>4. CASE f \in stack
  <2>1. \A x : x \in Places(f) <=> x = <<"stack">>
    BY <1>1, <1>3, <1>4, Zenon DEF InCall, InQueue, InBatch
  <2>2. Places(f) = {<<"stack">>}
    BY <2>1
  <2> QED  BY <2>2, FS_Singleton
<1>5. CASE InCall(calls, f)
  <2>1. PICK c \in calls : c.nb = f
    BY <1>5 DEF InCall
  <2>2. f \notin stack /\ ~InQueue(pendq, f) /\ ~InBatch(txq, f)
    BY <1>1, <1>5, Zenon
  <2>3. <<"call", c>> \in Places(f)
    BY <1>3, <2>1
  <2>4. ASSUME NEW x \in Places(f) PROVE x = <<"call", c>>
    <3>1. PICK b \in calls : b.nb = f /\ x = <<"call", b>>
      BY <1>3, <2>2, Zenon DEF InQueue, InBatch
    <3>2. b = c
      BY <1>1, <2>1, <3>1
    <3> QED  BY <3>1, <3>2
  <2>5. Places(f) = {<<"call", c>>}
    BY <2>3, <2>4
  <2> QED  BY <2>5, FS_Singleton
<1>6. CASE InQueue(pendq, f)
  <2>1. PICK p, ac, i : Queued(pendq, f, p, ac, i)
    BY <1>6 DEF InQueue
  <2>2. f \notin stack /\ ~InCall(calls, f) /\ ~InBatch(txq, f)
    BY <1>1, <1>6, Zenon
  <2>3. <<"pendq", p, ac, i>> \in Places(f)
    BY <1>3, <2>1, Zenon
  <2>4. ASSUME NEW x \in Places(f) PROVE x = <<"pendq", p, ac, i>>
    <3>1. PICK q, bc, j : Queued(pendq, f, q, bc, j) /\ x = <<"pendq", q, bc, j>>
      BY <1>3, <2>2, Zenon DEF InCall, InBatch
    <3>2. q = p /\ bc = ac /\ j = i
      BY <1>1, <2>1, <3>1, Zenon
    <3> QED  BY <3>1, <3>2
  <2>5. Places(f) = {<<"pendq", p, ac, i>>}
    BY <2>3, <2>4
  <2> QED  BY <2>5, FS_Singleton
<1>7. CASE InBatch(txq, f)
  <2>1. PICK d, i : PutAside(txq, f, d, i)
    BY <1>7 DEF InBatch
  <2>2. f \notin stack /\ ~InCall(calls, f) /\ ~InQueue(pendq, f)
    BY <1>1, <1>7, Zenon
  <2>3. <<"txq", d, i>> \in Places(f)
    BY <1>3, <2>1, Zenon
  <2>4. ASSUME NEW x \in Places(f) PROVE x = <<"txq", d, i>>
    <3>1. PICK e, j : PutAside(txq, f, e, j) /\ x = <<"txq", e, j>>
      BY <1>3, <2>2, Zenon DEF InCall, InQueue
    <3>2. e = d /\ j = i
      BY <1>1, <2>1, <3>1, Zenon
    <3> QED  BY <3>1, <3>2
  <2>5. Places(f) = {<<"txq", d, i>>}
    BY <2>3, <2>4
  <2> QED  BY <2>5, FS_Singleton
<1> QED  BY <1>1, <1>4, <1>5, <1>6, <1>7

(* A network buffer has one owner, as long as no HAL call fails.           *)
THEOREM BuffersOwned ==
  ASSUME Failures = {}
  PROVE  Spec => []OneOwner
<1>1. Init => OwnInv
  <2> SUFFICES ASSUME Init, NEW f \in Frame PROVE Owned(stack, calls, pendq, txq, f)
    BY DEF OwnInv, AllOwned
  <2>1. f \in stack /\ ~InCall(calls, f)
    BY DEF Init, InCall
  <2>2. \A p, ac, i : ~Queued(pendq, f, p, ac, i)
    BY DEF Init, Queued
  <2>3. \A d, i : ~PutAside(txq, f, d, i)
    BY DEF Init, PutAside
  <2>4. calls = {}
    BY DEF Init
  <2> QED  BY <2>1, <2>2, <2>3, <2>4 DEF Owned, InQueue, InBatch
<1>2. TypeOK /\ DescInv /\ OwnInv /\ [Next]_vars => OwnInv'
  <2> SUFFICES ASSUME TypeOK, DescInv, OwnInv, [Next]_vars PROVE OwnInv'
    OBVIOUS
  <2>1. ASSUME NEW f \in Frame, NEW p \in Peer, NEW ac \in AC, XmitLookup(f, p, ac) PROVE OwnInv'
    <3>1. PICK b : b = [nb |-> f, peer |-> p, ac |-> ac]
      OBVIOUS
    <3>2. /\ b.nb = f /\ f \in stack /\ calls' = calls \cup {b} /\ stack' = stack \ {f}
          /\ UNCHANGED <<pendq, txq>>
      BY <2>1, <3>1 DEF XmitLookup
    <3>3. AllOwned(stack \ {b.nb}, calls \cup {b}, pendq, txq)
      BY <3>2, LookupOwned DEF OwnInv
    <3> QED  BY <3>2, <3>3 DEF OwnInv
  <2>2. ASSUME NEW c \in calls, Xmit(c) PROVE OwnInv'
    BY <2>2, XmitOwned
  <2>3. CASE TxDoneServes
    BY <2>3, TxDoneServesOwned
  <2>4. CASE TxDoneFindsNone
    BY <2>4 DEF TxDoneFindsNone, NoPendingBatch, cmd, OwnInv
  <2>5. CASE Kick
    <3>1. ev.ac \in AC /\ pendq \in PendqType /\ calls' = calls
      BY <2>5, EventType, TypeParts DEF Kick
    <3>2. CASE UNCHANGED <<pendq, pool, cmd, sched, tim>>
      BY <3>1, <3>2 DEF cmd, OwnInv
    <3>3. ASSUME NEW d \in TxDescGet(ev.ac), TxPendingProcess(pendq, tim, d, ev.ac, {})
          PROVE  OwnInv'
      <4>1. AllOwned(stack', calls, pendq', txq')
        BY <3>1, <3>3, PendingOwned DEF OwnInv
      <4> QED  BY <3>1, <4>1 DEF OwnInv
    <3> QED  BY <2>5, <3>2, <3>3 DEF Kick
  <2>6. CASE \/ \E d \in Desc : TxDone(d)
             \/ \E p \in UPeer : ClientSleeps(p) \/ PeerAdd(p) \/ PeerRemove(p) \/ ClientWakes(p)
             \/ \E p \in UPeer, n \in 0 .. MAX_PS_FRAMES : PsGetFrames(p, n)
             \/ PeersFlush \/ TwtChange \/ UNCHANGED vars
    <3>1. UNCHANGED <<stack, calls, pendq, txq>>
      BY <2>6 DEF TxDone, ClientSleeps, PeerAdd, PeerRemove, ClientWakes, PsGetFrames, PeersFlush,
                  Forget, TwtChange, vars, cmd
    <3> QED  BY <3>1 DEF OwnInv
  <2> QED  BY <2>1, <2>2, <2>3, <2>4, <2>5, <2>6 DEF Next, Events
<1>3. TypeOK /\ OwnInv => OneOwner
  BY OnePlace DEF OneOwner
<1> QED  BY <1>1, <1>2, <1>3, TypeCorrect, DescriptorsKept, PTL DEF Spec
=============================================================================
