---------------------------- MODULE RxPathProofs ----------------------------
(***************************************************************************)
(* What holds of RxPath for pools of any size, any number of buffers and   *)
(* frames and any failures: descriptors and places of the HAL correspond   *)
(* one to one, the tables of FMAC and HAL agree, and a buffer has one      *)
(* owner.  The inductive invariant is the conjunction of the three:        *)
(* a descriptor is provisioned only when FMAC's entry is empty, and it is  *)
(* because the tables agree that the HAL's entry is then empty too.        *)
(*                                                                         *)
(* On it rests AnnInv: each packet the RPU has told of, wherever it is in  *)
(* the messages, is told of once and has a mapped place that holds its     *)
(* frame, since only the event tasklet unmaps a place and it provisions it *)
(* again only after the packet is handled.  So the stack gets the frame    *)
(* that was announced.  MissInv follows each descriptor and each buffer    *)
(* through init_rx, rx_event_process and deinit_rx: without failures and   *)
(* with memory none is lost.                                               *)
(***************************************************************************)
EXTENDS RxPath, SequenceTheorems, TLAPS

LEMMA DescBounds ==
    /\ num_bufs[0] \in Nat /\ num_bufs[1] \in Nat /\ num_bufs[2] \in Nat
    /\ rx_desc[0] = 0 /\ rx_desc[1] = num_bufs[0] /\ rx_desc[2] = num_bufs[0] + num_bufs[1]
    /\ num_rx_bufs \in Nat
  <1>1. 0 \in Pools /\ 1 \in Pools /\ 2 \in Pools
    BY DEF Pools
  <1>2. num_bufs[0] \in Nat /\ num_bufs[1] \in Nat /\ num_bufs[2] \in Nat
    BY <1>1, PoolsAssumption
  <1>3. rx_desc[0] = 0 /\ rx_desc[1] = num_bufs[0] /\ rx_desc[2] = num_bufs[0] + num_bufs[1]
    BY <1>1 DEF rx_desc
  <1> QED
    BY <1>2, <1>3 DEF num_rx_bufs

(* The index FMAC computes is inside the HAL's table of that pool, and no  *)
(* two descriptors share a place (map_desc_to_pool and the tables that     *)
(* dev_add allocates).                                                     *)
THEOREM PlacesInBounds ==
    ASSUME NEW d \in Desc
    PROVE  /\ map_desc_to_pool(d) \in Places
           /\ map_desc_to_pool(d)[1] \in Pools
           /\ map_desc_to_pool(d)[2] \in 0 .. num_bufs[map_desc_to_pool(d)[1]] - 1
           /\ \A e \in Desc : map_desc_to_pool(e) = map_desc_to_pool(d) => e = d
  <1>1. ASSUME NEW e \in Desc
        PROVE  \E p \in Pools : /\ map_desc_to_pool(e) = <<p, e - rx_desc[p]>>
                                /\ InPool(e, p)
    <2> DEFINE q == CHOOSE r \in Pools : InPool(e, r)
    <2>1. e \in Nat /\ e < num_rx_bufs
      BY DescBounds DEF Desc
    <2>2. 0 \in Pools /\ 1 \in Pools /\ 2 \in Pools
      BY DEF Pools
    <2>3. InPool(e, 0) \/ InPool(e, 1) \/ InPool(e, 2)
      BY <2>1, DescBounds DEF InPool, num_rx_bufs
    <2>4. q \in Pools /\ InPool(e, q)
      BY <2>2, <2>3
    <2>5. map_desc_to_pool(e) = <<q, e - rx_desc[q]>>
      BY DEF map_desc_to_pool
    <2> QED
      BY <2>4, <2>5
  <1>2. PICK p \in Pools : map_desc_to_pool(d) = <<p, d - rx_desc[p]>> /\ InPool(d, p)
    BY <1>1
  <1>3. rx_desc[p] \in Int /\ num_bufs[p] \in Nat /\ d \in Int
    BY <1>2, DescBounds, PoolsAssumption DEF Pools, rx_desc, Desc
  <1>4. map_desc_to_pool(d)[2] \in 0 .. num_bufs[map_desc_to_pool(d)[1]] - 1
    BY <1>2, <1>3 DEF InPool
  <1>5. ASSUME NEW e \in Desc, map_desc_to_pool(e) = map_desc_to_pool(d)
        PROVE  e = d
    <2>1. PICK q \in Pools : map_desc_to_pool(e) = <<q, e - rx_desc[q]>>
      BY <1>1
    <2>2. q = p /\ e - rx_desc[q] = d - rx_desc[p]
      BY <1>2, <1>5, <2>1
    <2>3. e \in Int
      BY DescBounds DEF Desc
    <2> QED
      BY <2>2, <2>3, <1>3
  <1> QED
    BY <1>2, <1>4, <1>5 DEF Places

-----------------------------------------------------------------------------
(* The two tables and the ownership of buffers.                            *)

RxInv == TypeOK /\ MapsAgree /\ OneOwner

(* Provisioning a descriptor leaves the tables and the buffers alone, uses *)
(* up a buffer, or enters one in both tables.                              *)
LEMMA ProvisionEffect ==
    ASSUME RxInv, NEW d \in Desc, RxInitOk(d) \/ RxInitFails(d)
    PROVE  \/ UNCHANGED <<nwb, virt_addr, free>>
           \/ \E b \in free : free' = free \ {b} /\ UNCHANGED <<nwb, virt_addr>>
           \/ \E b \in free : /\ free' = free \ {b}
                              /\ nwb[d] = NULL
                              /\ nwb' = [nwb EXCEPT ![d] = b]
                              /\ virt_addr' = [virt_addr EXCEPT ![map_desc_to_pool(d)] = b]
  <1>1. nwb[d] = NULL => virt_addr[map_desc_to_pool(d)] = NULL
    BY DEF RxInv, MapsAgree
  <1> QED
    BY <1>1 DEF RxInitOk, RxInitFails, Allocate, BufMapRx, hal

LEMMA ProvisionType ==
    ASSUME RxInv, NEW d \in Desc, RxInitOk(d) \/ RxInitFails(d)
    PROVE  /\ nwb' \in [Desc -> Bufs \union {NULL}]
           /\ virt_addr' \in [Places -> Bufs \union {NULL}]
           /\ ram' \in [Places -> [id : Desc, frame : Frames \union {NULL}]]
           /\ posted' \subseteq Places
           /\ free' \subseteq Bufs
           /\ content' \in [Bufs -> Frames \union {NULL}]
           /\ faults' \in 0 .. MAX_FAULTS /\ starved' \in BOOLEAN
  <1> DEFINE s == map_desc_to_pool(d)
  <1>1. s \in Places
    BY PlacesInBounds
  <1>2. TypeOK
    BY DEF RxInv
  <1>3. nwb' \in [Desc -> Bufs \union {NULL}] /\ virt_addr' \in [Places -> Bufs \union {NULL}] /\ free' \subseteq Bufs
    BY <1>2, ProvisionEffect DEF TypeOK
  <1>4. ram' = ram \/ ram' = [ram EXCEPT ![s] = [id |-> d, frame |-> NULL]]
    BY DEF RxInitOk, RxInitFails, BufMapRx, hal
  <1>5. ram' \in [Places -> [id : Desc, frame : Frames \union {NULL}]]
    <2> DEFINE Cell == [id : Desc, frame : Frames \union {NULL}]
               cell == [id |-> d, frame |-> NULL]
    <2>1. cell \in Cell
      OBVIOUS
    <2>2. ram \in [Places -> Cell]
      BY <1>2 DEF TypeOK
    <2>3. ram' = ram \/ ram' = [ram EXCEPT ![s] = cell]
      BY <1>4
    <2> HIDE DEF s, Cell, cell
    <2>4. ram' \in [Places -> Cell]
      BY <2>1, <2>2, <2>3
    <2> QED
      BY <2>4 DEF Cell
  <1>6. posted' \subseteq Places
    BY <1>1, <1>2 DEF RxInitOk, RxInitFails, TypeOK, hal
  <1>7. content' = content \/ \E b \in Bufs : content' = [content EXCEPT ![b] = NULL]
    BY DEF RxInitOk, RxInitFails, Allocate
  <1>8. content' \in [Bufs -> Frames \union {NULL}]
    BY <1>2, <1>7 DEF TypeOK
  <1>9. faults' = faults \/ (faults < MAX_FAULTS /\ faults' = faults + 1)
    BY DEF RxInitOk, RxInitFails, Fail
  <1>10. faults' \in 0 .. MAX_FAULTS
    BY <1>2, <1>9, BoundsAssumption DEF TypeOK
  <1>11. starved' \in BOOLEAN
    BY <1>2 DEF RxInitOk, RxInitFails, TypeOK
  <1> QED
    BY <1>3, <1>5, <1>6, <1>8, <1>10, <1>11

LEMMA ProvisionKeepsMaps ==
    ASSUME RxInv, NEW d \in Desc, RxInitOk(d) \/ RxInitFails(d), UNCHANGED stack
    PROVE  MapsAgree' /\ OneOwner'
  <1>1. /\ nwb \in [Desc -> Bufs \union {NULL}]
        /\ virt_addr \in [Places -> Bufs \union {NULL}]
        /\ free \subseteq Bufs /\ stack \subseteq Bufs \X Frames
        /\ MapsAgree /\ OneOwner
    BY DEF RxInv, TypeOK
  <1>2. InStack' = InStack
    BY DEF InStack
  <1>3. CASE UNCHANGED <<nwb, virt_addr, free>>
    BY <1>1, <1>2, <1>3 DEF MapsAgree, OneOwner, Mapped
  <1>4. ASSUME NEW b \in free, free' = free \ {b}, UNCHANGED <<nwb, virt_addr>>
        PROVE  MapsAgree' /\ OneOwner'
    BY <1>1, <1>2, <1>4 DEF MapsAgree, OneOwner, Mapped
  <1>5. ASSUME NEW b \in free, free' = free \ {b}, nwb[d] = NULL,
               nwb' = [nwb EXCEPT ![d] = b],
               virt_addr' = [virt_addr EXCEPT ![map_desc_to_pool(d)] = b]
        PROVE  MapsAgree' /\ OneOwner'
    <2>1. MapsAgree'
      <3> SUFFICES ASSUME NEW e \in Desc
                   PROVE  virt_addr'[map_desc_to_pool(e)] = nwb'[e]
        BY DEF MapsAgree
      <3>1. map_desc_to_pool(d) \in Places /\ map_desc_to_pool(e) \in Places
        BY PlacesInBounds
      <3>2. map_desc_to_pool(e) = map_desc_to_pool(d) => e = d
        BY PlacesInBounds
      <3> QED
        BY <1>1, <1>5, <3>1, <3>2 DEF MapsAgree
    <2>2. \A e \in Desc : nwb'[e] = (IF e = d THEN b ELSE nwb[e])
      BY <1>1, <1>5
    <2>3. b \notin Mapped /\ b \notin InStack
      BY <1>1 DEF OneOwner
    <2>4. Mapped' \subseteq Mapped \union {b}
      BY <2>2 DEF Mapped
    <2>5. \A e \in Desc : nwb[e] # b
      BY <1>1, <2>3, BufsAssumption DEF Mapped
    <2>6. \A e, c \in Desc : nwb'[e] = nwb'[c] /\ nwb'[e] # NULL => e = c
      BY <1>1, <2>2, <2>5 DEF OneOwner
    <2>7. OneOwner'
      BY <1>1, <1>2, <1>5, <2>3, <2>4, <2>6 DEF OneOwner
    <2> QED
      BY <2>1, <2>7
  <1> QED
    BY <1>3, <1>4, <1>5, ProvisionEffect

(* Unmapping a descriptor whose buffer is then freed, handed to the stack  *)
(* or forgotten.                                                           *)
LEMMA UnmapKeepsMaps ==
    ASSUME RxInv, NEW d \in Desc, nwb[d] # NULL,
           nwb' = [nwb EXCEPT ![d] = NULL],
           virt_addr' = [virt_addr EXCEPT ![map_desc_to_pool(d)] = NULL],
           \/ UNCHANGED <<free, stack>>
           \/ free' = free \union {nwb[d]} /\ UNCHANGED stack
           \/ \E f \in Frames : stack' = stack \union {<<nwb[d], f>>} /\ UNCHANGED free
    PROVE  MapsAgree' /\ OneOwner'
  <1> DEFINE b == nwb[d]
  <1>1. /\ nwb \in [Desc -> Bufs \union {NULL}]
        /\ virt_addr \in [Places -> Bufs \union {NULL}]
        /\ free \subseteq Bufs /\ stack \subseteq Bufs \X Frames
        /\ MapsAgree /\ OneOwner
    BY DEF RxInv, TypeOK
  <1>2. MapsAgree'
    <2> SUFFICES ASSUME NEW e \in Desc
                 PROVE  virt_addr'[map_desc_to_pool(e)] = nwb'[e]
      BY DEF MapsAgree
    <2>1. map_desc_to_pool(d) \in Places /\ map_desc_to_pool(e) \in Places
      BY PlacesInBounds
    <2>2. map_desc_to_pool(e) = map_desc_to_pool(d) => e = d
      BY PlacesInBounds
    <2> QED
      BY <1>1, <2>1, <2>2 DEF MapsAgree
  <1>3. \A e \in Desc : nwb'[e] = (IF e = d THEN NULL ELSE nwb[e])
    BY <1>1
  <1>4. b \in Mapped /\ b \notin free /\ b \notin InStack
    BY <1>1 DEF OneOwner, Mapped
  <1>5. Mapped' \subseteq Mapped \ {b}
    BY <1>1, <1>3 DEF Mapped, OneOwner
  <1>6. \A e, c \in Desc : nwb'[e] = nwb'[c] /\ nwb'[e] # NULL => e = c
    BY <1>1, <1>3 DEF OneOwner
  <1>7. InStack' \subseteq InStack \union {b} /\ (UNCHANGED stack => InStack' = InStack)
    BY DEF InStack
  <1>8. \A h, g \in stack' : h[1] = g[1] => h = g
    <2>1. \A h \in stack : h[1] # b
      BY <1>4 DEF InStack
    <2> QED
      BY <1>1, <2>1 DEF OneOwner
  <1>9. free' \intersect (InStack' \union Mapped') = {} /\ InStack' \intersect Mapped' = {}
    <2> HIDE DEF b
    <2>1. free' \subseteq free \union {b}
      BY DEF b
    <2>2. UNCHANGED stack \/ UNCHANGED free
      OBVIOUS
    <2> QED
      BY <1>1, <1>4, <1>5, <1>7, <2>1, <2>2 DEF OneOwner
  <1> QED
    BY <1>2, <1>6, <1>8, <1>9 DEF OneOwner

LEMMA QuietKeepsMaps ==
    ASSUME RxInv, UNCHANGED <<nwb, virt_addr, free, stack>>
    PROVE  MapsAgree' /\ OneOwner'
  BY DEF RxInv, MapsAgree, OneOwner, Mapped, InStack

-----------------------------------------------------------------------------
(* The messages of the RPU.                                                *)

LEMMA AddPacketType ==
    ASSUME wire \in Seq(Seq(Event)), NEW type \in EventTypes, NEW pkt \in Packet,
           AddPacket(type, pkt)
    PROVE  wire' \in Seq(Seq(Event))
  <1> DEFINE event == [type |-> type, pkts |-> <<pkt>>]
             n == Len(wire)
             msg == wire[n]
             k == Len(msg)
  <1>1. <<pkt>> \in Seq(Packet)
    OBVIOUS
  <1>2. event \in Event
    BY <1>1 DEF Event
  <1>3. CASE wire' = Append(wire, <<event>>)
    <2>1. <<event>> \in Seq(Event)
      BY <1>2
    <2> HIDE DEF event
    <2> QED
      BY <1>3, <2>1
  <1>4. ASSUME wire # <<>>
        PROVE  n \in DOMAIN wire /\ msg \in Seq(Event)
    BY <1>4
  <1>5. CASE wire # <<>> /\ wire' = [wire EXCEPT ![n] = Append(@, event)]
    <2>1. wire' = [wire EXCEPT ![n] = Append(msg, event)]
      BY <1>5
    <2> HIDE DEF event, n, msg
    <2>2. Append(msg, event) \in Seq(Event)
      BY <1>2, <1>4, <1>5
    <2>3. n \in DOMAIN wire
      BY <1>4, <1>5
    <2> DEFINE msg2 == Append(msg, event)
    <2> HIDE DEF msg2
    <2>4. msg2 \in Seq(Event) /\ wire' = [wire EXCEPT ![n] = msg2]
      BY <2>1, <2>2 DEF msg2
    <2> QED
      BY <2>3, <2>4
  <1>6. CASE wire # <<>> /\ wire' = [wire EXCEPT ![n][k].pkts = Append(@, pkt)]
    <2> DEFINE last == msg[k]
               grown == [last EXCEPT !.pkts = Append(last.pkts, pkt)]
               msg2 == [msg EXCEPT ![k] = grown]
    <2>1. wire' = [wire EXCEPT ![n] = msg2]
      BY <1>6
    <2>2. n \in DOMAIN wire /\ msg \in Seq(Event)
      BY <1>4, <1>6
    <2>3. msg2 \in Seq(Event)
      <3>1. CASE msg = <<>>
        <4>1. k \notin DOMAIN msg
          BY <3>1
        <4>2. msg2 = msg
          BY <3>1, <4>1
        <4> QED
          BY <2>2, <4>2
      <3>2. CASE msg # <<>>
        <4>1. k \in DOMAIN msg /\ last \in Event
          BY <2>2, <3>2
        <4>2. last.pkts \in Seq(Packet) /\ last.type \in EventTypes
          BY <4>1 DEF Event
        <4>3. Append(last.pkts, pkt) \in Seq(Packet)
          BY <4>2
        <4>4. grown \in Event
          <5> HIDE DEF last
          <5> QED
            BY <4>1, <4>2, <4>3 DEF Event
        <4> HIDE DEF grown, msg, k, last
        <4> QED
          BY <2>2, <4>1, <4>4
      <3> QED
        BY <3>1, <3>2
    <2> HIDE DEF msg2, n
    <2> QED
      BY <2>1, <2>2, <2>3
  <1> QED
    BY <1>3, <1>5, <1>6 DEF AddPacket, Last

LEMMA WorkType ==
    ASSUME work \in Seq(Event), work # <<>>, Head(work).pkts # <<>>
    PROVE  /\ Head(work).type \in EventTypes
           /\ Head(Head(work).pkts) \in Packet
           /\ [work EXCEPT ![1].pkts = Tail(@)] \in Seq(Event)
  <1> DEFINE event == Head(work)
             rest == [event EXCEPT !.pkts = Tail(event.pkts)]
  <1>1. event \in Event /\ 1 \in DOMAIN work /\ work[1] = event
    OBVIOUS
  <1>2. event.type \in EventTypes /\ event.pkts \in Seq(Packet)
    BY <1>1 DEF Event
  <1>3. Head(event.pkts) \in Packet /\ Tail(event.pkts) \in Seq(Packet)
    BY <1>2
  <1>4. rest \in Event
    <2> HIDE DEF event
    <2> QED
      BY <1>1, <1>2, <1>3 DEF Event
  <1>5. [work EXCEPT ![1].pkts = Tail(@)] = [work EXCEPT ![1] = rest]
    BY <1>1
  <1>6. [work EXCEPT ![1] = rest] \in Seq(Event)
    <2> HIDE DEF rest
    <2> QED
      BY <1>1, <1>4
  <1> QED
    BY <1>2, <1>3, <1>5, <1>6

-----------------------------------------------------------------------------
(* The actions keep RxInv.                                                 *)

LEMMA InitInv == Init => RxInv
  <1> SUFFICES ASSUME Init PROVE RxInv
    OBVIOUS
  <1>1. ASSUME NEW s \in Places
        PROVE  0 \in Desc
    BY <1>1, DescBounds DEF Places, Desc
  <1>2. ram \in [Places -> [id : Desc, frame : Frames \union {NULL}]]
    <2> DEFINE cell == [id |-> 0, frame |-> NULL]
               Cell == [id : Desc, frame : Frames \union {NULL}]
    <2>1. \A s \in Places : cell \in Cell
      BY <1>1
    <2>2. ram = [s \in Places |-> cell]
      BY DEF Init
    <2> HIDE DEF cell, Cell
    <2>3. ram \in [Places -> Cell]
      BY <2>1, <2>2
    <2> QED
      BY <2>3 DEF Cell
  <1>3. nwb = [d \in Desc |-> NULL] /\ virt_addr = [s \in Places |-> NULL] /\ free = Bufs /\ stack = {}
    BY DEF Init
  <1>4. TypeOK
    <2>1. /\ state \in {"down", "init", "wait", "up", "deinit", "gone"}
          /\ posted \subseteq Places /\ refill \subseteq Desc /\ starved \in BOOLEAN
      BY DEF Init
    <2>5. 0 \in 0 .. num_rx_bufs /\ 0 \in 0 .. MAX_INITS /\ 0 \in 0 .. MAX_FAULTS
      BY DescBounds, BoundsAssumption
    <2>6. next_desc \in 0 .. num_rx_bufs /\ inits \in 0 .. MAX_INITS /\ faults \in 0 .. MAX_FAULTS
      BY <2>5 DEF Init
    <2>2. wire \in Seq(Seq(Event)) /\ work \in Seq(Event) /\ status \in BOOLEAN
      BY DEF Init
    <2>3. content \in [Bufs -> Frames \union {NULL}]
      BY DEF Init
    <2>4. /\ nwb \in [Desc -> Bufs \union {NULL}]
          /\ virt_addr \in [Places -> Bufs \union {NULL}]
          /\ free \subseteq Bufs /\ stack \subseteq Bufs \X Frames
      BY <1>3
    <2> QED
      BY <1>2, <2>1, <2>2, <2>3, <2>4, <2>6 DEF TypeOK
  <1>5. MapsAgree
    BY <1>3, PlacesInBounds DEF MapsAgree
  <1>6. OneOwner
    BY <1>3 DEF OneOwner, InStack, Mapped
  <1> QED
    BY <1>4, <1>5, <1>6 DEF RxInv

(* What the caller of dev_init and dev_deinit does without touching a table. *)
LEMMA CallerQuiet ==
    ASSUME RxInv, DevInit \/ UmacInit \/ InitWait \/ DevDeinit \/ DeinitRxDone
    PROVE  RxInv'
  <1>1. UNCHANGED <<fmac, hal, mem, starved>>
    BY DEF DevInit, UmacInit, InitWait, DevDeinit, DeinitRxDone
  <1>2. MapsAgree' /\ OneOwner'
    BY <1>1, QuietKeepsMaps DEF fmac, hal, mem
  <1>3. TypeOK
    BY DEF RxInv
  <1>4. next_desc' \in 0 .. num_rx_bufs /\ state' \in {"down", "init", "wait", "up", "deinit", "gone"}
    BY <1>3, DescBounds DEF DevInit, UmacInit, InitWait, DevDeinit, DeinitRxDone, TypeOK
  <1>5. inits' \in 0 .. MAX_INITS /\ faults' \in 0 .. MAX_FAULTS
    BY <1>3, BoundsAssumption DEF DevInit, UmacInit, InitWait, DevDeinit, DeinitRxDone, TypeOK, Fail
  <1>6. TypeOK'
    BY <1>1, <1>3, <1>4, <1>5 DEF TypeOK, fmac, hal, mem
  <1> QED
    BY <1>2, <1>6 DEF RxInv

LEMMA InitRxKeepsInv ==
    ASSUME RxInv, InitRx
    PROVE  RxInv'
  <1>1. TypeOK
    BY DEF RxInv
  <1>2. next_desc \in Desc
    BY <1>1, DescBounds DEF InitRx, TypeOK, Desc
  <1>3. RxInitOk(next_desc) \/ RxInitFails(next_desc)
    BY DEF InitRx
  <1>4. UNCHANGED <<wire, work, status, refill, stack, inits>>
    BY DEF InitRx
  <1>5. next_desc' \in 0 .. num_rx_bufs /\ state' \in {"down", "init", "wait", "up", "deinit", "gone"}
    BY <1>1, DescBounds DEF InitRx, TypeOK
  <1>6. MapsAgree' /\ OneOwner'
    BY <1>2, <1>3, <1>4, ProvisionKeepsMaps
  <1>7. TypeOK'
    BY <1>1, <1>2, <1>3, <1>4, <1>5, ProvisionType DEF TypeOK
  <1> QED
    BY <1>6, <1>7 DEF RxInv

LEMMA DeinitRxKeepsInv ==
    ASSUME RxInv, DeinitRx
    PROVE  RxInv'
  <1> DEFINE d == next_desc
             s == map_desc_to_pool(next_desc)
  <1>1. TypeOK
    BY DEF RxInv
  <1>2. d \in Desc
    BY <1>1, DescBounds DEF DeinitRx, TypeOK, Desc
  <1>3. UNCHANGED <<refill, work, wire, status, ram, posted, content, stack, inits, faults, starved>>
    BY DEF DeinitRx
  <1>4. next_desc' \in 0 .. num_rx_bufs /\ state' \in {"down", "init", "wait", "up", "deinit", "gone"}
    BY <1>1, DescBounds DEF DeinitRx, TypeOK
  <1>5. \/ UNCHANGED <<nwb, virt_addr, free>>
        \/ /\ nwb[d] # NULL
           /\ virt_addr' = [virt_addr EXCEPT ![s] = NULL]
           /\ nwb' = [nwb EXCEPT ![d] = NULL]
           /\ free' = free \union {nwb[d]}
    BY DEF DeinitRx
  <1>6. MapsAgree' /\ OneOwner'
    <2> HIDE DEF d
    <2>1. CASE UNCHANGED <<nwb, virt_addr, free>>
      BY <1>3, <2>1, QuietKeepsMaps
    <2> USE DEF d
    <2>2. CASE ~ UNCHANGED <<nwb, virt_addr, free>>
      BY <1>2, <1>3, <1>5, <2>2, UnmapKeepsMaps
    <2> QED
      BY <2>1, <2>2
  <1>7. /\ nwb' \in [Desc -> Bufs \union {NULL}]
        /\ virt_addr' \in [Places -> Bufs \union {NULL}]
        /\ free' \subseteq Bufs
    BY <1>1, <1>2, <1>5 DEF TypeOK
  <1>8. TypeOK'
    BY <1>1, <1>3, <1>4, <1>7 DEF TypeOK
  <1> QED
    BY <1>6, <1>8 DEF RxInv

LEMMA DevRemKeepsInv ==
    ASSUME RxInv, DevRem
    PROVE  RxInv'
  <1>1. TypeOK /\ OneOwner
    BY DEF RxInv
  <1>2. /\ nwb' = [d \in Desc |-> NULL] /\ virt_addr' = [s \in Places |-> NULL]
        /\ UNCHANGED <<free, stack>>
    BY DEF DevRem, mem
  <1>3. MapsAgree'
    BY <1>2, PlacesInBounds DEF MapsAgree
  <1>4. Mapped' = {} /\ InStack' = InStack
    BY <1>2 DEF Mapped, InStack
  <1>5. OneOwner'
    BY <1>1, <1>2, <1>4 DEF OneOwner
  <1>6. nwb' \in [Desc -> Bufs \union {NULL}] /\ virt_addr' \in [Places -> Bufs \union {NULL}]
    BY <1>2
  <1>7. wire' \in Seq(Seq(Event)) /\ posted' \subseteq Places
    BY DEF DevRem
  <1>8. TypeOK'
    BY <1>1, <1>6, <1>7 DEF TypeOK, DevRem, mem
  <1> QED
    BY <1>3, <1>5, <1>8 DEF RxInv

LEMMA RpuKeepsInv ==
    ASSUME RxInv, Rpu
    PROVE  RxInv'
  <1>1. TypeOK
    BY DEF RxInv
  <1>2. /\ UNCHANGED <<nwb, virt_addr, free, content, stack, next_desc, state>>
        /\ UNCHANGED <<refill, work, status, inits, starved>>
    BY DEF Rpu, RpuReports, RpuReceives, hal, mem
  <1>3. MapsAgree' /\ OneOwner'
    BY <1>2, QuietKeepsMaps
  <1>4. CASE RpuReports
    <2> DEFINE event == [type |-> "Other", pkts |-> <<>>]
               n == Len(wire)
    <2>1. <<>> \in Seq(Packet)
      OBVIOUS
    <2>2. event \in Event
      BY <2>1 DEF Event, EventTypes
    <2>3. \/ wire' = Append(wire, <<event>>)
          \/ wire # <<>> /\ wire' = [wire EXCEPT ![n] = Append(wire[n], event)]
      BY <1>4 DEF RpuReports
    <2>4. wire \in Seq(Seq(Event))
      BY <1>1 DEF TypeOK
    <2>5. wire' \in Seq(Seq(Event))
      <3> HIDE DEF event
      <3>1. CASE wire' = Append(wire, <<event>>)
        <4>1. <<event>> \in Seq(Event)
          BY <2>2
        <4> QED
          BY <2>4, <3>1, <4>1
      <3>2. CASE wire # <<>> /\ wire' = [wire EXCEPT ![n] = Append(wire[n], event)]
        <4>1. n \in DOMAIN wire /\ wire[n] \in Seq(Event)
          BY <2>4, <3>2
        <4> DEFINE longer == Append(wire[n], event)
        <4>2. longer \in Seq(Event)
          BY <2>2, <4>1
        <4>3. wire' = [wire EXCEPT ![n] = longer]
          BY <3>2
        <4> HIDE DEF n, longer
        <4> QED
          BY <2>4, <4>1, <4>2, <4>3
      <3> QED
        BY <2>3, <3>1, <3>2
    <2>6. UNCHANGED <<ram, posted, faults>>
      BY <1>4 DEF RpuReports, hal
    <2>7. TypeOK'
      BY <1>1, <1>2, <2>5, <2>6 DEF TypeOK
    <2> QED
      BY <1>3, <2>7 DEF RxInv
  <1>5. ASSUME NEW s \in Places, NEW f \in Frames, RpuReceives(s, f)
        PROVE  RxInv'
    <2> DEFINE pkt(known) == [id |-> ram[s].id, frame |-> f, known |-> known]
    <2>1. ram[s].id \in Desc /\ ram[s] \in [id : Desc, frame : Frames \union {NULL}]
      BY <1>1 DEF TypeOK
    <2>2. pkt(TRUE) \in Packet /\ pkt(FALSE) \in Packet
      BY <2>1 DEF Packet
    <2>3. "Data" \in EventTypes /\ "Beacon" \in EventTypes /\ "Unknown" \in EventTypes
      BY DEF EventTypes
    <2>4. \/ AddPacket("Data", pkt(TRUE)) \/ AddPacket("Beacon", pkt(TRUE))
          \/ AddPacket("Data", pkt(FALSE)) \/ AddPacket("Unknown", pkt(TRUE))
      BY <1>5 DEF RpuReceives
    <2>5. wire \in Seq(Seq(Event))
      BY <1>1 DEF TypeOK
    <2>6. wire' \in Seq(Seq(Event))
      <3> HIDE DEF pkt
      <3> QED
        BY <2>2, <2>3, <2>4, <2>5, AddPacketType
    <2>7. faults' \in 0 .. MAX_FAULTS
      <3>1. faults' = faults \/ (faults < MAX_FAULTS /\ faults' = faults + 1)
        BY <1>5 DEF RpuReceives, Fail
      <3> QED
        BY <1>1, <3>1, BoundsAssumption DEF TypeOK
    <2>8. ram' \in [Places -> [id : Desc, frame : Frames \union {NULL}]] /\ posted' \subseteq Places
      <3> DEFINE Cell == [id : Desc, frame : Frames \union {NULL}]
                 cell == [ram[s] EXCEPT !.frame = f]
      <3>1. cell \in Cell
        BY <2>1
      <3>2. ram \in [Places -> Cell] /\ ram' = [ram EXCEPT ![s] = cell]
        BY <1>1, <1>5 DEF TypeOK, RpuReceives
      <3> HIDE DEF Cell, cell
      <3>3. ram' \in [Places -> Cell]
        BY <3>1, <3>2
      <3>4. posted' \subseteq Places
        BY <1>1, <1>5 DEF TypeOK, RpuReceives
      <3> QED
        BY <3>3, <3>4 DEF Cell
    <2>9. TypeOK'
      BY <1>1, <1>2, <2>6, <2>7, <2>8 DEF TypeOK
    <2> QED
      BY <1>3, <2>9 DEF RxInv
  <1> QED
    BY <1>4, <1>5 DEF Rpu

LEMMA RxPacketKeepsInv ==
    ASSUME RxInv, RxPacket
    PROVE  RxInv'
  <1> DEFINE type == Head(work).type
             pkt  == Head(Head(work).pkts)
             d    == pkt.id
             s    == map_desc_to_pool(pkt.id)
             b    == nwb[pkt.id]
  <1>1. TypeOK /\ MapsAgree
    BY DEF RxInv
  <1>2. work \in Seq(Event) /\ work # <<>> /\ Head(work).pkts # <<>>
    BY <1>1 DEF RxPacket, TypeOK
  <1>3. type \in EventTypes /\ pkt \in Packet /\ work' \in Seq(Event)
    BY <1>2, WorkType DEF RxPacket
  <1>4. d \in Desc /\ pkt.frame \in Frames /\ pkt.known \in BOOLEAN
    BY <1>3 DEF Packet
  <1>5. s \in Places /\ virt_addr[s] = b
    BY <1>1, <1>4, PlacesInBounds DEF MapsAgree
  <1>6. UNCHANGED <<state, next_desc, wire, ram, posted, inits, faults, starved>>
    BY DEF RxPacket
  <1>7. CASE virt_addr[s] = NULL
    <2>1. UNCHANGED <<nwb, virt_addr, content, free, stack, refill>> /\ status' \in BOOLEAN
      BY <1>7 DEF RxPacket
    <2>2. MapsAgree' /\ OneOwner'
      BY <2>1, QuietKeepsMaps
    <2>3. TypeOK'
      BY <1>1, <1>3, <1>6, <2>1 DEF TypeOK
    <2> QED
      BY <2>2, <2>3 DEF RxInv
  <1>8. CASE virt_addr[s] # NULL
    <2>1. /\ virt_addr' = [virt_addr EXCEPT ![s] = NULL]
          /\ nwb' = [nwb EXCEPT ![d] = NULL]
          /\ content' = [content EXCEPT ![b] = ram[s].frame]
      BY <1>5, <1>8 DEF RxPacket, BufUnmapRx
    <2>2. \/ UNCHANGED <<free, stack>>
          \/ free' = free \union {b} /\ UNCHANGED stack
          \/ stack' = stack \union {<<b, pkt.frame>>} /\ UNCHANGED free
      BY <1>8 DEF RxPacket
    <2>3. b \in Bufs /\ b # NULL
      BY <1>1, <1>4, <1>5, <1>8 DEF TypeOK
    <2>4. MapsAgree' /\ OneOwner'
      <3>1. \/ UNCHANGED <<free, stack>>
            \/ free' = free \union {nwb[d]} /\ UNCHANGED stack
            \/ \E f \in Frames : stack' = stack \union {<<nwb[d], f>>} /\ UNCHANGED free
        BY <1>4, <2>2
      <3>2. nwb[d] # NULL
        BY <2>3
      <3> HIDE DEF pkt
      <3> QED
        BY <1>4, <2>1, <3>1, <3>2, UnmapKeepsMaps
    <2>5. refill' \subseteq Desc /\ status' \in BOOLEAN
      <3>1. (refill' = {d} \/ UNCHANGED refill) /\ (status' = FALSE \/ UNCHANGED status)
        BY <1>8 DEF RxPacket
      <3> HIDE DEF d
      <3> QED
        BY <1>1, <1>4, <3>1 DEF TypeOK
    <2>6. nwb' \in [Desc -> Bufs \union {NULL}] /\ virt_addr' \in [Places -> Bufs \union {NULL}]
      <3> HIDE DEF d, s
      <3> QED
        BY <1>1, <2>1 DEF TypeOK
    <2>7. content' \in [Bufs -> Frames \union {NULL}]
      <3>1. ram[s].frame \in Frames \union {NULL}
        BY <1>1, <1>5 DEF TypeOK
      <3> HIDE DEF b, s
      <3> QED
        BY <1>1, <2>1, <3>1 DEF TypeOK
    <2>8. free' \subseteq Bufs /\ stack' \subseteq Bufs \X Frames
      <3> HIDE DEF b, pkt
      <3> QED
        BY <1>1, <1>4, <2>2, <2>3 DEF TypeOK
    <2>9. TypeOK'
      BY <1>1, <1>3, <1>6, <2>5, <2>6, <2>7, <2>8 DEF TypeOK
    <2> QED
      BY <2>4, <2>9 DEF RxInv
  <1> QED
    BY <1>7, <1>8

LEMMA RxRefillKeepsInv ==
    ASSUME RxInv, RxRefill
    PROVE  RxInv'
  <1>1. TypeOK
    BY DEF RxInv
  <1>2. PICK d \in refill : \/ RxInitOk(d) /\ status' = TRUE
                            \/ RxInitFails(d) /\ status' = FALSE
    BY DEF RxRefill
  <1>3. d \in Desc
    BY <1>1, <1>2 DEF TypeOK
  <1>4. UNCHANGED <<state, next_desc, wire, work, stack, inits>> /\ refill' = {}
    BY DEF RxRefill
  <1>5. MapsAgree' /\ OneOwner'
    BY <1>2, <1>3, <1>4, ProvisionKeepsMaps
  <1>6. TypeOK'
    BY <1>1, <1>2, <1>3, <1>4, ProvisionType DEF TypeOK
  <1> QED
    BY <1>5, <1>6 DEF RxInv

LEMMA MessageKeepsInv ==
    ASSUME RxInv, TakeMessage \/ NextEvent
    PROVE  RxInv'
  <1>1. TypeOK
    BY DEF RxInv
  <1>2. UNCHANGED <<state, next_desc, nwb, refill, hal, mem, inits, starved>>
    BY DEF TakeMessage, NextEvent
  <1>3. MapsAgree' /\ OneOwner'
    BY <1>2, QuietKeepsMaps DEF hal, mem
  <1>4. wire' \in Seq(Seq(Event)) /\ work' \in Seq(Event)
    <2>1. wire \in Seq(Seq(Event)) /\ work \in Seq(Event)
      BY <1>1 DEF TypeOK
    <2>2. CASE TakeMessage
      BY <2>1, <2>2 DEF TakeMessage
    <2>3. CASE NextEvent
      <3>1. work' = Tail(work) \/ work' = <<>>
        BY <2>3 DEF NextEvent
      <3>2. work # <<>> /\ UNCHANGED wire
        BY <2>3 DEF NextEvent
      <3>3. Tail(work) \in Seq(Event) /\ <<>> \in Seq(Event)
        BY <2>1, <3>2, HeadTailProperties
      <3> QED
        BY <2>1, <3>1, <3>2, <3>3
    <2> QED
      BY <2>2, <2>3
  <1>5. status' \in BOOLEAN
    BY DEF TakeMessage, NextEvent
  <1>6. faults' \in 0 .. MAX_FAULTS
    <2>1. faults' = faults \/ (faults < MAX_FAULTS /\ faults' = faults + 1)
      BY DEF TakeMessage, NextEvent, Fail
    <2> QED
      BY <1>1, <2>1, BoundsAssumption DEF TypeOK
  <1>7. TypeOK'
    BY <1>1, <1>2, <1>4, <1>5, <1>6 DEF TypeOK, hal, mem
  <1> QED
    BY <1>3, <1>7 DEF RxInv

LEMMA StackFreesKeepsInv ==
    ASSUME RxInv, StackFrees
    PROVE  RxInv'
  <1>1. TypeOK /\ MapsAgree /\ OneOwner
    BY DEF RxInv
  <1>2. PICK held \in stack : stack' = stack \ {held} /\ free' = free \union {held[1]}
    BY DEF StackFrees
  <1>3. UNCHANGED <<state, next_desc, fmac, hal, content, inits, faults, starved>>
    BY DEF StackFrees
  <1>4. stack \subseteq Bufs \X Frames /\ free \subseteq Bufs
    BY <1>1 DEF TypeOK
  <1>5. TypeOK'
    <2>1. stack' \subseteq Bufs \X Frames /\ free' \subseteq Bufs
      BY <1>2, <1>4
    <2> QED
      BY <1>1, <1>3, <2>1 DEF TypeOK, fmac, hal
  <1>6. MapsAgree' /\ Mapped' = Mapped /\ UNCHANGED nwb
    BY <1>1, <1>3 DEF MapsAgree, Mapped, fmac, hal
  <1>7. InStack' = InStack \ {held[1]} /\ held[1] \in InStack
    BY <1>1, <1>2 DEF InStack, OneOwner
  <1>8. OneOwner'
    <2>1. \A h, g \in stack' : h[1] = g[1] => h = g
      BY <1>1, <1>2 DEF OneOwner
    <2> QED
      BY <1>1, <1>2, <1>6, <1>7, <2>1 DEF OneOwner
  <1> QED
    BY <1>5, <1>6, <1>8 DEF RxInv

LEMMA StepKeepsInv == RxInv /\ [Next]_vars => RxInv'
  <1> SUFFICES ASSUME RxInv, [Next]_vars PROVE RxInv'
    OBVIOUS
  <1>1. CASE Caller
    BY <1>1, CallerQuiet, InitRxKeepsInv, DeinitRxKeepsInv, DevRemKeepsInv DEF Caller
  <1>2. CASE Tasklet
    BY <1>2, MessageKeepsInv, RxPacketKeepsInv, RxRefillKeepsInv DEF Tasklet
  <1>3. CASE Rpu \/ StackFrees
    BY <1>3, RpuKeepsInv, StackFreesKeepsInv
  <1>4. CASE UNCHANGED vars
    <2>1. MapsAgree' /\ OneOwner'
      BY <1>4, QuietKeepsMaps DEF vars, fmac, hal, mem
    <2>2. TypeOK'
      BY <1>4 DEF vars, fmac, hal, mem, RxInv, TypeOK
    <2> QED
      BY <2>1, <2>2 DEF RxInv
  <1> QED
    BY <1>1, <1>2, <1>3, <1>4 DEF Next

-----------------------------------------------------------------------------
(* Theorems                                                                *)

THEOREM RxInvariant == Spec => []RxInv
  <1>1. Init => RxInv
    BY InitInv
  <1>2. RxInv /\ [Next]_vars => RxInv'
    BY StepKeepsInv
  <1> QED
    BY <1>1, <1>2, PTL DEF Spec

(* Every variable keeps its type, in dev_init, rx_event_process and        *)
(* dev_deinit alike.                                                       *)
THEOREM TypeCorrect == Spec => []TypeOK
  <1>1. RxInv => TypeOK
    BY DEF RxInv
  <1> QED
    BY <1>1, RxInvariant, PTL

(* The buffer of a descriptor in FMAC's rx_buf_info is always the one the  *)
(* HAL copies the frame into.                                              *)
THEOREM TablesAgree == Spec => []MapsAgree
  <1>1. RxInv => MapsAgree
    BY DEF RxInv
  <1> QED
    BY <1>1, RxInvariant, PTL

(* No buffer has two owners: what rx_event_process hands to the stack or   *)
(* frees is no longer mapped, and what nbuf_alloc returns is nobody's.     *)
THEOREM BuffersOwnedOnce == Spec => []OneOwner
  <1>1. RxInv => OneOwner
    BY DEF RxInv
  <1> QED
    BY <1>1, RxInvariant, PTL

(* The tables agree and every buffer has one owner, together.              *)
THEOREM BuffersCorrect == Spec => []BuffersExact
  <1>1. RxInv => BuffersExact
    BY DEF RxInv, BuffersExact
  <1> QED
    BY <1>1, RxInvariant, PTL

-----------------------------------------------------------------------------
(* What the RPU has told of and the driver has not handled: packet p is    *)
(* the k-th of event j, of type t, in message i of w, or for i = 0 in wk.  *)

Msg(w, wk, i) == IF i = 0 THEN wk ELSE w[i]

At(w, wk, i, j, k, t, p) ==
    /\ i \in 0 .. Len(w) /\ j \in DOMAIN Msg(w, wk, i) /\ k \in DOMAIN Msg(w, wk, i)[j].pkts
    /\ t = Msg(w, wk, i)[j].type /\ p = Msg(w, wk, i)[j].pkts[k]

Told(w, wk, t, p) == \E i, j, k : At(w, wk, i, j, k, t, p)

Once(w, wk) ==
    \A i, j, k, t, p, i2, j2, k2, t2, p2 :
        At(w, wk, i, j, k, t, p) /\ At(w, wk, i2, j2, k2, t2, p2) /\ p.id = p2.id
        => i = i2 /\ j = j2 /\ k = k2

Messages == Seq(Seq(Event))

LEMMA AtType ==
    ASSUME NEW w \in Messages, NEW wk \in Seq(Event), NEW i, NEW j, NEW k, NEW t, NEW p,
           At(w, wk, i, j, k, t, p)
    PROVE  /\ i \in 0 .. Len(w) /\ Msg(w, wk, i) \in Seq(Event) /\ j \in 1 .. Len(Msg(w, wk, i))
           /\ Msg(w, wk, i)[j] \in Event /\ Msg(w, wk, i)[j].pkts \in Seq(Packet)
           /\ k \in 1 .. Len(Msg(w, wk, i)[j].pkts)
           /\ t \in EventTypes /\ p \in Packet
  <1>1. i \in 0 .. Len(w) /\ Len(w) \in Nat
    BY DEF At, Messages
  <1>2. Msg(w, wk, i) \in Seq(Event)
    <2>1. CASE i = 0
      BY <2>1 DEF Msg
    <2>2. CASE i # 0
      BY <1>1, <2>2 DEF Msg, Messages
    <2> QED
      BY <2>1, <2>2
  <1>3. j \in 1 .. Len(Msg(w, wk, i)) /\ Msg(w, wk, i)[j] \in Event
    BY <1>2 DEF At
  <1>4. Msg(w, wk, i)[j].pkts \in Seq(Packet) /\ Msg(w, wk, i)[j].type \in EventTypes
    BY <1>3 DEF Event
  <1>5. k \in 1 .. Len(Msg(w, wk, i)[j].pkts) /\ Msg(w, wk, i)[j].pkts[k] \in Packet
    BY <1>4 DEF At
  <1> QED
    BY <1>1, <1>2, <1>3, <1>4, <1>5 DEF At

(* data_events_process takes the oldest message.                           *)
LEMMA TakenAt ==
    ASSUME NEW w \in Messages, w # <<>>
    PROVE  /\ \A t, p : Told(Tail(w), Head(w), t, p) <=> Told(w, <<>>, t, p)
           /\ Once(w, <<>>) => Once(Tail(w), Head(w))
  <1>1. /\ Len(w) \in Nat /\ Len(w) >= 1 /\ Len(Tail(w)) = Len(w) - 1 /\ Head(w) = w[1]
        /\ \A i \in 1 .. Len(w) - 1 : Tail(w)[i] = w[i + 1]
    BY DEF Messages
  <1>2. ASSUME NEW i \in 0 .. Len(w) - 1
        PROVE  Msg(Tail(w), Head(w), i) = Msg(w, <<>>, i + 1) /\ i + 1 \in 0 .. Len(w)
    BY <1>1, <1>2 DEF Msg
  <1>3. ASSUME NEW i, NEW j, NEW k, NEW t, NEW p, At(Tail(w), Head(w), i, j, k, t, p)
        PROVE  i \in Nat /\ At(w, <<>>, i + 1, j, k, t, p)
    <2>1. i \in 0 .. Len(w) - 1
      BY <1>1, <1>3 DEF At
    <2> QED
      BY <1>2, <1>3, <2>1 DEF At
  <1>4. ASSUME NEW i, NEW j, NEW k, NEW t, NEW p, At(w, <<>>, i, j, k, t, p)
        PROVE  At(Tail(w), Head(w), i - 1, j, k, t, p)
    <2>1. i # 0 /\ i \in 0 .. Len(w)
      BY <1>4 DEF At, Msg
    <2>2. i - 1 \in 0 .. Len(w) - 1 /\ (i - 1) + 1 = i
      BY <1>1, <2>1
    <2>3. Msg(Tail(w), Head(w), i - 1) = Msg(w, <<>>, i)
      BY <1>2, <2>2
    <2> QED
      BY <1>1, <1>4, <2>2, <2>3 DEF At
  <1>5. \A t, p : Told(Tail(w), Head(w), t, p) <=> Told(w, <<>>, t, p)
    BY <1>3, <1>4, Zenon DEF Told
  <1>6. ASSUME Once(w, <<>>) PROVE Once(Tail(w), Head(w))
    <2> SUFFICES ASSUME NEW i, NEW j, NEW k, NEW t, NEW p, NEW i2, NEW j2, NEW k2, NEW t2, NEW p2,
                        At(Tail(w), Head(w), i, j, k, t, p),
                        At(Tail(w), Head(w), i2, j2, k2, t2, p2), p.id = p2.id
                 PROVE  i = i2 /\ j = j2 /\ k = k2
      BY DEF Once
    <2>1. /\ At(w, <<>>, i + 1, j, k, t, p) /\ At(w, <<>>, i2 + 1, j2, k2, t2, p2)
          /\ i \in Nat /\ i2 \in Nat
      BY <1>3
    <2>2. i + 1 = i2 + 1 /\ j = j2 /\ k = k2
      BY <1>6, <2>1 DEF Once
    <2> QED
      BY <2>1, <2>2
  <1> QED
    BY <1>5, <1>6

(* The rest of a message is dropped.                                       *)
LEMMA DroppedAt ==
    ASSUME NEW w \in Messages, NEW wk \in Seq(Event)
    PROVE  /\ \A t, p : Told(w, <<>>, t, p) => Told(w, wk, t, p)
           /\ Once(w, wk) => Once(w, <<>>)
  <1>1. ASSUME NEW i, NEW j, NEW k, NEW t, NEW p, At(w, <<>>, i, j, k, t, p)
        PROVE  At(w, wk, i, j, k, t, p)
    BY <1>1 DEF At, Msg
  <1>2. \A t, p : Told(w, <<>>, t, p) => Told(w, wk, t, p)
    BY <1>1, Zenon DEF Told
  <1>3. Once(w, wk) => Once(w, <<>>)
    BY <1>1 DEF Once
  <1> QED
    BY <1>2, <1>3

(* An event whose packets are handled is left behind.                      *)
LEMMA FinishedAt ==
    ASSUME NEW w \in Messages, NEW wk \in Seq(Event), wk # <<>>, Head(wk).pkts = <<>>
    PROVE  /\ \A t, p : Told(w, Tail(wk), t, p) <=> Told(w, wk, t, p)
           /\ Once(w, wk) => Once(w, Tail(wk))
  <1>1. /\ Len(wk) \in Nat /\ Len(wk) >= 1 /\ Len(Tail(wk)) = Len(wk) - 1 /\ Head(wk) = wk[1]
        /\ \A j \in 1 .. Len(wk) - 1 : Tail(wk)[j] = wk[j + 1]
        /\ DOMAIN Tail(wk) = 1 .. Len(wk) - 1 /\ DOMAIN wk = 1 .. Len(wk)
    OBVIOUS
  <1>2. /\ Msg(w, Tail(wk), 0) = Tail(wk) /\ Msg(w, wk, 0) = wk
        /\ \A i : i # 0 => Msg(w, Tail(wk), i) = Msg(w, wk, i)
    BY DEF Msg
  <1>3. ASSUME NEW i, NEW j, NEW k, NEW t, NEW p, At(w, Tail(wk), i, j, k, t, p)
        PROVE  \/ i = 0 /\ j \in Nat /\ At(w, wk, 0, j + 1, k, t, p)
               \/ i # 0 /\ At(w, wk, i, j, k, t, p)
    <2>1. CASE i = 0
      <3>1. j \in 1 .. Len(wk) - 1 /\ Tail(wk)[j] = wk[j + 1] /\ j + 1 \in 1 .. Len(wk)
        BY <1>1, <1>2, <1>3, <2>1 DEF At
      <3> QED
        BY <1>1, <1>2, <1>3, <2>1, <3>1 DEF At
    <2>2. CASE i # 0
      BY <1>2, <1>3, <2>2 DEF At
    <2> QED
      BY <2>1, <2>2
  <1>4. ASSUME NEW i, NEW j, NEW k, NEW t, NEW p, At(w, wk, i, j, k, t, p)
        PROVE  Told(w, Tail(wk), t, p)
    <2>1. CASE i = 0
      <3>1. j \in 1 .. Len(wk) /\ j # 1
        BY <1>1, <1>2, <1>4, <2>1 DEF At
      <3>2. j - 1 \in 1 .. Len(wk) - 1 /\ Tail(wk)[j - 1] = wk[j]
        BY <1>1, <3>1
      <3>3. At(w, Tail(wk), 0, j - 1, k, t, p)
        BY <1>1, <1>2, <1>4, <2>1, <3>2 DEF At
      <3> QED
        BY <3>3, Zenon DEF Told
    <2>2. CASE i # 0
      <3>1. At(w, Tail(wk), i, j, k, t, p)
        BY <1>2, <1>4, <2>2 DEF At
      <3> QED
        BY <3>1, Zenon DEF Told
    <2> QED
      BY <2>1, <2>2
  <1>5. \A t, p : Told(w, Tail(wk), t, p) <=> Told(w, wk, t, p)
    <2>1. ASSUME NEW t, NEW p, Told(w, Tail(wk), t, p) PROVE Told(w, wk, t, p)
      BY <1>3, <2>1, Zenon DEF Told
    <2>2. ASSUME NEW t, NEW p, Told(w, wk, t, p) PROVE Told(w, Tail(wk), t, p)
      BY <1>4, <2>2, Zenon DEF Told
    <2> QED
      BY <2>1, <2>2, Zenon
  <1>6. ASSUME Once(w, wk) PROVE Once(w, Tail(wk))
    <2> SUFFICES ASSUME NEW i, NEW j, NEW k, NEW t, NEW p, NEW i2, NEW j2, NEW k2, NEW t2, NEW p2,
                        At(w, Tail(wk), i, j, k, t, p),
                        At(w, Tail(wk), i2, j2, k2, t2, p2), p.id = p2.id
                 PROVE  i = i2 /\ j = j2 /\ k = k2
      BY DEF Once
    <2>1. \/ i = 0 /\ j \in Nat /\ At(w, wk, 0, j + 1, k, t, p)
          \/ i # 0 /\ At(w, wk, i, j, k, t, p)
      BY <1>3, Zenon
    <2>2. \/ i2 = 0 /\ j2 \in Nat /\ At(w, wk, 0, j2 + 1, k2, t2, p2)
          \/ i2 # 0 /\ At(w, wk, i2, j2, k2, t2, p2)
      BY <1>3, Zenon
    <2>3. i = i2 /\ k = k2
      BY <1>6, <2>1, <2>2 DEF Once
    <2>4. CASE i = 0
      <3>1. j + 1 = j2 + 1 /\ j \in Nat /\ j2 \in Nat
        BY <1>6, <2>1, <2>2, <2>3, <2>4 DEF Once
      <3> QED
        BY <2>3, <3>1
    <2>5. CASE i # 0
      BY <1>6, <2>1, <2>2, <2>3, <2>5 DEF Once
    <2> QED
      BY <2>4, <2>5
  <1> QED
    BY <1>5, <1>6

(* One packet of a message is handled; nothing else tells of its descriptor.*)
LEMMA HandledAt ==
    ASSUME NEW w \in Messages, NEW wk \in Seq(Event), wk # <<>>, Head(wk).pkts # <<>>
    PROVE  LET v == [wk EXCEPT ![1].pkts = Tail(@)]
               pkt == Head(Head(wk).pkts)
           IN  /\ Told(w, wk, Head(wk).type, pkt)
               /\ \A t, p : Told(w, v, t, p) => Told(w, wk, t, p)
               /\ \A t, p : Told(w, wk, t, p) => Told(w, v, t, p) \/ p = pkt
               /\ Once(w, wk) => Once(w, v) /\ \A t, p : Told(w, v, t, p) => p.id # pkt.id
  <1>1. PICK event \in Event : event = Head(wk) /\ event = wk[1]
    OBVIOUS
  <1>2. event.pkts \in Seq(Packet) /\ event.pkts # <<>> /\ 1 \in DOMAIN wk
    BY <1>1 DEF Event
  <1>3. PICK rest : rest = Tail(event.pkts)
    OBVIOUS
  <1>4. /\ Len(event.pkts) \in Nat /\ Len(event.pkts) >= 1 /\ Len(rest) = Len(event.pkts) - 1
        /\ DOMAIN rest = 1 .. Len(event.pkts) - 1 /\ DOMAIN event.pkts = 1 .. Len(event.pkts)
        /\ \A k \in 1 .. Len(event.pkts) - 1 : rest[k] = event.pkts[k + 1]
        /\ Head(event.pkts) = event.pkts[1]
    BY <1>2, <1>3
  <1>5. PICK less : less = [event EXCEPT !.pkts = rest]
    OBVIOUS
  <1>6. less.pkts = rest /\ less.type = event.type
    BY <1>5 DEF Event
  <1>7. PICK v : v = [wk EXCEPT ![1].pkts = Tail(@)]
    OBVIOUS
  <1>8. v = [wk EXCEPT ![1] = less]
    BY <1>1, <1>2, <1>3, <1>5, <1>7
  <1>9. DOMAIN v = DOMAIN wk /\ v[1] = less /\ \A j : j # 1 => v[j] = wk[j]
    BY <1>2, <1>8
  <1>10. /\ Msg(w, v, 0) = v /\ Msg(w, wk, 0) = wk
         /\ \A i : i # 0 => Msg(w, v, i) = Msg(w, wk, i)
    BY DEF Msg
  <1>11. ASSUME NEW i, NEW j, NEW k, NEW t, NEW p, At(w, v, i, j, k, t, p)
         PROVE  \/ i = 0 /\ j = 1 /\ k \in Nat \ {0} /\ At(w, wk, 0, 1, k + 1, t, p)
                \/ ~(i = 0 /\ j = 1) /\ At(w, wk, i, j, k, t, p)
    <2>1. CASE i = 0 /\ j = 1
      <3>1. k \in 1 .. Len(event.pkts) - 1 /\ p = rest[k] /\ t = event.type
        BY <1>4, <1>6, <1>9, <1>10, <1>11, <2>1 DEF At
      <3>2. k \in Nat \ {0} /\ k + 1 \in 1 .. Len(event.pkts) /\ p = event.pkts[k + 1]
        BY <1>4, <3>1
      <3> QED
        BY <1>1, <1>2, <1>4, <1>10, <1>11, <2>1, <3>1, <3>2 DEF At
    <2>2. CASE ~(i = 0 /\ j = 1)
      BY <1>9, <1>10, <1>11, <2>2 DEF At
    <2> QED
      BY <2>1, <2>2
  <1>12. ASSUME NEW i, NEW j, NEW k, NEW t, NEW p, At(w, wk, i, j, k, t, p)
         PROVE  \/ i = 0 /\ j = 1 /\ k = 1 /\ p = event.pkts[1]
                \/ Told(w, v, t, p)
    <2>1. CASE i = 0 /\ j = 1
      <3>1. k \in 1 .. Len(event.pkts) /\ p = event.pkts[k] /\ t = event.type
        BY <1>1, <1>4, <1>10, <1>12, <2>1 DEF At
      <3>2. CASE k = 1
        BY <2>1, <3>1, <3>2
      <3>3. CASE k # 1
        <4>1. k - 1 \in 1 .. Len(event.pkts) - 1 /\ rest[k - 1] = event.pkts[k]
          BY <1>4, <3>1, <3>3
        <4>2. At(w, v, 0, 1, k - 1, t, p)
          BY <1>2, <1>4, <1>6, <1>9, <1>10, <1>12, <2>1, <3>1, <4>1 DEF At
        <4> QED
          BY <4>2, Zenon DEF Told
      <3> QED
        BY <3>2, <3>3
    <2>2. CASE ~(i = 0 /\ j = 1)
      <3>1. At(w, v, i, j, k, t, p)
        BY <1>9, <1>10, <1>12, <2>2 DEF At
      <3> QED
        BY <3>1, Zenon DEF Told
    <2> QED
      BY <2>1, <2>2
  <1>13. At(w, wk, 0, 1, 1, event.type, event.pkts[1])
    <2>1. 0 \in 0 .. Len(w)
      BY DEF Messages
    <2> QED
      BY <1>1, <1>2, <1>4, <1>10, <2>1 DEF At
  <1>14. ASSUME NEW t, NEW p, Told(w, v, t, p)
         PROVE  Told(w, wk, t, p)
    BY <1>11, <1>14, Zenon DEF Told
  <1>15. ASSUME Once(w, wk), NEW i, NEW j, NEW k, NEW t, NEW p, At(w, v, i, j, k, t, p)
         PROVE  p.id # event.pkts[1].id
    <2> SUFFICES ASSUME p.id = event.pkts[1].id PROVE FALSE
      OBVIOUS
    <2>1. \/ i = 0 /\ j = 1 /\ k \in Nat \ {0} /\ At(w, wk, 0, 1, k + 1, t, p)
          \/ ~(i = 0 /\ j = 1) /\ At(w, wk, i, j, k, t, p)
      BY <1>11, <1>15, Zenon
    <2>2. k \in Nat \ {0} /\ k + 1 = 1
      BY <1>13, <1>15, <2>1 DEF Once
    <2> QED
      BY <2>2
  <1>16. ASSUME Once(w, wk) PROVE Once(w, v)
    <2> SUFFICES ASSUME NEW i, NEW j, NEW k, NEW t, NEW p, NEW i2, NEW j2, NEW k2, NEW t2, NEW p2,
                        At(w, v, i, j, k, t, p), At(w, v, i2, j2, k2, t2, p2), p.id = p2.id
                 PROVE  i = i2 /\ j = j2 /\ k = k2
      BY DEF Once
    <2>1. \/ i = 0 /\ j = 1 /\ k \in Nat \ {0} /\ At(w, wk, 0, 1, k + 1, t, p)
          \/ ~(i = 0 /\ j = 1) /\ At(w, wk, i, j, k, t, p)
      BY <1>11, Zenon
    <2>2. \/ i2 = 0 /\ j2 = 1 /\ k2 \in Nat \ {0} /\ At(w, wk, 0, 1, k2 + 1, t2, p2)
          \/ ~(i2 = 0 /\ j2 = 1) /\ At(w, wk, i2, j2, k2, t2, p2)
      BY <1>11, Zenon
    <2>3. i = i2 /\ j = j2
      BY <1>16, <2>1, <2>2 DEF Once
    <2>4. CASE i = 0 /\ j = 1
      <3>1. k + 1 = k2 + 1 /\ k \in Nat /\ k2 \in Nat
        BY <1>16, <2>1, <2>2, <2>3, <2>4 DEF Once
      <3> QED
        BY <2>3, <3>1
    <2>5. CASE ~(i = 0 /\ j = 1)
      BY <1>16, <2>1, <2>2, <2>3, <2>5 DEF Once
    <2> QED
      BY <2>4, <2>5
  <1>17. /\ Told(w, wk, event.type, event.pkts[1])
         /\ \A t, p : Told(w, v, t, p) => Told(w, wk, t, p)
         /\ \A t, p : Told(w, wk, t, p) => Told(w, v, t, p) \/ p = event.pkts[1]
         /\ Once(w, wk) => Once(w, v) /\ \A t, p : Told(w, v, t, p) => p.id # event.pkts[1].id
    BY <1>12, <1>13, <1>14, <1>15, <1>16, Zenon DEF Told
  <1> QED
    BY <1>1, <1>4, <1>7, <1>17, Zenon

(* Event event is added, in a message of its own or to the last message.   *)
AddsEvent(w, v, event) ==
    \/ v = Append(w, <<event>>)
    \/ w # <<>> /\ v = [w EXCEPT ![Len(w)] = Append(@, event)]

(* Event b of message a of v is the new one, and the others are where they were. *)
Placed(w, v, event, a, b) ==
    /\ a \in Nat \ {0} /\ b \in Nat
    /\ a \in 0 .. Len(v) /\ b \in DOMAIN v[a] /\ v[a][b] = event
    /\ ~(a \in 0 .. Len(w) /\ b \in DOMAIN w[a])
    /\ \A i \in 1 .. Len(w) : \A j \in DOMAIN w[i] : v[i][j] = w[i][j]
    /\ \A i, j : \/ i = a /\ j = b
                 \/ i = 0
                 \/ (i \in 0 .. Len(v) /\ j \in DOMAIN v[i])
                      <=> (i \in 0 .. Len(w) /\ j \in DOMAIN w[i])

LEMMA AddedEvent ==
    ASSUME NEW w \in Messages, NEW v, NEW event \in Event, AddsEvent(w, v, event)
    PROVE  \E a, b : Placed(w, v, event, a, b)
  <1>1. Len(w) \in Nat /\ \A i \in 1 .. Len(w) : w[i] \in Seq(Event)
    BY DEF Messages
  <1>2. CASE v = Append(w, <<event>>)
    <2>1. /\ Len(v) = Len(w) + 1 /\ v[Len(w) + 1] = <<event>>
          /\ \A i \in 1 .. Len(w) : v[i] = w[i]
      BY <1>2 DEF Messages
    <2>2. DOMAIN <<event>> = 1 .. 1 /\ <<event>>[1] = event
      OBVIOUS
    <2>3. Placed(w, v, event, Len(w) + 1, 1)
      BY <1>1, <2>1, <2>2 DEF Placed
    <2> QED
      BY <2>3, Zenon
  <1>3. CASE w # <<>> /\ v = [w EXCEPT ![Len(w)] = Append(@, event)]
    <2>1. PICK n \in 1 .. Len(w), msg \in Seq(Event) : n = Len(w) /\ msg = w[n]
      BY <1>1, <1>3 DEF Messages
    <2>2. PICK msg2 : msg2 = Append(msg, event)
      OBVIOUS
    <2>3. PICK m \in Nat : m = Len(msg)
      OBVIOUS
    <2>4. /\ DOMAIN msg = 1 .. m /\ DOMAIN msg2 = 1 .. m + 1
          /\ msg2[m + 1] = event /\ \A j \in 1 .. m : msg2[j] = msg[j]
      BY <2>2, <2>3
    <2>5. v = [w EXCEPT ![n] = msg2]
      BY <1>3, <2>1, <2>2
    <2>6. /\ Len(v) = Len(w) /\ v[n] = msg2 /\ \A i : i # n => v[i] = w[i]
      BY <2>1, <2>5 DEF Messages
    <2>7. \A i \in 1 .. Len(w) : \A j \in DOMAIN w[i] : v[i][j] = w[i][j]
      BY <2>1, <2>4, <2>6
    <2>8. ASSUME NEW i, NEW j, ~(i = n /\ j = m + 1), i # 0
          PROVE  (i \in 0 .. Len(v) /\ j \in DOMAIN v[i])
                   <=> (i \in 0 .. Len(w) /\ j \in DOMAIN w[i])
      <3>1. CASE i = n
        <4>1. j \in 1 .. m + 1 <=> j \in 1 .. m
          BY <2>8, <3>1
        <4> QED
          BY <2>1, <2>4, <2>6, <3>1, <4>1
      <3>2. CASE i # n
        BY <2>6, <3>2
      <3> QED
        BY <3>1, <3>2
    <2>9. /\ n \in Nat \ {0} /\ m + 1 \in Nat /\ n \in 0 .. Len(v) /\ n \in 0 .. Len(w)
          /\ m + 1 \in 1 .. m + 1 /\ m + 1 \notin 1 .. m
      BY <1>1, <2>1, <2>6
    <2>10. /\ m + 1 \in DOMAIN v[n] /\ v[n][m + 1] = event /\ m + 1 \notin DOMAIN w[n]
      BY <2>1, <2>4, <2>6, <2>9
    <2>11. Placed(w, v, event, n, m + 1)
      BY <2>7, <2>8, <2>9, <2>10, Zenon DEF Placed
    <2> QED
      BY <2>11, Zenon
  <1> QED
    BY <1>2, <1>3 DEF AddsEvent

(* An event without packets tells of nothing.                              *)
LEMMA ReportedAt ==
    ASSUME NEW w \in Messages, NEW v \in Messages, NEW wk \in Seq(Event), NEW event \in Event,
           event.pkts = <<>>, AddsEvent(w, v, event)
    PROVE  /\ \A t, p : Told(v, wk, t, p) <=> Told(w, wk, t, p)
           /\ Once(w, wk) => Once(v, wk)
  <1>1. PICK a, b : Placed(w, v, event, a, b)
    BY AddedEvent
  <1>2. DOMAIN event.pkts = {}
    OBVIOUS
  <1>3. ASSUME NEW i, NEW j, NEW k, NEW t, NEW p
        PROVE  At(v, wk, i, j, k, t, p) <=> At(w, wk, i, j, k, t, p)
    <2>1. CASE i = 0
      <3>1. 0 \in 0 .. Len(w) /\ 0 \in 0 .. Len(v)
        BY DEF Messages
      <3> QED
        BY <2>1, <3>1 DEF At, Msg
    <2>2. CASE i # 0 /\ i = a /\ j = b
      BY <1>1, <1>2, <2>2 DEF At, Msg, Placed
    <2>3. CASE i # 0 /\ ~(i = a /\ j = b)
      <3>1. (i \in 0 .. Len(v) /\ j \in DOMAIN v[i]) <=> (i \in 0 .. Len(w) /\ j \in DOMAIN w[i])
        BY <1>1, <2>3, Zenon DEF Placed
      <3>2. i \in 0 .. Len(w) /\ j \in DOMAIN w[i] => v[i][j] = w[i][j]
        <4>1. i \in 0 .. Len(w) => i \in 1 .. Len(w)
          BY <2>3
        <4> QED
          BY <1>1, <4>1 DEF Placed
      <3> QED
        BY <2>3, <3>1, <3>2 DEF At, Msg
    <2> QED
      BY <2>1, <2>2, <2>3
  <1>4. \A t, p : Told(v, wk, t, p) <=> Told(w, wk, t, p)
    BY <1>3 DEF Told
  <1>5. Once(w, wk) => Once(v, wk)
    BY <1>3 DEF Once
  <1> QED
    BY <1>4, <1>5

(* One more packet is announced, at <<a, b, c>>.                           *)
AddsPacket(w, v, wk, a, b, c, type, pkt) ==
    \A i, j, k, t, p : At(v, wk, i, j, k, t, p)
      <=> \/ At(w, wk, i, j, k, t, p)
          \/ i = a /\ j = b /\ k = c /\ t = type /\ p = pkt

LEMMA AddedAt ==
    ASSUME NEW w \in Messages, NEW v \in Messages, NEW wk \in Seq(Event),
           NEW a, NEW b, NEW c, NEW type, NEW pkt, AddsPacket(w, v, wk, a, b, c, type, pkt)
    PROVE  /\ \A t, p : Told(v, wk, t, p) <=> Told(w, wk, t, p) \/ (t = type /\ p = pkt)
           /\ Once(w, wk) /\ (\A t, p : Told(w, wk, t, p) => p.id # pkt.id) => Once(v, wk)
  <1>1. ASSUME NEW i, NEW j, NEW k, NEW t, NEW p, At(v, wk, i, j, k, t, p)
        PROVE  \/ At(w, wk, i, j, k, t, p)
               \/ i = a /\ j = b /\ k = c /\ t = type /\ p = pkt
    BY <1>1 DEF AddsPacket
  <1>2. ASSUME NEW i, NEW j, NEW k, NEW t, NEW p,
               \/ At(w, wk, i, j, k, t, p)
               \/ i = a /\ j = b /\ k = c /\ t = type /\ p = pkt
        PROVE  At(v, wk, i, j, k, t, p)
    BY <1>2 DEF AddsPacket
  <1>3. ASSUME NEW t, NEW p, Told(v, wk, t, p)
        PROVE  Told(w, wk, t, p) \/ (t = type /\ p = pkt)
    <2>1. PICK i, j, k : At(v, wk, i, j, k, t, p)
      BY <1>3, Zenon DEF Told
    <2>2. CASE At(w, wk, i, j, k, t, p)
      BY <2>2, Zenon DEF Told
    <2> QED
      BY <1>1, <2>1, <2>2
  <1>4. ASSUME NEW t, NEW p, Told(w, wk, t, p) \/ (t = type /\ p = pkt)
        PROVE  Told(v, wk, t, p)
    BY <1>2, <1>4, Zenon DEF Told
  <1>5. ASSUME Once(w, wk), \A t, p : Told(w, wk, t, p) => p.id # pkt.id
        PROVE  Once(v, wk)
    <2> SUFFICES ASSUME NEW i, NEW j, NEW k, NEW t, NEW p, NEW i2, NEW j2, NEW k2, NEW t2, NEW p2,
                        At(v, wk, i, j, k, t, p), At(v, wk, i2, j2, k2, t2, p2), p.id = p2.id
                 PROVE  i = i2 /\ j = j2 /\ k = k2
      BY DEF Once
    <2>1. \/ At(w, wk, i, j, k, t, p) /\ Told(w, wk, t, p)
          \/ i = a /\ j = b /\ k = c /\ p = pkt
      <3>1. At(w, wk, i, j, k, t, p) => Told(w, wk, t, p)
        BY Zenon DEF Told
      <3> QED
        BY <1>1, <3>1
    <2>2. \/ At(w, wk, i2, j2, k2, t2, p2) /\ Told(w, wk, t2, p2)
          \/ i2 = a /\ j2 = b /\ k2 = c /\ p2 = pkt
      <3>1. At(w, wk, i2, j2, k2, t2, p2) => Told(w, wk, t2, p2)
        BY Zenon DEF Told
      <3> QED
        BY <1>1, <3>1
    <2>3. CASE At(w, wk, i, j, k, t, p) /\ At(w, wk, i2, j2, k2, t2, p2)
      BY <1>5, <2>3 DEF Once
    <2>4. CASE ~(At(w, wk, i, j, k, t, p) /\ At(w, wk, i2, j2, k2, t2, p2))
      <3>1. Told(w, wk, t, p) => p.id # pkt.id
        BY <1>5
      <3>2. Told(w, wk, t2, p2) => p2.id # pkt.id
        BY <1>5
      <3> QED
        BY <2>1, <2>2, <2>4, <3>1, <3>2
    <2> QED
      BY <2>3, <2>4
  <1> QED
    BY <1>3, <1>4, <1>5, Zenon

(* AddPacket adds one packet, in an event of its own or to the last event. *)
LEMMA PacketAdded ==
    ASSUME NEW w \in Messages, NEW v \in Messages, NEW wk \in Seq(Event),
           \A i \in 1 .. Len(w) : w[i] # <<>>,
           NEW type \in EventTypes, NEW pkt \in Packet,
           \/ AddsEvent(w, v, [type |-> type, pkts |-> <<pkt>>])
           \/ /\ w # <<>> /\ w[Len(w)][Len(w[Len(w)])].type = type
              /\ v = [w EXCEPT ![Len(w)][Len(w[Len(w)])].pkts = Append(@, pkt)]
    PROVE  \E a, b, c : AddsPacket(w, v, wk, a, b, c, type, pkt)
  <1>0. 0 \in 0 .. Len(w) /\ 0 \in 0 .. Len(v) /\ Len(w) \in Nat
        /\ \A i \in 1 .. Len(w) : w[i] \in Seq(Event)
    BY DEF Messages
  <1>1. CASE AddsEvent(w, v, [type |-> type, pkts |-> <<pkt>>])
    <2>1. PICK event : event = [type |-> type, pkts |-> <<pkt>>]
      OBVIOUS
    <2>2. /\ event \in Event /\ event.type = type /\ DOMAIN event.pkts = {1}
          /\ event.pkts[1] = pkt
      <3>1. <<pkt>> \in Seq(Packet) /\ DOMAIN <<pkt>> = {1} /\ <<pkt>>[1] = pkt
        OBVIOUS
      <3> QED
        BY <2>1, <3>1 DEF Event
    <2>3. PICK a, b : Placed(w, v, event, a, b)
      BY <1>1, <2>1, <2>2, AddedEvent
    <2>4. ASSUME NEW i, NEW j, NEW k, NEW t, NEW p
          PROVE  At(v, wk, i, j, k, t, p)
                   <=> \/ At(w, wk, i, j, k, t, p)
                       \/ i = a /\ j = b /\ k = 1 /\ t = type /\ p = pkt
      <3>1. CASE i = 0
        BY <1>0, <2>3, <3>1 DEF At, Msg, Placed
      <3>2. CASE i # 0 /\ i = a /\ j = b
        <4>1. /\ i \in 0 .. Len(v) /\ j \in DOMAIN v[i] /\ v[i][j] = event
              /\ ~(i \in 0 .. Len(w) /\ j \in DOMAIN w[i])
          BY <2>3, <3>2, Zenon DEF Placed
        <4>2. Msg(v, wk, i) = v[i] /\ Msg(w, wk, i) = w[i]
          BY <3>2 DEF Msg
        <4>3. k \in {1} <=> k = 1
          OBVIOUS
        <4>4. At(v, wk, i, j, k, t, p) <=> k = 1 /\ t = type /\ p = event.pkts[k]
          BY <2>2, <4>1, <4>2, <4>3, Zenon DEF At
        <4>5. ~At(w, wk, i, j, k, t, p)
          BY <4>1, <4>2, Zenon DEF At
        <4> QED
          BY <2>2, <3>2, <4>4, <4>5, Zenon
      <3>3. CASE i # 0 /\ ~(i = a /\ j = b)
        <4>1. (i \in 0 .. Len(v) /\ j \in DOMAIN v[i])
                <=> (i \in 0 .. Len(w) /\ j \in DOMAIN w[i])
          BY <2>3, <3>3, Zenon DEF Placed
        <4>2. i \in 0 .. Len(w) => i \in 1 .. Len(w)
          BY <3>3
        <4>3. i \in 0 .. Len(w) /\ j \in DOMAIN w[i] => v[i][j] = w[i][j]
          BY <2>3, <4>2, Zenon DEF Placed
        <4> QED
          BY <3>3, <4>1, <4>3 DEF At, Msg
      <3> QED
        BY <3>1, <3>2, <3>3
    <2>5. AddsPacket(w, v, wk, a, b, 1, type, pkt)
      BY <2>4 DEF AddsPacket
    <2> QED
      BY <2>5
  <1>2. CASE /\ w # <<>> /\ w[Len(w)][Len(w[Len(w)])].type = type
             /\ v = [w EXCEPT ![Len(w)][Len(w[Len(w)])].pkts = Append(@, pkt)]
    <2>1. PICK n \in 1 .. Len(w) : n = Len(w)
      <3>1. w # <<>> => Len(w) \in 1 .. Len(w)
        BY <1>0 DEF Messages
      <3> QED
        BY <1>2, <3>1, Zenon
    <2>2. PICK msg \in Seq(Event) : msg = w[n] /\ msg # <<>>
      BY <1>0, <2>1
    <2>3. PICK m \in 1 .. Len(msg) : m = Len(msg)
      <3>1. Len(msg) \in 1 .. Len(msg)
        BY <2>2
      <3> QED
        BY <3>1, Zenon
    <2>4. PICK event \in Event : event = msg[m]
      BY <2>3
    <2>5. PICK more : more = Append(event.pkts, pkt)
      OBVIOUS
    <2>6. PICK len \in Nat : len = Len(event.pkts)
      <3>1. Len(event.pkts) \in Nat
        BY <2>4 DEF Event
      <3> QED
        BY <3>1, Zenon
    <2>7. /\ DOMAIN more = 1 .. len + 1 /\ more[len + 1] = pkt /\ DOMAIN event.pkts = 1 .. len
          /\ \A k \in 1 .. len : more[k] = event.pkts[k]
      BY <2>5, <2>6 DEF Event
    <2>8. PICK event2 : event2 = [event EXCEPT !.pkts = more]
      OBVIOUS
    <2>9. event2.pkts = more /\ event2.type = type
      BY <1>2, <2>1, <2>2, <2>3, <2>4, <2>8 DEF Event
    <2>10. PICK msg2 : msg2 = [msg EXCEPT ![m] = event2]
      OBVIOUS
    <2>11. DOMAIN msg2 = DOMAIN msg /\ msg2[m] = event2 /\ \A j : j # m => msg2[j] = msg[j]
      BY <2>3, <2>10
    <2>12. v = [w EXCEPT ![n] = msg2]
      BY <1>2, <2>1, <2>2, <2>3, <2>4, <2>5, <2>8, <2>10
    <2>13. Len(v) = Len(w) /\ v[n] = msg2 /\ \A i : i # n => v[i] = w[i]
      BY <2>1, <2>12 DEF Messages
    <2>14. ASSUME NEW i, NEW j, NEW k, NEW t, NEW p
           PROVE  At(v, wk, i, j, k, t, p)
                    <=> \/ At(w, wk, i, j, k, t, p)
                        \/ i = n /\ j = m /\ k = len + 1 /\ t = type /\ p = pkt
      <3>1. CASE i = 0
        BY <1>0, <2>1, <3>1 DEF At, Msg
      <3>2. CASE i # 0 /\ i # n
        BY <2>13, <3>2 DEF At, Msg
      <3>3. CASE i = n /\ j # m
        <4>1. /\ Msg(v, wk, i) = msg2 /\ Msg(w, wk, i) = msg /\ i \in 0 .. Len(w)
              /\ i \in 0 .. Len(v)
          BY <1>0, <2>1, <2>2, <2>13, <3>3 DEF Msg
        <4> QED
          BY <2>11, <3>3, <4>1 DEF At
      <3>4. CASE i = n /\ j = m
        <4>1. /\ Msg(v, wk, i) = msg2 /\ Msg(w, wk, i) = msg /\ i \in 0 .. Len(w)
              /\ i \in 0 .. Len(v) /\ j \in DOMAIN msg /\ j \in DOMAIN msg2
          BY <1>0, <2>1, <2>2, <2>3, <2>11, <2>13, <3>4 DEF Msg
        <4>2. At(v, wk, i, j, k, t, p) <=> k \in DOMAIN more /\ t = type /\ p = more[k]
          BY <2>9, <2>11, <3>4, <4>1 DEF At
        <4>3. event.type = type
          BY <1>2, <2>1, <2>2, <2>3, <2>4
        <4>4. At(w, wk, i, j, k, t, p) <=> k \in 1 .. len /\ t = type /\ p = event.pkts[k]
          BY <2>4, <2>7, <3>4, <4>1, <4>3 DEF At
        <4>5. CASE k = len + 1
          BY <2>6, <2>7, <3>4, <4>2, <4>4, <4>5
        <4>6. CASE k # len + 1
          <5>1. k \in 1 .. len + 1 <=> k \in 1 .. len
            BY <4>6
          <5> QED
            BY <2>7, <4>2, <4>4, <4>6, <5>1
        <4> QED
          BY <4>5, <4>6
      <3> QED
        BY <3>1, <3>2, <3>3, <3>4
    <2>15. AddsPacket(w, v, wk, n, m, len + 1, type, pkt)
      BY <2>14 DEF AddsPacket
    <2> QED
      BY <2>15
  <1> QED
    BY <1>1, <1>2

-----------------------------------------------------------------------------
(* The packets announced, while the device is initialised and up.          *)

ToldNow(t, p) == Told(wire, work, t, p)

Backed(p) ==
    /\ virt_addr[map_desc_to_pool(p.id)] # NULL
    /\ map_desc_to_pool(p.id) \notin posted
    /\ ram[map_desc_to_pool(p.id)].frame = p.frame

Quiet ==
    /\ state # "up" => work = <<>>
    /\ refill # {} => work # <<>>
    /\ state \in {"down", "init", "wait"} => wire = <<>>
    /\ state = "down" => posted = {}
    /\ \A i \in 1 .. Len(wire) : wire[i] # <<>>
PostedBacked ==
    state \in {"down", "init", "wait", "up"} =>
        \A s \in posted : virt_addr[s] # NULL /\ map_desc_to_pool(ram[s].id) = s
AllBacked == state = "up" => \A t, p : ToldNow(t, p) => Backed(p)
AllOnce == state = "up" => Once(wire, work)

AnnInv == Quiet /\ PostedBacked /\ AllBacked /\ AllOnce

LEMMA ToldType ==
    ASSUME NEW w \in Messages, NEW wk \in Seq(Event), NEW t, NEW p, Told(w, wk, t, p)
    PROVE  t \in EventTypes /\ p \in Packet /\ p.id \in Desc
  <1>1. PICK i, j, k : At(w, wk, i, j, k, t, p)
    BY Zenon DEF Told
  <1>2. t \in EventTypes /\ p \in Packet
    BY <1>1, AtType
  <1> QED
    BY <1>2 DEF Packet

LEMMA NothingTold == Once(<<>>, <<>>) /\ \A t, p : ~Told(<<>>, <<>>, t, p)
  <1>1. ASSUME NEW i, NEW j, NEW k, NEW t, NEW p, At(<<>>, <<>>, i, j, k, t, p)
        PROVE  FALSE
    <2>1. i \in 0 .. 0 /\ j \in DOMAIN Msg(<<>>, <<>>, i)
      BY <1>1 DEF At
    <2>2. Msg(<<>>, <<>>, i) = <<>>
      BY <2>1 DEF Msg
    <2> QED
      BY <2>1, <2>2
  <1>2. \A t, p : ~Told(<<>>, <<>>, t, p)
    BY <1>1, Zenon DEF Told
  <1>3. Once(<<>>, <<>>)
    BY <1>1 DEF Once
  <1> QED
    BY <1>2, <1>3

(* The RPU's type of the messages and of the packets.                      *)
LEMMA Typed ==
    ASSUME RxInv
    PROVE  /\ wire \in Messages /\ work \in Seq(Event)
           /\ refill \subseteq Desc /\ posted \subseteq Places
           /\ nwb \in [Desc -> Bufs \union {NULL}]
           /\ virt_addr \in [Places -> Bufs \union {NULL}]
           /\ ram \in [Places -> [id : Desc, frame : Frames \union {NULL}]]
           /\ \A t, p : ToldNow(t, p) => t \in EventTypes /\ p \in Packet /\ p.id \in Desc
           /\ \A d \in Desc : map_desc_to_pool(d) \in Places
           /\ \A d, e \in Desc : map_desc_to_pool(d) = map_desc_to_pool(e) => d = e
           /\ \A d \in Desc : virt_addr[map_desc_to_pool(d)] = nwb[d]
  <1>1. wire \in Messages /\ work \in Seq(Event)
    BY DEF RxInv, TypeOK, Messages
  <1>2. /\ refill \subseteq Desc /\ posted \subseteq Places
        /\ nwb \in [Desc -> Bufs \union {NULL}]
        /\ virt_addr \in [Places -> Bufs \union {NULL}]
        /\ ram \in [Places -> [id : Desc, frame : Frames \union {NULL}]]
    BY DEF RxInv, TypeOK
  <1>3. \A t, p : ToldNow(t, p) => t \in EventTypes /\ p \in Packet /\ p.id \in Desc
    BY <1>1, ToldType DEF ToldNow
  <1>4. /\ \A d \in Desc : map_desc_to_pool(d) \in Places
        /\ \A d, e \in Desc : map_desc_to_pool(d) = map_desc_to_pool(e) => d = e
    BY PlacesInBounds
  <1>5. \A d \in Desc : virt_addr[map_desc_to_pool(d)] = nwb[d]
    BY DEF RxInv, MapsAgree
  <1> QED
    BY <1>1, <1>2, <1>3, <1>4, <1>5

LEMMA InitAnn == Init => AnnInv
  <1> SUFFICES ASSUME Init PROVE AnnInv
    OBVIOUS
  <1>1. state = "down" /\ wire = <<>> /\ work = <<>> /\ refill = {} /\ posted = {}
    BY DEF Init
  <1>2. Quiet
    BY <1>1 DEF Quiet
  <1>3. PostedBacked /\ AllBacked /\ AllOnce
    BY <1>1 DEF PostedBacked, AllBacked, AllOnce
  <1> QED
    BY <1>2, <1>3 DEF AnnInv

(* What provisioning does to the place of its descriptor, and to no other. *)
LEMMA ProvisionPlace ==
    ASSUME RxInv, NEW d \in Desc, RxInitOk(d) \/ RxInitFails(d)
    PROVE  LET s == map_desc_to_pool(d) IN
           \/ UNCHANGED <<virt_addr, ram, posted>> /\ RxInitFails(d)
           \/ /\ virt_addr[s] = NULL /\ virt_addr'[s] # NULL
              /\ ram'[s].id = d
              /\ \A r \in Places \ {s} : virt_addr'[r] = virt_addr[r] /\ ram'[r] = ram[r]
              /\ \/ posted' = posted \union {s} /\ RxInitOk(d)
                 \/ posted' = posted /\ RxInitFails(d)
  <1>1. PICK s \in Places : s = map_desc_to_pool(d)
    BY Typed
  <1>2. /\ virt_addr \in [Places -> Bufs \union {NULL}]
        /\ ram \in [Places -> [id : Desc, frame : Frames \union {NULL}]]
        /\ nwb[d] = NULL => virt_addr[s] = NULL
    BY <1>1, Typed
  <1>3. ASSUME NEW b \in Bufs, virt_addr[s] = NULL, BufMapRx(d, b)
        PROVE  /\ virt_addr'[s] # NULL /\ ram'[s].id = d
               /\ \A r \in Places \ {s} : virt_addr'[r] = virt_addr[r] /\ ram'[r] = ram[r]
    <2>1. /\ virt_addr' = [virt_addr EXCEPT ![s] = b]
          /\ ram' = [ram EXCEPT ![s] = [id |-> d, frame |-> NULL]]
      BY <1>1, <1>3 DEF BufMapRx
    <2> QED
      BY <1>2, <2>1, BufsAssumption
  <1>4. CASE RxInitOk(d)
    <2>1. nwb[d] = NULL /\ posted' = posted \union {s}
      BY <1>1, <1>4 DEF RxInitOk
    <2>2. PICK b \in Bufs : BufMapRx(d, b)
      BY <1>4 DEF RxInitOk
    <2> QED
      BY <1>1, <1>2, <1>3, <1>4, <2>1, <2>2
  <1>5. CASE RxInitFails(d)
    <2>1. \/ UNCHANGED hal
          \/ nwb[d] = NULL /\ posted' = posted /\ \E b \in Bufs : BufMapRx(d, b)
      BY <1>5 DEF RxInitFails, hal
    <2> QED
      BY <1>1, <1>2, <1>3, <1>5, <2>1 DEF hal
  <1> QED
    BY <1>4, <1>5

(* Provisioning leaves what is posted and what is announced backed.        *)
LEMMA ProvisionBacked ==
    ASSUME RxInv, NEW d \in Desc, RxInitOk(d) \/ RxInitFails(d)
    PROVE  /\ (\A s \in posted : virt_addr[s] # NULL /\ map_desc_to_pool(ram[s].id) = s)
              => \A s \in posted' : virt_addr'[s] # NULL /\ map_desc_to_pool(ram'[s].id) = s
           /\ \A p \in Packet : Backed(p) => Backed(p)'
  <1>1. PICK s \in Places : s = map_desc_to_pool(d)
    BY Typed
  <1>2. \/ UNCHANGED <<virt_addr, ram, posted>>
        \/ /\ virt_addr[s] = NULL /\ virt_addr'[s] # NULL
           /\ ram'[s].id = d
           /\ \A r \in Places \ {s} : virt_addr'[r] = virt_addr[r] /\ ram'[r] = ram[r]
           /\ posted' = posted \union {s} \/ posted' = posted
    BY <1>1, ProvisionPlace
  <1>3. posted \subseteq Places
    BY Typed
  <1>4. ASSUME NEW p \in Packet, Backed(p) PROVE Backed(p)'
    <2>1. PICK r \in Places : r = map_desc_to_pool(p.id)
      BY Typed DEF Packet
    <2>2. virt_addr[r] # NULL /\ r \notin posted /\ ram[r].frame = p.frame
      BY <1>4, <2>1 DEF Backed
    <2>3. virt_addr'[r] # NULL /\ r \notin posted' /\ ram'[r].frame = p.frame
      BY <1>2, <2>2
    <2> QED
      BY <2>1, <2>3 DEF Backed
  <1>5. ASSUME \A r \in posted : virt_addr[r] # NULL /\ map_desc_to_pool(ram[r].id) = r,
               NEW r \in posted'
        PROVE  virt_addr'[r] # NULL /\ map_desc_to_pool(ram'[r].id) = r
    <2>1. CASE r = s
      BY <1>1, <1>2, <1>5, <2>1
    <2>2. CASE r # s
      BY <1>2, <1>3, <1>5, <2>2
    <2> QED
      BY <2>1, <2>2
  <1> QED
    BY <1>4, <1>5

(* dev_init, dev_deinit and removal announce nothing.                      *)
LEMMA CallerKeepsAnn ==
    ASSUME RxInv, AnnInv, Caller
    PROVE  AnnInv'
  <1>1. Quiet /\ PostedBacked /\ AllBacked /\ AllOnce
    BY DEF AnnInv
  <1>2. CASE DevInit
    <2>1. state = "down" /\ state' = "init" /\ UNCHANGED <<wire, work, refill, hal>>
      BY <1>2 DEF DevInit, fmac
    <2>2. Quiet'
      BY <1>1, <2>1 DEF Quiet
    <2>3. PostedBacked'
      BY <1>1, <2>1 DEF PostedBacked, hal
    <2>4. AllBacked' /\ AllOnce'
      BY <2>1 DEF AllBacked, AllOnce
    <2> QED
      BY <2>2, <2>3, <2>4 DEF AnnInv
  <1>3. CASE InitRx
    <2>1. /\ state = "init" /\ state' \in {"init", "gone"} /\ UNCHANGED <<wire, work, refill>>
          /\ RxInitOk(next_desc) \/ RxInitFails(next_desc)
      BY <1>3 DEF InitRx
    <2>2. next_desc \in Desc
      BY <1>3, DescBounds DEF InitRx, RxInv, TypeOK, Desc
    <2>3. Quiet'
      BY <1>1, <2>1 DEF Quiet
    <2>4. PostedBacked'
      <3>1. \A s \in posted : virt_addr[s] # NULL /\ map_desc_to_pool(ram[s].id) = s
        BY <1>1, <2>1 DEF PostedBacked
      <3>2. \A s \in posted' : virt_addr'[s] # NULL /\ map_desc_to_pool(ram'[s].id) = s
        BY <2>1, <2>2, <3>1, ProvisionBacked
      <3> QED
        BY <3>2 DEF PostedBacked
    <2>5. AllBacked' /\ AllOnce'
      BY <2>1 DEF AllBacked, AllOnce
    <2> QED
      BY <2>3, <2>4, <2>5 DEF AnnInv
  <1>4. CASE UmacInit \/ InitWait
    <2>1. /\ UNCHANGED <<wire, work, refill, hal>>
          /\ state \in {"init", "wait"} /\ state' \in {"wait", "up", "deinit"}
      BY <1>4 DEF UmacInit, InitWait, fmac
    <2>2. wire = <<>> /\ work = <<>>
      BY <1>1, <2>1 DEF Quiet
    <2>3. Quiet'
      BY <1>1, <2>1, <2>2 DEF Quiet
    <2>4. PostedBacked'
      BY <1>1, <2>1 DEF PostedBacked, hal
    <2>5. AllBacked'
      BY <2>1, <2>2, NothingTold DEF AllBacked, ToldNow
    <2>6. AllOnce'
      BY <2>1, <2>2, NothingTold DEF AllOnce
    <2> QED
      BY <2>3, <2>4, <2>5, <2>6 DEF AnnInv
  <1>5. CASE DevDeinit \/ DeinitRx \/ DeinitRxDone
    <2>1. state' \in {"deinit", "gone"} /\ UNCHANGED <<wire, work, refill>> /\ work = <<>>
      <3>1. state' \in {"deinit", "gone"} /\ UNCHANGED <<wire, work, refill>>
        BY <1>5 DEF DevDeinit, DeinitRx, DeinitRxDone, fmac
      <3>2. work = <<>>
        BY <1>1, <1>5 DEF Quiet, DevDeinit, DeinitRx, DeinitRxDone
      <3> QED
        BY <3>1, <3>2
    <2>2. Quiet'
      BY <1>1, <2>1 DEF Quiet
    <2>3. PostedBacked' /\ AllBacked' /\ AllOnce'
      BY <2>1 DEF PostedBacked, AllBacked, AllOnce
    <2> QED
      BY <2>2, <2>3 DEF AnnInv
  <1>6. CASE DevRem
    <2>1. /\ state = "gone" /\ state' = "down" /\ wire' = <<>> /\ posted' = {}
          /\ UNCHANGED <<work, refill>>
      BY <1>6 DEF DevRem
    <2>2. Quiet'
      <3>1. 1 .. Len(wire') = {}
        BY <2>1
      <3> QED
        BY <1>1, <2>1, <3>1 DEF Quiet
    <2>3. PostedBacked' /\ AllBacked' /\ AllOnce'
      BY <2>1 DEF PostedBacked, AllBacked, AllOnce
    <2> QED
      BY <2>2, <2>3 DEF AnnInv
  <1> QED
    BY <1>2, <1>3, <1>4, <1>5, <1>6 DEF Caller

(* Taking a message or leaving an event announces nothing new, and drops   *)
(* nothing that is announced unless an event has failed.                   *)
LEMMA MessageTells ==
    ASSUME RxInv, AnnInv, TakeMessage \/ NextEvent
    PROVE  /\ \A t, p : ToldNow(t, p)' => ToldNow(t, p)
           /\ TakeMessage \/ work' = Tail(work) => \A t, p : ToldNow(t, p) => ToldNow(t, p)'
           /\ Once(wire, work) => Once(wire', work')
  <1>1. wire \in Messages /\ work \in Seq(Event)
    BY Typed
  <1>2. CASE TakeMessage
    <2>1. wire # <<>> /\ wire' = Tail(wire) /\ work' = Head(wire) /\ work = <<>>
      BY <1>2 DEF TakeMessage
    <2> QED
      BY <1>1, <2>1, TakenAt DEF ToldNow
  <1>3. CASE NextEvent /\ ~TakeMessage
    <2>1. wire' = wire /\ work # <<>> /\ Head(work).pkts = <<>>
      BY <1>3 DEF NextEvent
    <2>2. work' = Tail(work) \/ work' = <<>>
      BY <1>3 DEF NextEvent
    <2>3. CASE work' = Tail(work)
      BY <1>1, <2>1, <2>3, FinishedAt DEF ToldNow
    <2>4. CASE work' = <<>> /\ work' # Tail(work)
      BY <1>1, <1>3, <2>1, <2>4, DroppedAt DEF ToldNow
    <2> QED
      BY <2>2, <2>3, <2>4
  <1> QED
    BY <1>2, <1>3

LEMMA MessageKeepsAnn ==
    ASSUME RxInv, AnnInv, TakeMessage \/ NextEvent
    PROVE  AnnInv'
  <1>1. Quiet /\ PostedBacked /\ AllBacked /\ AllOnce /\ wire \in Messages
    BY Typed DEF AnnInv
  <1>2. UNCHANGED <<state, refill, virt_addr, ram, posted>> /\ state = "up" /\ refill' = {}
    BY <1>1 DEF TakeMessage, NextEvent, hal, Quiet
  <1>3. Quiet'
    <2>1. \A i \in 1 .. Len(wire') : wire'[i] # <<>>
      <3>1. CASE TakeMessage
        <4>1. wire # <<>> /\ wire' = Tail(wire)
          BY <3>1 DEF TakeMessage
        <4>2. /\ Len(wire) \in Nat /\ Len(wire') = Len(wire) - 1
              /\ \A i \in 1 .. Len(wire) - 1 : wire'[i] = wire[i + 1]
          BY <1>1, <4>1 DEF Messages
        <4> QED
          BY <1>1, <4>2 DEF Quiet
      <3>2. CASE NextEvent
        BY <1>1, <3>2 DEF Quiet, NextEvent
      <3> QED
        BY <3>1, <3>2
    <2> QED
      BY <1>2, <2>1 DEF Quiet
  <1>4. PostedBacked'
    BY <1>1, <1>2 DEF PostedBacked
  <1>5. AllBacked'
    <2>1. \A p : Backed(p)' <=> Backed(p)
      BY <1>2 DEF Backed
    <2> QED
      BY <1>1, <1>2, <2>1, MessageTells DEF AllBacked
  <1>6. AllOnce'
    BY <1>1, <1>2, MessageTells DEF AllOnce
  <1> QED
    BY <1>3, <1>4, <1>5, <1>6 DEF AnnInv

(* rx_event_process unmaps the place of the packet it handles, no other's. *)
LEMMA PacketTells ==
    ASSUME RxInv, AnnInv, RxPacket
    PROVE  \E pkt \in Packet, s \in Places :
             /\ pkt = Head(Head(work).pkts) /\ s = map_desc_to_pool(pkt.id)
             /\ pkt.id \in Desc /\ Backed(pkt) /\ ToldNow(Head(work).type, pkt)
             /\ \A t, p : ToldNow(t, p)' => ToldNow(t, p) /\ p.id # pkt.id
             /\ \A t, p : ToldNow(t, p) => ToldNow(t, p)' \/ p = pkt
             /\ Once(wire', work') /\ state = "up"
  <1>1. Quiet /\ AllBacked /\ AllOnce /\ wire \in Messages /\ work \in Seq(Event)
    BY Typed DEF AnnInv
  <1>2. /\ work # <<>> /\ Head(work).pkts # <<>>
        /\ work' = [work EXCEPT ![1].pkts = Tail(@)]
        /\ UNCHANGED wire /\ state = "up"
    BY <1>1 DEF RxPacket, Quiet
  <1>3. PICK pkt : pkt = Head(Head(work).pkts)
    OBVIOUS
  <1>4. /\ Told(wire, work, Head(work).type, pkt)
        /\ \A t, p : Told(wire, work', t, p) => Told(wire, work, t, p) /\ p.id # pkt.id
        /\ \A t, p : Told(wire, work, t, p) => Told(wire, work', t, p) \/ p = pkt
        /\ Once(wire, work')
    <2>1. Once(wire, work)
      BY <1>1, <1>2 DEF AllOnce
    <2> QED
      BY <1>1, <1>2, <1>3, <2>1, HandledAt
  <1>5. pkt \in Packet /\ pkt.id \in Desc /\ Backed(pkt)
    BY <1>1, <1>2, <1>4, Typed DEF AllBacked, ToldNow
  <1>6. map_desc_to_pool(pkt.id) \in Places
    BY <1>5, Typed
  <1>7. /\ \A t, p : ToldNow(t, p)' => ToldNow(t, p) /\ p.id # pkt.id
        /\ \A t, p : ToldNow(t, p) => ToldNow(t, p)' \/ p = pkt
        /\ Once(wire', work') /\ ToldNow(Head(work).type, pkt)
    BY <1>2, <1>4 DEF ToldNow
  <1> QED
    BY <1>2, <1>3, <1>5, <1>6, <1>7, Zenon

LEMMA PacketKeepsAnn ==
    ASSUME RxInv, AnnInv, RxPacket
    PROVE  AnnInv'
  <1>1. Quiet /\ PostedBacked /\ AllBacked /\ AllOnce
    BY DEF AnnInv
  <1>2. PICK pkt \in Packet, s \in Places :
             /\ pkt = Head(Head(work).pkts) /\ s = map_desc_to_pool(pkt.id)
             /\ pkt.id \in Desc /\ Backed(pkt)
             /\ \A t, p : ToldNow(t, p)' => ToldNow(t, p) /\ p.id # pkt.id
             /\ Once(wire', work') /\ state = "up"
    BY PacketTells
  <1>3. work # <<>> /\ work' # <<>> /\ UNCHANGED <<state, wire, ram, posted>>
    <2>1. /\ work # <<>> /\ UNCHANGED <<state, wire, ram, posted>>
          /\ work' = [work EXCEPT ![1].pkts = Tail(@)]
      BY DEF RxPacket
    <2> QED
      BY <2>1, Typed
  <1>4. virt_addr' = virt_addr \/ virt_addr' = [virt_addr EXCEPT ![s] = NULL]
    BY <1>2 DEF RxPacket, BufUnmapRx
  <1>5. \A r \in Places : r # s => virt_addr'[r] = virt_addr[r]
    BY <1>4, Typed
  <1>6. Quiet'
    BY <1>1, <1>2, <1>3 DEF Quiet
  <1>7. PostedBacked'
    <2>1. s \notin posted /\ posted \subseteq Places
      BY <1>2, Typed DEF Backed
    <2> QED
      BY <1>1, <1>3, <1>5, <2>1 DEF PostedBacked
  <1>8. AllBacked'
    <2> SUFFICES ASSUME NEW t, NEW p, ToldNow(t, p)' PROVE Backed(p)'
      BY DEF AllBacked
    <2>1. ToldNow(t, p) /\ p.id # pkt.id
      BY <1>2
    <2>2. Backed(p) /\ p.id \in Desc
      BY <1>1, <1>2, <2>1, Typed DEF AllBacked
    <2>3. PICK r \in Places : r = map_desc_to_pool(p.id)
      BY <2>2, Typed
    <2>4. r # s
      BY <1>2, <2>1, <2>2, <2>3, Typed
    <2> QED
      BY <1>3, <1>5, <2>2, <2>3, <2>4 DEF Backed
  <1>9. AllOnce'
    BY <1>2 DEF AllOnce
  <1> QED
    BY <1>6, <1>7, <1>8, <1>9 DEF AnnInv

LEMMA RefillKeepsAnn ==
    ASSUME RxInv, AnnInv, RxRefill
    PROVE  AnnInv'
  <1>1. Quiet /\ PostedBacked /\ AllBacked /\ AllOnce
    BY DEF AnnInv
  <1>2. PICK d \in Desc : RxInitOk(d) \/ RxInitFails(d)
    BY Typed DEF RxRefill
  <1>3. UNCHANGED <<state, wire, work>> /\ refill # {} /\ refill' = {} /\ state = "up"
    BY <1>1 DEF RxRefill, Quiet
  <1>4. Quiet'
    BY <1>1, <1>3 DEF Quiet
  <1>5. PostedBacked'
    <2>1. \A s \in posted : virt_addr[s] # NULL /\ map_desc_to_pool(ram[s].id) = s
      BY <1>1, <1>3 DEF PostedBacked
    <2>2. \A s \in posted' : virt_addr'[s] # NULL /\ map_desc_to_pool(ram'[s].id) = s
      BY <1>2, <2>1, ProvisionBacked
    <2> QED
      BY <2>2 DEF PostedBacked
  <1>6. AllBacked'
    <2> SUFFICES ASSUME NEW t, NEW p, ToldNow(t, p)' PROVE Backed(p)'
      BY DEF AllBacked
    <2>1. ToldNow(t, p)
      BY <1>3 DEF ToldNow
    <2>2. p \in Packet /\ Backed(p)
      BY <1>1, <1>3, <2>1, Typed DEF AllBacked
    <2> QED
      BY <1>2, <2>2, ProvisionBacked
  <1>7. AllOnce'
    BY <1>1, <1>3 DEF AllOnce
  <1> QED
    BY <1>4, <1>5, <1>6, <1>7 DEF AnnInv

-----------------------------------------------------------------------------
LEMMA StillFull ==
    ASSUME NEW w \in Messages, NEW v, NEW event \in Event, AddsEvent(w, v, event),
           \A i \in 1 .. Len(w) : w[i] # <<>>
    PROVE  \A i \in 1 .. Len(v) : v[i] # <<>>
  <1>1. Len(w) \in Nat /\ \A i \in 1 .. Len(w) : w[i] \in Seq(Event)
    BY DEF Messages
  <1>2. ASSUME NEW msg, v = Append(w, msg), msg # <<>>
        PROVE  \A i \in 1 .. Len(v) : v[i] # <<>>
    BY <1>1, <1>2 DEF Messages
  <1>3. ASSUME NEW msg, v = [w EXCEPT ![Len(w)] = msg], msg # <<>>
        PROVE  \A i \in 1 .. Len(v) : v[i] # <<>>
    BY <1>1, <1>3 DEF Messages
  <1>4. CASE v = Append(w, <<event>>)
    <2>1. PICK msg : msg = <<event>> /\ msg # <<>>
      <3>1. <<event>> # <<>>
        OBVIOUS
      <3> QED
        BY <3>1, Zenon
    <2>2. v = Append(w, msg)
      BY <1>4, <2>1, Zenon
    <2> QED
      BY <1>2, <2>1, <2>2
  <1>5. CASE w # <<>> /\ v = [w EXCEPT ![Len(w)] = Append(@, event)]
    <2>1. PICK last \in Seq(Event) : last = w[Len(w)]
      <3>1. w # <<>> => Len(w) \in 1 .. Len(w)
        BY <1>1 DEF Messages
      <3> QED
        BY <1>1, <1>5, <3>1, Zenon
    <2>2. v = [w EXCEPT ![Len(w)] = Append(last, event)] /\ Append(last, event) # <<>>
      BY <1>5, <2>1
    <2> QED
      BY <1>3, <2>2
  <1> QED
    BY <1>4, <1>5 DEF AddsEvent

(* The RPU announces one packet more, of a place it may fill.              *)
LEMMA AddPacketAt ==
    ASSUME RxInv, RxInv', Quiet, NEW type \in EventTypes, NEW pkt \in Packet, AddPacket(type, pkt)
    PROVE  /\ \A t, p : Told(wire', work, t, p) <=> Told(wire, work, t, p) \/ (t = type /\ p = pkt)
           /\ Once(wire, work) /\ (\A t, p : Told(wire, work, t, p) => p.id # pkt.id)
                => Once(wire', work)
           /\ \A i \in 1 .. Len(wire') : wire'[i] # <<>>
  <1>1. wire \in Messages /\ work \in Seq(Event) /\ wire' \in Messages
    BY DEF RxInv, TypeOK, Messages
  <1>2. \A i \in 1 .. Len(wire) : wire[i] # <<>>
    BY DEF Quiet
  <1>3. \/ AddsEvent(wire, wire', [type |-> type, pkts |-> <<pkt>>])
        \/ /\ wire # <<>> /\ wire[Len(wire)][Len(wire[Len(wire)])].type = type
           /\ wire' = [wire EXCEPT ![Len(wire)][Len(wire[Len(wire)])].pkts = Append(@, pkt)]
    BY DEF AddPacket, AddsEvent, Last
  <1>4. PICK a, b, c : AddsPacket(wire, wire', work, a, b, c, type, pkt)
    BY <1>1, <1>2, <1>3, PacketAdded
  <1>5. \A i \in 1 .. Len(wire') : wire'[i] # <<>>
    <2>1. Len(wire) \in Nat /\ \A i \in 1 .. Len(wire) : wire[i] \in Seq(Event)
      BY <1>1 DEF Messages
    <2>2. CASE AddsEvent(wire, wire', [type |-> type, pkts |-> <<pkt>>])
      <3>1. PICK event \in Event : event = [type |-> type, pkts |-> <<pkt>>]
        <4>1. <<pkt>> \in Seq(Packet)
          OBVIOUS
        <4> QED
          BY <4>1 DEF Event
      <3> QED
        BY <1>1, <1>2, <2>2, <3>1, StillFull
    <2>3. ASSUME NEW msg, wire' = [wire EXCEPT ![Len(wire)] = msg], msg # <<>>
          PROVE  \A i \in 1 .. Len(wire') : wire'[i] # <<>>
      BY <1>1, <1>2, <2>1, <2>3 DEF Messages
    <2>4. CASE /\ wire # <<>>
               /\ wire' = [wire EXCEPT ![Len(wire)][Len(wire[Len(wire)])].pkts = Append(@, pkt)]
      <3>1. PICK last \in Seq(Event) : last = wire[Len(wire)] /\ last # <<>>
        <4>1. wire # <<>> => Len(wire) \in 1 .. Len(wire)
          BY <1>1 DEF Messages
        <4> QED
          BY <1>2, <2>1, <2>4, <4>1, Zenon
      <3>2. PICK n : n = Len(wire[Len(wire)])
        BY Zenon
      <3>3. PICK last2 : last2 = [last EXCEPT ![n].pkts = Append(@, pkt)]
        BY Zenon
      <3>4. wire' = [wire EXCEPT ![Len(wire)] = last2]
        BY <2>4, <3>1, <3>2, <3>3
      <3>5. last2 # <<>>
        BY <3>1, <3>3
      <3> QED
        BY <2>3, <3>4, <3>5
    <2> QED
      BY <1>3, <2>2, <2>4
  <1> QED
    BY <1>1, <1>4, <1>5, AddedAt

LEMMA ReceivesTells ==
    ASSUME RxInv, RxInv', AnnInv, NEW s \in Places, NEW f \in Frames, RpuReceives(s, f)
    PROVE  \E type \in EventTypes, pkt \in Packet :
             /\ pkt.id = ram[s].id /\ pkt.frame = f
             /\ faults' = 0 => type \in {"Data", "Beacon"} /\ pkt.known
             /\ \A t, p : ToldNow(t, p) => p.id # pkt.id
             /\ \A t, p : ToldNow(t, p)' <=> ToldNow(t, p) \/ (t = type /\ p = pkt)
             /\ Once(wire', work)
             /\ \A i \in 1 .. Len(wire') : wire'[i] # <<>>
  <1>1. Quiet /\ PostedBacked /\ AllBacked /\ AllOnce
    BY DEF AnnInv
  <1>2. state = "up" /\ s \in posted /\ UNCHANGED work
    BY DEF RpuReceives
  <1>3. map_desc_to_pool(ram[s].id) = s
    BY <1>1, <1>2 DEF PostedBacked
  <1>4. PICK d \in Desc : d = ram[s].id
    BY Typed
  <1>5. \E type \in {"Data", "Beacon", "Unknown"}, known \in BOOLEAN :
          /\ AddPacket(type, [id |-> d, frame |-> f, known |-> known])
          /\ (type \in {"Data", "Beacon"} /\ known = TRUE) \/ faults' = faults + 1
    BY <1>4, Zenon DEF RpuReceives, Fail
  <1>6. PICK type \in EventTypes, known \in BOOLEAN :
          /\ AddPacket(type, [id |-> d, frame |-> f, known |-> known])
          /\ (type \in {"Data", "Beacon"} /\ known = TRUE) \/ faults' = faults + 1
    BY <1>5, Zenon DEF EventTypes
  <1>7. PICK pkt \in Packet : pkt = [id |-> d, frame |-> f, known |-> known]
    BY DEF Packet
  <1>8. AddPacket(type, pkt) /\ pkt.id = d /\ pkt.frame = f /\ pkt.known = known
    BY <1>6, <1>7
  <1>9. faults' = 0 => type \in {"Data", "Beacon"} /\ pkt.known
    <2>1. faults \in Nat
      BY BoundsAssumption DEF RxInv, TypeOK
    <2> QED
      BY <1>6, <1>8, <2>1
  <1>10. \A t, p : ToldNow(t, p) => p.id # pkt.id
    BY <1>1, <1>2, <1>3, <1>4, <1>8 DEF AllBacked, Backed
  <1>11. /\ \A t, p : ToldNow(t, p)' <=> ToldNow(t, p) \/ (t = type /\ p = pkt)
         /\ Once(wire', work)
         /\ \A i \in 1 .. Len(wire') : wire'[i] # <<>>
    <2>1. Once(wire, work) /\ \A t, p : Told(wire, work, t, p) => p.id # pkt.id
      BY <1>1, <1>2, <1>10 DEF AllOnce, ToldNow
    <2> QED
      BY <1>1, <1>2, <1>8, <2>1, AddPacketAt DEF ToldNow
  <1> QED
    BY <1>4, <1>8, <1>9, <1>10, <1>11, Zenon

LEMMA ReceivesKeepsAnn ==
    ASSUME RxInv, RxInv', AnnInv, NEW s \in Places, NEW f \in Frames, RpuReceives(s, f)
    PROVE  AnnInv'
  <1>1. Quiet /\ PostedBacked /\ AllBacked /\ AllOnce
    BY DEF AnnInv
  <1>2. /\ state = "up" /\ s \in posted /\ posted' = posted \ {s}
        /\ ram' = [ram EXCEPT ![s].frame = f]
        /\ UNCHANGED <<state, refill, work, virt_addr>>
    BY DEF RpuReceives
  <1>3. virt_addr[s] # NULL /\ map_desc_to_pool(ram[s].id) = s
    BY <1>1, <1>2 DEF PostedBacked
  <1>4. PICK d \in Desc : d = ram[s].id
    BY Typed
  <1>5. /\ ram'[s].frame = f /\ ram'[s].id = d
        /\ \A r \in Places : r # s => ram'[r] = ram[r]
    BY <1>2, <1>4, Typed
  <1>6. PICK type \in EventTypes, pkt \in Packet :
             /\ pkt.id = ram[s].id /\ pkt.frame = f
             /\ \A t, p : ToldNow(t, p)' <=> ToldNow(t, p) \/ (t = type /\ p = pkt)
             /\ Once(wire', work)
             /\ \A i \in 1 .. Len(wire') : wire'[i] # <<>>
    BY ReceivesTells
  <1>7. Quiet'
    BY <1>1, <1>2, <1>6 DEF Quiet
  <1>8. PostedBacked'
    <2>1. \A r \in posted' : r # s /\ r \in posted /\ r \in Places
      BY <1>2, Typed
    <2> QED
      BY <1>1, <1>2, <1>5, <2>1 DEF PostedBacked
  <1>9. AllBacked'
    <2> SUFFICES ASSUME NEW t, NEW p, ToldNow(t, p)' PROVE Backed(p)'
      BY DEF AllBacked
    <2>1. CASE p = pkt
      BY <1>2, <1>3, <1>5, <1>6, <2>1 DEF Backed
    <2>2. CASE p # pkt
      <3>1. Backed(p) /\ p.id \in Desc
        BY <1>1, <1>2, <1>6, <2>2, Typed DEF AllBacked
      <3>2. PICK r \in Places : r = map_desc_to_pool(p.id)
        BY <3>1, Typed
      <3> QED
        BY <1>2, <1>5, <3>1, <3>2 DEF Backed
    <2> QED
      BY <2>1, <2>2
  <1>10. AllOnce'
    BY <1>2, <1>6 DEF AllOnce
  <1> QED
    BY <1>7, <1>8, <1>9, <1>10 DEF AnnInv

LEMMA ReportsKeepsAnn ==
    ASSUME RxInv, RxInv', AnnInv, RpuReports
    PROVE  /\ AnnInv'
           /\ \A t, p : ToldNow(t, p)' <=> ToldNow(t, p)
  <1>1. Quiet /\ PostedBacked /\ AllBacked /\ AllOnce
    BY DEF AnnInv
  <1>2. state = "up" /\ UNCHANGED <<state, refill, work, virt_addr, ram, posted>>
    BY DEF RpuReports, hal
  <1>3. wire \in Messages /\ work \in Seq(Event) /\ wire' \in Messages
    BY DEF RxInv, TypeOK, Messages
  <1>4. PICK event \in Event : event = [type |-> "Other", pkts |-> <<>>]
    <2>1. <<>> \in Seq(Packet)
      OBVIOUS
    <2> QED
      BY <2>1 DEF Event, EventTypes
  <1>5. AddsEvent(wire, wire', event)
    BY <1>4 DEF RpuReports, AddsEvent
  <1>6. event.pkts = <<>>
    BY <1>4
  <1>7. /\ \A t, p : ToldNow(t, p)' <=> ToldNow(t, p)
        /\ Once(wire', work)
    BY <1>1, <1>2, <1>3, <1>5, <1>6, ReportedAt DEF ToldNow, AllOnce
  <1>8. Quiet'
    <2>1. \A i \in 1 .. Len(wire') : wire'[i] # <<>>
      BY <1>1, <1>3, <1>5, StillFull DEF Quiet
    <2> QED
      BY <1>1, <1>2, <2>1 DEF Quiet
  <1>9. PostedBacked'
    BY <1>1, <1>2 DEF PostedBacked
  <1>10. AllBacked'
    <2>1. \A p : Backed(p)' <=> Backed(p)
      BY <1>2 DEF Backed
    <2> QED
      BY <1>1, <1>2, <1>7, <2>1 DEF AllBacked
  <1>11. AllOnce'
    BY <1>2, <1>7 DEF AllOnce
  <1> QED
    BY <1>7, <1>8, <1>9, <1>10, <1>11 DEF AnnInv

LEMMA StillAnn ==
    ASSUME AnnInv, UNCHANGED <<state, refill, work, wire, virt_addr, ram, posted>>
    PROVE  AnnInv'
  <1>1. Quiet' /\ PostedBacked' /\ AllOnce'
    BY DEF AnnInv, Quiet, PostedBacked, AllOnce
  <1>2. AllBacked'
    BY DEF AnnInv, AllBacked, ToldNow, Backed
  <1> QED
    BY <1>1, <1>2 DEF AnnInv

LEMMA StepKeepsAnn == RxInv /\ AnnInv /\ [Next]_vars => AnnInv'
  <1> SUFFICES ASSUME RxInv, AnnInv, [Next]_vars PROVE AnnInv'
    OBVIOUS
  <1>1. RxInv'
    BY StepKeepsInv
  <1>2. CASE Caller
    BY <1>2, CallerKeepsAnn
  <1>3. CASE Tasklet
    BY <1>3, MessageKeepsAnn, PacketKeepsAnn, RefillKeepsAnn DEF Tasklet
  <1>4. CASE Rpu
    BY <1>1, <1>4, ReportsKeepsAnn, ReceivesKeepsAnn DEF Rpu
  <1>5. CASE StackFrees \/ UNCHANGED vars
    <2>1. UNCHANGED <<state, refill, work, wire, virt_addr, ram, posted>>
      BY <1>5 DEF StackFrees, vars, fmac, hal
    <2> QED
      BY <2>1, StillAnn
  <1> QED
    BY <1>2, <1>3, <1>4, <1>5 DEF Next

(* What rx_event_process may rely on of the packets announced to it.       *)
THEOREM AnnInvariant == Spec => [](RxInv /\ AnnInv)
  <1>1. Init => AnnInv
    BY InitAnn
  <1>2. RxInv /\ AnnInv /\ [Next]_vars => AnnInv'
    BY StepKeepsAnn
  <1> QED
    BY <1>1, <1>2, RxInvariant, PTL DEF Spec

(* The places of Announced are those Told speaks of.                       *)
LEMMA AnnouncedTold ==
    /\ \A x \in Announced :
         x = <<x[1], x[2], x[3]>> /\ \E t : At(wire, work, x[1], x[2], x[3], t, PacketAt(x))
    /\ \A i, j, k, t, p : At(wire, work, i, j, k, t, p)
                            => <<i, j, k>> \in Announced /\ PacketAt(<<i, j, k>>) = p
  <1>1. \A i : Msg(wire, work, i) = Message(i)
    BY DEF Msg, Message
  <1>2. ASSUME NEW x \in Announced
        PROVE  x = <<x[1], x[2], x[3]>> /\ \E t : At(wire, work, x[1], x[2], x[3], t, PacketAt(x))
    <2>0. PICK i \in 0 .. Len(wire) :
            x \in UNION {{<<i, j, k>> : k \in DOMAIN Message(i)[j].pkts} : j \in DOMAIN Message(i)}
      BY <1>2 DEF Announced
    <2>1. PICK j \in DOMAIN Message(i) : x \in {<<i, j, k>> : k \in DOMAIN Message(i)[j].pkts}
      BY <2>0
    <2>2. PICK k \in DOMAIN Message(i)[j].pkts : x = <<i, j, k>>
      BY <2>1
    <2>3. x[1] = i /\ x[2] = j /\ x[3] = k
      BY <2>2
    <2>4. PacketAt(x) = Message(i)[j].pkts[k]
      BY <2>3 DEF PacketAt
    <2>5. At(wire, work, i, j, k, Message(i)[j].type, PacketAt(x))
      BY <1>1, <2>4 DEF At
    <2> QED
      BY <2>2, <2>3, <2>5
  <1>3. ASSUME NEW i, NEW j, NEW k, NEW t, NEW p, At(wire, work, i, j, k, t, p)
        PROVE  <<i, j, k>> \in Announced /\ PacketAt(<<i, j, k>>) = p
    <2>1. /\ i \in 0 .. Len(wire) /\ j \in DOMAIN Message(i) /\ k \in DOMAIN Message(i)[j].pkts
          /\ p = Message(i)[j].pkts[k]
      BY <1>1, <1>3 DEF At
    <2>2. <<i, j, k>> \in {<<i, j, m>> : m \in DOMAIN Message(i)[j].pkts}
      BY <2>1
    <2>3. <<i, j, k>> \in Announced
      BY <2>1, <2>2 DEF Announced
    <2>4. PacketAt(<<i, j, k>>) = Message(i)[j].pkts[k]
      BY DEF PacketAt
    <2> QED
      BY <2>1, <2>3, <2>4
  <1> QED
    BY <1>2, <1>3

(* What the RPU may fill and what it has announced has a buffer in both    *)
(* tables, whatever fails, in init_rx, rx_event_process and rx_cmd_send.   *)
THEOREM PlacesBacked == Spec => []RpuPlacesBacked
  <1>1. RxInv /\ AnnInv => RpuPlacesBacked
    <2> SUFFICES ASSUME RxInv, AnnInv, state = "up" PROVE RpuPlacesBacked
      BY DEF RpuPlacesBacked
    <2>1. \A s \in posted : virt_addr[s] # NULL /\ map_desc_to_pool(ram[s].id) = s
      BY DEF AnnInv, PostedBacked
    <2>2. ASSUME NEW x \in Announced
          PROVE  /\ Backed(PacketAt(x))
                 /\ \A y \in Announced : PacketAt(y).id = PacketAt(x).id => x = y
      <3>1. PICK t : At(wire, work, x[1], x[2], x[3], t, PacketAt(x))
        BY AnnouncedTold
      <3>2. ToldNow(t, PacketAt(x))
        BY <3>1, Zenon DEF ToldNow, Told
      <3>3. Backed(PacketAt(x))
        BY <3>2 DEF AnnInv, AllBacked
      <3>4. ASSUME NEW y \in Announced, PacketAt(y).id = PacketAt(x).id
            PROVE  x = y
        <4>1. PICK u : At(wire, work, y[1], y[2], y[3], u, PacketAt(y))
          BY AnnouncedTold
        <4>2. Once(wire, work)
          BY DEF AnnInv, AllOnce
        <4>3. x[1] = y[1] /\ x[2] = y[2] /\ x[3] = y[3]
          BY <3>1, <3>4, <4>1, <4>2 DEF Once
        <4>4. x = <<x[1], x[2], x[3]>> /\ y = <<y[1], y[2], y[3]>>
          BY AnnouncedTold, Zenon
        <4> QED
          BY <4>3, <4>4
      <3> QED
        BY <3>3, <3>4
    <2> QED
      BY <2>1, <2>2 DEF RpuPlacesBacked, Backed
  <1> QED
    BY <1>1, AnnInvariant, PTL

-----------------------------------------------------------------------------
(* What a handled packet does to the buffers: none but its own is written. *)
LEMMA PacketEffect ==
    ASSUME RxInv, AnnInv, RxPacket
    PROVE  \E pkt \in Packet, b \in Bufs :
             LET type == Head(work).type  d == pkt.id IN
             /\ d \in Desc /\ ToldNow(type, pkt) /\ nwb[d] = b
             /\ \A t, p : ToldNow(t, p) => ToldNow(t, p)' \/ p = pkt
             /\ nwb' = [nwb EXCEPT ![d] = NULL]
             /\ content' = [content EXCEPT ![b] = pkt.frame]
             /\ \/ /\ type = "Data" /\ pkt.known
                   /\ stack' = stack \union {<<b, pkt.frame>>} /\ refill' = {d}
                   /\ UNCHANGED <<free, status>>
                \/ /\ type = "Data" /\ ~pkt.known
                   /\ status' = FALSE /\ UNCHANGED <<free, stack, refill>>
                \/ /\ type = "Beacon"
                   /\ free' = free \union {b} /\ refill' = {d}
                   /\ UNCHANGED <<stack, status>>
                \/ /\ type \notin {"Data", "Beacon"}
                   /\ free' = free \union {b} /\ status' = FALSE
                   /\ UNCHANGED <<stack, refill>>
  <1>1. PICK pkt \in Packet, s \in Places :
             /\ pkt = Head(Head(work).pkts) /\ s = map_desc_to_pool(pkt.id)
             /\ pkt.id \in Desc /\ Backed(pkt) /\ ToldNow(Head(work).type, pkt)
             /\ \A t, p : ToldNow(t, p) => ToldNow(t, p)' \/ p = pkt
    BY PacketTells
  <1>2. PICK d \in Desc : d = pkt.id
    BY <1>1
  <1>3. virt_addr[s] # NULL /\ ram[s].frame = pkt.frame
    BY <1>1 DEF Backed
  <1>4. PICK b \in Bufs : b = nwb[d] /\ b = virt_addr[s]
    BY <1>1, <1>2, <1>3, Typed
  <1>5. PICK type : type = Head(work).type
    BY Zenon
  <1>6. /\ BufUnmapRx(s)
        /\ nwb' = [nwb EXCEPT ![d] = NULL]
        /\ CASE type = "Data" /\ pkt.known ->
                          /\ stack' = stack \union {<<b, pkt.frame>>}
                          /\ refill' = {pkt.id}
                          /\ UNCHANGED <<free, status>>
             [] type = "Data" /\ ~pkt.known ->
                          /\ status' = FALSE
                          /\ UNCHANGED <<free, stack, refill>>
             [] type = "Beacon" ->
                          /\ free' = free \union {b}
                          /\ refill' = {pkt.id}
                          /\ UNCHANGED <<stack, status>>
             [] OTHER ->
                          /\ free' = free \union {b}
                          /\ status' = FALSE
                          /\ UNCHANGED <<stack, refill>>
    BY <1>1, <1>2, <1>3, <1>4, <1>5 DEF RxPacket
  <1>7. content' = [content EXCEPT ![b] = pkt.frame]
    BY <1>3, <1>4, <1>6 DEF BufUnmapRx
  <1>8. \/ /\ type = "Data" /\ pkt.known
           /\ stack' = stack \union {<<b, pkt.frame>>} /\ refill' = {d}
           /\ UNCHANGED <<free, status>>
        \/ /\ type = "Data" /\ ~pkt.known
           /\ status' = FALSE /\ UNCHANGED <<free, stack, refill>>
        \/ /\ type = "Beacon"
           /\ free' = free \union {b} /\ refill' = {d}
           /\ UNCHANGED <<stack, status>>
        \/ /\ type \notin {"Data", "Beacon"}
           /\ free' = free \union {b} /\ status' = FALSE
           /\ UNCHANGED <<stack, refill>>
    BY <1>2, <1>6
  <1> QED
    BY <1>1, <1>2, <1>4, <1>5, <1>6, <1>7, <1>8

(* The rest of the event processing and the callers write no buffer the    *)
(* stack holds.                                                            *)
LEMMA KeepsHeld ==
    ASSUME RxInv, Next, NEW h \in stack
    PROVE  content'[h[1]] = content[h[1]]
  <1> DEFINE b == h[1]
  <1>1. /\ b \in Bufs /\ b \in InStack /\ b \notin Mapped /\ b \notin free
        /\ content \in [Bufs -> Frames \union {NULL}]
        /\ refill \subseteq Desc /\ work \in Seq(Event) /\ MapsAgree
    BY DEF RxInv, TypeOK, OneOwner, InStack
  <1>2. ASSUME NEW d, RxInitOk(d) \/ RxInitFails(d)
        PROVE  content'[b] = content[b]
    <2>1. content' = content \/ \E c \in free : content' = [content EXCEPT ![c] = NULL]
      BY <1>2 DEF RxInitOk, RxInitFails, Allocate
    <2> HIDE DEF b
    <2> QED
      BY <1>1, <2>1
  <1>3. CASE RxPacket
    <2> DEFINE pkt == Head(Head(work).pkts)
               s   == map_desc_to_pool(pkt.id)
    <2>1. pkt.id \in Desc
      BY <1>1, <1>3, WorkType DEF RxPacket, Packet
    <2>2. \/ UNCHANGED content
          \/ virt_addr[s] # NULL /\ content' = [content EXCEPT ![virt_addr[s]] = ram[s].frame]
      BY <1>3 DEF RxPacket, BufUnmapRx
    <2>3. virt_addr[s] # NULL => virt_addr[s] \in Mapped
      BY <1>1, <2>1 DEF MapsAgree, Mapped
    <2>4. content'[b] = content[b]
      <3> HIDE DEF b, s
      <3> QED
        BY <1>1, <2>2, <2>3
    <2> QED
      BY <2>4
  <1>4. CASE InitRx
    BY <1>2, <1>4 DEF InitRx
  <1>5. CASE RxRefill
    BY <1>2, <1>5 DEF RxRefill
  <1>6. CASE Caller /\ ~InitRx
    <2>1. UNCHANGED content
      BY <1>6 DEF Caller, DevInit, UmacInit, InitWait, DevDeinit, DeinitRx, DeinitRxDone, DevRem,
                  mem
    <2> QED
      BY <2>1
  <1>7. CASE TakeMessage \/ NextEvent \/ Rpu \/ StackFrees
    <2>1. UNCHANGED content
      BY <1>7 DEF TakeMessage, NextEvent, Rpu, RpuReports, RpuReceives, StackFrees, mem
    <2> QED
      BY <2>1
  <1> QED
    BY <1>3, <1>4, <1>5, <1>6, <1>7 DEF Next, Tasklet

(* What the stack was given is not written again before the stack frees it:*)
(* the HAL only copies into mapped buffers, and allocation returns free    *)
(* ones.                                                                   *)
THEOREM HeldUntouched ==
    Spec => [][\A h \in stack \intersect stack' : content'[h[1]] = content[h[1]]]_vars
  <1>1. RxInv /\ [Next]_vars
          => [\A h \in stack \intersect stack' : content'[h[1]] = content[h[1]]]_vars
    BY KeepsHeld
  <1> QED
    BY <1>1, RxInvariant, PTL DEF Spec

(* The stack's buffers: only rx_event_process gives it one.                *)
LEMMA StepKeepsDelivered ==
    RxInv /\ AnnInv /\ DeliveredIntact /\ [Next]_vars => DeliveredIntact'
  <1> SUFFICES ASSUME RxInv, AnnInv, DeliveredIntact, [Next]_vars, NEW held \in stack'
               PROVE  content'[held[1]] = held[2]
    BY DEF DeliveredIntact
  <1>1. CASE held \in stack
    <2>1. content[held[1]] = held[2]
      BY <1>1 DEF DeliveredIntact
    <2>2. CASE Next
      BY <1>1, <2>1, <2>2, KeepsHeld
    <2>3. CASE UNCHANGED vars
      BY <2>1, <2>3 DEF vars, mem
    <2> QED
      BY <2>2, <2>3
  <1>2. CASE held \notin stack
    <2>1. RxPacket
      <3>1. CASE UNCHANGED vars
        BY <1>2, <3>1 DEF vars, mem
      <3>2. CASE StackFrees
        BY <1>2, <3>2 DEF StackFrees
      <3>3. CASE Caller \/ TakeMessage \/ RxRefill \/ NextEvent \/ Rpu
        <4>1. UNCHANGED stack
          BY <3>3 DEF Caller, DevInit, InitRx, UmacInit, InitWait, DevDeinit, DeinitRx,
                      DeinitRxDone, DevRem, TakeMessage, RxRefill, NextEvent, Rpu, RpuReports,
                      RpuReceives, mem
        <4> QED
          BY <1>2, <4>1
      <3> QED
        BY <3>1, <3>2, <3>3 DEF Next, Tasklet
    <2>2. PICK pkt \in Packet, b \in Bufs :
             /\ content' = [content EXCEPT ![b] = pkt.frame]
             /\ stack' = stack \union {<<b, pkt.frame>>} \/ UNCHANGED stack
      BY <2>1, PacketEffect
    <2>3. held = <<b, pkt.frame>>
      BY <1>2, <2>2
    <2>4. content'[b] = pkt.frame
      BY <2>2 DEF RxInv, TypeOK
    <2> QED
      BY <2>3, <2>4
  <1> QED
    BY <1>1, <1>2

(* The stack gets the frame the RPU announced and keeps it until it frees  *)
(* the buffer: buf_unmap_rx copies into the buffer that FMAC passes on.    *)
THEOREM DeliveredCorrect == Spec => []DeliveredIntact
  <1>1. Init => DeliveredIntact
    BY DEF Init, DeliveredIntact
  <1>2. RxInv /\ AnnInv /\ DeliveredIntact /\ [Next]_vars => DeliveredIntact'
    BY StepKeepsDelivered
  <1> QED
    BY <1>1, <1>2, AnnInvariant, PTL DEF Spec

-----------------------------------------------------------------------------
(* No descriptor is stranded and no buffer leaks.                          *)

\* While nothing has failed every announced packet is one the driver knows how to
\* handle, and an event fails only when there is no memory.
Sound ==
    faults = 0 => /\ \A t, p : ToldNow(t, p) => t \in {"Data", "Beacon"} /\ p.known
                  /\ ~starved => status

\* The one descriptor about to be provisioned has no buffer.
Clear ==
    /\ \A d \in refill : nwb[d] = NULL
    /\ \A d, e \in refill : d = e

\* Where the callers of init_rx and deinit_rx are.
Callers ==
    /\ inits = 0 => ~starved /\ state = "down"
    /\ state = "down" => \A d \in Desc : nwb[d] = NULL
    /\ faults = 0 /\ ~starved =>
         /\ state = "init" =>
              \A d \in Desc :
                IF d < next_desc THEN map_desc_to_pool(d) \in posted ELSE nwb[d] = NULL
         /\ state = "wait" => \A d \in Desc : map_desc_to_pool(d) \in posted
         /\ state = "deinit" => \A d \in Desc : nwb[d] = NULL <=> d < next_desc
         /\ state = "gone" => \A d \in Desc : nwb[d] = NULL

\* NoneStranded, in terms of what the RPU has told of.
Accounted(d) ==
    map_desc_to_pool(d) \in posted \/ d \in refill \/ \E t, p : ToldNow(t, p) /\ p.id = d
AllAccounted == state = "up" /\ faults = 0 /\ ~starved => \A d \in Desc : Accounted(d)

MissInv == Sound /\ Clear /\ Callers /\ AllAccounted /\ NoneLeaked

\* What a step cannot undo.
LEMMA Onward ==
    ASSUME RxInv, Next
    PROVE  /\ faults \in Nat /\ (faults' = 0 => faults = 0) /\ (~starved' => ~starved)
           /\ (DevInit /\ inits' = inits + 1) \/ (~DevInit /\ UNCHANGED inits)
           /\ inits \in Nat
  <1>1. faults \in Nat /\ inits \in Nat /\ starved \in BOOLEAN
    BY BoundsAssumption DEF RxInv, TypeOK
  <1>2. ASSUME NEW d, RxInitOk(d) \/ RxInitFails(d)
        PROVE  (faults' = faults \/ faults' = faults + 1) /\ (starved' = starved \/ starved' = TRUE)
    BY <1>2 DEF RxInitOk, RxInitFails, Fail
  <1>3. (faults' = faults \/ faults' = faults + 1) /\ (starved' = starved \/ starved' = TRUE)
    <2>1. CASE InitRx
      BY <1>2, <2>1 DEF InitRx
    <2>2. CASE RxRefill
      BY <1>2, <2>2 DEF RxRefill
    <2>3. CASE Caller /\ ~InitRx
      BY <2>3 DEF Caller, DevInit, UmacInit, InitWait, DevDeinit, DeinitRx, DeinitRxDone, DevRem,
                  Fail
    <2>4. CASE TakeMessage \/ RxPacket \/ NextEvent \/ StackFrees
      BY <2>4 DEF TakeMessage, RxPacket, NextEvent, StackFrees, Fail
    <2>5. CASE RpuReports
      BY <2>5 DEF RpuReports
    <2>6. ASSUME NEW s, NEW f, RpuReceives(s, f)
          PROVE  (faults' = faults \/ faults' = faults + 1) /\ starved' = starved
      <3>1. UNCHANGED starved
        BY <2>6 DEF RpuReceives
      <3>2. faults' = faults \/ faults' = faults + 1
        BY <2>6, Zenon DEF RpuReceives, Fail
      <3> QED
        BY <3>1, <3>2
    <2> QED
      BY <2>1, <2>2, <2>3, <2>4, <2>5, <2>6 DEF Next, Tasklet, Rpu
  <1>4. (DevInit /\ inits' = inits + 1) \/ (~DevInit /\ UNCHANGED inits)
    <2>1. CASE DevInit
      <3>1. inits' = inits + 1
        BY <2>1, Zenon DEF DevInit
      <3> QED
        BY <2>1, <3>1, Zenon
    <2>2. CASE ~DevInit
      BY <2>2 DEF Next, Caller, Tasklet, Rpu, InitRx, UmacInit, InitWait, DevDeinit, DeinitRx,
                  DeinitRxDone, DevRem, TakeMessage, RxPacket, RxRefill, NextEvent, RpuReports,
                  RpuReceives, StackFrees
    <2> QED
      BY <2>1, <2>2
  <1> QED
    BY <1>1, <1>3, <1>4

(* Without a failure and with memory, provisioning a descriptor without a  *)
(* buffer succeeds.                                                        *)
LEMMA ProvisionSucceeds ==
    ASSUME RxInv, NEW d \in Desc, nwb[d] = NULL, RxInitOk(d) \/ RxInitFails(d),
           faults' = 0, ~starved'
    PROVE  /\ RxInitOk(d)
           /\ map_desc_to_pool(d) \in posted' /\ posted \subseteq posted'
           /\ \A e \in Desc : e # d => nwb'[e] = nwb[e]
  <1>1. faults \in Nat
    BY BoundsAssumption DEF RxInv, TypeOK
  <1>2. ~RxInitFails(d)
    BY <1>1 DEF RxInitFails, Fail
  <1>3. RxInitOk(d)
    BY <1>2
  <1>4. posted' = posted \union {map_desc_to_pool(d)}
    BY <1>3 DEF RxInitOk
  <1>5. PICK b : nwb' = [nwb EXCEPT ![d] = b]
    BY <1>3 DEF RxInitOk
  <1> QED
    BY <1>3, <1>4, <1>5, Typed

(* Provisioning takes a buffer from the free ones for the descriptor, and  *)
(* loses one only by a failure.                                            *)
LEMMA ProvisionKeepsBuffers ==
    ASSUME RxInv, NEW d \in Desc, RxInitOk(d) \/ RxInitFails(d), faults' = 0,
           UNCHANGED stack, Bufs = free \union InStack \union Mapped
    PROVE  Bufs = free' \union InStack' \union Mapped'
  <1>1. faults \in Nat /\ nwb \in [Desc -> Bufs \union {NULL}] /\ free \subseteq Bufs
    BY BoundsAssumption DEF RxInv, TypeOK
  <1>2. InStack' = InStack
    BY DEF InStack
  <1>3. \/ UNCHANGED <<nwb, free>>
        \/ \E b \in free : free' = free \ {b} /\ nwb[d] = NULL /\ nwb' = [nwb EXCEPT ![d] = b]
    <2>1. CASE RxInitOk(d)
      BY <2>1 DEF RxInitOk, Allocate
    <2>2. CASE RxInitFails(d)
      BY <1>1, <2>2 DEF RxInitFails, Fail
    <2> QED
      BY <2>1, <2>2
  <1>4. CASE UNCHANGED <<nwb, free>>
    BY <1>2, <1>4 DEF Mapped
  <1>5. ASSUME NEW b \in free, free' = free \ {b}, nwb[d] = NULL, nwb' = [nwb EXCEPT ![d] = b]
        PROVE  Bufs = free' \union InStack' \union Mapped'
    <2>1. b \in Bufs /\ b # NULL
      BY <1>1, BufsAssumption
    <2>2. nwb'[d] = b /\ \A e \in Desc : e # d => nwb'[e] = nwb[e]
      BY <1>1, <1>5
    <2>3. \A c : c \in Mapped' <=> c \in Mapped \/ c = b
      BY <1>5, <2>1, <2>2 DEF Mapped
    <2> QED
      BY <1>1, <1>2, <1>5, <2>3
  <1> QED
    BY <1>3, <1>4, <1>5

LEMMA InitMiss == Init => MissInv
  <1> SUFFICES ASSUME Init PROVE MissInv
    OBVIOUS
  <1>1. wire = <<>> /\ work = <<>> /\ refill = {} /\ status = TRUE /\ faults = 0 /\ starved = FALSE
        /\ state = "down" /\ inits = 0 /\ free = Bufs /\ stack = {}
    BY DEF Init
  <1>2. \A d \in Desc : nwb[d] = NULL
    BY DEF Init
  <1>3. Sound
    BY <1>1, NothingTold DEF Sound, ToldNow
  <1>4. Clear /\ Callers /\ AllAccounted
    BY <1>1, <1>2 DEF Clear, Callers, AllAccounted
  <1>5. NoneLeaked
    <2>1. InStack = {} /\ Mapped = {}
      BY <1>1, <1>2 DEF InStack, Mapped
    <2> QED
      BY <1>1, <2>1 DEF NoneLeaked
  <1> QED
    BY <1>3, <1>4, <1>5 DEF MissInv

LEMMA StepKeepsSound ==
    ASSUME RxInv, RxInv', AnnInv, Sound, Clear, Next
    PROVE  Sound'
  <1> SUFFICES ASSUME faults' = 0
               PROVE  /\ \A t, p : ToldNow(t, p)' => t \in {"Data", "Beacon"} /\ p.known
                      /\ ~starved' => status'
    BY DEF Sound
  <1>1. /\ faults = 0
        /\ \A t, p : ToldNow(t, p) => t \in {"Data", "Beacon"} /\ p.known
        /\ ~starved' => status
    BY Onward DEF Sound
  <1>2. CASE Caller
    <2>1. UNCHANGED <<work, wire, status>> \/ DevRem
      BY <1>2 DEF Caller, DevInit, InitRx, UmacInit, InitWait, DevDeinit, DeinitRx, DeinitRxDone,
                  fmac
    <2>2. CASE DevRem
      <3>1. work' = <<>> /\ wire' = <<>> /\ status' = TRUE
        BY <2>2 DEF DevRem, AnnInv, Quiet
      <3> QED
        BY <3>1, NothingTold DEF ToldNow
    <2>3. CASE ~DevRem
      BY <1>1, <2>1, <2>3 DEF ToldNow
    <2> QED
      BY <2>2, <2>3
  <1>3. CASE TakeMessage \/ NextEvent
    <2>1. status' = TRUE
      BY <1>3 DEF TakeMessage, NextEvent
    <2> QED
      BY <1>1, <1>3, <2>1, MessageTells
  <1>4. CASE RxPacket
    <2>1. \A t, p : ToldNow(t, p)' => ToldNow(t, p)
      BY <1>4, PacketTells
    <2>2. status' = status
      <3>1. PICK pkt \in Packet, type \in EventTypes :
               /\ ToldNow(type, pkt)
               /\ \/ status' = status
                  \/ type = "Data" /\ ~pkt.known
                  \/ type \notin {"Data", "Beacon"}
        BY <1>4, PacketEffect, Typed
      <3> QED
        BY <1>1, <3>1
    <2> QED
      BY <1>1, <2>1, <2>2
  <1>5. CASE RxRefill
    <2>1. UNCHANGED <<wire, work>>
      BY <1>5 DEF RxRefill
    <2>2. ASSUME ~starved' PROVE status'
      <3>1. PICK d \in Desc : /\ d \in refill
                              /\ \/ RxInitOk(d) /\ status' = TRUE
                                 \/ RxInitFails(d) /\ status' = FALSE
        <4>1. refill \subseteq Desc
          BY Typed
        <4> QED
          BY <1>5, <4>1, Zenon DEF RxRefill
      <3>2. nwb[d] = NULL
        BY <3>1 DEF Clear
      <3>3. ~RxInitFails(d)
        BY <1>1, <2>2, <3>2 DEF RxInitFails, Fail
      <3> QED
        BY <3>1, <3>3
    <2> QED
      BY <1>1, <2>1, <2>2 DEF ToldNow
  <1>6. CASE RpuReports
    <2>1. UNCHANGED status
      BY <1>6 DEF RpuReports
    <2> QED
      BY <1>1, <1>6, <2>1, ReportsKeepsAnn
  <1>7. ASSUME NEW s \in Places, NEW f \in Frames, RpuReceives(s, f)
        PROVE  /\ \A t, p : ToldNow(t, p)' => t \in {"Data", "Beacon"} /\ p.known
               /\ ~starved' => status'
    <2>1. UNCHANGED status
      BY <1>7 DEF RpuReceives
    <2>2. PICK type \in EventTypes, pkt \in Packet :
             /\ faults' = 0 => type \in {"Data", "Beacon"} /\ pkt.known
             /\ \A t, p : ToldNow(t, p)' <=> ToldNow(t, p) \/ (t = type /\ p = pkt)
      BY <1>7, ReceivesTells
    <2>3. \A t, p : ToldNow(t, p)' => t \in {"Data", "Beacon"} /\ p.known
      BY <1>1, <2>2
    <2> QED
      BY <1>1, <2>1, <2>3
  <1>8. CASE StackFrees
    BY <1>1, <1>8 DEF StackFrees, fmac, ToldNow
  <1> QED
    BY <1>2, <1>3, <1>4, <1>5, <1>6, <1>7, <1>8 DEF Next, Tasklet, Rpu

LEMMA StepKeepsClear ==
    ASSUME RxInv, AnnInv, Clear, Next
    PROVE  Clear'
  <1>1. CASE RxPacket
    <2>1. PICK d \in Desc : /\ nwb' = [nwb EXCEPT ![d] = NULL]
                            /\ refill' = refill \/ refill' = {d}
      BY <1>1, PacketEffect
    <2>2. /\ \A e \in refill' : nwb'[e] = NULL
          /\ \A e, c \in refill' : e = c
      BY <2>1, Typed DEF Clear
    <2> QED
      BY <2>2 DEF Clear
  <1>2. CASE RxRefill
    BY <1>2 DEF RxRefill, Clear
  <1>3. CASE Caller
    <2>1. refill' = {}
      BY <1>3 DEF Caller, DevInit, InitRx, UmacInit, InitWait, DevDeinit, DeinitRx, DeinitRxDone,
                  DevRem, AnnInv, Quiet, fmac
    <2> QED
      BY <2>1 DEF Clear
  <1>4. CASE TakeMessage \/ NextEvent \/ Rpu \/ StackFrees
    <2>1. UNCHANGED <<nwb, refill>>
      BY <1>4 DEF TakeMessage, NextEvent, Rpu, RpuReports, RpuReceives, StackFrees, fmac
    <2> QED
      BY <2>1 DEF Clear
  <1> QED
    BY <1>1, <1>2, <1>3, <1>4 DEF Next, Tasklet

LEMMA StepKeepsAccounted ==
    ASSUME RxInv, RxInv', AnnInv, Sound, Clear, Callers, AllAccounted, Next
    PROVE  AllAccounted'
  <1> SUFFICES ASSUME state' = "up", faults' = 0, ~starved', NEW d \in Desc
               PROVE  Accounted(d)'
    BY DEF AllAccounted
  <1>1. faults = 0 /\ ~starved
    BY Onward
  <1>2. state = "up" => Accounted(d)
    BY <1>1 DEF AllAccounted
  <1>3. CASE Caller
    <2>1. state = "wait" /\ UNCHANGED posted
      BY <1>3 DEF Caller, DevInit, InitRx, UmacInit, InitWait, DevDeinit, DeinitRx, DeinitRxDone,
                  DevRem, hal
    <2> QED
      BY <1>1, <2>1 DEF Callers, Accounted
  <1>4. CASE TakeMessage \/ NextEvent
    <2>1. UNCHANGED <<posted, refill, state>>
      BY <1>4 DEF TakeMessage, NextEvent, hal
    <2>2. TakeMessage \/ work' = Tail(work)
      BY <1>1, <1>4, Onward DEF NextEvent, Sound, Fail
    <2>3. \A t, p : ToldNow(t, p) => ToldNow(t, p)'
      BY <1>4, <2>2, MessageTells
    <2> QED
      BY <1>2, <2>1, <2>3 DEF Accounted
  <1>5. CASE RxPacket
    <2>1. PICK pkt \in Packet, type \in EventTypes :
             /\ ToldNow(type, pkt)
             /\ \A t, p : ToldNow(t, p) => ToldNow(t, p)' \/ p = pkt
             /\ \/ refill' = {pkt.id}
                \/ type = "Data" /\ ~pkt.known
                \/ type \notin {"Data", "Beacon"}
      BY <1>5, PacketEffect, Typed
    <2>2. refill' = {pkt.id}
      BY <1>1, <2>1 DEF Sound
    <2>3. UNCHANGED <<posted, state>> /\ refill = {}
      BY <1>5 DEF RxPacket
    <2> QED
      BY <1>2, <2>1, <2>2, <2>3 DEF Accounted
  <1>6. CASE RxRefill
    <2>1. PICK e \in Desc : e \in refill /\ (RxInitOk(e) \/ RxInitFails(e))
      BY <1>6, Typed DEF RxRefill
    <2>2. nwb[e] = NULL /\ \A c \in refill : c = e
      BY <2>1 DEF Clear
    <2>3. map_desc_to_pool(e) \in posted' /\ posted \subseteq posted'
      BY <2>1, <2>2, ProvisionSucceeds
    <2>4. UNCHANGED <<wire, work, state>>
      BY <1>6 DEF RxRefill
    <2> QED
      BY <1>2, <2>2, <2>3, <2>4 DEF Accounted, ToldNow
  <1>7. CASE RpuReports
    BY <1>2, <1>7, ReportsKeepsAnn DEF RpuReports, Accounted, hal
  <1>8. ASSUME NEW s \in Places, NEW f \in Frames, RpuReceives(s, f)
        PROVE  Accounted(d)'
    <2>1. PICK type \in EventTypes, pkt \in Packet :
             /\ pkt.id = ram[s].id
             /\ \A t, p : ToldNow(t, p)' <=> ToldNow(t, p) \/ (t = type /\ p = pkt)
      BY <1>8, ReceivesTells
    <2>2. /\ state = "up" /\ s \in posted /\ posted' = posted \ {s} /\ UNCHANGED refill
      BY <1>8 DEF RpuReceives
    <2>3. map_desc_to_pool(pkt.id) = s /\ pkt.id \in Desc
      BY <2>1, <2>2 DEF AnnInv, PostedBacked, Packet
    <2>4. map_desc_to_pool(d) = s => d = pkt.id
      BY <2>3, Typed
    <2> QED
      BY <1>2, <2>1, <2>2, <2>4 DEF Accounted
  <1>9. CASE StackFrees
    BY <1>2, <1>9 DEF StackFrees, fmac, hal, Accounted, ToldNow
  <1> QED
    BY <1>3, <1>4, <1>5, <1>6, <1>7, <1>8, <1>9 DEF Next, Tasklet, Rpu

LEMMA StepKeepsCallers ==
    ASSUME RxInv, RxInv', AnnInv, Callers, AllAccounted, Next
    PROVE  Callers'
  <1> DEFINE Exact ==
        /\ state = "init" =>
             \A d \in Desc : IF d < next_desc THEN map_desc_to_pool(d) \in posted ELSE nwb[d] = NULL
        /\ state = "wait" => \A d \in Desc : map_desc_to_pool(d) \in posted
        /\ state = "deinit" => \A d \in Desc : nwb[d] = NULL <=> d < next_desc
        /\ state = "gone" => \A d \in Desc : nwb[d] = NULL
  <1>1. next_desc \in 0 .. num_rx_bufs /\ num_rx_bufs \in Nat /\ Desc = 0 .. num_rx_bufs - 1
    BY DescBounds DEF RxInv, TypeOK, Desc
  <1>2. inits' = 0 => ~starved' /\ state' = "down"
    <2>1. CASE DevInit
      BY <2>1, Onward DEF DevInit
    <2>2. CASE ~DevInit /\ inits' = 0
      <3>1. ~starved /\ state = "down" /\ work = <<>> /\ refill = {}
        BY <2>2, Onward DEF Callers, AnnInv, Quiet
      <3>2. StackFrees
        BY <2>2, <3>1 DEF Next, Caller, Tasklet, Rpu, InitRx, UmacInit, InitWait, DevDeinit,
                          DeinitRx, DeinitRxDone, DevRem, TakeMessage, RxPacket, RxRefill,
                          NextEvent, RpuReports, RpuReceives
      <3> QED
        BY <3>1, <3>2 DEF StackFrees
    <2> QED
      BY <2>1, <2>2
  <1>3. state' = "down" => \A d \in Desc : nwb'[d] = NULL
    <2>1. CASE DevRem
      BY <2>1 DEF DevRem
    <2>2. CASE StackFrees
      BY <2>2 DEF StackFrees, Callers, fmac
    <2>3. CASE ~DevRem /\ ~StackFrees
      <3>1. state' # "down"
        BY <2>3 DEF Next, Caller, Tasklet, Rpu, DevInit, InitRx, UmacInit, InitWait, DevDeinit,
                    DeinitRx, DeinitRxDone, TakeMessage, RxPacket, RxRefill, NextEvent,
                    RpuReports, RpuReceives, AnnInv, Quiet
      <3> QED
        BY <3>1
    <2> QED
      BY <2>1, <2>2, <2>3
  <1>4. ASSUME faults' = 0, ~starved' PROVE Exact'
    <2>1. faults = 0 /\ ~starved /\ Exact
      BY <1>4, Onward DEF Callers
    <2>2. CASE DevInit
      <3>1. state = "down" /\ state' = "init" /\ next_desc' = 0 /\ UNCHANGED nwb
        BY <2>2 DEF DevInit, fmac
      <3>2. \A d \in Desc : ~(d < 0) /\ nwb[d] = NULL
        BY <1>1, <3>1 DEF Callers
      <3> QED
        BY <3>1, <3>2
    <2>3. CASE InitRx
      <3>1. PICK e \in Desc : e = next_desc
        BY <1>1, <2>3 DEF InitRx
      <3>2. state = "init" /\ (RxInitOk(e) \/ RxInitFails(e)) /\ nwb[e] = NULL
        BY <1>1, <2>1, <2>3, <3>1 DEF InitRx
      <3>3. /\ RxInitOk(e) /\ map_desc_to_pool(e) \in posted' /\ posted \subseteq posted'
            /\ \A d \in Desc : d # e => nwb'[d] = nwb[d]
        BY <1>4, <3>2, ProvisionSucceeds
      <3>4. faults \in Nat
        BY Onward
      <3>5. ~RxInitFails(e)
        BY <1>4, <3>2, <3>4 DEF RxInitFails, Fail
      <3>6. state' = "init" /\ next_desc' = e + 1
        BY <2>3, <3>1, <3>2, <3>5 DEF InitRx
      <3>7. \A d \in Desc :
              IF d < next_desc' THEN map_desc_to_pool(d) \in posted' ELSE nwb'[d] = NULL
        <4>1. \A d \in Desc : d < e + 1 <=> d < e \/ d = e
          BY <1>1
        <4> QED
          BY <2>1, <3>1, <3>2, <3>3, <3>6, <4>1
      <3> QED
        BY <3>6, <3>7
    <2>4. CASE UmacInit \/ InitWait
      <3>1. faults \in Nat
        BY Onward
      <3>2. \/ state = "init" /\ next_desc = num_rx_bufs /\ state' = "wait"
            \/ state = "wait" /\ state' = "up"
        BY <1>4, <2>1, <2>4, <3>1 DEF UmacInit, InitWait, Fail
      <3>3. UNCHANGED posted
        BY <2>4 DEF UmacInit, InitWait, hal
      <3>4. \A d \in Desc : d < num_rx_bufs
        BY <1>1
      <3> QED
        BY <2>1, <3>2, <3>3, <3>4
    <2>5. CASE DevDeinit
      <3>1. state = "up" /\ state' = "deinit" /\ next_desc' = 0 /\ UNCHANGED nwb /\ work = <<>>
        BY <2>5 DEF DevDeinit, fmac
      <3>2. ASSUME NEW d \in Desc PROVE nwb[d] # NULL
        <4>1. Accounted(d) /\ refill = {}
          BY <2>1, <3>1 DEF AllAccounted, AnnInv, Quiet
        <4>2. virt_addr[map_desc_to_pool(d)] # NULL
          BY <3>1, <4>1 DEF Accounted, AnnInv, PostedBacked, AllBacked, Backed
        <4> QED
          BY <4>2, Typed
      <3>3. \A d \in Desc : ~(d < 0)
        BY <1>1
      <3> QED
        BY <3>1, <3>2, <3>3
    <2>6. CASE DeinitRx
      <3>1. PICK e \in Desc : e = next_desc
        BY <1>1, <2>6 DEF DeinitRx
      <3>2. state = "deinit" /\ nwb[e] # NULL /\ virt_addr[map_desc_to_pool(e)] # NULL
        BY <1>1, <2>1, <2>6, <3>1, Typed DEF DeinitRx
      <3>3. state' = "deinit" /\ next_desc' = e + 1 /\ nwb' = [nwb EXCEPT ![e] = NULL]
        BY <2>6, <3>1, <3>2 DEF DeinitRx
      <3>4. nwb'[e] = NULL /\ \A d \in Desc : d # e => nwb'[d] = nwb[d]
        BY <3>3, Typed
      <3>5. \A d \in Desc : d < e + 1 <=> d < e \/ d = e
        BY <1>1
      <3>6. \A d \in Desc : nwb'[d] = NULL <=> d < next_desc'
        BY <2>1, <3>1, <3>2, <3>3, <3>4, <3>5
      <3> QED
        BY <3>3, <3>6
    <2>7. CASE DeinitRxDone
      <3>1. state = "deinit" /\ next_desc = num_rx_bufs /\ state' = "gone" /\ UNCHANGED nwb
        BY <2>7 DEF DeinitRxDone, fmac
      <3>2. \A d \in Desc : d < num_rx_bufs
        BY <1>1
      <3> QED
        BY <2>1, <3>1, <3>2
    <2>8. CASE DevRem
      BY <2>8 DEF DevRem
    <2>9. CASE Tasklet \/ Rpu
      <3>1. state' = "up"
        <4>1. state = "up"
          BY <2>9 DEF Tasklet, Rpu, TakeMessage, RxPacket, RxRefill, NextEvent, RpuReports,
                      RpuReceives, AnnInv, Quiet
        <4>2. UNCHANGED state
          BY <2>9 DEF Tasklet, Rpu, TakeMessage, RxPacket, RxRefill, NextEvent, RpuReports,
                      RpuReceives
        <4> QED
          BY <4>1, <4>2
      <3> QED
        BY <3>1
    <2>10. CASE StackFrees
      BY <2>1, <2>10 DEF StackFrees, fmac, hal
    <2> QED
      BY <2>2, <2>3, <2>4, <2>5, <2>6, <2>7, <2>8, <2>9, <2>10 DEF Next, Caller
  <1> QED
    BY <1>2, <1>3, <1>4 DEF Callers

LEMMA StepKeepsBuffers ==
    ASSUME RxInv, RxInv', AnnInv, Sound, Callers, NoneLeaked, Next
    PROVE  NoneLeaked'
  <1> SUFFICES ASSUME faults' = 0, ~starved' \/ (inits' = 1 /\ state' # "gone" /\ state' # "down")
               PROVE  Bufs = free' \union InStack' \union Mapped'
    BY DEF NoneLeaked
  <1>1. faults = 0 /\ inits \in Nat /\ free \subseteq Bufs /\ stack \subseteq Bufs \X Frames
    BY Onward DEF RxInv, TypeOK
  <1>2. ~starved \/ (inits = 1 /\ state # "gone" /\ state # "down")
    <2>1. CASE DevInit
      BY <1>1, <2>1, Onward DEF DevInit, Callers
    <2>2. CASE DevRem
      BY <2>2, Onward DEF DevRem
    <2>3. CASE ~DevInit /\ ~DevRem
      <3>1. state \in {"gone", "down"} => UNCHANGED state
        BY <2>3 DEF Next, Caller, Tasklet, Rpu, InitRx, UmacInit, InitWait, DevDeinit, DeinitRx,
                    DeinitRxDone, TakeMessage, RxPacket, RxRefill, NextEvent, RpuReports,
                    RpuReceives, StackFrees
      <3> QED
        BY <2>3, <3>1, Onward
    <2> QED
      BY <2>1, <2>2, <2>3
  <1>3. Bufs = free \union InStack \union Mapped
    BY <1>1, <1>2 DEF NoneLeaked
  <1>4. CASE InitRx
    <2>1. next_desc \in Desc
      BY <1>4, DescBounds DEF InitRx, RxInv, TypeOK, Desc
    <2>2. (RxInitOk(next_desc) \/ RxInitFails(next_desc)) /\ UNCHANGED stack
      BY <1>4 DEF InitRx
    <2> QED
      BY <1>3, <2>1, <2>2, ProvisionKeepsBuffers
  <1>5. CASE RxRefill
    <2>1. PICK d \in Desc : RxInitOk(d) \/ RxInitFails(d)
      BY <1>5, Typed DEF RxRefill
    <2>2. UNCHANGED stack
      BY <1>5 DEF RxRefill
    <2> QED
      BY <1>3, <2>1, <2>2, ProvisionKeepsBuffers
  <1>6. ASSUME NEW d \in Desc, NEW b \in Bufs, b = nwb[d], nwb' = [nwb EXCEPT ![d] = NULL],
               \/ free' = free \union {b} /\ UNCHANGED stack
               \/ UNCHANGED free /\ \E f \in Frames : stack' = stack \union {<<b, f>>}
        PROVE  Bufs = free' \union InStack' \union Mapped'
    <2>1. nwb'[d] = NULL /\ \A e \in Desc : e # d => nwb'[e] = nwb[e]
      BY <1>6, Typed
    <2>2. \A c \in Mapped : c = b \/ c \in Mapped'
      BY <1>6, <2>1 DEF Mapped
    <2>3. Mapped' \subseteq Bufs /\ InStack' \subseteq Bufs /\ free' \subseteq Bufs
      BY DEF RxInv, TypeOK, Mapped, InStack
    <2>4. InStack \subseteq InStack' /\ free \subseteq free' /\ b \in free' \union InStack'
      BY <1>6 DEF InStack
    <2> QED
      BY <1>3, <2>2, <2>3, <2>4
  <1>7. CASE RxPacket
    <2>1. PICK pkt \in Packet, b \in Bufs :
             LET type == Head(work).type IN
             /\ pkt.id \in Desc /\ ToldNow(type, pkt) /\ nwb[pkt.id] = b
             /\ nwb' = [nwb EXCEPT ![pkt.id] = NULL]
             /\ \/ stack' = stack \union {<<b, pkt.frame>>} /\ UNCHANGED free
                \/ free' = free \union {b} /\ UNCHANGED stack
                \/ type = "Data" /\ ~pkt.known
      BY <1>7, PacketEffect
    <2>2. pkt.known /\ pkt.frame \in Frames
      BY <1>1, <2>1 DEF Sound, Packet
    <2> QED
      BY <1>6, <2>1, <2>2
  <1>8. CASE DeinitRx
    <2>1. CASE UNCHANGED <<nwb, free, stack>>
      BY <1>3, <2>1 DEF InStack, Mapped
    <2>2. CASE ~UNCHANGED <<nwb, free, stack>>
      <3>1. PICK d \in Desc : d = next_desc
        BY <1>8, DescBounds DEF DeinitRx, RxInv, TypeOK, Desc
      <3>2. /\ nwb[d] # NULL /\ nwb' = [nwb EXCEPT ![d] = NULL]
            /\ free' = free \union {nwb[d]} /\ UNCHANGED stack
        BY <1>8, <2>2, <3>1 DEF DeinitRx
      <3>3. PICK b \in Bufs : b = nwb[d]
        BY <3>2, Typed
      <3> QED
        BY <1>6, <3>2, <3>3
    <2> QED
      BY <2>1, <2>2
  <1>9. CASE DevRem
    <2>1. \A d \in Desc : nwb'[d] = NULL /\ nwb[d] = NULL
      BY <1>1, <1>9, <1>2 DEF DevRem, Callers
    <2>2. UNCHANGED <<free, stack>>
      BY <1>9 DEF DevRem, mem
    <2> QED
      BY <1>3, <2>1, <2>2 DEF InStack, Mapped
  <1>10. CASE StackFrees
    <2>1. PICK held \in stack : stack' = stack \ {held} /\ free' = free \union {held[1]}
      BY <1>10 DEF StackFrees
    <2>2. UNCHANGED nwb
      BY <1>10 DEF StackFrees, fmac
    <2>3. Mapped' = Mapped /\ Mapped \subseteq Bufs
      BY <2>2, Typed DEF Mapped
    <2>4. \A c \in InStack : c = held[1] \/ c \in InStack'
      BY <2>1 DEF InStack
    <2>5. /\ InStack' \subseteq Bufs /\ free' \subseteq Bufs
          /\ held[1] \in free' /\ free \subseteq free'
      BY <2>1 DEF RxInv, TypeOK, InStack
    <2> QED
      BY <1>3, <2>3, <2>4, <2>5
  <1>11. CASE DevInit \/ UmacInit \/ InitWait \/ DevDeinit \/ DeinitRxDone \/ TakeMessage
              \/ NextEvent \/ Rpu
    <2>1. UNCHANGED <<nwb, free, stack>>
      BY <1>11 DEF DevInit, UmacInit, InitWait, DevDeinit, DeinitRxDone, TakeMessage, NextEvent,
                   Rpu, RpuReports, RpuReceives, fmac, mem
    <2> QED
      BY <1>3, <2>1 DEF InStack, Mapped
  <1> QED
    BY <1>4, <1>5, <1>7, <1>8, <1>9, <1>10, <1>11 DEF Next, Caller, Tasklet

(* Nothing gets lost but by a failure or a lack of memory: every descriptor*)
(* rx_event_process takes is provisioned again, and every buffer init_rx   *)
(* and rx_cmd_send take comes back.                                        *)
THEOREM NothingLost == Spec => []NothingMissing
  <1>1. Init => MissInv
    BY InitMiss
  <1>2. RxInv /\ AnnInv /\ MissInv /\ [Next]_vars => MissInv'
    <2> SUFFICES ASSUME RxInv, AnnInv, MissInv, [Next]_vars PROVE MissInv'
      OBVIOUS
    <2>1. RxInv' /\ Sound /\ Clear /\ Callers /\ AllAccounted /\ NoneLeaked
      BY StepKeepsInv DEF MissInv
    <2>2. CASE Next
      BY <2>1, <2>2, StepKeepsSound, StepKeepsClear, StepKeepsCallers, StepKeepsAccounted,
         StepKeepsBuffers DEF MissInv
    <2>3. CASE UNCHANGED vars
      <3>1. Sound' /\ Clear'
        BY <2>1, <2>3 DEF vars, fmac, Sound, Clear, ToldNow
      <3>2. Callers'
        BY <2>1, <2>3 DEF vars, fmac, hal, Callers
      <3>3. AllAccounted'
        BY <2>1, <2>3 DEF vars, fmac, hal, AllAccounted, Accounted, ToldNow
      <3>4. NoneLeaked'
        BY <2>1, <2>3 DEF vars, fmac, mem, NoneLeaked, InStack, Mapped
      <3> QED
        BY <3>1, <3>2, <3>3, <3>4 DEF MissInv
    <2> QED
      BY <2>2, <2>3
  <1>3. MissInv => NothingMissing
    <2> SUFFICES ASSUME MissInv PROVE NothingMissing
      OBVIOUS
    <2>1. ASSUME NEW d \in Desc, Accounted(d) PROVE map_desc_to_pool(d) \in posted \/ InFlight(d)
      <3>1. ASSUME NEW t, NEW p, ToldNow(t, p), p.id = d PROVE InFlight(d)
        <4>1. PICK i, j, k : At(wire, work, i, j, k, t, p)
          BY <3>1, Zenon DEF ToldNow, Told
        <4>2. <<i, j, k>> \in Announced /\ PacketAt(<<i, j, k>>) = p
          BY <4>1, AnnouncedTold
        <4> QED
          BY <3>1, <4>2, Zenon DEF InFlight
      <3>2. d \in refill => InFlight(d)
        BY DEF InFlight
      <3> QED
        BY <2>1, <3>1, <3>2 DEF Accounted
    <2>2. NoneStranded
      BY <2>1 DEF NoneStranded, MissInv, AllAccounted
    <2> QED
      BY <2>2 DEF NothingMissing, MissInv
  <1> QED
    BY <1>1, <1>2, <1>3, AnnInvariant, PTL DEF Spec
=============================================================================
