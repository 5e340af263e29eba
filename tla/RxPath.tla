------------------------------- MODULE RxPath -------------------------------
(***************************************************************************)
(* The receive buffers of the driver, from device initialisation to device *)
(* removal.  init_rx gives the RPU a network buffer for every descriptor   *)
(* of its three pools: FMAC remembers the buffer (rx_buf_info of fmac), the*)
(* HAL remembers where to copy the data (rx_buf_info of the HAL) and the   *)
(* RPU is told of a place in packet RAM.  The RPU fills places and         *)
(* announces them in messages, each a sequence of events; the event tasklet*)
(* copies the frame, hands the buffer to the network stack and provisions  *)
(* the descriptor again.  The stack frees buffers when it likes.           *)
(***************************************************************************)
EXTENDS Integers, FiniteSets, Sequences, SequencesExt

CONSTANTS
    Bufs,           \* the network buffers the operating system has
    Frames,         \* contents of received frames
    NULL,           \* no buffer, no frame
    num_bufs,       \* buffers of each receive pool
    MAX_MSGS,       \* bound: messages of the RPU under way
    MAX_INITS,      \* bound: calls of dev_init
    Failures,       \* kinds of failure that may happen
    MAX_FAULTS      \* bound: how many of them

Pools == 0 .. 2     \* MAX_NUM_OF_RX_QUEUES of them

FailureKinds == {"Map", "Post", "PktType", "RxType", "Other", "UmacInit", "InitWait"}

ASSUME PoolsAssumption == num_bufs \in [Pools -> Nat]
ASSUME BufsAssumption == NULL \notin Bufs /\ NULL \notin Frames
ASSUME BoundsAssumption ==
    MAX_MSGS \in Nat /\ MAX_INITS \in Nat /\ MAX_FAULTS \in Nat /\ Failures \subseteq FailureKinds

VARIABLES
    state,      \* where the caller of dev_init and dev_deinit is
    next_desc,  \* the descriptor init_rx or deinit_rx is at
    nwb,        \* FMAC's rx_buf_info: the buffer of a mapped descriptor
    virt_addr,  \* the HAL's rx_buf_info: the buffer of a mapped place
    ram,        \* packet RAM: per place, the descriptor in its headroom and the data
    posted,     \* places on rx_buf_busy_queue: the RPU may fill them
    wire,       \* the messages of the RPU not yet handled, oldest first
    work,       \* what is left of the message the event tasklet handles
    status,     \* rx_event_process: whether its last packet succeeded
    refill,     \* the descriptor whose frame was passed on and that has no buffer yet
    free,       \* buffers nbuf_alloc may return
    content,    \* what is in each buffer
    stack,      \* <<buffer, announced frame>> held by the network stack
    inits,      \* calls of dev_init
    faults,     \* failures so far
    starved     \* nbuf_alloc has found no memory

fmac == <<nwb, refill, work, wire, status>>
hal  == <<virt_addr, ram, posted>>
mem  == <<free, content, stack>>
vars == <<state, next_desc, fmac, hal, mem, inits, faults, starved>>

-----------------------------------------------------------------------------
(* Descriptors, pools and places.                                          *)

rx_desc == [p \in Pools |->
              IF p = 0 THEN 0 ELSE IF p = 1 THEN num_bufs[0] ELSE num_bufs[0] + num_bufs[1]]
num_rx_bufs == rx_desc[2] + num_bufs[2]
Desc == 0 .. (num_rx_bufs - 1)

InPool(d, p) == rx_desc[p] <= d /\ d < rx_desc[p] + num_bufs[p]
map_desc_to_pool(d) == LET p == CHOOSE q \in Pools : InPool(d, q) IN <<p, d - rx_desc[p]>>
Places == {map_desc_to_pool(d) : d \in Desc}

-----------------------------------------------------------------------------
(* A message is a sequence of events; a receive event has one type and     *)
(* several packets, each with its descriptor and frame.                    *)

EventTypes == {"Data", "Beacon", "Unknown", "Other"}
Packet == [id : Desc, frame : Frames, known : BOOLEAN]
Event == [type : EventTypes, pkts : Seq(Packet)]

\* Where the announced packets are: <<i, j, k>> is packet k of event j of the i-th
\* message of the RPU, or, for i = 0, of the message being handled.
Message(i) == IF i = 0 THEN work ELSE wire[i]
PacketAt(x) == Message(x[1])[x[2]].pkts[x[3]]
Announced ==
    UNION {UNION {{<<i, j, k>> : k \in DOMAIN Message(i)[j].pkts} : j \in DOMAIN Message(i)} :
              i \in 0 .. Len(wire)}

Fail(kind) == kind \in Failures /\ faults < MAX_FAULTS /\ faults' = faults + 1

Init ==
    /\ state = "down" /\ next_desc = 0
    /\ nwb = [d \in Desc |-> NULL]
    /\ virt_addr = [s \in Places |-> NULL]
    /\ ram = [s \in Places |-> [id |-> 0, frame |-> NULL]]
    /\ posted = {}
    /\ wire = <<>> /\ work = <<>> /\ status = TRUE /\ refill = {}
    /\ free = Bufs /\ content = [b \in Bufs |-> NULL] /\ stack = {}
    /\ inits = 0 /\ faults = 0 /\ starved = FALSE

-----------------------------------------------------------------------------
(* rx_cmd_send(INIT): a buffer for descriptor d.  The HAL refuses a place  *)
(* that is mapped, but returns the address it had, which FMAC takes for    *)
(* success.  A buffer that cannot be mapped is forgotten.  What a buffer   *)
(* allocated or a place mapped held before counts as nothing.              *)

Allocate(b) ==
    /\ b \in free
    /\ free' = free \ {b}
    /\ content' = [content EXCEPT ![b] = NULL]

\* Faulty: nothing is written to the headroom.
BufMapRxNoHeadroom(d, b) ==
    /\ virt_addr' = [virt_addr EXCEPT ![map_desc_to_pool(d)] = b]
    /\ UNCHANGED ram

BufMapRx(d, b) ==
    LET s == map_desc_to_pool(d) IN
    IF virt_addr[s] = NULL
    THEN /\ virt_addr' = [virt_addr EXCEPT ![s] = b]
         /\ ram' = [ram EXCEPT ![s] = [id |-> d, frame |-> NULL]]
    ELSE UNCHANGED <<virt_addr, ram>>

RxInitOk(d) ==
    /\ nwb[d] = NULL
    /\ \E b \in Bufs : /\ Allocate(b)
                       /\ BufMapRx(d, b)
                       /\ nwb' = [nwb EXCEPT ![d] = b]
    /\ posted' = posted \union {map_desc_to_pool(d)}
    /\ UNCHANGED <<faults, starved>>

RxInitFails(d) ==
    \/ /\ nwb[d] # NULL
       /\ UNCHANGED <<nwb, hal, free, content, faults, starved>>
    \/ /\ nwb[d] = NULL /\ free = {}
       /\ starved' = TRUE
       /\ UNCHANGED <<nwb, hal, free, content, faults>>
    \/ /\ nwb[d] = NULL /\ virt_addr[map_desc_to_pool(d)] = NULL
       /\ Fail("Map")
       /\ \E b \in Bufs : Allocate(b)
       /\ UNCHANGED <<nwb, hal, starved>>
    \/ /\ nwb[d] = NULL
       /\ Fail("Post")
       /\ \E b \in Bufs : /\ Allocate(b)
                          /\ BufMapRx(d, b)
                          /\ nwb' = [nwb EXCEPT ![d] = b]
       /\ UNCHANGED <<posted, starved>>

-----------------------------------------------------------------------------
(* dev_init, dev_deinit and the removal of the device.                     *)

DevInit ==
    /\ state = "down" /\ inits < MAX_INITS
    /\ state' = "init" /\ next_desc' = 0 /\ inits' = inits + 1
    /\ UNCHANGED <<fmac, hal, mem, faults, starved>>

\* init_rx: one descriptor after the other, until one fails: fw_init then gives
\* up and leaves the buffers of the others where they are.
InitRx ==
    /\ state = "init" /\ next_desc < num_rx_bufs
    /\ \/ RxInitOk(next_desc) /\ next_desc' = next_desc + 1 /\ UNCHANGED state
       \/ RxInitFails(next_desc) /\ state' = "gone" /\ UNCHANGED next_desc
    /\ UNCHANGED <<wire, work, status, refill, stack, inits>>

\* umac_cmd_sys_init, then the wait for the RPU to confirm.
UmacInit ==
    /\ state = "init" /\ next_desc = num_rx_bufs
    /\ \/ state' = "wait" /\ UNCHANGED <<next_desc, faults>>
       \/ Fail("UmacInit") /\ state' = "deinit" /\ next_desc' = 0
    /\ UNCHANGED <<fmac, hal, mem, inits, starved>>

InitWait ==
    /\ state = "wait"
    /\ \/ state' = "up" /\ UNCHANGED <<next_desc, faults>>
       \/ Fail("InitWait") /\ state' = "deinit" /\ next_desc' = 0
    /\ UNCHANGED <<fmac, hal, mem, inits, starved>>

\* hal_dev_deinit waits for lock_rx, which the event tasklet holds, and disables
\* the HAL: no message is handled afterwards.
DevDeinit ==
    /\ state = "up" /\ work = <<>>
    /\ state' = "deinit" /\ next_desc' = 0
    /\ UNCHANGED <<fmac, hal, mem, inits, faults, starved>>

\* deinit_rx: stops at the first descriptor that has no buffer.
DeinitRx ==
    LET s == map_desc_to_pool(next_desc) IN
    /\ state = "deinit" /\ next_desc < num_rx_bufs
    /\ \/ /\ nwb[next_desc] = NULL
          /\ state' = "gone"
          /\ UNCHANGED <<next_desc, nwb, virt_addr, free>>
       \/ /\ nwb[next_desc] # NULL /\ virt_addr[s] = NULL
          /\ next_desc' = next_desc + 1
          /\ UNCHANGED <<state, nwb, virt_addr, free>>
       \/ /\ nwb[next_desc] # NULL /\ virt_addr[s] # NULL
          /\ virt_addr' = [virt_addr EXCEPT ![s] = NULL]
          /\ nwb' = [nwb EXCEPT ![next_desc] = NULL]
          /\ free' = free \union {nwb[next_desc]}
          /\ next_desc' = next_desc + 1
          /\ UNCHANGED state
    /\ UNCHANGED <<refill, work, wire, status, ram, posted, content, stack, inits, faults, starved>>

DeinitRxDone ==
    /\ state = "deinit" /\ next_desc = num_rx_bufs
    /\ state' = "gone"
    /\ UNCHANGED <<next_desc, fmac, hal, mem, inits, faults, starved>>

\* The device is removed and added again: both tables are new and the RPU starts anew.
DevRem ==
    /\ state = "gone"
    /\ state' = "down"
    /\ nwb' = [d \in Desc |-> NULL]
    /\ virt_addr' = [s \in Places |-> NULL]
    /\ posted' = {} /\ wire' = <<>> /\ status' = TRUE
    /\ UNCHANGED <<next_desc, refill, work, ram, mem, inits, faults, starved>>

-----------------------------------------------------------------------------
(* The RPU fills a posted place and announces it: in a new message, in a   *)
(* new event of the last message or as one more packet of its last event.  *)

AddPacket(type, pkt) ==
    \/ /\ Len(wire) < MAX_MSGS
       /\ wire' = Append(wire, <<[type |-> type, pkts |-> <<pkt>>]>>)
    \/ /\ wire # <<>>
       /\ wire' = [wire EXCEPT ![Len(wire)] = Append(@, [type |-> type, pkts |-> <<pkt>>])]
    \/ /\ wire # <<>> /\ Last(Last(wire)).type = type
       /\ wire' = [wire EXCEPT ![Len(wire)][Len(Last(wire))].pkts = Append(@, pkt)]

RpuReceives(s, f) ==
    /\ state = "up" /\ s \in posted
    /\ posted' = posted \ {s}
    /\ ram' = [ram EXCEPT ![s].frame = f]
    /\ LET pkt(known) == [id |-> ram[s].id, frame |-> f, known |-> known] IN
       \/ \E type \in {"Data", "Beacon"} : AddPacket(type, pkt(TRUE)) /\ UNCHANGED faults
       \/ Fail("PktType") /\ AddPacket("Data", pkt(FALSE))
       \/ Fail("RxType") /\ AddPacket("Unknown", pkt(TRUE))
    /\ UNCHANGED <<state, next_desc, nwb, refill, work, status, virt_addr, mem, inits, starved>>

\* An event of another kind, such as TX_BUFF_DONE, shares messages with frames.
RpuReports ==
    /\ state = "up"
    /\ \A i \in DOMAIN wire : \A j \in DOMAIN wire[i] : wire[i][j].type # "Other"
    /\ LET event == [type |-> "Other", pkts |-> <<>>] IN
       \/ Len(wire) < MAX_MSGS /\ wire' = Append(wire, <<event>>)
       \/ wire # <<>> /\ wire' = [wire EXCEPT ![Len(wire)] = Append(@, event)]
    /\ UNCHANGED <<state, next_desc, nwb, refill, work, status, hal, mem, inits, faults, starved>>

-----------------------------------------------------------------------------
(* data_events_process and rx_event_process, in the event tasklet.         *)

TakeMessage ==
    /\ state = "up" /\ work = <<>> /\ wire # <<>>
    /\ work' = Head(wire) /\ wire' = Tail(wire) /\ status' = TRUE
    /\ UNCHANGED <<state, next_desc, nwb, refill, hal, mem, inits, faults, starved>>

\* Faulty: the place stays mapped.
BufUnmapRxKeeps(s) ==
    /\ content' = [content EXCEPT ![virt_addr[s]] = ram[s].frame]
    /\ UNCHANGED virt_addr

\* Faulty: nothing is read from packet RAM.
BufUnmapRxNoCopy(s) ==
    /\ virt_addr' = [virt_addr EXCEPT ![s] = NULL]
    /\ UNCHANGED content

\* buf_unmap_rx copies the frame to where the HAL believes the buffer is.
BufUnmapRx(s) ==
    /\ content' = [content EXCEPT ![virt_addr[s]] = ram[s].frame]
    /\ virt_addr' = [virt_addr EXCEPT ![s] = NULL]

\* One packet, up to the point where its descriptor is provisioned again.
RxPacket ==
    /\ work # <<>> /\ Head(work).pkts # <<>> /\ refill = {}
    /\ LET type == Head(work).type
           pkt  == Head(Head(work).pkts)
           s    == map_desc_to_pool(pkt.id)
           b    == nwb[pkt.id]
       IN /\ work' = [work EXCEPT ![1].pkts = Tail(@)]
          /\ \/ /\ virt_addr[s] = NULL
                /\ status' = FALSE
                /\ UNCHANGED <<nwb, virt_addr, content, free, stack, refill>>
             \/ /\ virt_addr[s] # NULL
                /\ BufUnmapRx(s)
                /\ nwb' = [nwb EXCEPT ![pkt.id] = NULL]
                /\ CASE type = "Data" /\ pkt.known ->
                          /\ stack' = stack \union {<<b, pkt.frame>>}
                          /\ refill' = {pkt.id}
                          /\ UNCHANGED <<free, status>>
                     [] type = "Data" /\ ~pkt.known ->
                          /\ status' = FALSE
                          /\ UNCHANGED <<free, stack, refill>>
                     [] type = "Beacon" ->
                          /\ free' = free \union {b}
                          /\ refill' = {pkt.id}
                          /\ UNCHANGED <<stack, status>>
                     [] OTHER ->
                          /\ free' = free \union {b}
                          /\ status' = FALSE
                          /\ UNCHANGED <<stack, refill>>
    /\ UNCHANGED <<state, next_desc, wire, ram, posted, inits, faults, starved>>

RxRefill ==
    /\ \E d \in refill : \/ RxInitOk(d) /\ status' = TRUE
                         \/ RxInitFails(d) /\ status' = FALSE
    /\ refill' = {}
    /\ UNCHANGED <<state, next_desc, wire, work, stack, inits>>

\* Faulty: only the first event of a message is handled.
NextEventFirstOnly ==
    /\ work # <<>> /\ Head(work).pkts = <<>> /\ refill = {}
    /\ work' = <<>> /\ status' = TRUE
    /\ UNCHANGED <<state, next_desc, nwb, refill, wire, hal, mem, inits, faults, starved>>

\* The rest of a message is not looked at once an event of it has failed.
NextEvent ==
    /\ work # <<>> /\ Head(work).pkts = <<>> /\ refill = {}
    /\ \/ Head(work).type # "Other" /\ work' = (IF status THEN Tail(work) ELSE <<>>) /\ UNCHANGED faults
       \/ Head(work).type = "Other" /\ work' = Tail(work) /\ UNCHANGED faults
       \/ Head(work).type = "Other" /\ work' = <<>> /\ Fail("Other")
    /\ status' = TRUE
    /\ UNCHANGED <<state, next_desc, nwb, refill, wire, hal, mem, inits, starved>>

\* The network stack is done with a buffer.
StackFrees ==
    /\ \E held \in stack : /\ stack' = stack \ {held}
                           /\ free' = free \union {held[1]}
    /\ UNCHANGED <<state, next_desc, fmac, hal, content, inits, faults, starved>>

-----------------------------------------------------------------------------
Caller == DevInit \/ InitRx \/ UmacInit \/ InitWait \/ DevDeinit \/ DeinitRx \/ DeinitRxDone \/ DevRem
Tasklet == TakeMessage \/ RxPacket \/ RxRefill \/ NextEvent
Rpu == RpuReports \/ \E s \in Places, f \in Frames : RpuReceives(s, f)

Next == Caller \/ Tasklet \/ Rpu \/ StackFrees

Spec == Init /\ [][Next]_vars

-----------------------------------------------------------------------------
(* Properties                                                              *)

\* Every variable keeps its type.
TypeOK ==
    /\ state \in {"down", "init", "wait", "up", "deinit", "gone"}
    /\ next_desc \in 0 .. num_rx_bufs
    /\ nwb \in [Desc -> Bufs \union {NULL}]
    /\ virt_addr \in [Places -> Bufs \union {NULL}]
    /\ ram \in [Places -> [id : Desc, frame : Frames \union {NULL}]]
    /\ posted \subseteq Places
    /\ wire \in Seq(Seq(Event)) /\ work \in Seq(Event) /\ status \in BOOLEAN
    /\ refill \subseteq Desc
    /\ free \subseteq Bufs
    /\ content \in [Bufs -> Frames \union {NULL}]
    /\ stack \subseteq Bufs \X Frames
    /\ inits \in 0 .. MAX_INITS /\ faults \in 0 .. MAX_FAULTS /\ starved \in BOOLEAN

\* FMAC and the HAL keep a table each of where the frames go; whatever is
\* allocated, mapped, posted or fails, they name the same buffer.
MapsAgree == \A d \in Desc : virt_addr[map_desc_to_pool(d)] = nwb[d]

InStack == {held[1] : held \in stack}
Mapped == {nwb[d] : d \in Desc} \ {NULL}

\* A buffer is free, with the stack or mapped for one descriptor, and never two of
\* these: the RPU's data is never copied into a buffer somebody else uses.
OneOwner ==
    /\ free \intersect (InStack \union Mapped) = {}
    /\ InStack \intersect Mapped = {}
    /\ \A d, e \in Desc : nwb[d] = nwb[e] /\ nwb[d] # NULL => d = e
    /\ \A h, g \in stack : h[1] = g[1] => h = g

\* Both tables together: one buffer for a descriptor, one owner for a buffer.
BuffersExact == MapsAgree /\ OneOwner

\* While the device is up every place the RPU may fill, and every packet it has
\* announced, has a buffer behind it; no descriptor is both or announced twice;
\* the headroom of a posted place names its descriptor; an announced frame is
\* still in packet RAM.
RpuPlacesBacked ==
    state = "up" =>
        /\ \A s \in posted : virt_addr[s] # NULL /\ map_desc_to_pool(ram[s].id) = s
        /\ \A x \in Announced :
             LET d == PacketAt(x).id  s == map_desc_to_pool(d) IN
             /\ virt_addr[s] # NULL /\ s \notin posted
             /\ ram[s].frame = PacketAt(x).frame
             /\ \A y \in Announced : PacketAt(y).id = d => x = y

\* The buffer handed to the network stack holds the frame the RPU announced for
\* that packet, and keeps it until the stack frees the buffer.
DeliveredIntact == \A held \in stack : content[held[1]] = held[2]

InFlight(d) == d \in refill \/ \E x \in Announced : PacketAt(x).id = d

\* No descriptor is stranded: while the device is up each is with the RPU,
\* announced or being provisioned, unless a failure or a lack of memory took it.
NoneStranded ==
    state = "up" /\ faults = 0 /\ ~starved =>
        \A d \in Desc : map_desc_to_pool(d) \in posted \/ InFlight(d)

\* No buffer leaks: each is free, with the stack or mapped.  A lack of memory
\* alone takes no buffer while the device is up; it does when dev_init or
\* dev_deinit come across the descriptor that has none.
NoneLeaked ==
    faults = 0 /\ (~starved \/ (inits = 1 /\ state # "gone" /\ state # "down")) =>
        Bufs = free \union InStack \union Mapped

\* Nothing gets lost but by a failure or a lack of memory.
NothingMissing == NoneStranded /\ NoneLeaked

=============================================================================
