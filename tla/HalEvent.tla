------------------------------ MODULE HalEvent ------------------------------
(***************************************************************************)
(* The event path of the HAL (hal_interrupt.c, hpqm.c, hal_api_common.c):  *)
(* from the RPU's event buffers to the FMAC's interrupt callback.          *)
(*                                                                         *)
(* The RPU (external) copies an event, in fragments of max_event_size, to  *)
(* buffers of event_avl_queue, puts their addresses on event_busy_queue    *)
(* and interrupts.  The interrupt handler empties event_busy_queue,        *)
(* assembles the fragments in event_data, returns the buffers and appends  *)
(* whole events to event_q; event_tasklet hands them to the FMAC.          *)
(*                                                                         *)
(* The handler and the tasklet hold lock_rx from entry to exit; each turn  *)
(* of their loops is a step, between which the RPU, and whoever does not   *)
(* need lock_rx, may run.                                                  *)
(***************************************************************************)
EXTENDS Integers, FiniteSets, SequencesExt

CONSTANTS
  NUM_BUFS,    (* event buffers of the RPU                                 *)
  MAX_EVENTS,  (* bound: events the RPU raises                             *)
  MAX_FRAGS,   (* bound: fragments of an event                             *)
  MAX_WDOGS,   (* bound: watchdog interrupts                               *)
  MAX_FAULTS,  (* bound: failures                                          *)
  Failures,    (* what may fail, see Fail                                  *)
  Deinit       (* the device may be taken down                             *)

Addr         == 1 .. NUM_BUFS
FailureKinds == {"hpq", "read", "data", "free", "msg", "ack"}

ASSUME EventAssumption ==
  /\ NUM_BUFS \in Nat \ {0}
  /\ MAX_EVENTS \in Nat /\ MAX_FRAGS \in Nat \ {0}
  /\ MAX_WDOGS \in Nat /\ MAX_FAULTS \in Nat
  /\ Failures \subseteq FailureKinds
  /\ Deinit \in BOOLEAN

(* A fragment: of event id, the idx-th of n.  The RPU reuses the buffer of *)
(* an event with resubmit only when the host returns it.                   *)
Fragment == [id : 1 .. MAX_EVENTS, idx : 1 .. MAX_FRAGS, n : 1 .. MAX_FRAGS,
             resubmit : BOOLEAN]

VARIABLES
  (* RPU *)
  avl,         (* event_avl_queue: Seq(Addr)                               *)
  busy,        (* event_busy_queue: Seq(Addr)                              *)
  buf,         (* content of the buffers: [Addr -> Fragment or NoFragment] *)
  sent,        (* every fragment the RPU has posted: Seq(Fragment)         *)
  irq,         (* an interrupt is pending                                  *)
  wdog,        (* the watchdog bit of the interrupt status register        *)
  wdogs,       (* watchdog interrupts so far                               *)
  (* HAL, under lock_rx *)
  asm,         (* the event being assembled: event_data, event_data_pending*)
               (* (in fragments) and event_resubmit                        *)
  event_q,     (* Seq(Seq(Fragment))                                       *)
  lock_rx,     (* who holds it: "free", "isr" or "tasklet"                 *)
  isr,         (* the interrupt handler: where it is; num_events # 0       *)
  event_tasklet,                                     (* scheduled          *)
  recovery_tasklet,                   (* "idle", "scheduled" or "ran"      *)
  up,          (* "enabled" (hal_status), "disabled", "stopped" (the bus   *)
               (* is down), "drained", "removed"                           *)
  (* history *)
  delivered,   (* what the callback was given: Seq(Seq(Fragment))          *)
  failed       (* kinds of the failures so far: Seq(FailureKinds)          *)

rpu  == <<avl, busy, buf, sent>>
wd   == <<wdog, wdogs>>
tasklets == <<event_tasklet, recovery_tasklet>>
vars == <<avl, busy, buf, sent, irq, wdog, wdogs, asm, event_q, lock_rx, isr,
          event_tasklet, recovery_tasklet, up, delivered, failed>>

NoFragment == [id |-> 0, idx |-> 0, n |-> 0, resubmit |-> FALSE]
NoEvent    == [data |-> <<>>, null |-> TRUE, pending |-> 0, resubmit |-> FALSE]
NotInIsr   == [pc |-> "idle", some |-> FALSE]

Assembly == [data : Seq(Fragment), null : BOOLEAN, pending : 0 .. MAX_FRAGS,
             resubmit : BOOLEAN]

TypeOK ==
  /\ avl \in Seq(Addr) /\ busy \in Seq(Addr)
  /\ buf \in [Addr -> Fragment \cup {NoFragment}]
  /\ sent \in Seq(Fragment)
  /\ irq \in BOOLEAN /\ wdog \in BOOLEAN /\ wdogs \in 0 .. MAX_WDOGS
  /\ asm \in Assembly
  /\ event_q \in Seq(Seq(Fragment))
  /\ lock_rx \in {"free", "isr", "tasklet"}
  /\ isr \in [pc : {"idle", "loop", "exit"}, some : BOOLEAN]
  /\ event_tasklet \in BOOLEAN /\ recovery_tasklet \in {"idle", "scheduled", "ran"}
  /\ up \in {"enabled", "disabled", "stopped", "drained", "removed"}
  /\ delivered \in Seq(Seq(Fragment))
  /\ failed \in Seq(Failures)

Init ==
  /\ avl = [a \in Addr |-> a] /\ busy = <<>>
  /\ buf = [a \in Addr |-> NoFragment]
  /\ sent = <<>>
  /\ irq = FALSE /\ wdog = FALSE /\ wdogs = 0
  /\ asm = NoEvent
  /\ event_q = <<>>
  /\ lock_rx = "free" /\ isr = NotInIsr
  /\ event_tasklet = FALSE /\ recovery_tasklet = "idle"
  /\ up = "enabled"
  /\ delivered = <<>> /\ failed = <<>>

-----------------------------------------------------------------------------
(* The RPU.  It interrupts for every fragment it posts, whether the host   *)
(* has acknowledged the previous interrupt or not.                         *)

Powered == up \in {"enabled", "disabled"}

NextFragments ==
  LET new(id) == {f \in Fragment : f.id = id /\ f.idx = 1}
      last    == sent[Len(sent)]
  IN  IF sent = <<>> THEN new(1)
      ELSE IF last.idx < last.n THEN {[last EXCEPT !.idx = @ + 1]}
      ELSE new(last.id + 1)

RpuPosts ==
  /\ Powered
  /\ avl # <<>>
  /\ \E f \in NextFragments :
       /\ buf' = [buf EXCEPT ![Head(avl)] = f]
       /\ sent' = Append(sent, f)
  /\ avl' = Tail(avl)
  /\ busy' = Append(busy, Head(avl))
  /\ irq' = TRUE
  /\ UNCHANGED <<wd, asm, event_q, lock_rx, isr, tasklets, up, delivered, failed>>

(* The host has read an event that is not to be resubmitted: the RPU takes *)
(* the buffer back by itself.                                              *)
RpuReclaims ==
  /\ Powered
  /\ \E a \in Addr \ (ToSet(avl) \cup ToSet(busy)) :
       /\ ~buf[a].resubmit
       /\ avl' = Append(avl, a)
  /\ UNCHANGED <<busy, buf, sent, irq, wd, asm, event_q, lock_rx, isr, tasklets, up,
                 delivered, failed>>

RpuWatchdog ==
  /\ Powered
  /\ wdogs < MAX_WDOGS
  /\ wdogs' = wdogs + 1
  /\ wdog' = TRUE /\ irq' = TRUE
  /\ UNCHANGED <<rpu, asm, event_q, lock_rx, isr, tasklets, up, delivered, failed>>

-----------------------------------------------------------------------------
(* nrf_wifi_hal_irq_handler                                                *)

IrqEnter ==
  /\ irq /\ Powered
  /\ lock_rx = "free"
  /\ irq' = FALSE
  /\ IF up = "enabled"
     THEN lock_rx' = "isr" /\ isr' = [pc |-> "loop", some |-> FALSE]
     ELSE UNCHANGED <<lock_rx, isr>>
  /\ UNCHANGED <<rpu, wd, asm, event_q, tasklets, up, delivered, failed>>

Reading == isr.pc = "loop" /\ busy # <<>>

(* What the first bytes of f say when they are taken for an event header:  *)
(* the payload of a later fragment may say anything.                       *)
Header(f) ==
  IF f.idx = 1 THEN {[n |-> f.n, resubmit |-> f.resubmit]}
               ELSE [n : 1 .. MAX_FRAGS, resubmit : BOOLEAN]

(* event_data after the fragment f, before its last fragment is noticed.   *)
Started(f, h) ==
  [data |-> <<f>>, null |-> FALSE, pending |-> h.n - 1, resubmit |-> h.resubmit]

Continued(f) ==
  [data |-> IF asm.null THEN <<>> ELSE Append(asm.data, f), null |-> asm.null,
   pending |-> asm.pending - 1, resubmit |-> asm.resubmit]

Assembled(f) ==
  IF asm.pending = 0 THEN {Started(f, h) : h \in Header(f)} ELSE {Continued(f)}

(* The event is given up half way: event_data is freed, but the fragments  *)
(* still to come are not forgotten.                                        *)
GivenUpTwice(pending, resubmit) ==
  [data |-> <<>>, null |-> TRUE, pending |-> pending + 1, resubmit |-> resubmit]

GivenUp(pending, resubmit) ==
  [data |-> <<>>, null |-> TRUE, pending |-> pending, resubmit |-> resubmit]

PopForgotten == UNCHANGED <<busy, buf, sent>>

Popped == busy' = Tail(busy) /\ UNCHANGED <<buf, sent>>

ReturnedLast(s) ==
  avl' = IF s.resubmit /\ s.pending = 0 THEN Append(avl, Head(busy)) ELSE avl

Returned(s) ==
  avl' = IF s.resubmit THEN Append(avl, Head(busy)) ELSE avl

(* hal_rpu_event_get returns its initial FAIL status when it has called    *)
(* nothing that could set it.                                              *)
StatusNeverSet(s) == asm.pending # 0 /\ s.null /\ ~s.resubmit /\ s.pending # 0

CountedOnce(ok) ==
  isr' = [pc |-> "exit", some |-> ok]

Counted(ok) ==
  isr' = IF ok THEN [isr EXCEPT !.some = TRUE] ELSE [isr EXCEPT !.pc = "exit"]

Fail(kind) ==
  /\ kind \in Failures
  /\ Len(failed) < MAX_FAULTS
  /\ failed' = Append(failed, kind)

NotYetWhole(s) ==
  /\ s.pending # 0
  /\ asm' = s
  /\ UNCHANGED event_q

WholeReplaces(s) ==
  /\ s.pending = 0
  /\ asm' = NoEvent
  /\ event_q' = <<s.data>>

WholeAtHead(s) ==
  /\ s.pending = 0
  /\ asm' = NoEvent
  /\ event_q' = Cons(s.data, event_q)

Whole(s) ==
  /\ s.pending = 0
  /\ asm' = NoEvent
  /\ event_q' = Append(event_q, s.data)

IrqFragment ==
  /\ Reading
  /\ \E s \in Assembled(buf[Head(busy)]) :
       /\ Popped
       /\ Returned(s)
       /\ NotYetWhole(s) \/ Whole(s)
       /\ Counted(~StatusNeverSet(s))
  /\ UNCHANGED <<irq, wd, lock_rx, tasklets, up, delivered, failed>>

IrqNoMoreEvents ==
  /\ isr.pc = "loop"
  /\ busy = <<>>
  /\ isr' = [isr EXCEPT !.pc = "exit"]
  /\ UNCHANGED <<rpu, irq, wd, asm, event_q, lock_rx, tasklets, up, delivered, failed>>

(* hal_rpu_hpq_dequeue fails, or reads 0xAAAAAAAA from an RPU that is not  *)
(* quite awake.                                                            *)
IrqPopFails ==
  /\ Reading
  /\ Fail("hpq")
  /\ isr' = [isr EXCEPT !.pc = "exit"]
  /\ UNCHANGED <<rpu, irq, wd, asm, event_q, lock_rx, tasklets, up, delivered>>

(* hal_rpu_mem_read fails: of the header, of the first fragment or of a    *)
(* large event, or of a later fragment.                                    *)
IrqReadFails ==
  /\ Reading
  /\ ~(asm.pending # 0 /\ asm.null)
  /\ Fail("read")
  /\ Popped
  /\ IF asm.pending = 0
     THEN \/ UNCHANGED asm
          \/ \E h \in Header(buf[Head(busy)]) : asm' = GivenUp(h.n, h.resubmit)
     ELSE asm' = GivenUp(asm.pending, asm.resubmit)
  /\ isr' = [isr EXCEPT !.pc = "exit"]
  /\ UNCHANGED <<avl, irq, wd, event_q, lock_rx, tasklets, up, delivered>>

(* No memory for event_data.  The status is still that of the read.        *)
IrqDataAllocFails ==
  /\ Reading
  /\ asm.pending = 0
  /\ Fail("data")
  /\ Popped
  /\ Counted(TRUE)
  /\ UNCHANGED <<avl, irq, wd, asm, event_q, lock_rx, tasklets, up, delivered>>

(* hal_rpu_event_free fails: the fragment is not taken off the pending     *)
(* ones.                                                                   *)
IrqFreeFails ==
  /\ Reading
  /\ Fail("free")
  /\ \E s \in Assembled(buf[Head(busy)]) :
       /\ s.resubmit
       /\ asm' = GivenUp(s.pending + 1, TRUE)
  /\ Popped
  /\ isr' = [isr EXCEPT !.pc = "exit"]
  /\ UNCHANGED <<avl, irq, wd, event_q, lock_rx, tasklets, up, delivered>>

(* No memory for the message (the status is still SUCCESS unless nothing   *)
(* has set it) or for its node in event_q.                                 *)
IrqMsgAllocFails ==
  /\ Reading
  /\ Fail("msg")
  /\ \E s \in Assembled(buf[Head(busy)]), ok \in BOOLEAN :
       /\ s.pending = 0
       /\ Popped
       /\ Returned(s)
       /\ Counted(ok)
  /\ asm' = NoEvent
  /\ UNCHANGED <<irq, wd, event_q, lock_rx, tasklets, up, delivered>>

-----------------------------------------------------------------------------
(* The end of hal_rpu_irq_process and of nrf_wifi_hal_irq_handler.         *)

LeaveIsr == lock_rx' = "free" /\ isr' = NotInIsr

Schedule(recovery) ==
  IF recovery THEN recovery_tasklet' = "scheduled" /\ UNCHANGED event_tasklet
              ELSE event_tasklet' = TRUE /\ UNCHANGED recovery_tasklet

IrqExit ==
  /\ isr.pc = "exit"
  /\ wdog' = FALSE
  /\ \E recovery \in BOOLEAN :         (* is_rpu_recovery_needed           *)
       /\ recovery => wdog
       /\ Schedule(recovery)
  /\ LeaveIsr
  /\ UNCHANGED <<rpu, irq, wdogs, asm, event_q, up, delivered, failed>>

(* The watchdog's interrupt status cannot be read: it is left for later.   *)
IrqWdogUnread ==
  /\ isr.pc = "exit"
  /\ wdog
  /\ Fail("ack")
  /\ Schedule(FALSE)
  /\ LeaveIsr
  /\ UNCHANGED <<rpu, irq, wd, asm, event_q, up, delivered>>

(* The watchdog or the interrupt cannot be acknowledged: neither tasklet   *)
(* is scheduled.  Without events there is no interrupt to acknowledge.     *)
IrqAckFails ==
  /\ isr.pc = "exit"
  /\ Fail("ack")
  /\ \/ wdog /\ UNCHANGED wdog
     \/ isr.some /\ wdog' = FALSE
  /\ LeaveIsr
  /\ UNCHANGED <<rpu, irq, wdogs, asm, event_q, tasklets, up, delivered>>

-----------------------------------------------------------------------------
(* event_tasklet_fn and recovery_tasklet_fn                                *)

EventTaskletEnterAlways ==
  /\ event_tasklet
  /\ lock_rx = "free"
  /\ event_tasklet' = FALSE
  /\ lock_rx' = "tasklet"
  /\ UNCHANGED <<rpu, irq, wd, asm, event_q, isr, recovery_tasklet, up, delivered, failed>>

EventTaskletEnter ==
  /\ event_tasklet
  /\ lock_rx = "free"
  /\ event_tasklet' = FALSE
  /\ lock_rx' = IF up = "enabled" THEN "tasklet" ELSE "free"
  /\ UNCHANGED <<rpu, irq, wd, asm, event_q, isr, recovery_tasklet, up, delivered, failed>>

EventDeliver ==
  /\ lock_rx = "tasklet"
  /\ event_q # <<>>
  /\ delivered' = Append(delivered, Head(event_q))
  /\ event_q' = Tail(event_q)
  /\ UNCHANGED <<rpu, irq, wd, asm, lock_rx, isr, tasklets, up, failed>>

EventTaskletExit ==
  /\ lock_rx = "tasklet"
  /\ event_q = <<>>
  /\ lock_rx' = "free"
  /\ UNCHANGED <<rpu, irq, wd, asm, event_q, isr, tasklets, up, delivered, failed>>

(* The callback only tells the OS layer, which may take the device down.   *)
RecoveryTasklet ==
  /\ recovery_tasklet = "scheduled"
  /\ recovery_tasklet' = "ran"
  /\ UNCHANGED <<rpu, irq, wd, asm, event_q, lock_rx, isr, event_tasklet, up, delivered,
                 failed>>

-----------------------------------------------------------------------------
(* nrf_wifi_hal_dev_deinit and nrf_wifi_hal_dev_rem                        *)

HalDisable ==
  /\ Deinit
  /\ up = "enabled"
  /\ lock_rx = "free"
  /\ up' = "disabled"
  /\ UNCHANGED <<rpu, irq, wd, asm, event_q, lock_rx, isr, tasklets, delivered, failed>>

(* nrf_wifi_bal_dev_deinit unregisters the interrupt.                      *)
BusDeinit ==
  /\ up = "disabled"
  /\ up' = "stopped"
  /\ irq' = FALSE
  /\ UNCHANGED <<rpu, wd, asm, event_q, lock_rx, isr, tasklets, delivered, failed>>

Drain ==
  /\ up = "stopped"
  /\ lock_rx = "free"
  /\ event_q # <<>>
  /\ event_q' = Tail(event_q)
  /\ UNCHANGED <<rpu, irq, wd, asm, lock_rx, isr, tasklets, up, delivered, failed>>

Drained ==
  /\ up = "stopped"
  /\ lock_rx = "free"
  /\ event_q = <<>>
  /\ up' = "drained"
  /\ UNCHANGED <<rpu, irq, wd, asm, event_q, lock_rx, isr, tasklets, delivered, failed>>

DevRem ==
  /\ up = "drained"
  /\ up' = "removed"
  /\ event_tasklet' = FALSE /\ recovery_tasklet' = "idle"
  /\ UNCHANGED <<rpu, irq, wd, asm, event_q, lock_rx, isr, delivered, failed>>

-----------------------------------------------------------------------------
Isr ==
  \/ IrqEnter \/ IrqFragment \/ IrqNoMoreEvents \/ IrqExit

IsrFails ==
  \/ IrqPopFails \/ IrqReadFails \/ IrqDataAllocFails \/ IrqFreeFails
  \/ IrqMsgAllocFails \/ IrqWdogUnread \/ IrqAckFails

Tasklet == EventTaskletEnter \/ EventDeliver \/ EventTaskletExit

Next ==
  \/ RpuPosts \/ RpuReclaims \/ RpuWatchdog
  \/ Isr \/ IsrFails
  \/ Tasklet \/ RecoveryTasklet
  \/ HalDisable \/ BusDeinit \/ Drain \/ Drained \/ DevRem

Spec == Init /\ [][Next]_vars

(* Interrupts are served and scheduled tasklets run.                       *)
Fairness == WF_vars(Isr \/ IsrFails) /\ WF_vars(Tasklet)

FairSpec == Spec /\ Fairness
-----------------------------------------------------------------------------
(* Properties                                                              *)

(* A failure after which fragments of one event can be taken for another's.*)
Torn == ToSet(failed) \cap {"read", "data", "free"} # {}

IsWhole(e) ==
  /\ e # <<>>
  /\ e = [i \in 1 .. e[1].n |-> [e[1] EXCEPT !.idx = i]]

(* hal_rpu_event_get queues an event when it has its last fragment: what   *)
(* the FMAC is given is all the fragments of one event, in order.          *)
EventsAlwaysWhole ==
  \A e \in ToSet(event_q) \cup ToSet(delivered) : IsWhole(e)

(* The same, as far as the code achieves it: while every event buffer that *)
(* was popped could be read and returned.                                  *)
EventsWhole == ~Torn => EventsAlwaysWhole

InFlight == FlattenSeq(event_q) \o asm.data \o [i \in DOMAIN busy |-> buf[busy[i]]]

(* Until the device is taken down every fragment the RPU has posted is, in *)
(* its order, delivered, queued, being assembled or on the busy queue:     *)
(* neither a failed hpq access nor a failed acknowledgement loses or       *)
(* repeats one.                                                            *)
NothingLost ==
  /\ ToSet(failed) \subseteq {"hpq", "ack"}
  /\ up \in {"enabled", "disabled"}
  => FlattenSeq(delivered) \o InFlight = sent

(* What the FMAC is given is what the RPU has sent: whole, in order, once. *)
EventsIntact == EventsWhole /\ NothingLost

(* An event buffer is on one of the two queues at most, and once, whatever *)
(* fails: no buffer is read twice, or written while it waits to be read.   *)
BufferOnce == IsInjective(avl \o busy)

(* While the RPU's buffers can be read and returned, the only ones off     *)
(* both queues are those of events that are not to be resubmitted, which   *)
(* the RPU takes back by itself.                                           *)
BuffersReturned ==
  ~Torn => \A a \in Addr \ ToSet(avl \o busy) : ~buf[a].resubmit

(* From nrf_wifi_hal_dev_deinit's nrf_wifi_hal_disable on, no event is     *)
(* handed to the FMAC, although the tasklet may still run.                 *)
NoCallbackAfterDeinit == [][up # "enabled" => UNCHANGED delivered]_vars

(* The events whose first fragment is among frags, in order.               *)
Begun(frags) ==
  FlattenSeq([i \in DOMAIN frags |-> IF frags[i].idx = 1 THEN <<frags[i].id>> ELSE <<>>])

InUse == up = "enabled" /\ ~Torn

(* What the channel is seen to hold.                                       *)
Raised == IF InUse THEN Len(Begun(sent)) ELSE 0
Flying == IF InUse THEN Begun(InFlight) ELSE <<>>
Got    == IF InUse THEN [i \in DOMAIN delivered |-> delivered[i][1].id] ELSE <<>>

Channel == INSTANCE EventChannel WITH
  Events <- 1 .. MAX_EVENTS, open <- InUse, raised <- Raised, flying <- Flying, got <- Got

(* While the device is in use, event_get_all, event_q and the tasklet are  *)
(* a channel that delivers events in order and at most once.               *)
ImplementsChannel == Channel!Spec

(* An event whose last fragment was posted is handed to the FMAC, unless   *)
(* something fails or the RPU is to be recovered or taken down.            *)
EventuallyDelivered ==
  \A id \in 1 .. MAX_EVENTS :
    (\E i \in DOMAIN sent : sent[i].id = id /\ sent[i].idx = sent[i].n)
      ~> \/ \E e \in ToSet(delivered) : IsWhole(e) /\ e[1].id = id
         \/ failed # <<>>
         \/ recovery_tasklet # "idle"
         \/ up # "enabled"
=============================================================================
