--------------------------- MODULE HalEventProofs ---------------------------
(***************************************************************************)
(* Proofs about the HAL's event path (HalEvent), for any number of         *)
(* buffers, events, fragments and failures.                                *)
(*                                                                         *)
(* EventInv, the inductive invariant, adds to the types what they rest on: *)
(* every address on event_busy_queue is that of a buffer the RPU has       *)
(* filled.  OnceInv adds that no address is on the queues twice.  With it, *)
(* IntactInv says, as long as no event is torn, where in the RPU's events  *)
(* the handler is: what is assembled is the beginning of one event, the    *)
(* busy queue continues it, and the buffers that are on no queue are those *)
(* the RPU takes back.  LostInv adds that everything sent is accounted     *)
(* for.  That is about FlattenSeq, a recursive function, and takes         *)
(* induction over the length of a sequence; NatInduct has it, for sets,    *)
(* from the well-foundedness of < on the naturals.                         *)
(*                                                                         *)
(* ChannelInv adds that the RPU's events are numbered as they are raised.  *)
(* With it every step is one of EventChannel's; that the events rise       *)
(* (InOrder) is then shown of the channel's steps alone.                   *)
(***************************************************************************)
EXTENDS HalEvent, SequenceTheorems, WellFoundedInduction, TLAPS

USE EventAssumption

BusyFilled == \A i \in DOMAIN busy : buf[busy[i]] \in Fragment

EventInv == TypeOK /\ BusyFilled

(* The head of the busy queue is a fragment.                               *)
LEMMA HeadFragment ==
  ASSUME EventInv, busy # <<>>
  PROVE  Head(busy) \in Addr /\ buf[Head(busy)] \in Fragment
BY DEF EventInv, TypeOK, BusyFilled

(* An event header names at least one fragment.                            *)
LEMMA HeaderType ==
  ASSUME NEW f \in Fragment, NEW h \in Header(f)
  PROVE  h.n \in 1 .. MAX_FRAGS /\ h.resubmit \in BOOLEAN
BY DEF Fragment, Header

(* Assembling a fragment gives an assembly from which one more fragment    *)
(* has been counted off.                                                   *)
LEMMA AssembledType ==
  ASSUME TypeOK, NEW f \in Fragment, NEW s \in Assembled(f)
  PROVE  s \in Assembly /\ s.pending + 1 \in 0 .. MAX_FRAGS
<1>1. asm \in Assembly
  BY DEF TypeOK
<1>2. CASE asm.pending = 0
  <2>1. PICK h \in Header(f) : s = Started(f, h)
    BY <1>2 DEF Assembled
  <2>2. h.n \in 1 .. MAX_FRAGS /\ h.resubmit \in BOOLEAN
    BY HeaderType
  <2>3. <<f>> \in Seq(Fragment)
    OBVIOUS
  <2> QED  BY <2>1, <2>2, <2>3 DEF Started, Assembly
<1>3. CASE asm.pending # 0
  <2>1. s = Continued(f)
    BY <1>3 DEF Assembled
  <2>2. Append(asm.data, f) \in Seq(Fragment)
    BY <1>1 DEF Assembly
  <2>3. asm.pending - 1 \in 0 .. MAX_FRAGS
    BY <1>1, <1>3 DEF Assembly
  <2> QED  BY <1>1, <2>1, <2>2, <2>3 DEF Continued, Assembly
<1> QED  BY <1>2, <1>3

(* An event that is given up leaves an assembly.                           *)
LEMMA GivenUpType ==
  ASSUME NEW p \in 0 .. MAX_FRAGS, NEW r \in BOOLEAN
  PROVE  GivenUp(p, r) \in Assembly
BY DEF GivenUp, Assembly

(* No event is an assembly.                                                *)
LEMMA NoEventType == NoEvent \in Assembly
BY DEF NoEvent, Assembly

(* A fragment that is read leaves the types as they are: what is assembled *)
(* has the type of an assembly, and a whole event that of an event.        *)
LEMMA FragmentKeepsInv ==
  ASSUME EventInv, Reading, IrqFragment
  PROVE  EventInv'
<1>1. PICK s \in Assembled(buf[Head(busy)]) :
        Popped /\ Returned(s) /\ (NotYetWhole(s) \/ Whole(s)) /\ Counted(~StatusNeverSet(s))
  BY DEF IrqFragment
<1>2. Head(busy) \in Addr /\ buf[Head(busy)] \in Fragment
  BY HeadFragment DEF Reading
<1>3. s \in Assembly
  BY <1>2, AssembledType DEF EventInv
<1>4. asm' \in Assembly /\ event_q' \in Seq(Seq(Fragment))
  <2>1. s.data \in Seq(Fragment) /\ event_q \in Seq(Seq(Fragment))
    BY <1>3 DEF Assembly, EventInv, TypeOK
  <2>2. CASE NotYetWhole(s)
    BY <1>3, <2>1, <2>2 DEF NotYetWhole
  <2>3. CASE Whole(s)
    BY <2>1, <2>3, NoEventType DEF Whole
  <2> QED  BY <1>1, <2>2, <2>3
<1>5. avl' \in Seq(Addr) /\ busy' \in Seq(Addr) /\ BusyFilled'
  BY <1>1, <1>2, HeadTailProperties DEF Returned, Popped, Reading, EventInv, TypeOK, BusyFilled
<1>6. isr' \in [pc : {"idle", "loop", "exit"}, some : BOOLEAN]
  BY <1>1 DEF Counted, EventInv, TypeOK
<1> QED
  BY <1>1, <1>4, <1>5, <1>6 DEF IrqFragment, EventInv, TypeOK, Popped, wd, tasklets

(* An address that is popped leaves the rest of the queue filled.          *)
LEMMA PoppedKeeps ==
  ASSUME EventInv, busy # <<>>, Popped
  PROVE  busy' \in Seq(Addr) /\ BusyFilled'
BY HeadTailProperties DEF Popped, EventInv, TypeOK, BusyFilled

(* A failure is one of those that may happen.                              *)
LEMMA FailType ==
  ASSUME EventInv, NEW kind, Fail(kind)
  PROVE  failed' \in Seq(Failures)
BY DEF Fail, EventInv, TypeOK

(* The handler goes on or leaves its loop.                                 *)
LEMMA CountedType ==
  ASSUME EventInv, NEW ok \in BOOLEAN, Counted(ok)
  PROVE  isr' \in [pc : {"idle", "loop", "exit"}, some : BOOLEAN]
BY DEF Counted, EventInv, TypeOK

(* The handler's failures keep the types: a given-up event never counts    *)
(* more fragments than an event can have.                                  *)
LEMMA FailuresKeepInv ==
  ASSUME EventInv, IsrFails
  PROVE  EventInv'
<1>1. CASE IrqPopFails
  <2>1. failed' \in Seq(Failures)
    BY <1>1, FailType DEF IrqPopFails
  <2>2. /\ isr' = [isr EXCEPT !.pc = "exit"]
        /\ UNCHANGED <<irq, asm, event_q, lock_rx, up, delivered>>
        /\ UNCHANGED rpu /\ UNCHANGED wd /\ UNCHANGED tasklets
    BY <1>1 DEF IrqPopFails
  <2>3. isr' \in [pc : {"idle", "loop", "exit"}, some : BOOLEAN]
    BY <2>2 DEF EventInv, TypeOK
  <2> QED  BY <2>1, <2>2, <2>3 DEF EventInv, TypeOK, BusyFilled, rpu, wd, tasklets
<1>2. CASE IrqReadFails
  <2>1. Head(busy) \in Addr /\ buf[Head(busy)] \in Fragment /\ busy # <<>>
    BY <1>2, HeadFragment DEF IrqReadFails, Reading
  <2>2. asm \in Assembly
    BY DEF EventInv, TypeOK
  <2>3. asm' \in Assembly
    <3>1. CASE asm' = asm
      BY <2>2, <3>1
    <3>2. CASE \E h \in Header(buf[Head(busy)]) : asm' = GivenUp(h.n, h.resubmit)
      <4>1. PICK h \in Header(buf[Head(busy)]) : asm' = GivenUp(h.n, h.resubmit)
        BY <3>2
      <4>2. h.n \in 0 .. MAX_FRAGS /\ h.resubmit \in BOOLEAN
        BY <2>1, HeaderType
      <4> QED  BY <4>1, <4>2, GivenUpType
    <3>3. CASE asm' = GivenUp(asm.pending, asm.resubmit)
      BY <2>2, <3>3, GivenUpType DEF Assembly
    <3> QED  BY <1>2, <3>1, <3>2, <3>3 DEF IrqReadFails
  <2>4. failed' \in Seq(Failures)
    BY <1>2, FailType DEF IrqReadFails
  <2>5. busy' \in Seq(Addr) /\ BusyFilled'
    BY <1>2, <2>1, PoppedKeeps DEF IrqReadFails
  <2> QED
    BY <1>2, <2>3, <2>4, <2>5 DEF IrqReadFails, Popped, EventInv, TypeOK, wd, tasklets
<1>3. CASE IrqDataAllocFails
  <2>1. failed' \in Seq(Failures)
    BY <1>3, FailType DEF IrqDataAllocFails
  <2>2. busy' \in Seq(Addr) /\ BusyFilled'
    BY <1>3, PoppedKeeps DEF IrqDataAllocFails, Reading
  <2>3. isr' \in [pc : {"idle", "loop", "exit"}, some : BOOLEAN]
    BY <1>3, CountedType DEF IrqDataAllocFails
  <2> QED
    BY <1>3, <2>1, <2>2, <2>3 DEF IrqDataAllocFails, Popped, EventInv, TypeOK, wd, tasklets
<1>4. CASE IrqFreeFails
  <2>1. PICK s \in Assembled(buf[Head(busy)]) : asm' = GivenUp(s.pending + 1, TRUE)
    BY <1>4 DEF IrqFreeFails
  <2>2. s.pending + 1 \in 0 .. MAX_FRAGS
    BY <1>4, HeadFragment, AssembledType DEF IrqFreeFails, Reading, EventInv
  <2>3. asm' \in Assembly
    BY <2>1, <2>2, GivenUpType
  <2>4. failed' \in Seq(Failures)
    BY <1>4, FailType DEF IrqFreeFails
  <2>5. busy' \in Seq(Addr) /\ BusyFilled'
    BY <1>4, PoppedKeeps DEF IrqFreeFails, Reading
  <2> QED
    BY <1>4, <2>3, <2>4, <2>5 DEF IrqFreeFails, Popped, EventInv, TypeOK, wd, tasklets
<1>5. CASE IrqMsgAllocFails
  <2>1. PICK s \in Assembled(buf[Head(busy)]), ok \in BOOLEAN :
          Popped /\ Returned(s) /\ Counted(ok)
    BY <1>5 DEF IrqMsgAllocFails
  <2>2. failed' \in Seq(Failures)
    BY <1>5, FailType DEF IrqMsgAllocFails
  <2>3. busy' \in Seq(Addr) /\ BusyFilled'
    BY <1>5, <2>1, PoppedKeeps DEF IrqMsgAllocFails, Reading
  <2>4. avl' \in Seq(Addr)
    BY <1>5, <2>1, HeadFragment DEF IrqMsgAllocFails, Reading, Returned, EventInv, TypeOK
  <2>5. isr' \in [pc : {"idle", "loop", "exit"}, some : BOOLEAN]
    BY <2>1, CountedType
  <2> QED
    BY <1>5, <2>1, <2>2, <2>3, <2>4, <2>5, NoEventType
    DEF IrqMsgAllocFails, Popped, EventInv, TypeOK, wd, tasklets
<1>6. CASE IrqWdogUnread
  BY <1>6, FailType
  DEF IrqWdogUnread, Schedule, LeaveIsr, NotInIsr, EventInv, TypeOK, BusyFilled, rpu, wd
<1>7. CASE IrqAckFails
  BY <1>7, FailType
  DEF IrqAckFails, LeaveIsr, NotInIsr, EventInv, TypeOK, BusyFilled, rpu, tasklets
<1> QED  BY <1>1, <1>2, <1>3, <1>4, <1>5, <1>6, <1>7 DEF IsrFails

(* What the RPU posts is a fragment.                                       *)
LEMMA NextFragmentType ==
  ASSUME TypeOK, NEW f \in NextFragments
  PROVE  f \in Fragment
<1>1. CASE sent # <<>> /\ sent[Len(sent)].idx < sent[Len(sent)].n
  <2>1. PICK l \in Fragment : l = sent[Len(sent)]
    <3>1. sent \in Seq(Fragment) /\ Len(sent) \in Nat \ {0}
      BY <1>1, EmptySeq DEF TypeOK
    <3>2. Len(sent) \in 1 .. Len(sent)
      BY <3>1
    <3> QED BY <3>1, <3>2
  <2>2. f = [l EXCEPT !.idx = l.idx + 1]
    BY <1>1, <2>1 DEF NextFragments
  <2>3. l.idx + 1 \in 1 .. MAX_FRAGS
    BY <1>1, <2>1 DEF Fragment
  <2> QED BY <2>2, <2>3 DEF Fragment
<1>2. CASE ~(sent # <<>> /\ sent[Len(sent)].idx < sent[Len(sent)].n)
  BY <1>2 DEF NextFragments
<1> QED BY <1>1, <1>2

(* The RPU fills a buffer before it posts its address.                     *)
LEMMA RpuKeepsInv ==
  ASSUME EventInv, RpuPosts \/ RpuReclaims \/ RpuWatchdog
  PROVE  EventInv'
<1>1. CASE RpuPosts
  <2>1. PICK f \in NextFragments :
          buf' = [buf EXCEPT ![Head(avl)] = f] /\ sent' = Append(sent, f)
    BY <1>1 DEF RpuPosts
  <2>2. f \in Fragment
    BY <2>1, NextFragmentType DEF EventInv
  <2>3. Head(avl) \in Addr /\ avl' \in Seq(Addr)
    BY <1>1 DEF RpuPosts, EventInv, TypeOK
  <2>4. busy' \in Seq(Addr) /\ BusyFilled'
    BY <1>1, <2>1, <2>2, <2>3 DEF RpuPosts, BusyFilled, EventInv, TypeOK
  <2>5. buf' \in [Addr -> Fragment \cup {NoFragment}] /\ sent' \in Seq(Fragment)
    BY <2>1, <2>2, <2>3 DEF EventInv, TypeOK
  <2> QED
    BY <1>1, <2>3, <2>4, <2>5 DEF RpuPosts, EventInv, TypeOK, wd, tasklets
<1>2. CASE RpuReclaims
  BY <1>2 DEF RpuReclaims, EventInv, TypeOK, BusyFilled, wd, tasklets
<1>3. CASE RpuWatchdog
  BY <1>3 DEF RpuWatchdog, EventInv, TypeOK, BusyFilled, rpu, tasklets
<1> QED  BY <1>1, <1>2, <1>3

(* The rest of the handler, the tasklets and the way down change no event  *)
(* buffer.                                                                 *)
LEMMA HostKeepsInv ==
  ASSUME EventInv,
         \/ IrqEnter \/ IrqNoMoreEvents \/ IrqExit \/ Tasklet \/ RecoveryTasklet
         \/ HalDisable \/ BusDeinit \/ Drain \/ Drained \/ DevRem
  PROVE  EventInv'
<1> USE DEF EventInv, TypeOK, BusyFilled, rpu, wd, tasklets
<1>1. CASE IrqEnter
  <2>1. CASE up = "enabled"
    <3>1. isr' = [pc |-> "loop", some |-> FALSE] /\ lock_rx' = "isr" /\ irq' = FALSE
      BY <1>1, <2>1 DEF IrqEnter
    <3>2. isr' \in [pc : {"idle", "loop", "exit"}, some : BOOLEAN]
      BY <3>1
    <3> QED  BY <1>1, <3>1, <3>2 DEF IrqEnter
  <2>2. CASE up # "enabled"
    BY <1>1, <2>2 DEF IrqEnter
  <2> QED  BY <2>1, <2>2
<1>2. CASE IrqNoMoreEvents
  BY <1>2 DEF IrqNoMoreEvents
<1>3. CASE IrqExit
  BY <1>3 DEF IrqExit, Schedule, LeaveIsr, NotInIsr
<1>4. CASE EventTaskletEnter
  BY <1>4 DEF EventTaskletEnter
<1>5. CASE EventDeliver
  BY <1>5 DEF EventDeliver
<1>6. CASE EventTaskletExit
  BY <1>6 DEF EventTaskletExit
<1>7. CASE RecoveryTasklet
  BY <1>7 DEF RecoveryTasklet
<1>8. CASE HalDisable
  BY <1>8 DEF HalDisable
<1>9. CASE BusDeinit \/ Drained \/ DevRem
  BY <1>9 DEF BusDeinit, Drained, DevRem
<1>10. CASE Drain
  BY <1>10 DEF Drain
<1> QED
  BY <1>1, <1>2, <1>3, <1>4, <1>5, <1>6, <1>7, <1>8, <1>9, <1>10 DEF Tasklet

(* EventInv is inductive.                                                  *)
LEMMA InvStep ==
  ASSUME EventInv, [Next]_vars
  PROVE  EventInv'
<1>1. CASE IrqFragment
  BY <1>1, FragmentKeepsInv DEF IrqFragment
<1>2. CASE UNCHANGED vars
  BY <1>2 DEF EventInv, TypeOK, BusyFilled, vars
<1> QED
  BY <1>1, <1>2, FailuresKeepInv, RpuKeepsInv, HostKeepsInv DEF Next, Isr

(* The event path starts in EventInv.                                      *)
LEMMA EventInit ==
  ASSUME Init
  PROVE  EventInv
<1>1. avl \in Seq(Addr)
  BY IsASeq DEF Init, Addr
<1>2. asm \in Assembly
  BY NoEventType DEF Init
<1>3. isr \in [pc : {"idle", "loop", "exit"}, some : BOOLEAN]
  BY DEF Init, NotInIsr
<1>4. /\ busy \in Seq(Addr) /\ sent \in Seq(Fragment) /\ event_q \in Seq(Seq(Fragment))
      /\ delivered \in Seq(Seq(Fragment)) /\ failed \in Seq(Failures)
  BY DEF Init
<1>5. buf \in [Addr -> Fragment \cup {NoFragment}] /\ BusyFilled
  BY DEF Init, BusyFilled
<1>6. wdogs \in 0 .. MAX_WDOGS
  BY DEF Init
<1>7. /\ irq \in BOOLEAN /\ wdog \in BOOLEAN
      /\ lock_rx \in {"free", "isr", "tasklet"} /\ event_tasklet \in BOOLEAN
      /\ recovery_tasklet \in {"idle", "scheduled", "ran"}
      /\ up \in {"enabled", "disabled", "stopped", "drained", "removed"}
  BY Zenon DEF Init
<1> QED  BY <1>1, <1>2, <1>3, <1>4, <1>5, <1>6, <1>7 DEF EventInv, TypeOK

(* The variables of the event path always have their types.                *)
THEOREM TypeCorrect == Spec => []TypeOK
<1>1. Init => EventInv
  BY EventInit
<1>2. EventInv => TypeOK
  BY DEF EventInv
<1> QED  BY <1>1, <1>2, InvStep, PTL DEF Spec

-----------------------------------------------------------------------------
(* The tasklet finds the HAL enabled when it takes lock_rx, and            *)
(* nrf_wifi_hal_disable needs the lock.                                    *)
TaskletEnabled == lock_rx = "tasklet" => up = "enabled"

(* From nrf_wifi_hal_disable on, no event is handed to the FMAC, whatever  *)
(* the interrupt handler and the tasklets were doing.                      *)
THEOREM NoCallback == Spec => NoCallbackAfterDeinit
<1>1. Init => TaskletEnabled
  BY DEF Init, TaskletEnabled
<1>2. TaskletEnabled /\ [Next]_vars => TaskletEnabled'
  <2> SUFFICES ASSUME TaskletEnabled, [Next]_vars PROVE TaskletEnabled'
    OBVIOUS
  <2> USE DEF TaskletEnabled
  <2>1. CASE EventTaskletEnter \/ EventTaskletExit
    BY <2>1 DEF EventTaskletEnter, EventTaskletExit
  <2>2. CASE HalDisable \/ BusDeinit \/ Drained \/ DevRem
    BY <2>2 DEF HalDisable, BusDeinit, Drained, DevRem
  <2>3. CASE IrqEnter \/ IrqExit \/ IrqWdogUnread \/ IrqAckFails
    BY <2>3 DEF IrqEnter, IrqExit, IrqWdogUnread, IrqAckFails, LeaveIsr
  <2>4. CASE UNCHANGED <<lock_rx, up>>
    BY <2>4
  <2> QED
    BY <2>1, <2>2, <2>3, <2>4
    DEF Next, Isr, IsrFails, Tasklet, RpuPosts, RpuReclaims, RpuWatchdog, IrqFragment,
        IrqNoMoreEvents, IrqPopFails, IrqReadFails, IrqDataAllocFails, IrqFreeFails,
        IrqMsgAllocFails, EventDeliver, RecoveryTasklet, Drain, vars
<1>3. TaskletEnabled /\ [Next]_vars => [up # "enabled" => UNCHANGED delivered]_vars
  BY DEF TaskletEnabled, Next, Isr, IsrFails, Tasklet, RpuPosts, RpuReclaims, RpuWatchdog,
     IrqEnter, IrqExit, IrqWdogUnread, IrqAckFails, IrqFragment, IrqNoMoreEvents,
     IrqPopFails, IrqReadFails, IrqDataAllocFails, IrqFreeFails, IrqMsgAllocFails,
     EventTaskletEnter, EventDeliver, EventTaskletExit, RecoveryTasklet, HalDisable,
     BusDeinit, Drain, Drained, DevRem, vars
<1> QED  BY <1>1, <1>2, <1>3, PTL DEF Spec, NoCallbackAfterDeinit

-----------------------------------------------------------------------------
(* Two queues that share no element and repeat none.                       *)
Once(s, t) ==
  /\ \A i, j \in 1 .. Len(s) : s[i] = s[j] => i = j
  /\ \A i, j \in 1 .. Len(t) : t[i] = t[j] => i = j
  /\ \A i \in 1 .. Len(s), j \in 1 .. Len(t) : s[i] # t[j]

(* That is what BufferOnce says of their concatenation.                    *)
LEMMA OnceInjective ==
  ASSUME NEW S, NEW s \in Seq(S), NEW t \in Seq(S), Once(s, t)
  PROVE  IsInjective(s \o t)
<1> DEFINE c == s \o t
<1>1. DOMAIN c = 1 .. (Len(s) + Len(t))
  BY ConcatProperties
<1>2. SUFFICES ASSUME NEW i \in 1 .. (Len(s) + Len(t)), NEW j \in 1 .. (Len(s) + Len(t)),
                      c[i] = c[j]
               PROVE  i = j
  BY <1>1 DEF IsInjective
<1>3. \A k \in 1 .. (Len(s) + Len(t)) : c[k] = IF k <= Len(s) THEN s[k] ELSE t[k - Len(s)]
  BY ConcatProperties
<1>4. Len(s) \in Nat /\ Len(t) \in Nat
  OBVIOUS
<1>5. CASE i <= Len(s) /\ j <= Len(s)
  <2>1. i \in 1 .. Len(s) /\ j \in 1 .. Len(s) /\ s[i] = s[j]
    BY <1>2, <1>3, <1>4, <1>5
  <2> QED  BY <2>1 DEF Once
<1>6. CASE i <= Len(s) /\ ~(j <= Len(s))
  <2>1. i \in 1 .. Len(s) /\ j - Len(s) \in 1 .. Len(t) /\ s[i] = t[j - Len(s)]
    BY <1>2, <1>3, <1>4, <1>6
  <2> QED  BY <2>1 DEF Once
<1>7. CASE ~(i <= Len(s)) /\ j <= Len(s)
  <2>1. j \in 1 .. Len(s) /\ i - Len(s) \in 1 .. Len(t) /\ s[j] = t[i - Len(s)]
    BY <1>2, <1>3, <1>4, <1>7
  <2> QED  BY <2>1 DEF Once
<1>8. CASE ~(i <= Len(s)) /\ ~(j <= Len(s))
  <2>1. i - Len(s) \in 1 .. Len(t) /\ j - Len(s) \in 1 .. Len(t)
        /\ t[i - Len(s)] = t[j - Len(s)]
    BY <1>2, <1>3, <1>4, <1>8
  <2>2. i - Len(s) = j - Len(s)
    BY <2>1 DEF Once
  <2> QED  BY <1>4, <2>2
<1> QED  BY <1>5, <1>6, <1>7, <1>8

(* The order of the two queues does not matter.                            *)
LEMMA OnceSymmetric ==
  ASSUME NEW s, NEW t, Once(s, t)
  PROVE  Once(t, s)
BY DEF Once

(* An element may leave a queue ...                                        *)
LEMMA OncePop ==
  ASSUME NEW S, NEW s \in Seq(S), NEW t \in Seq(S), Once(s, t), t # <<>>
  PROVE  /\ Once(s, Tail(t))
         /\ \A i \in 1 .. Len(s) : s[i] # Head(t)
         /\ \A j \in 1 .. Len(Tail(t)) : Tail(t)[j] # Head(t)
<1>1. /\ Len(t) \in Nat \ {0} /\ Len(Tail(t)) = Len(t) - 1 /\ Head(t) = t[1]
      /\ \A i \in 1 .. Len(Tail(t)) : Tail(t)[i] = t[i + 1]
  BY HeadTailProperties
<1>2. \A i \in 1 .. Len(Tail(t)) : i + 1 \in 1 .. Len(t) /\ i + 1 # 1
  BY <1>1
<1>3. 1 \in 1 .. Len(t)
  BY <1>1
<1>4. \A i, j \in 1 .. Len(Tail(t)) : Tail(t)[i] = Tail(t)[j] => i = j
  <2> SUFFICES ASSUME NEW i \in 1 .. Len(Tail(t)), NEW j \in 1 .. Len(Tail(t)),
                      Tail(t)[i] = Tail(t)[j]
               PROVE  i = j
    OBVIOUS
  <2>1. i + 1 = j + 1
    BY <1>1, <1>2 DEF Once
  <2> QED  BY <2>1
<1> QED  BY <1>1, <1>2, <1>3, <1>4 DEF Once

(* ... and an element that is in neither may join one.                     *)
LEMMA OncePush ==
  ASSUME NEW S, NEW s \in Seq(S), NEW t \in Seq(S), Once(s, t), NEW x \in S,
         \A i \in 1 .. Len(s) : s[i] # x,
         \A j \in 1 .. Len(t) : t[j] # x
  PROVE  Once(Append(s, x), t)
<1>1. /\ Len(Append(s, x)) = Len(s) + 1 /\ Append(s, x)[Len(s) + 1] = x /\ Len(s) \in Nat
      /\ \A i \in 1 .. Len(s) : Append(s, x)[i] = s[i]
  BY AppendProperties
<1>2. \A i \in 1 .. (Len(s) + 1) : i \in 1 .. Len(s) \/ i = Len(s) + 1
  BY <1>1
<1> QED  BY <1>1, <1>2 DEF Once

OnceInv == EventInv /\ Once(avl, busy)

(* What the actions do to the two queues: nothing, post, reclaim, pop, or  *)
(* pop and return.                                                         *)
QueueStep ==
  \/ UNCHANGED <<avl, busy>>
  \/ /\ avl # <<>> /\ avl' = Tail(avl) /\ busy' = Append(busy, Head(avl))
  \/ /\ \E a \in Addr \ (ToSet(avl) \cup ToSet(busy)) : avl' = Append(avl, a)
     /\ busy' = busy
  \/ /\ busy # <<>> /\ busy' = Tail(busy)
     /\ avl' = avl \/ avl' = Append(avl, Head(busy))

(* Every action is one of these.                                           *)
LEMMA QueueSteps == [Next]_vars => QueueStep
BY DEF QueueStep, Next, Isr, IsrFails, Tasklet, RpuPosts, RpuReclaims, RpuWatchdog,
   IrqEnter, IrqExit, IrqWdogUnread, IrqAckFails, IrqFragment, IrqNoMoreEvents,
   IrqPopFails, IrqReadFails, IrqDataAllocFails, IrqFreeFails, IrqMsgAllocFails,
   EventTaskletEnter, EventDeliver, EventTaskletExit, RecoveryTasklet, HalDisable,
   BusDeinit, Drain, Drained, DevRem, vars, rpu, Reading, Popped, Returned

(* No queue step repeats an address.                                       *)
LEMMA OnceStep ==
  ASSUME OnceInv, QueueStep
  PROVE  Once(avl, busy)'
<1>1. avl \in Seq(Addr) /\ busy \in Seq(Addr) /\ Once(avl, busy) /\ Once(busy, avl)
  BY OnceSymmetric DEF OnceInv, EventInv, TypeOK
<1>2. CASE avl # <<>> /\ avl' = Tail(avl) /\ busy' = Append(busy, Head(avl))
  <2>1. /\ Once(busy, Tail(avl)) /\ Tail(avl) \in Seq(Addr) /\ Head(avl) \in Addr
        /\ \A i \in 1 .. Len(busy) : busy[i] # Head(avl)
        /\ \A j \in 1 .. Len(Tail(avl)) : Tail(avl)[j] # Head(avl)
    BY <1>1, <1>2, OncePop, HeadTailProperties
  <2>2. Once(Append(busy, Head(avl)), Tail(avl))
    <3> DEFINE x == Head(avl)
               t == Tail(avl)
    <3>1. /\ Once(busy, t) /\ t \in Seq(Addr) /\ x \in Addr
          /\ \A i \in 1 .. Len(busy) : busy[i] # x
          /\ \A j \in 1 .. Len(t) : t[j] # x
      BY <2>1
    <3> HIDE DEF x, t
    <3>2. Once(Append(busy, x), t)
      BY <1>1, <3>1, OncePush
    <3> QED  BY <3>2 DEF x, t
  <2> QED  BY <1>2, <2>2, OnceSymmetric
<1>3. CASE /\ \E a \in Addr \ (ToSet(avl) \cup ToSet(busy)) : avl' = Append(avl, a)
           /\ busy' = busy
  <2>1. PICK a \in Addr \ (ToSet(avl) \cup ToSet(busy)) : avl' = Append(avl, a)
    BY <1>3
  <2>2. /\ \A i \in 1 .. Len(avl) : avl[i] # a
        /\ \A j \in 1 .. Len(busy) : busy[j] # a
    BY <1>1, <2>1 DEF ToSet
  <2>3. Once(Append(avl, a), busy)
    BY <1>1, <2>1, <2>2, OncePush
  <2> QED  BY <1>3, <2>1, <2>3
<1>4. CASE /\ busy # <<>> /\ busy' = Tail(busy)
           /\ avl' = avl \/ avl' = Append(avl, Head(busy))
  <2>1. /\ Once(avl, Tail(busy)) /\ Tail(busy) \in Seq(Addr) /\ Head(busy) \in Addr
        /\ \A i \in 1 .. Len(avl) : avl[i] # Head(busy)
        /\ \A j \in 1 .. Len(Tail(busy)) : Tail(busy)[j] # Head(busy)
    BY <1>1, <1>4, OncePop, HeadTailProperties
  <2>2. Once(Append(avl, Head(busy)), Tail(busy))
    <3> DEFINE x == Head(busy)
               t == Tail(busy)
    <3>1. /\ Once(avl, t) /\ t \in Seq(Addr) /\ x \in Addr
          /\ \A i \in 1 .. Len(avl) : avl[i] # x
          /\ \A j \in 1 .. Len(t) : t[j] # x
      BY <2>1
    <3> HIDE DEF x, t
    <3>2. Once(Append(avl, x), t)
      BY <1>1, <3>1, OncePush
    <3> QED  BY <3>2 DEF x, t
  <2> QED  BY <1>4, <2>1, <2>2
<1>5. CASE UNCHANGED <<avl, busy>>
  BY <1>1, <1>5
<1> QED  BY <1>2, <1>3, <1>4, <1>5 DEF QueueStep

(* No event buffer is ever on the queues twice: the HAL returns a buffer   *)
(* at most once for every time that it pops it, whatever fails.            *)
THEOREM BuffersOnce == Spec => []BufferOnce
<1>1. Init => OnceInv
  <2> SUFFICES ASSUME Init PROVE OnceInv
    OBVIOUS
  <2>1. EventInv
    BY EventInit
  <2>2. Once(avl, busy)
    BY DEF Init, Once, Addr
  <2> QED  BY <2>1, <2>2 DEF OnceInv
<1>2. OnceInv /\ [Next]_vars => OnceInv'
  BY QueueSteps, OnceStep, InvStep DEF OnceInv
<1>3. OnceInv => BufferOnce
  BY OnceInjective DEF OnceInv, EventInv, TypeOK, BufferOnce
<1> QED  BY <1>1, <1>2, <1>3, PTL DEF Spec

-----------------------------------------------------------------------------
(* Every set of naturals has a least element.                              *)
LEMMA Least ==
  ASSUME NEW T \in SUBSET Nat, T # {}
  PROVE  \E m \in T : \A n \in T : m <= n
<1>1. IsWellFoundedOn(OpToRel(<, Nat), Nat)
  BY NatLessThanWellFounded, Zenon
<1>2. PICK R : R = {ss \in Nat \X Nat : ss[1] < ss[2]}
  OBVIOUS
<1>3. OpToRel(<, Nat) = R
  BY <1>2 DEF OpToRel
<1>4. IsWellFoundedOn(R, Nat)
  BY <1>1, <1>3
<1>5. PICK m \in T : \A n \in T : ~(<<n, m>> \in R)
  <2>1. \A S, U : IsWellFoundedOn(R, S) /\ U \subseteq S /\ U # {}
                     => \E x \in U : \A y \in U : ~(<<y, x>> \in R)
    <3> TAKE S, U
    <3> HAVE IsWellFoundedOn(R, S) /\ U \subseteq S /\ U # {}
    <3> QED BY WFMin
  <2> QED  BY <1>4, <2>1
<1>6. ASSUME NEW n \in T PROVE m <= n
  <2>1. n \in Nat /\ m \in Nat
    OBVIOUS
  <2>2. <<n, m>> \in R <=> n < m
    BY <1>2, <2>1
  <2> QED BY <1>5, <2>1, <2>2
<1> QED BY <1>6

(* Induction: what holds of 0 and is passed on holds of every natural.     *)
LEMMA NatInduct ==
  ASSUME NEW S, 0 \in S, \A n \in Nat : n \in S => n + 1 \in S
  PROVE  \A n \in Nat : n \in S
<1> SUFFICES ASSUME NEW n \in Nat, n \notin S PROVE FALSE
  OBVIOUS
<1>1. PICK T \in SUBSET Nat : T = Nat \ S
  OBVIOUS
<1>2. T # {}
  BY <1>1
<1>3. PICK m \in T : \A k \in T : m <= k
  BY <1>2, Least
<1>4. m \in Nat /\ m # 0 /\ m - 1 \in Nat /\ m - 1 \notin T
  BY <1>1, <1>3
<1> QED BY <1>1, <1>3, <1>4

-----------------------------------------------------------------------------
(* FlattenSeq                                                              *)

(* What the recursive function inside FlattenSeq computes.                 *)
Flattens(g, seqs, n) ==
  g = [i \in 1 .. n |-> IF i = 1 THEN seqs[i] ELSE g[i - 1] \o seqs[i]]

Flattened(seqs, n) == \E g : Flattens(g, seqs, n)

(* There is such a function for the sequences of any length, by induction. *)
LEMMA FlattensExists ==
  ASSUME NEW seqs, NEW n \in Nat
  PROVE  Flattened(seqs, n)
<1>1. PICK S : S = {m \in Nat : Flattened(seqs, m)}
  OBVIOUS
<1>2. 0 \in S
  <2>1. Flattens(<<>>, seqs, 0)
    BY DEF Flattens
  <2> QED BY <1>1, <2>1 DEF Flattened
<1>3. ASSUME NEW m \in Nat, m \in S PROVE m + 1 \in S
  <2>1. PICK g : Flattens(g, seqs, m)
    BY <1>1, <1>3, Zenon DEF Flattened
  <2>2. PICK h : h = [i \in 1 .. m + 1 |->
                        IF i = m + 1 THEN (IF i = 1 THEN seqs[i] ELSE g[i - 1] \o seqs[i])
                                     ELSE g[i]]
    OBVIOUS
  <2>3. ASSUME NEW i \in 1 .. m PROVE h[i] = g[i] /\ i # m + 1
    BY <2>2
  <2>4. ASSUME NEW i \in 1 .. m + 1
        PROVE  h[i] = (IF i = 1 THEN seqs[i] ELSE h[i - 1] \o seqs[i])
    <3>1. CASE i = m + 1
      <4>1. i # 1 => i - 1 \in 1 .. m
        BY <3>1
      <4>2. h[i] = (IF i = 1 THEN seqs[i] ELSE g[i - 1] \o seqs[i])
        BY <2>2, <3>1
      <4> QED BY <2>3, <4>1, <4>2
    <3>2. CASE i # m + 1
      <4>1. i \in 1 .. m /\ (i # 1 => i - 1 \in 1 .. m)
        BY <3>2
      <4>2. g[i] = (IF i = 1 THEN seqs[i] ELSE g[i - 1] \o seqs[i])
        BY <2>1, <4>1 DEF Flattens
      <4> QED BY <2>3, <4>1, <4>2
    <3> QED BY <3>1, <3>2
  <2>5. h = [i \in 1 .. m + 1 |-> IF i = 1 THEN seqs[i] ELSE h[i - 1] \o seqs[i]]
    BY <2>2, <2>4
  <2>6. Flattened(seqs, m + 1)
    BY <2>5, Zenon DEF Flattens, Flattened
  <2> QED BY <1>1, <2>6
<1>4. n \in S
  BY <1>2, <1>3, NatInduct
<1> QED BY <1>1, <1>4

(* The n first sequences, concatenated.                                    *)
Flat(seqs, n) == CHOOSE g : Flattens(g, seqs, n)

(* So the one that is chosen satisfies its recursive definition.           *)
LEMMA FlatIs ==
  ASSUME NEW seqs, NEW n \in Nat, NEW i \in 1 .. n
  PROVE  Flat(seqs, n)[i] = IF i = 1 THEN seqs[i] ELSE Flat(seqs, n)[i - 1] \o seqs[i]
<1>1. Flattens(Flat(seqs, n), seqs, n)
  BY FlattensExists, Zenon DEF Flat, Flattened
<1> QED BY <1>1 DEF Flattens

(* FlattenSeq is the last of the concatenations.                           *)
LEMMA FlattenIs ==
  ASSUME NEW seqs, Len(seqs) \in Nat, Len(seqs) # 0
  PROVE  FlattenSeq(seqs) = Flat(seqs, Len(seqs))[Len(seqs)]
<1>1. FlattenSeq(seqs) =
        LET flatten[i \in 1..Len(seqs)] ==
              IF i = 1 THEN seqs[i] ELSE flatten[i-1] \o seqs[i]
        IN  flatten[Len(seqs)]
  BY Zenon DEF FlattenSeq
<1>2. FlattenSeq(seqs) =
        (CHOOSE flatten : flatten = [i \in 1..Len(seqs) |->
           IF i = 1 THEN seqs[i] ELSE flatten[i-1] \o seqs[i]])[Len(seqs)]
  BY <1>1, Zenon
<1>3. (CHOOSE flatten : flatten = [i \in 1..Len(seqs) |->
         IF i = 1 THEN seqs[i] ELSE flatten[i-1] \o seqs[i]]) = Flat(seqs, Len(seqs))
  BY Zenon DEF Flat, Flattens
<1> QED BY <1>2, <1>3, Zenon

(* Nothing flattens to nothing.                                            *)
LEMMA FlattenEmpty == FlattenSeq(<<>>) = <<>>
BY DEF FlattenSeq

(* The same beginning.                                                     *)
SameUpTo(s, t, n) == \A i \in 1 .. n : s[i] = t[i]

(* Two queues with the same beginning flatten to the same beginning.       *)
LEMMA FlatAgrees ==
  ASSUME NEW s, NEW t, NEW n \in Nat, NEW m \in Nat, n <= m, SameUpTo(s, t, n)
  PROVE  SameUpTo(Flat(s, n), Flat(t, m), n)
<1>1. PICK S : S = {i \in Nat : i \in 1 .. n => Flat(s, n)[i] = Flat(t, m)[i]}
  OBVIOUS
<1>2. 0 \in S
  BY <1>1
<1>3. ASSUME NEW i \in Nat, i \in S, i + 1 \in 1 .. n PROVE Flat(s, n)[i + 1] = Flat(t, m)[i + 1]
  <2>1. PICK j \in 1 .. n : j = i + 1
    BY <1>3
  <2>2. j \in 1 .. m /\ j - 1 = i
    BY <2>1
  <2>3. Flat(s, n)[j] = IF j = 1 THEN s[j] ELSE Flat(s, n)[i] \o s[j]
    BY <2>1, <2>2, FlatIs
  <2>4. Flat(t, m)[j] = IF j = 1 THEN t[j] ELSE Flat(t, m)[i] \o t[j]
    BY <2>1, <2>2, FlatIs
  <2>5. j # 1 => Flat(s, n)[i] = Flat(t, m)[i]
    <3>1. j # 1 => i \in 1 .. n
      BY <2>1
    <3> QED BY <1>1, <1>3, <3>1
  <2>6. s[j] = t[j]
    BY DEF SameUpTo
  <2> QED BY <2>1, <2>3, <2>4, <2>5, <2>6
<1>4. \A i \in Nat : i \in S => i + 1 \in S
  BY <1>1, <1>3
<1>5. \A i \in Nat : i \in S
  BY <1>2, <1>4, NatInduct
<1> QED BY <1>1, <1>5 DEF SameUpTo

(* The concatenations are sequences of what the sequences hold ...         *)
LEMMA FlatType ==
  ASSUME NEW X, NEW s \in Seq(Seq(X))
  PROVE  \A i \in 1 .. Len(s) : Flat(s, Len(s))[i] \in Seq(X)
<1>1. PICK S : S = {i \in Nat : i \in 1 .. Len(s) => Flat(s, Len(s))[i] \in Seq(X)}
  OBVIOUS
<1>2. 0 \in S
  BY <1>1
<1>3. ASSUME NEW i \in Nat, i \in S, i + 1 \in 1 .. Len(s)
      PROVE  Flat(s, Len(s))[i + 1] \in Seq(X)
  <2>1. PICK j \in 1 .. Len(s) : j = i + 1
    BY <1>3
  <2>2. j - 1 = i /\ Len(s) \in Nat
    BY <2>1
  <2>3. Flat(s, Len(s))[j] = IF j = 1 THEN s[j] ELSE Flat(s, Len(s))[i] \o s[j]
    BY <2>1, <2>2, FlatIs
  <2>4. j # 1 => Flat(s, Len(s))[i] \in Seq(X)
    <3>1. j # 1 => i \in 1 .. Len(s)
      BY <2>1, <2>2
    <3> QED BY <1>1, <1>3, <3>1
  <2>5. s[j] \in Seq(X)
    OBVIOUS
  <2> QED BY <2>1, <2>3, <2>4, <2>5
<1>4. \A i \in Nat : i \in S => i + 1 \in S
  BY <1>1, <1>3
<1>5. \A i \in Nat : i \in S
  BY <1>2, <1>4, NatInduct
<1> QED BY <1>1, <1>5

(* ... and so is what FlattenSeq computes.                                 *)
LEMMA FlattenType ==
  ASSUME NEW X, NEW s \in Seq(Seq(X))
  PROVE  FlattenSeq(s) \in Seq(X)
<1>1. CASE s = <<>>
  <2>1. <<>> \in Seq(X)
    OBVIOUS
  <2> QED BY <1>1, <2>1, FlattenEmpty
<1>2. CASE s # <<>>
  <2>1. Len(s) \in Nat /\ Len(s) # 0 /\ Len(s) \in 1 .. Len(s)
    BY <1>2
  <2> QED BY <2>1, FlattenIs, FlatType
<1> QED BY <1>1, <1>2

(* FlattenSeq of a queue to which an event is appended: the event follows. *)
LEMMA FlattenAppend ==
  ASSUME NEW X, NEW s \in Seq(Seq(X)), NEW e \in Seq(X)
  PROVE  FlattenSeq(Append(s, e)) = FlattenSeq(s) \o e
<1>1. PICK t \in Seq(Seq(X)) : t = Append(s, e)
  <2>1. Append(s, e) \in Seq(Seq(X))
    BY AppendProperties
  <2> QED BY <2>1
<1>2. PICK n \in Nat : n = Len(s)
  OBVIOUS
<1>3. Len(t) = n + 1 /\ t[n + 1] = e /\ \A i \in 1 .. n : s[i] = t[i]
  BY <1>1, <1>2
<1>4. FlattenSeq(t) = Flat(t, n + 1)[n + 1]
  BY <1>3, FlattenIs
<1>5. Flat(t, n + 1)[n + 1] =
        IF n + 1 = 1 THEN t[n + 1] ELSE Flat(t, n + 1)[(n + 1) - 1] \o t[n + 1]
  <2>1. n + 1 \in Nat /\ n + 1 \in 1 .. n + 1
    OBVIOUS
  <2> QED BY <2>1, FlatIs
<1>6. CASE n = 0
  <2>1. s = <<>>
    <3> QED BY <1>2, <1>6, EmptySeq
  <2>2. <<>> \o e = e
    OBVIOUS
  <2>3. FlattenSeq(t) = e
    BY <1>3, <1>4, <1>5, <1>6
  <2> QED BY <1>1, <2>1, <2>2, <2>3, FlattenEmpty
<1>7. CASE n # 0
  <2>1. Flat(t, n + 1)[n] = Flat(s, n)[n]
    <3>1. \A i \in 1 .. n : Flat(s, n)[i] = Flat(t, n + 1)[i]
      <4>1. PICK m \in Nat : m = n + 1
        OBVIOUS
      <4>2. n <= m
        BY <4>1
      <4>3. SameUpTo(s, t, n)
        BY <1>3, Zenon DEF SameUpTo
      <4>4. SameUpTo(Flat(s, n), Flat(t, m), n)
        BY <4>2, <4>3, FlatAgrees, Zenon
      <4> QED BY <4>1, <4>4, Zenon DEF SameUpTo
    <3> QED BY <1>7, <3>1
  <2>2. FlattenSeq(s) = Flat(s, n)[n]
    BY <1>2, <1>7, FlattenIs
  <2>3. n + 1 # 1 /\ (n + 1) - 1 = n
    BY <1>7
  <2> QED BY <1>1, <1>3, <1>4, <1>5, <2>1, <2>2, <2>3
<1> QED BY <1>6, <1>7

(* Sequences joined in either order are the same.                          *)
Associative(X) == \A u, v, w \in Seq(X) : (u \o v) \o w = u \o (v \o w)

LEMMA CatAssociative == ASSUME NEW X PROVE Associative(X)
<1> SUFFICES ASSUME NEW u \in Seq(X), NEW v \in Seq(X), NEW w \in Seq(X)
             PROVE  (u \o v) \o w = u \o (v \o w)
  BY DEF Associative
<1> DEFINE l == (u \o v) \o w
           r == u \o (v \o w)
<1>1. l \in Seq(X) /\ r \in Seq(X) /\ Len(l) = Len(r)
  OBVIOUS
<1>2. ASSUME NEW i \in 1 .. Len(l)
      PROVE  l[i] = r[i]
  <2>1. Len(u) \in Nat /\ Len(v) \in Nat /\ Len(w) \in Nat /\ i \in Nat
    OBVIOUS
  <2>2. CASE i <= Len(u)
    BY <2>1, <2>2
  <2>3. CASE Len(u) < i /\ i <= Len(u) + Len(v)
    BY <2>1, <2>3
  <2>4. CASE Len(u) + Len(v) < i
    BY <2>1, <2>4
  <2> QED  BY <2>1, <2>2, <2>3, <2>4
<1> HIDE DEF l, r
<1>3. l = r
  BY <1>1, <1>2, SeqEqual
<1> QED  BY <1>3 DEF l, r

(* FlattenSeq of a queue starts with its head, by induction on its length. *)
LEMMA FlattenHead ==
  ASSUME NEW X, NEW s \in Seq(Seq(X)), s # <<>>
  PROVE  FlattenSeq(s) = Head(s) \o FlattenSeq(Tail(s))
<1>1. PICK t \in Seq(Seq(X)) : t = Tail(s)
  <2>1. Tail(s) \in Seq(Seq(X))
    BY HeadTailProperties
  <2> QED BY <2>1
<1>2. PICK n \in Nat : n = Len(t)
  OBVIOUS
<1>3. Len(s) = n + 1 /\ Head(s) = s[1] /\ \A i \in 1 .. n : t[i] = s[i + 1]
  BY <1>1, <1>2
<1>4. s[1] \in Seq(X) /\ \A i \in 1 .. n : t[i] \in Seq(X)
  BY <1>2, <1>3
<1>5. PICK S : S = {i \in Nat : i \in 1 .. n => Flat(s, n + 1)[i + 1] = s[1] \o Flat(t, n)[i]}
  OBVIOUS
<1>6. 0 \in S
  BY <1>5
<1>7. ASSUME NEW i \in Nat, i \in S, i + 1 \in 1 .. n
      PROVE  Flat(s, n + 1)[i + 2] = s[1] \o Flat(t, n)[i + 1]
  <2>1. PICK j \in 1 .. n : j = i + 1
    BY <1>7
  <2>2. PICK k \in 1 .. n + 1 : k = i + 2
    BY <1>7
  <2>3. j - 1 = i /\ k - 1 = i + 1 /\ k # 1 /\ n + 1 \in Nat /\ s[k] = t[j]
    BY <1>3, <2>1, <2>2
  <2>4. Flat(s, n + 1)[k] = Flat(s, n + 1)[i + 1] \o t[j]
    <3>1. Flat(s, n + 1)[k] = IF k = 1 THEN s[k] ELSE Flat(s, n + 1)[k - 1] \o s[k]
      BY <2>3, FlatIs, Zenon
    <3> QED BY <2>3, <3>1, Zenon
  <2>5. Flat(t, n)[j] = IF j = 1 THEN t[j] ELSE Flat(t, n)[i] \o t[j]
    BY <2>3, FlatIs
  <2>6. CASE i = 0
    <3>1. Flat(s, n + 1)[1] = s[1]
      <4>1. 1 \in 1 .. n + 1
        OBVIOUS
      <4> QED BY <4>1, FlatIs
    <3>2. i + 1 = 1 /\ j = 1
      BY <2>1, <2>6
    <3> QED BY <2>1, <2>2, <2>4, <2>5, <3>1, <3>2
  <2>7. CASE i # 0
    <3>1. i \in 1 .. n /\ j # 1
      BY <2>1, <2>7
    <3>2. Flat(s, n + 1)[i + 1] = s[1] \o Flat(t, n)[i]
      BY <1>5, <1>7, <3>1
    <3>3. Flat(t, n)[i] \in Seq(X)
      BY <1>2, <3>1, FlatType
    <3>4. (s[1] \o Flat(t, n)[i]) \o t[j] = s[1] \o (Flat(t, n)[i] \o t[j])
      <4>1. t[j] \in Seq(X) /\ s[1] \in Seq(X)
        BY <1>4
      <4>2. Associative(X)
        BY CatAssociative
      <4>3. PICK u \in Seq(X), v \in Seq(X), w \in Seq(X) :
              u = s[1] /\ v = Flat(t, n)[i] /\ w = t[j]
        BY <3>3, <4>1, Zenon
      <4>4. (u \o v) \o w = u \o (v \o w)
        BY <4>2, Zenon DEF Associative
      <4> QED BY <4>3, <4>4, Zenon
    <3>5. Flat(s, n + 1)[k] = (s[1] \o Flat(t, n)[i]) \o t[j]
      BY <2>4, <3>2
    <3>6. Flat(t, n)[j] = Flat(t, n)[i] \o t[j]
      BY <2>5, <3>1
    <3>7. Flat(s, n + 1)[k] = s[1] \o Flat(t, n)[j]
      BY <3>4, <3>5, <3>6
    <3> QED BY <2>1, <2>2, <3>7
  <2> QED BY <2>6, <2>7
<1>8. \A i \in Nat : i \in S => i + 1 \in S
  <2> TAKE i \in Nat
  <2> HAVE i \in S
  <2>1. i + 1 \in Nat /\ (i + 1) + 1 = i + 2
    OBVIOUS
  <2> QED BY <1>5, <1>7, <2>1
<1>9. \A i \in Nat : i \in S
  BY <1>6, <1>8, NatInduct
<1>10. FlattenSeq(s) = Flat(s, n + 1)[n + 1]
  BY <1>3, FlattenIs
<1>11. CASE n = 0
  <2>1. t = <<>>
    BY <1>2, <1>11, EmptySeq
  <2>2. Flat(s, n + 1)[n + 1] = s[1]
    <3>1. 1 \in 1 .. n + 1 /\ n + 1 = 1
      BY <1>11
    <3> QED BY <3>1, FlatIs
  <2>3. s[1] \o <<>> = s[1]
    BY <1>4
  <2> QED BY <1>1, <1>3, <1>10, <2>1, <2>2, <2>3, FlattenEmpty
<1>12. CASE n # 0
  <2>1. FlattenSeq(t) = Flat(t, n)[n]
    BY <1>2, <1>12, FlattenIs
  <2>2. n \in 1 .. n /\ n \in S
    BY <1>9, <1>12
  <2>3. Flat(s, n + 1)[n + 1] = s[1] \o Flat(t, n)[n]
    BY <1>5, <2>2
  <2> QED BY <1>1, <1>3, <1>10, <2>1, <2>3
<1> QED BY <1>11, <1>12

-----------------------------------------------------------------------------
(* The contents of the buffers on the busy queue.                          *)
Bufs == [i \in DOMAIN busy |-> buf[busy[i]]]

(* What may come after f: the next fragment of its event, or the first of  *)
(* another when f is the last.                                             *)
Follows(f, g) == IF f.idx < f.n THEN g = [f EXCEPT !.idx = @ + 1] ELSE g.idx = 1

(* The fragments of one event: e is the first.                             *)
OfEvent(d, e) == \A i \in 1 .. Len(d) : d[i] = [e EXCEPT !.idx = i]

(* f is what the assembly a waits for.                                     *)
Expects(a, f) ==
  IF a.pending = 0 THEN f.idx = 1 ELSE f = [a.data[1] EXCEPT !.idx = Len(a.data) + 1]

(* An assembly holds nothing or the first fragments of one event, and      *)
(* event_data_pending counts the others.                                   *)
Half(a) ==
  IF a.pending = 0 THEN a = NoEvent
  ELSE /\ ~a.null /\ a.data # <<>>
       /\ a.pending = a.data[1].n - Len(a.data)
       /\ a.resubmit = a.data[1].resubmit
       /\ OfEvent(a.data, a.data[1])

(* A sequence that holds exactly the fragments of e is a whole event.      *)
LEMMA OfEventWhole ==
  ASSUME NEW d \in Seq(Fragment), NEW e \in Fragment, OfEvent(d, e), Len(d) = e.n
  PROVE  IsWhole(d)
<1>1. e.n \in Nat \ {0} /\ d # <<>>
  BY DEF Fragment
<1>2. PICK b \in Fragment : b = d[1]
  BY <1>1
<1>3. b = [e EXCEPT !.idx = 1] /\ b.n = e.n
  <2>1. 1 \in 1 .. Len(d)
    BY <1>1
  <2>2. b = [e EXCEPT !.idx = 1]
    BY <1>2, <2>1, Zenon DEF OfEvent
  <2> QED BY <2>2 DEF Fragment
<1>4. \A i \in 1 .. e.n : [b EXCEPT !.idx = i] = [e EXCEPT !.idx = i]
  BY <1>3 DEF Fragment
<1>5. PICK w : w = [i \in 1 .. b.n |-> [b EXCEPT !.idx = i]]
  BY Zenon
<1>6. \A i \in 1 .. e.n : w[i] = [b EXCEPT !.idx = i]
  BY <1>3, <1>5
<1>7. \A i \in 1 .. e.n : d[i] = w[i]
  BY <1>4, <1>6 DEF OfEvent
<1>8. d = [i \in 1 .. e.n |-> d[i]]
  OBVIOUS
<1>9. w = [i \in 1 .. e.n |-> w[i]]
  BY <1>3, <1>5
<1>10. d = w
  BY <1>7, <1>8, <1>9
<1> QED BY <1>1, <1>2, <1>5, <1>10, Zenon DEF IsWhole

(* The fragment the assembly expects continues the event of the assembly.  *)
LEMMA AssembledHalf ==
  ASSUME TypeOK, NEW f \in Fragment, Half(asm), Expects(asm, f), NEW s \in Assembled(f)
  PROVE  /\ s.resubmit = f.resubmit
         /\ s.data = Append(asm.data, f)
         /\ s.data \in Seq(Fragment) /\ s.data # <<>>
         /\ OfEvent(s.data, s.data[1])
         /\ s.data[1] \in Fragment /\ s.data[1].n = f.n /\ s.data[1].resubmit = f.resubmit
         /\ Len(s.data) = f.idx /\ s.pending = f.n - f.idx /\ ~s.null
         /\ f = [s.data[1] EXCEPT !.idx = Len(s.data)]
<1>1. asm \in Assembly
  BY DEF TypeOK
<1>2. CASE asm.pending = 0
  <2>1. PICK h \in Header(f) : s = Started(f, h)
    BY <1>2 DEF Assembled
  <2>2. f.idx = 1 /\ h.n = f.n /\ h.resubmit = f.resubmit
    BY <1>2, <2>1 DEF Expects, Header
  <2>3. s.data = <<f>> /\ s.pending = f.n - 1 /\ s.resubmit = f.resubmit /\ s.null = FALSE
    BY <2>1, <2>2 DEF Started
  <2>4. asm.data = <<>>
    BY <1>2 DEF Half, NoEvent
  <2>5. <<f>> = Append(<<>>, f) /\ <<f>> \in Seq(Fragment) /\ <<f>> # <<>>
    OBVIOUS
  <2>6. <<f>>[1] = f /\ Len(<<f>>) = 1
    OBVIOUS
  <2>7. f = [f EXCEPT !.idx = 1]
    BY <2>2 DEF Fragment
  <2>8. OfEvent(<<f>>, f)
    BY <2>6, <2>7 DEF OfEvent
  <2> QED BY <2>2, <2>3, <2>4, <2>5, <2>6, <2>7, <2>8
<1>3. CASE asm.pending # 0
  <2>1. PICK d \in Seq(Fragment) : d = asm.data
    BY <1>1 DEF Assembly
  <2>2. PICK n \in Nat : n = Len(d)
    OBVIOUS
  <2>3. PICK e \in Fragment : e = d[1] /\ n # 0
    <3>1. d # <<>>
      BY <1>3, <2>1 DEF Half
    <3>2. n # 0 /\ d[1] \in Fragment
      BY <2>2, <3>1
    <3> QED BY <3>2
  <2>4. /\ asm.null = FALSE /\ asm.pending = e.n - n /\ asm.resubmit = e.resubmit
        /\ \A i \in 1 .. n : d[i] = [e EXCEPT !.idx = i]
    BY <1>1, <1>3, <2>1, <2>2, <2>3 DEF Half, OfEvent, Assembly
  <2>5. f = [e EXCEPT !.idx = n + 1]
    BY <1>3, <2>1, <2>2, <2>3 DEF Expects
  <2>6. f.idx = n + 1 /\ f.n = e.n /\ f.resubmit = e.resubmit /\ e.n \in Nat
    BY <2>5 DEF Fragment
  <2>7. s = Continued(f)
    BY <1>3 DEF Assembled
  <2>8. PICK t \in Seq(Fragment) : t = Append(d, f)
    <3>1. Append(d, f) \in Seq(Fragment)
      BY AppendProperties
    <3> QED BY <3>1
  <2>9. s.data = t /\ s.pending = asm.pending - 1 /\ s.resubmit = e.resubmit /\ s.null = FALSE
    <3>1. /\ s.data = IF asm.null THEN <<>> ELSE Append(asm.data, f)
          /\ s.null = asm.null /\ s.pending = asm.pending - 1 /\ s.resubmit = asm.resubmit
      BY <2>7 DEF Continued
    <3>2. ~asm.null /\ Append(asm.data, f) = t
      BY <2>1, <2>4, <2>8, Zenon
    <3> QED BY <2>4, <3>1, <3>2, Zenon
  <2>10. Len(t) = n + 1 /\ t[n + 1] = f /\ \A i \in 1 .. n : t[i] = d[i]
    BY <2>2, <2>8
  <2>11. t # <<>> /\ t[1] = e
    <3>1. t # <<>>
      BY <2>8
    <3>2. 1 \in 1 .. n
      BY <2>3
    <3> QED BY <2>3, <2>10, <3>1, <3>2
  <2>12. OfEvent(t, e)
    <3> SUFFICES ASSUME NEW i \in 1 .. n + 1 PROVE t[i] = [e EXCEPT !.idx = i]
      BY <2>10 DEF OfEvent
    <3>1. i \in 1 .. n \/ i = n + 1
      BY <2>2
    <3> QED BY <2>4, <2>5, <2>10, <3>1
  <2>13. s.pending = f.n - f.idx
    <3>1. s.pending = (e.n - n) - 1 /\ f.n - f.idx = e.n - (n + 1)
      BY <2>4, <2>6, <2>9, Zenon
    <3> QED BY <2>6, <3>1
  <2>14. f = [t[1] EXCEPT !.idx = Len(t)]
    BY <2>5, <2>10, <2>11
  <2> QED BY <2>1, <2>6, <2>8, <2>9, <2>10, <2>11, <2>12, <2>13, <2>14
<1> QED BY <1>2, <1>3

(* What the handler has assembled when it has read the expected fragment   *)
(* is a whole event or half of one that expects what follows.              *)
LEMMA AssembledNext ==
  ASSUME TypeOK, NEW f \in Fragment, Half(asm), Expects(asm, f), NEW s \in Assembled(f)
  PROVE  /\ s.pending = 0 => f.idx = f.n /\ IsWhole(s.data)
         /\ s.pending # 0 => f.idx < f.n /\ Half(s)
         /\ s.pending # 0 => \A g : Follows(f, g) => Expects(s, g)
<1>1. /\ s.resubmit = f.resubmit
      /\ s.data \in Seq(Fragment) /\ s.data # <<>>
      /\ OfEvent(s.data, s.data[1])
      /\ s.data[1] \in Fragment /\ s.data[1].n = f.n /\ s.data[1].resubmit = f.resubmit
      /\ Len(s.data) = f.idx /\ s.pending = f.n - f.idx /\ ~s.null
      /\ f = [s.data[1] EXCEPT !.idx = Len(s.data)]
  BY AssembledHalf, Zenon
<1>2. f.n \in Nat /\ f.idx \in Nat
  BY DEF Fragment
<1>3. ASSUME s.pending = 0 PROVE f.idx = f.n /\ IsWhole(s.data)
  <2>1. f.idx = f.n
    BY <1>1, <1>2, <1>3
  <2> QED BY <1>1, <2>1, OfEventWhole
<1>4. ASSUME s.pending # 0 PROVE f.idx < f.n /\ Half(s)
  <2>1. s \in Assembly
    BY AssembledType
  <2>2. f.idx < f.n
    BY <1>1, <1>2, <1>4, <2>1 DEF Assembly
  <2> QED BY <1>1, <1>4, <2>2 DEF Half
<1>5. ASSUME s.pending # 0, NEW g, Follows(f, g) PROVE Expects(s, g)
  <2>1. g = [f EXCEPT !.idx = @ + 1]
    BY <1>4, <1>5 DEF Follows
  <2>2. PICK e \in Fragment : e = s.data[1] /\ f = [e EXCEPT !.idx = f.idx]
    BY <1>1
  <2>3. g = [e EXCEPT !.idx = f.idx + 1]
    BY <2>1, <2>2 DEF Fragment
  <2> QED BY <1>1, <1>5, <2>2, <2>3 DEF Expects
<1> QED BY <1>3, <1>4, <1>5

-----------------------------------------------------------------------------
(* The fragments on the busy queue follow one another, the first one is    *)
(* what the assembly waits for and the last one is what the RPU sent last. *)
Linked(b) == \A i \in 1 .. Len(b) - 1 : Follows(b[i], b[i + 1])

EndsSent(b) == sent # <<>> /\ b[Len(b)] = sent[Len(sent)]

Chained ==
  /\ Linked(Bufs)
  /\ Bufs # <<>> => Expects(asm, Bufs[1]) /\ EndsSent(Bufs)
  /\ Bufs = <<>> => \A f \in NextFragments : Expects(asm, f)

(* The busy queue holds as many fragments as addresses.                    *)
LEMMA BufsType ==
  ASSUME EventInv
  PROVE  Bufs \in Seq(Fragment) /\ Len(Bufs) = Len(busy) /\ (Bufs = <<>> <=> busy = <<>>)
<1>1. Len(busy) \in Nat /\ DOMAIN busy = 1 .. Len(busy) /\ busy \in Seq(Addr)
  BY DEF EventInv, TypeOK
<1>2. Bufs = [i \in 1 .. Len(busy) |-> buf[busy[i]]]
  BY <1>1 DEF Bufs
<1>3. \A i \in 1 .. Len(busy) : buf[busy[i]] \in Fragment
  BY <1>1 DEF EventInv, BusyFilled
<1>4. Bufs \in Seq(Fragment)
  BY <1>1, <1>2, <1>3, IsASeq
<1>5. Len(Bufs) = Len(busy)
  BY <1>1, <1>2
<1> QED BY <1>1, <1>4, <1>5, EmptySeq

(* Popping an address takes the first fragment away.                       *)
LEMMA BufsPopped ==
  ASSUME EventInv, busy # <<>>, Popped
  PROVE  Bufs # <<>> /\ Head(Bufs) = buf[Head(busy)] /\ Bufs' = Tail(Bufs)
<1>1. Len(busy) \in Nat \ {0} /\ busy \in Seq(Addr) /\ DOMAIN busy = 1 .. Len(busy)
  BY EmptySeq DEF EventInv, TypeOK
<1>2. /\ Len(Tail(busy)) = Len(busy) - 1 /\ Tail(busy) \in Seq(Addr) /\ Head(busy) = busy[1]
      /\ \A i \in 1 .. Len(busy) - 1 : Tail(busy)[i] = busy[i + 1]
  BY <1>1, HeadTailProperties
<1>3. Bufs \in Seq(Fragment) /\ Len(Bufs) = Len(busy) /\ Bufs # <<>>
  BY BufsType
<1>4. \A i \in 1 .. Len(busy) : Bufs[i] = buf[busy[i]]
  BY <1>1 DEF Bufs
<1>5. PICK t \in Seq(Fragment) : t = Tail(Bufs)
  BY <1>3, HeadTailProperties
<1>6. Len(t) = Len(busy) - 1 /\ \A i \in 1 .. Len(busy) - 1 : t[i] = Bufs[i + 1]
  BY <1>1, <1>3, <1>5
<1>7. DOMAIN Tail(busy) = 1 .. Len(busy) - 1
  BY <1>2
<1>8. Bufs' = [i \in 1 .. Len(busy) - 1 |-> buf[Tail(busy)[i]]]
  BY <1>7 DEF Popped, Bufs
<1>9. \A i \in 1 .. Len(busy) - 1 : buf[Tail(busy)[i]] = t[i]
  <2> TAKE i \in 1 .. Len(busy) - 1
  <2>1. i + 1 \in 1 .. Len(busy)
    BY <1>1
  <2> QED BY <1>2, <1>4, <1>6, <2>1
<1>10. t = [i \in 1 .. Len(busy) - 1 |-> t[i]]
  BY <1>1, <1>6
<1>11. Bufs' = t
  BY <1>8, <1>9, <1>10
<1>12. Head(Bufs) = Bufs[1] /\ 1 \in 1 .. Len(busy)
  BY <1>1, <1>3
<1> QED BY <1>2, <1>3, <1>4, <1>5, <1>11, <1>12

(* Posting appends a fragment: the buffer that is written is on no queue   *)
(* (OnceInv), so no fragment that waits is overwritten.                    *)
LEMMA BufsPosted ==
  ASSUME OnceInv, RpuPosts
  PROVE  \E f \in NextFragments :
           f \in Fragment /\ sent' = Append(sent, f) /\ Bufs' = Append(Bufs, f)
<1>1. PICK f \in NextFragments :
        buf' = [buf EXCEPT ![Head(avl)] = f] /\ sent' = Append(sent, f)
  BY DEF RpuPosts
<1>2. f \in Fragment
  BY <1>1, NextFragmentType DEF OnceInv, EventInv
<1>3. PICK n \in Nat : n = Len(busy) /\ DOMAIN busy = 1 .. n /\ busy \in Seq(Addr)
  BY DEF OnceInv, EventInv, TypeOK
<1>4. PICK a \in Addr : a = Head(avl) /\ \A i \in 1 .. n : busy[i] # a
  <2>1. avl \in Seq(Addr) /\ avl # <<>> /\ Head(avl) = avl[1] /\ 1 \in 1 .. Len(avl)
    <3>1. avl \in Seq(Addr) /\ avl # <<>>
      BY DEF OnceInv, EventInv, TypeOK, RpuPosts
    <3>2. Len(avl) \in Nat \ {0}
      BY <3>1, EmptySeq
    <3> QED BY <3>1, <3>2
  <2>2. Head(avl) \in Addr
    BY <2>1
  <2>3. \A i \in 1 .. n : busy[i] # Head(avl)
    BY <1>3, <2>1 DEF OnceInv, Once
  <2> QED BY <2>2, <2>3
<1>5. buf \in [Addr -> Fragment \cup {NoFragment}]
  BY DEF OnceInv, EventInv, TypeOK
<1>6. busy' = Append(busy, a)
  BY <1>4 DEF RpuPosts
<1>7. /\ DOMAIN busy' = 1 .. n + 1 /\ busy'[n + 1] = a
      /\ \A i \in 1 .. n : busy'[i] = busy[i] /\ busy[i] \in Addr
  BY <1>3, <1>6
<1>8. /\ buf'[a] = f /\ \A b \in Addr : b # a => buf'[b] = buf[b]
  BY <1>1, <1>4, <1>5
<1>9. Bufs' = [i \in 1 .. n + 1 |-> buf'[busy'[i]]]
  BY <1>7 DEF Bufs
<1>10. Bufs \in Seq(Fragment) /\ Len(Bufs) = n /\ \A i \in 1 .. n : Bufs[i] = buf[busy[i]]
  <2>1. Bufs \in Seq(Fragment) /\ Len(Bufs) = n
    BY <1>3, BufsType DEF OnceInv
  <2> QED BY <1>3, <2>1 DEF Bufs
<1>11. PICK t \in Seq(Fragment) : t = Append(Bufs, f)
  <2>1. Append(Bufs, f) \in Seq(Fragment)
    BY <1>2, <1>10, AppendProperties
  <2> QED BY <2>1
<1>12. Len(t) = n + 1 /\ t[n + 1] = f /\ \A i \in 1 .. n : t[i] = Bufs[i]
  BY <1>10, <1>11
<1>13. ASSUME NEW i \in 1 .. n + 1 PROVE buf'[busy'[i]] = t[i]
  <2>1. i \in 1 .. n \/ i = n + 1
    OBVIOUS
  <2>2. CASE i \in 1 .. n
    BY <1>4, <1>7, <1>8, <1>10, <1>12, <2>2
  <2>3. CASE i = n + 1
    BY <1>7, <1>8, <1>12, <2>3
  <2> QED BY <2>1, <2>2, <2>3
<1>14. t = [i \in 1 .. n + 1 |-> t[i]]
  BY <1>12
<1>15. Bufs' = t
  BY <1>9, <1>13, <1>14
<1> QED BY <1>1, <1>2, <1>11, <1>15

(* The RPU posts what follows the fragment it posted last.                 *)
LEMMA NextFollows ==
  ASSUME TypeOK, sent # <<>>, NEW f \in NextFragments
  PROVE  Follows(sent[Len(sent)], f)
BY DEF NextFragments, Follows

(* When a fragment is popped, the rest of the busy queue is what an        *)
(* assembly that accepts any successor of that fragment expects.           *)
LEMMA PopChained ==
  ASSUME EventInv, busy # <<>>, Popped, Chained,
         \A g : Follows(Bufs[1], g) => Expects(asm', g)
  PROVE  Chained'
<1>1. PICK b \in Seq(Fragment) : b = Bufs /\ b # <<>>
  BY BufsType
<1>2. PICK n \in Nat : n = Len(b) /\ n # 0
  BY <1>1, EmptySeq
<1>3. PICK t \in Seq(Fragment) : t = Tail(b)
  <2>1. Tail(b) \in Seq(Fragment)
    BY <1>1, HeadTailProperties
  <2> QED BY <2>1
<1>4. Len(t) = n - 1 /\ \A i \in 1 .. n - 1 : t[i] = b[i + 1]
  BY <1>1, <1>2, <1>3
<1>5. Bufs' = t /\ sent' = sent /\ NextFragments' = NextFragments
  BY <1>1, <1>3, BufsPopped DEF Popped, NextFragments
<1>6. Linked(t)
  <2> SUFFICES ASSUME NEW i \in 1 .. (n - 1) - 1 PROVE Follows(t[i], t[i + 1])
    BY <1>4, Zenon DEF Linked
  <2>1. i \in 1 .. n - 1 /\ i + 1 \in 1 .. n - 1
    OBVIOUS
  <2>2. PICK j \in 1 .. n - 1 : j = i + 1
    BY <2>1
  <2>3. Follows(b[j], b[j + 1])
    BY <1>1, <1>2 DEF Chained, Linked
  <2> QED BY <1>4, <2>1, <2>2, <2>3
<1>7. ASSUME t # <<>> PROVE Expects(asm', t[1]) /\ EndsSent(t)
  <2>1. n - 1 \in 1 .. n - 1 /\ 1 \in 1 .. n - 1 /\ (n - 1) + 1 = n
    <3>1. Len(t) \in Nat \ {0}
      BY <1>7, EmptySeq
    <3> QED BY <1>2, <1>4, <3>1
  <2>2. t[1] = b[1 + 1] /\ t[n - 1] = b[n]
    BY <1>4, <2>1
  <2>3. Follows(b[1], b[1 + 1])
    BY <1>1, <1>2, <2>1 DEF Chained, Linked
  <2> QED BY <1>1, <1>2, <1>4, <2>2, <2>3 DEF Chained, EndsSent
<1>8. ASSUME t = <<>>, NEW f \in NextFragments PROVE Expects(asm', f)
  <2>1. n = 1
    <3>1. Len(t) = 0
      <4>1. Len(<<>>) = 0
        OBVIOUS
      <4> QED BY <1>8, <4>1, Zenon
    <3>2. n - 1 = 0
      BY <1>4, <3>1, Zenon
    <3> QED BY <3>2
  <2>2. sent # <<>> /\ b[1] = sent[Len(sent)]
    BY <1>1, <1>2, <2>1 DEF Chained, EndsSent
  <2> QED BY <1>1, <1>8, <2>2, NextFollows DEF EventInv
<1> QED BY <1>5, <1>6, <1>7, <1>8 DEF Chained, EndsSent

(* A fragment that is posted follows the last one of the busy queue.       *)
LEMMA PostChained ==
  ASSUME OnceInv, RpuPosts, Chained
  PROVE  Chained'
<1>1. PICK f \in NextFragments :
        f \in Fragment /\ sent' = Append(sent, f) /\ Bufs' = Append(Bufs, f)
  BY BufsPosted
<1>2. PICK b \in Seq(Fragment) : b = Bufs
  BY BufsType DEF OnceInv
<1>3. PICK n \in Nat : n = Len(b)
  OBVIOUS
<1>4. PICK t \in Seq(Fragment) : t = Append(b, f)
  <2>1. Append(b, f) \in Seq(Fragment)
    BY <1>1, AppendProperties
  <2> QED BY <2>1
<1>5. Len(t) = n + 1 /\ t[n + 1] = f /\ t # <<>> /\ \A i \in 1 .. n : t[i] = b[i]
  <2>1. t # <<>>
    BY <1>4
  <2> QED BY <1>1, <1>3, <1>4, <2>1
<1>6. sent' # <<>> /\ sent'[Len(sent')] = f
  <2>1. sent \in Seq(Fragment)
    BY DEF OnceInv, EventInv, TypeOK
  <2>2. PICK u : u = Append(sent, f)
    BY Zenon
  <2>3. u # <<>> /\ u[Len(u)] = f
    BY <1>1, <2>1, <2>2, AppendProperties
  <2> QED BY <1>1, <2>2, <2>3
<1>7. asm' = asm
  BY DEF RpuPosts
<1>8. Linked(t) /\ Expects(asm, t[1])
  <2>1. CASE b = <<>>
    <3>1. n = 0
      BY <1>3, <2>1
    <3>2. Expects(asm, f)
      BY <1>1, <1>2, <2>1 DEF Chained
    <3> QED BY <1>5, <3>1, <3>2 DEF Linked
  <2>2. CASE b # <<>>
    <3>1. n # 0 /\ 1 \in 1 .. n /\ n \in 1 .. n
      BY <1>3, <2>2, EmptySeq
    <3>2. Expects(asm, t[1])
      BY <1>2, <1>5, <2>2, <3>1 DEF Chained
    <3>3. Follows(b[n], f)
      <4>1. sent # <<>> /\ b[n] = sent[Len(sent)]
        BY <1>2, <1>3, <2>2 DEF Chained, EndsSent
      <4> QED BY <1>1, <4>1, NextFollows DEF OnceInv, EventInv
    <3>4. ASSUME NEW i \in 1 .. n PROVE Follows(t[i], t[i + 1])
      <4>1. CASE i = n
        BY <1>5, <3>1, <3>3, <4>1
      <4>2. CASE i # n
        <5>1. i \in 1 .. n - 1 /\ i + 1 \in 1 .. n
          BY <4>2
        <5>2. Follows(b[i], b[i + 1])
          BY <1>2, <1>3, <5>1 DEF Chained, Linked
        <5> QED BY <1>5, <5>1, <5>2
      <4> QED BY <4>1, <4>2
    <3>5. Linked(t)
      BY <1>5, <3>4 DEF Linked
    <3> QED BY <3>2, <3>5
  <2> QED BY <2>1, <2>2
<1>9. Bufs' = t
  BY <1>1, <1>2, <1>4
<1> QED BY <1>5, <1>6, <1>7, <1>8, <1>9 DEF Chained, EndsSent

-----------------------------------------------------------------------------
(* While nothing has torn an event: the beginning of one is assembled, the *)
(* busy queue goes on where it stops, whole events are queued and          *)
(* delivered, and the buffers that are on no queue are not for the host to *)
(* return.                                                                 *)
AllWhole(q) == \A i \in 1 .. Len(q) : IsWhole(q[i])

NoneKept ==
  \A a \in Addr :
    (\A i \in 1 .. Len(avl) : avl[i] # a) /\ (\A i \in 1 .. Len(busy) : busy[i] # a)
      => ~buf[a].resubmit

Intact ==
  /\ Half(asm)
  /\ Chained
  /\ AllWhole(event_q) /\ AllWhole(delivered)
  /\ NoneKept

IntactInv == OnceInv /\ (~Torn => Intact)

(* A queue of whole events stays one when a whole event is appended ...    *)
LEMMA AllWholeAppend ==
  ASSUME NEW X, NEW q \in Seq(X), NEW e \in X, AllWhole(q), IsWhole(e)
  PROVE  AllWhole(Append(q, e))
<1>1. PICK t : t = Append(q, e)
  BY Zenon
<1>2. Len(t) = Len(q) + 1 /\ t[Len(q) + 1] = e /\ \A i \in 1 .. Len(q) : t[i] = q[i]
  BY <1>1, AppendProperties
<1>3. ASSUME NEW i \in 1 .. Len(t) PROVE IsWhole(t[i])
  <2>1. i \in 1 .. Len(q) \/ i = Len(q) + 1
    BY <1>2
  <2>2. CASE i \in 1 .. Len(q)
    BY <1>2, <2>2, Zenon DEF AllWhole
  <2>3. CASE i = Len(q) + 1
    BY <1>2, <2>3, Zenon
  <2> QED BY <2>1, <2>2, <2>3
<1> QED BY <1>1, <1>3, Zenon DEF AllWhole

(* ... and when its head is taken.                                         *)
LEMMA AllWholeTail ==
  ASSUME NEW X, NEW q \in Seq(X), q # <<>>, AllWhole(q)
  PROVE  AllWhole(Tail(q)) /\ IsWhole(Head(q)) /\ Head(q) \in X
<1>1. PICK t : t = Tail(q)
  BY Zenon
<1>2. PICK n \in Nat \ {0} : n = Len(q)
  BY EmptySeq
<1>3. /\ Len(t) = n - 1 /\ Head(q) = q[1] /\ Head(q) \in X
      /\ \A i \in 1 .. n - 1 : t[i] = q[i + 1]
  BY <1>1, <1>2, HeadTailProperties
<1>4. 1 \in 1 .. n /\ \A i \in 1 .. n - 1 : i + 1 \in 1 .. n
  OBVIOUS
<1>5. IsWhole(q[1])
  BY <1>2, <1>4, Zenon DEF AllWhole
<1>6. ASSUME NEW i \in 1 .. n - 1 PROVE IsWhole(t[i])
  <2>1. IsWhole(q[i + 1])
    BY <1>2, <1>4, Zenon DEF AllWhole
  <2> QED BY <1>3, <2>1, Zenon
<1> QED BY <1>1, <1>3, <1>5, <1>6, Zenon DEF AllWhole

(* A fragment is read: the event it belongs to goes on or is whole.        *)
LEMMA ReadKeeps ==
  ASSUME EventInv, busy # <<>>, Half(asm), Chained, NoneKept,
         NEW s \in Assembled(buf[Head(busy)]),
         Popped, Returned(s), asm' = (IF s.pending = 0 THEN NoEvent ELSE s)
  PROVE  Half(asm)' /\ Chained' /\ NoneKept' /\ (s.pending = 0 => IsWhole(s.data))
<1>1. PICK f \in Fragment : f = buf[Head(busy)]
  BY HeadFragment
<1>2. Bufs # <<>> /\ f = Bufs[1]
  BY <1>1, BufsPopped, BufsType
<1>3. Expects(asm, f)
  BY <1>2 DEF Chained
<1>4. /\ s.pending = 0 => f.idx = f.n /\ IsWhole(s.data)
      /\ s.pending # 0 => f.idx < f.n /\ Half(s)
      /\ s.pending # 0 => \A g : Follows(f, g) => Expects(s, g)
  BY <1>1, <1>3, AssembledNext, Zenon DEF EventInv
<1>5. s.resubmit = f.resubmit
  BY <1>1, <1>3, AssembledHalf, Zenon DEF EventInv
<1>6. Half(asm)'
  <2>1. CASE s.pending = 0
    BY <2>1 DEF Half, NoEvent
  <2>2. CASE s.pending # 0
    <3>1. asm' = s
      BY <2>2
    <3> QED BY <1>4, <2>2, <3>1, Zenon DEF Half
  <2> QED BY <2>1, <2>2
<1>7. ASSUME NEW g, Follows(f, g) PROVE Expects(asm', g)
  <2>1. CASE s.pending = 0
    <3>1. g.idx = 1
      <4>1. f.idx = f.n /\ f.n \in Nat
        BY <1>4, <2>1 DEF Fragment
      <4>2. ~(f.idx < f.n)
        BY <4>1
      <4> QED BY <1>7, <4>2, Zenon DEF Follows
    <3>2. asm'.pending = 0
      BY <2>1 DEF NoEvent
    <3> QED BY <3>1, <3>2, Zenon DEF Expects
  <2>2. CASE s.pending # 0
    BY <1>4, <1>7, <2>2
  <2> QED BY <2>1, <2>2
<1>8. Chained'
  <2>1. \A g : Follows(Bufs[1], g) => Expects(asm', g)
    BY <1>2, <1>7
  <2> QED BY <2>1, PopChained
<1>9. NoneKept'
  <2>1. PICK h \in Addr : h = Head(busy) /\ f = buf[h]
    BY <1>1, HeadFragment
  <2>2. PICK n \in Nat \ {0} : n = Len(busy) /\ h = busy[1]
    <3>1. busy \in Seq(Addr)
      BY DEF EventInv, TypeOK
    <3>2. Len(busy) \in Nat \ {0}
      BY <3>1, EmptySeq
    <3> QED BY <2>1, <3>1, <3>2
  <2>3. Len(busy') = n - 1 /\ \A i \in 1 .. n - 1 : busy'[i] = busy[i + 1]
    BY <2>2, HeadTailProperties DEF Popped, EventInv, TypeOK
  <2>4. PICK m \in Nat : m = Len(avl) /\ avl \in Seq(Addr)
    BY DEF EventInv, TypeOK
  <2>5. /\ Len(avl') >= m /\ \A i \in 1 .. m : avl'[i] = avl[i]
        /\ s.resubmit => Len(avl') = m + 1 /\ avl'[m + 1] = h
    BY <2>1, <2>4 DEF Returned
  <2>6. Len(avl') \in Nat /\ buf' = buf
    <3>1. avl' \in Seq(Addr)
      BY <2>1, <2>4, AppendProperties DEF Returned
    <3> QED BY <3>1 DEF Popped
  <2>7. SUFFICES ASSUME NEW a \in Addr,
                        \A i \in 1 .. Len(avl') : avl'[i] # a,
                        \A i \in 1 .. Len(busy') : busy'[i] # a
                 PROVE  ~buf[a].resubmit
    BY <2>6 DEF NoneKept
  <2>8. ASSUME NEW i \in 1 .. m PROVE avl[i] # a
    <3>1. i \in 1 .. Len(avl')
      BY <2>5, <2>6
    <3> QED BY <2>5, <2>7, <3>1
  <2>9. CASE a = h
    <3>1. ~s.resubmit
      <4> SUFFICES ASSUME s.resubmit PROVE FALSE
        OBVIOUS
      <4>1. m + 1 \in 1 .. Len(avl') /\ avl'[m + 1] = h
        BY <2>5
      <4> QED BY <2>7, <2>9, <4>1
    <3> QED BY <1>5, <2>1, <2>9, <3>1
  <2>10. CASE a # h
    <3>1. ASSUME NEW i \in 1 .. n PROVE busy[i] # a
      <4>1. CASE i = 1
        BY <2>2, <2>10, <4>1
      <4>2. CASE i # 1
        <5>1. i - 1 \in 1 .. n - 1 /\ (i - 1) + 1 = i
          BY <4>2
        <5>2. busy'[i - 1] = busy[i] /\ i - 1 \in 1 .. Len(busy')
          BY <2>3, <5>1
        <5> QED BY <2>7, <5>2
      <4> QED BY <4>1, <4>2
    <3> QED BY <2>2, <2>4, <2>8, <3>1 DEF NoneKept
  <2> QED BY <2>9, <2>10
<1> QED BY <1>4, <1>6, <1>8, <1>9

(* The RPU uses a buffer: it is on the busy queue then.                    *)
LEMMA PostNoneKept ==
  ASSUME OnceInv, RpuPosts, NoneKept
  PROVE  NoneKept'
<1>1. avl \in Seq(Addr) /\ busy \in Seq(Addr) /\ buf \in [Addr -> Fragment \cup {NoFragment}]
  BY DEF OnceInv, EventInv, TypeOK
<1>2. PICK n \in Nat \ {0} : n = Len(avl)
  <2>1. avl # <<>>
    BY DEF RpuPosts
  <2> QED BY <1>1, <2>1, EmptySeq
<1>3. PICK m \in Nat : m = Len(busy)
  BY <1>1
<1>4. PICK h \in Addr : h = avl[1] /\ h = Head(avl)
  BY <1>1, <1>2
<1>5. Len(avl') = n - 1 /\ \A i \in 1 .. n - 1 : avl'[i] = avl[i + 1]
  BY <1>1, <1>2, HeadTailProperties DEF RpuPosts
<1>6. Len(busy') = m + 1 /\ busy'[m + 1] = h /\ \A i \in 1 .. m : busy'[i] = busy[i]
  BY <1>1, <1>3, <1>4 DEF RpuPosts
<1>7. \A a \in Addr : a # h => buf'[a] = buf[a]
  BY <1>1, <1>4 DEF RpuPosts
<1>8. SUFFICES ASSUME NEW a \in Addr,
                      \A i \in 1 .. Len(avl') : avl'[i] # a,
                      \A i \in 1 .. Len(busy') : busy'[i] # a
               PROVE  ~buf'[a].resubmit
  BY DEF NoneKept
<1>9. a # h
  <2>1. m + 1 \in 1 .. Len(busy')
    BY <1>6
  <2> QED BY <1>6, <1>8, <2>1
<1>10. ASSUME NEW i \in 1 .. n PROVE avl[i] # a
  <2>1. CASE i = 1
    BY <1>4, <1>9, <2>1
  <2>2. CASE i # 1
    <3>1. i - 1 \in 1 .. n - 1 /\ (i - 1) + 1 = i
      BY <2>2
    <3>2. avl'[i - 1] = avl[i] /\ i - 1 \in 1 .. Len(avl')
      BY <1>5, <3>1
    <3> QED BY <1>8, <3>2
  <2> QED BY <2>1, <2>2
<1>11. ASSUME NEW i \in 1 .. m PROVE busy[i] # a
  <2>1. i \in 1 .. Len(busy') /\ busy'[i] = busy[i]
    BY <1>6
  <2> QED BY <1>8, <2>1
<1>12. ~buf[a].resubmit
  BY <1>2, <1>3, <1>10, <1>11 DEF NoneKept
<1> QED BY <1>7, <1>9, <1>12

(* A buffer the RPU takes back is on a queue again.                        *)
LEMMA ReclaimNoneKept ==
  ASSUME EventInv, RpuReclaims, NoneKept
  PROVE  NoneKept'
<1>1. PICK b \in Addr : avl' = Append(avl, b) /\ UNCHANGED <<busy, buf>>
  BY DEF RpuReclaims
<1>2. \A i \in 1 .. Len(avl) : i \in 1 .. Len(avl') /\ avl'[i] = avl[i]
  BY <1>1 DEF EventInv, TypeOK
<1> QED BY <1>1, <1>2 DEF NoneKept

(* The failures that tear an event.                                        *)
Tears == IrqReadFails \/ IrqDataAllocFails \/ IrqFreeFails

(* What no other action changes.                                           *)
Untouched == UNCHANGED <<avl, busy, buf, sent, asm, event_q, delivered>>

(* Every other action leaves the events where they are.                    *)
LEMMA StepKinds ==
  ASSUME [Next]_vars
  PROVE  \/ RpuPosts \/ RpuReclaims \/ IrqFragment \/ IrqMsgAllocFails \/ Tears
         \/ EventDeliver \/ Drain \/ Untouched
BY DEF Next, Isr, IsrFails, Tasklet, Tears, Untouched, RpuWatchdog, IrqEnter, IrqExit,
   IrqWdogUnread, IrqAckFails, IrqNoMoreEvents, IrqPopFails, EventTaskletEnter,
   EventTaskletExit, RecoveryTasklet, HalDisable, BusDeinit, Drained, DevRem, vars, rpu

(* The failures so far are not forgotten.                                  *)
LEMMA FailedGrows ==
  ASSUME TypeOK, [Next]_vars
  PROVE  ToSet(failed) \subseteq ToSet(failed')
<1>1. failed' = failed \/ \E k \in Failures : failed' = Append(failed, k)
  BY DEF Next, Isr, IsrFails, Tasklet, Fail, RpuPosts, RpuReclaims, RpuWatchdog, IrqEnter,
     IrqExit, IrqWdogUnread, IrqAckFails, IrqFragment, IrqNoMoreEvents, IrqPopFails,
     IrqReadFails, IrqDataAllocFails, IrqFreeFails, IrqMsgAllocFails, EventTaskletEnter,
     EventDeliver, EventTaskletExit, RecoveryTasklet, HalDisable, BusDeinit, Drain, Drained,
     DevRem, vars
<1>2. CASE \E k \in Failures : failed' = Append(failed, k)
  <2>1. PICK k \in Failures : failed' = Append(failed, k)
    BY <1>2
  <2>2. failed \in Seq(Failures)
    BY DEF TypeOK
  <2>3. DOMAIN failed = 1 .. Len(failed) /\ DOMAIN failed' = 1 .. Len(failed) + 1
    BY <2>1, <2>2
  <2>4. \A i \in DOMAIN failed : i \in DOMAIN failed' /\ failed'[i] = failed[i]
    BY <2>1, <2>2, <2>3
  <2> QED BY <2>4 DEF ToSet
<1> QED BY <1>1, <1>2

(* A failure is remembered.                                                *)
LEMMA FailRemembers ==
  ASSUME TypeOK, NEW k, Fail(k)
  PROVE  k \in ToSet(failed')
<1>1. failed \in Seq(Failures) /\ failed' = Append(failed, k) /\ k \in Failures
  BY DEF TypeOK, Fail
<1>2. Len(failed) + 1 \in DOMAIN failed' /\ failed'[Len(failed) + 1] = k
  BY <1>1
<1> QED BY <1>2 DEF ToSet

(* After such a failure an event may be torn.                              *)
LEMMA TearsTorn ==
  ASSUME TypeOK, Tears
  PROVE  Torn'
<1>1. Fail("read") \/ Fail("data") \/ Fail("free")
  BY DEF Tears, IrqReadFails, IrqDataAllocFails, IrqFreeFails
<1>2. "read" \in ToSet(failed') \/ "data" \in ToSet(failed') \/ "free" \in ToSet(failed')
  BY <1>1, FailRemembers
<1> QED BY <1>2 DEF Torn

(* No step but those failures tears an event or keeps a buffer: Intact is  *)
(* preserved.                                                              *)
LEMMA IntactStep ==
  ASSUME IntactInv, [Next]_vars, ~Torn'
  PROVE  Intact'
<1>1. OnceInv /\ EventInv /\ TypeOK
  BY DEF IntactInv, OnceInv, EventInv
<1>2. ~Torn
  BY <1>1, FailedGrows DEF Torn
<1>3. Half(asm) /\ Chained /\ AllWhole(event_q) /\ AllWhole(delivered) /\ NoneKept
  BY <1>2 DEF IntactInv, Intact
<1>4. event_q \in Seq(Seq(Fragment)) /\ delivered \in Seq(Seq(Fragment))
  BY <1>1 DEF TypeOK
<1>5. CASE RpuPosts
  <2>1. UNCHANGED <<asm, event_q, delivered>>
    BY <1>5 DEF RpuPosts
  <2>2. Half(asm)' /\ AllWhole(event_q)' /\ AllWhole(delivered)'
    BY <1>3, <2>1 DEF Half, AllWhole
  <2> QED BY <1>1, <1>3, <1>5, <2>2, PostChained, PostNoneKept DEF Intact
<1>6. CASE RpuReclaims
  <2>1. UNCHANGED <<asm, event_q, delivered, busy, buf, sent>>
    BY <1>6 DEF RpuReclaims
  <2>2. Half(asm)' /\ AllWhole(event_q)' /\ AllWhole(delivered)'
    BY <1>3, <2>1 DEF Half, AllWhole
  <2>3. Chained'
    BY <1>3, <2>1 DEF Chained, Bufs, EndsSent, NextFragments
  <2> QED BY <1>1, <1>3, <1>6, <2>2, <2>3, ReclaimNoneKept DEF Intact
<1>7. CASE IrqFragment
  <2>1. PICK s \in Assembled(buf[Head(busy)]) :
          Popped /\ Returned(s) /\ (NotYetWhole(s) \/ Whole(s))
    BY <1>7 DEF IrqFragment
  <2>2. busy # <<>> /\ delivered' = delivered
    BY <1>7 DEF IrqFragment, Reading
  <2>3. asm' = IF s.pending = 0 THEN NoEvent ELSE s
    BY <2>1 DEF NotYetWhole, Whole
  <2>4. Half(asm)' /\ Chained' /\ NoneKept' /\ (s.pending = 0 => IsWhole(s.data))
    BY <1>1, <1>3, <2>1, <2>2, <2>3, ReadKeeps
  <2>5. AllWhole(event_q)'
    <3>1. CASE NotYetWhole(s)
      BY <1>3, <3>1 DEF NotYetWhole
    <3>2. CASE Whole(s)
      <4>1. s.data \in Seq(Fragment) /\ s.pending = 0 /\ event_q' = Append(event_q, s.data)
        BY <1>1, <2>2, <3>2, HeadFragment, AssembledType DEF Whole, Assembly
      <4>2. AllWhole(Append(event_q, s.data))
        BY <1>3, <1>4, <2>4, <4>1, AllWholeAppend
      <4> QED BY <4>1, <4>2
    <3> QED BY <2>1, <3>1, <3>2
  <2>6. AllWhole(delivered)'
    BY <1>3, <2>2
  <2> QED BY <2>4, <2>5, <2>6 DEF Intact
<1>8. CASE IrqMsgAllocFails
  <2>1. PICK s \in Assembled(buf[Head(busy)]) : s.pending = 0 /\ Popped /\ Returned(s)
    BY <1>8 DEF IrqMsgAllocFails
  <2>2. busy # <<>> /\ asm' = NoEvent /\ UNCHANGED <<event_q, delivered>>
    BY <1>8 DEF IrqMsgAllocFails, Reading
  <2>3. asm' = IF s.pending = 0 THEN NoEvent ELSE s
    BY <2>1, <2>2
  <2>4. Half(asm)' /\ Chained' /\ NoneKept'
    BY <1>1, <1>3, <2>1, <2>2, <2>3, ReadKeeps
  <2>5. AllWhole(event_q)' /\ AllWhole(delivered)'
    BY <1>3, <2>2
  <2> QED BY <2>4, <2>5 DEF Intact
<1>9. CASE Tears
  BY <1>1, <1>9, TearsTorn
<1>10. CASE EventDeliver \/ Drain
  <2>1. UNCHANGED <<asm, busy, buf, sent, avl>> /\ event_q # <<>> /\ event_q' = Tail(event_q)
    BY <1>10 DEF EventDeliver, Drain, rpu
  <2>2. Half(asm)' /\ Chained' /\ NoneKept'
    BY <1>3, <2>1 DEF Half, Chained, Bufs, EndsSent, NextFragments, NoneKept
  <2>3. AllWhole(Tail(event_q)) /\ IsWhole(Head(event_q)) /\ Head(event_q) \in Seq(Fragment)
    BY <1>3, <1>4, <2>1, AllWholeTail
  <2>4. delivered' = delivered \/ delivered' = Append(delivered, Head(event_q))
    BY <1>10 DEF EventDeliver, Drain
  <2>5. AllWhole(Append(delivered, Head(event_q)))
    BY <1>3, <1>4, <2>3, AllWholeAppend
  <2>6. AllWhole(event_q)' /\ AllWhole(delivered)'
    BY <1>3, <2>1, <2>3, <2>4, <2>5
  <2> QED BY <2>2, <2>6 DEF Intact
<1>11. CASE Untouched
  BY <1>3, <1>11 DEF Untouched, Intact, Half, Chained, Bufs, EndsSent, NextFragments, NoneKept,
     AllWhole
<1> QED BY <1>5, <1>6, <1>7, <1>8, <1>9, <1>10, <1>11, StepKinds

(* At the start nothing is queued, and every buffer is free.               *)
LEMMA IntactInit ==
  ASSUME Init
  PROVE  IntactInv
<1>1. OnceInv
  <2>1. EventInv
    BY EventInit
  <2>2. Once(avl, busy)
    BY DEF Init, Once, Addr
  <2> QED  BY <2>1, <2>2 DEF OnceInv
<1>2. Half(asm)
  BY DEF Init, Half, NoEvent
<1>3. Chained
  <2>1. Bufs = <<>>
    <3>1. busy = <<>> /\ EventInv
      BY <1>1 DEF Init, OnceInv
    <3> QED BY <3>1, BufsType
  <2>2. Linked(<<>>)
    BY DEF Linked
  <2>3. \A f \in NextFragments : Expects(asm, f)
    BY DEF NextFragments, Expects, Init, NoEvent
  <2> QED BY <2>1, <2>2, <2>3 DEF Chained
<1>4. AllWhole(event_q) /\ AllWhole(delivered)
  BY DEF Init, AllWhole
<1>5. NoneKept
  <2>1. avl = [a \in 1 .. NUM_BUFS |-> a]
    BY DEF Init, Addr
  <2>2. Len(avl) = NUM_BUFS
    BY <2>1
  <2>3. \A a \in Addr : a \in 1 .. Len(avl) /\ avl[a] = a
    BY <2>1, <2>2 DEF Addr
  <2> QED BY <2>3 DEF NoneKept
<1> QED BY <1>1, <1>2, <1>3, <1>4, <1>5 DEF IntactInv, Intact

(* IntactInv is inductive.                                                 *)
LEMMA IntactInvStep == IntactInv /\ [Next]_vars => IntactInv'
<1> SUFFICES ASSUME IntactInv, [Next]_vars PROVE IntactInv'
  OBVIOUS
<1>1. OnceInv'
  BY QueueSteps, OnceStep, InvStep DEF OnceInv, IntactInv
<1>2. ~Torn' => Intact'
  BY IntactStep
<1> QED BY <1>1, <1>2 DEF IntactInv

(* It makes every event that is queued or delivered whole ...              *)
LEMMA IntactWhole ==
  ASSUME IntactInv
  PROVE  EventsWhole
<1> SUFFICES ASSUME ~Torn, NEW e \in ToSet(event_q) \cup ToSet(delivered) PROVE IsWhole(e)
  BY DEF EventsWhole, EventsAlwaysWhole
<1>1. AllWhole(event_q) /\ AllWhole(delivered)
  BY DEF IntactInv, Intact
<1>2. DOMAIN event_q = 1 .. Len(event_q) /\ DOMAIN delivered = 1 .. Len(delivered)
  BY DEF IntactInv, OnceInv, EventInv, TypeOK
<1> QED BY <1>1, <1>2 DEF AllWhole, ToSet

(* ... and every buffer that is off both queues the RPU's.                 *)
LEMMA IntactReturned ==
  ASSUME IntactInv
  PROVE  BuffersReturned
<1> SUFFICES ASSUME ~Torn, NEW a \in Addr \ ToSet(avl \o busy) PROVE ~buf[a].resubmit
  BY DEF BuffersReturned
<1>1. avl \in Seq(Addr) /\ busy \in Seq(Addr)
  BY DEF IntactInv, OnceInv, EventInv, TypeOK
<1>2. PICK m \in Nat, n \in Nat : m = Len(avl) /\ n = Len(busy)
  BY <1>1
<1>3. PICK c : c = avl \o busy
  BY Zenon
<1>4. /\ DOMAIN c = 1 .. m + n
      /\ \A i \in 1 .. m + n : c[i] = IF i <= m THEN avl[i] ELSE busy[i - m]
  BY <1>1, <1>2, <1>3, ConcatProperties
<1>5. \A i \in 1 .. m + n : c[i] # a
  BY <1>3, <1>4 DEF ToSet
<1>6. ASSUME NEW i \in 1 .. m PROVE avl[i] # a
  <2>1. i \in 1 .. m + n /\ i <= m
    OBVIOUS
  <2> QED BY <1>4, <1>5, <2>1
<1>7. ASSUME NEW i \in 1 .. n PROVE busy[i] # a
  <2>1. m + i \in 1 .. m + n /\ ~(m + i <= m) /\ (m + i) - m = i
    OBVIOUS
  <2> QED BY <1>4, <1>5, <2>1
<1> QED BY <1>2, <1>6, <1>7 DEF IntactInv, Intact, NoneKept

-----------------------------------------------------------------------------
(* Concatenation, under a name that the provers do not expand.             *)
Cat(u, v) == u \o v

(* A concatenation is a sequence of the same elements.                     *)
LEMMA CatType ==
  ASSUME NEW X, NEW u \in Seq(X), NEW v \in Seq(X)
  PROVE  Cat(u, v) \in Seq(X)
BY ConcatProperties DEF Cat

(* It does not matter how concatenations are grouped.                      *)
LEMMA CatAssoc ==
  ASSUME NEW X, NEW u \in Seq(X), NEW v \in Seq(X), NEW w \in Seq(X)
  PROVE  Cat(Cat(u, v), w) = Cat(u, Cat(v, w))
BY SMT DEF Cat

(* A fragment is appended to the last part ...                             *)
AppendFlows(d, q, a, b, f) ==
  Cat(d, Cat(Cat(q, a), Append(b, f))) = Append(Cat(d, Cat(Cat(q, a), b)), f)

(* The last part of the flow may grow.                                     *)
LEMMA FlowAppend ==
  ASSUME NEW X, NEW d \in Seq(X), NEW q \in Seq(X), NEW a \in Seq(X), NEW b \in Seq(X),
         NEW f \in X
  PROVE  AppendFlows(d, q, a, b, f)
<1>1. PICK g \in Seq(X) : g = <<f>>
  <2>1. <<f>> \in Seq(X)
    OBVIOUS
  <2> QED BY <2>1
<1>2. \A w \in Seq(X) : Append(w, f) = Cat(w, g)
  BY <1>1, AppendIsConcat DEF Cat
<1>3. PICK u \in Seq(X) : u = Cat(q, a)
  BY CatType, Zenon
<1>4. PICK v \in Seq(X) : v = Cat(u, b)
  BY CatType, Zenon
<1>5. Cat(d, v) \in Seq(X)
  BY CatType, Zenon
<1>6. Cat(u, Cat(b, g)) = Cat(v, g)
  BY <1>4, CatAssoc, SMT
<1>7. Cat(d, Cat(v, g)) = Cat(Cat(d, v), g)
  BY CatAssoc, SMT
<1> QED BY <1>2, <1>3, <1>4, <1>5, <1>6, <1>7, Zenon DEF AppendFlows

(* ... moves from the last part to the one before ...                      *)
LEMMA FlowRead ==
  ASSUME NEW X, NEW q \in Seq(X), NEW a \in Seq(X), NEW b \in Seq(X), b # <<>>
  PROVE  Cat(Cat(q, Append(a, Head(b))), Tail(b)) = Cat(Cat(q, a), b)
<1>1. PICK h \in X : h = Head(b)
  BY HeadTailProperties
<1>2. PICK t \in Seq(X) : t = Tail(b)
  BY HeadTailProperties
<1>3. PICK g \in Seq(X) : g = <<h>>
  <2>1. <<h>> \in Seq(X)
    OBVIOUS
  <2> QED BY <2>1
<1>4. Append(a, h) = Cat(a, g)
  BY <1>3, AppendIsConcat DEF Cat
<1>5. b = Cat(g, t)
  BY <1>1, <1>2, <1>3 DEF Cat
<1>6. PICK u \in Seq(X) : u = Cat(q, a)
  BY CatType, Zenon
<1>7. Cat(q, Cat(a, g)) = Cat(u, g)
  BY <1>6, CatAssoc, SMT
<1>8. Cat(Cat(u, g), t) = Cat(u, Cat(g, t))
  BY CatAssoc, SMT
<1> QED BY <1>1, <1>2, <1>4, <1>5, <1>6, <1>7, <1>8, Zenon

(* ... and an event from the first of the second part to the first.        *)
LEMMA FlowDeliver ==
  ASSUME NEW X, NEW d \in Seq(X), NEW e \in Seq(X), NEW q \in Seq(X), NEW a \in Seq(X),
         NEW b \in Seq(X)
  PROVE  Cat(Cat(d, e), Cat(Cat(q, a), b)) = Cat(d, Cat(Cat(Cat(e, q), a), b))
<1>1. PICK u \in Seq(X) : u = Cat(q, a)
  BY CatType, Zenon
<1>2. PICK v \in Seq(X) : v = Cat(u, b)
  BY CatType, Zenon
<1>3. Cat(Cat(d, e), v) = Cat(d, Cat(e, v))
  BY CatAssoc, SMT
<1>4. Cat(e, v) = Cat(Cat(e, u), b)
  BY <1>2, CatAssoc, SMT
<1>5. Cat(e, u) = Cat(Cat(e, q), a)
  BY <1>1, CatAssoc, SMT
<1> QED BY <1>1, <1>2, <1>3, <1>4, <1>5, Zenon

-----------------------------------------------------------------------------
(* Nothing is lost while the failures are those of the hpq and of the      *)
(* acknowledgement, and until the bus is stopped.                          *)
Spared == ToSet(failed) \subseteq {"hpq", "ack"} /\ up \in {"enabled", "disabled"}

(* The flow of fragments: delivered, queued, assembled, on the busy queue. *)
Accounted ==
  Cat(FlattenSeq(delivered), Cat(Cat(FlattenSeq(event_q), asm.data), Bufs)) = sent

LostInv == IntactInv /\ (Spared => Accounted)

(* That is what NothingLost says.                                          *)
LEMMA LostNothing ==
  ASSUME LostInv
  PROVE  NothingLost
BY DEF LostInv, NothingLost, Spared, Accounted, InFlight, Bufs, Cat

(* Neither a failure nor a stop of the bus is undone.                      *)
LEMMA SparedBefore ==
  ASSUME TypeOK, [Next]_vars, Spared'
  PROVE  Spared
<1>1. ToSet(failed) \subseteq {"hpq", "ack"}
  BY FailedGrows DEF Spared
<1>2. up \in {"enabled", "disabled"}
  <2>1. up' = up \/ up = "enabled" \/ up = "disabled" \/ up' = "drained" \/ up' = "removed"
    BY DEF Next, Isr, IsrFails, Tasklet, RpuPosts, RpuReclaims, RpuWatchdog, IrqEnter,
     IrqExit, IrqWdogUnread, IrqAckFails, IrqFragment, IrqNoMoreEvents, IrqPopFails,
     IrqReadFails, IrqDataAllocFails, IrqFreeFails, IrqMsgAllocFails, EventTaskletEnter,
     EventDeliver, EventTaskletExit, RecoveryTasklet, HalDisable, BusDeinit, Drain, Drained,
     DevRem, vars
  <2> QED BY <2>1 DEF Spared
<1> QED BY <1>1, <1>2 DEF Spared

(* Each step moves a fragment from one place of the flow to the next one:  *)
(* posted, read into the assembly, queued with its event, delivered.       *)
LEMMA LostStep ==
  ASSUME LostInv, [Next]_vars, Spared'
  PROVE  Accounted'
<1>1. OnceInv /\ EventInv /\ TypeOK
  BY DEF LostInv, IntactInv, OnceInv, EventInv
<1>2. Spared /\ Accounted
  BY <1>1, SparedBefore DEF LostInv
<1>3. Half(asm) /\ Chained
  BY <1>2 DEF Spared, Torn, LostInv, IntactInv, Intact
<1>4. PICK d \in Seq(Fragment) : d = FlattenSeq(delivered)
  BY <1>1, FlattenType DEF TypeOK
<1>5. PICK q \in Seq(Fragment) : q = FlattenSeq(event_q)
  BY <1>1, FlattenType DEF TypeOK
<1>6. PICK a \in Seq(Fragment) : a = asm.data
  BY <1>1 DEF TypeOK, Assembly
<1>7. PICK b \in Seq(Fragment) : b = Bufs
  BY <1>1, BufsType
<1>8. Cat(d, Cat(Cat(q, a), b)) = sent
  BY <1>2, <1>4, <1>5, <1>6, <1>7, Zenon DEF Accounted
<1>9. CASE RpuPosts
  <2>1. PICK f \in Fragment : sent' = Append(sent, f) /\ Bufs' = Append(b, f)
    BY <1>1, <1>7, <1>9, BufsPosted
  <2>2. UNCHANGED <<asm, event_q, delivered>>
    BY <1>9 DEF RpuPosts
  <2>3. Cat(d, Cat(Cat(q, a), Append(b, f))) = Append(sent, f)
    <3>1. Cat(d, Cat(Cat(q, a), Append(b, f))) = Append(Cat(d, Cat(Cat(q, a), b)), f)
      <4>1. AppendFlows(d, q, a, b, f)
        BY FlowAppend, SMT
      <4> QED BY <4>1, Zenon DEF AppendFlows
    <3> QED BY <1>8, <3>1, Zenon
  <2>4. FlattenSeq(delivered)' = d /\ FlattenSeq(event_q)' = q /\ asm'.data = a
    BY <1>4, <1>5, <1>6, <2>2
  <2> QED BY <2>1, <2>3, <2>4, Zenon DEF Accounted
<1>10. CASE RpuReclaims \/ Untouched
  BY <1>2, <1>10 DEF RpuReclaims, Untouched, Accounted, Bufs
<1>11. CASE IrqFragment
  <2>1. PICK s \in Assembled(buf[Head(busy)]) : Popped /\ (NotYetWhole(s) \/ Whole(s))
    BY <1>11 DEF IrqFragment
  <2>2. busy # <<>> /\ delivered' = delivered /\ sent' = sent
    BY <1>11, <2>1 DEF IrqFragment, Reading, Popped
  <2>3. PICK f \in Fragment : f = buf[Head(busy)]
    BY <1>1, <2>2, HeadFragment
  <2>4. b # <<>> /\ f = Head(b) /\ f = b[1] /\ Bufs' = Tail(b)
    BY <1>1, <1>7, <2>1, <2>2, <2>3, BufsPopped
  <2>5. Expects(asm, f)
    BY <1>3, <1>7, <2>4 DEF Chained
  <2>6. s.data = Append(a, f) /\ s.data \in Seq(Fragment)
    BY <1>1, <1>3, <1>6, <2>1, <2>3, <2>5, AssembledHalf, Zenon
  <2>7. Cat(Cat(q, Append(a, f)), Tail(b)) = Cat(Cat(q, a), b)
    BY <2>4, FlowRead, SMT
  <2>8. FlattenSeq(delivered)' = d
    BY <1>4, <2>2
  <2>9. Cat(FlattenSeq(event_q)', asm'.data) = Cat(q, Append(a, f))
    <3>1. CASE NotYetWhole(s)
      <4>1. asm'.data = Append(a, f) /\ FlattenSeq(event_q)' = q
        BY <1>5, <2>6, <3>1 DEF NotYetWhole
      <4> QED BY <4>1, Zenon
    <3>2. CASE Whole(s)
      <4>1. event_q' = Append(event_q, s.data) /\ asm'.data = <<>>
        BY <3>2 DEF Whole, NoEvent
      <4>2. FlattenSeq(Append(event_q, s.data)) = Cat(q, s.data)
        <5>1. event_q \in Seq(Seq(Fragment))
          BY <1>1 DEF TypeOK
        <5>2. FlattenSeq(Append(event_q, s.data)) = FlattenSeq(event_q) \o s.data
          BY <2>6, <5>1, FlattenAppend
        <5> QED BY <1>5, <5>2, Zenon DEF Cat
      <4>3. PICK u \in Seq(Fragment) : u = Cat(q, s.data)
        BY <2>6, CatType, Zenon
      <4>4. Cat(u, <<>>) = u
        BY ConcatEmptySeq DEF Cat
      <4> QED BY <2>6, <4>1, <4>2, <4>3, <4>4
    <3> QED BY <2>1, <3>1, <3>2
  <2> QED BY <1>8, <2>2, <2>4, <2>7, <2>8, <2>9, Zenon DEF Accounted
<1>12. CASE IrqMsgAllocFails
  <2>1. "msg" \in ToSet(failed')
    BY <1>1, <1>12, FailRemembers DEF IrqMsgAllocFails
  <2> QED BY <2>1 DEF Spared
<1>13. CASE Tears
  BY <1>1, <1>13, TearsTorn DEF Torn, Spared
<1>14. CASE EventDeliver
  <2>1. UNCHANGED <<asm, busy, buf, sent>>
    BY <1>14 DEF EventDeliver, rpu
  <2>2. event_q # <<>> /\ event_q' = Tail(event_q) /\ delivered' = Append(delivered, Head(event_q))
    BY <1>14 DEF EventDeliver
  <2>3. event_q \in Seq(Seq(Fragment)) /\ delivered \in Seq(Seq(Fragment))
    BY <1>1 DEF TypeOK
  <2>4. PICK e \in Seq(Fragment) : e = Head(event_q)
    BY <2>2, <2>3, HeadTailProperties
  <2>5. PICK r \in Seq(Fragment) : r = FlattenSeq(Tail(event_q))
    <3>1. Tail(event_q) \in Seq(Seq(Fragment))
      BY <2>2, <2>3, HeadTailProperties
    <3> QED BY <3>1, FlattenType
  <2>6. q = Cat(e, r)
    BY <1>5, <2>2, <2>3, <2>4, <2>5, FlattenHead, Zenon DEF Cat
  <2>7. FlattenSeq(Append(delivered, e)) = Cat(d, e)
    BY <1>4, <2>3, FlattenAppend, Zenon DEF Cat
  <2>8. Cat(Cat(d, e), Cat(Cat(r, a), b)) = sent
    BY <1>8, <2>6, FlowDeliver, SMT
  <2>9. FlattenSeq(delivered)' = Cat(d, e) /\ FlattenSeq(event_q)' = r
    BY <2>2, <2>4, <2>5, <2>7
  <2>10. asm'.data = a /\ Bufs' = b /\ sent' = sent
    BY <1>6, <1>7, <2>1 DEF Bufs
  <2> QED BY <2>8, <2>9, <2>10, Zenon DEF Accounted
<1>15. CASE Drain
  BY <1>15 DEF Drain, Spared
<1> QED BY <1>9, <1>10, <1>11, <1>12, <1>13, <1>14, <1>15, StepKinds

(* At the start nothing has been sent.                                     *)
LEMMA LostInit ==
  ASSUME Init
  PROVE  LostInv
<1>1. IntactInv
  BY IntactInit
<1>2. Bufs = <<>>
  <2>1. busy = <<>> /\ EventInv
    BY EventInit DEF Init
  <2> QED BY <2>1, BufsType
<1>3. FlattenSeq(delivered) = <<>> /\ FlattenSeq(event_q) = <<>> /\ asm.data = <<>> /\ sent = <<>>
  BY FlattenEmpty DEF Init, NoEvent
<1>4. Cat(<<>>, Cat(Cat(<<>>, <<>>), <<>>)) = <<>>
  BY DEF Cat
<1> QED BY <1>1, <1>2, <1>3, <1>4 DEF LostInv, Accounted

(* Whole events, in order, each once: what nrf_wifi_hal_irq_handler and    *)
(* the tasklet give the FMAC is exactly what the RPU has sent, as long as  *)
(* no failure tears an event (EventsWhole) or drops one (NothingLost).     *)
THEOREM EventsAreIntact == Spec => []EventsIntact
<1>1. Init => LostInv
  BY LostInit
<1>2. LostInv /\ [Next]_vars => LostInv'
  BY IntactInvStep, LostStep DEF LostInv
<1>3. LostInv => EventsIntact
  BY LostNothing, IntactWhole DEF LostInv, EventsIntact
<1> QED  BY <1>1, <1>2, <1>3, PTL DEF Spec

(* While the event buffers can be read and returned, hal_rpu_event_free    *)
(* has returned every buffer that the RPU does not take back by itself.    *)
THEOREM BuffersAreReturned == Spec => []BuffersReturned
<1>1. Init => IntactInv
  BY IntactInit
<1>2. IntactInv => BuffersReturned
  BY IntactReturned
<1> QED  BY <1>1, <1>2, IntactInvStep, PTL DEF Spec

-----------------------------------------------------------------------------
(* The events begun.                                                       *)

One(f)  == IF f.idx = 1 THEN <<f.id>> ELSE <<>>
Ones(s) == [i \in DOMAIN s |-> One(s[i])]

(* An event begun has a number.                                            *)
LEMMA OneType ==
  ASSUME NEW f \in Fragment
  PROVE  One(f) \in Seq(Nat) /\ f.id \in Nat /\ f.id \in 1 .. MAX_EVENTS
<1>1. f.id \in 1 .. MAX_EVENTS
  BY DEF Fragment
<1>2. f.id \in Nat
  BY <1>1
<1> QED  BY <1>1, <1>2 DEF One

(* The sequences that Begun joins.                                         *)
LEMMA OnesType ==
  ASSUME NEW s \in Seq(Fragment)
  PROVE  Ones(s) \in Seq(Seq(Nat)) /\ Len(Ones(s)) = Len(s)
<1>1. PICK n \in Nat : n = Len(s) /\ DOMAIN s = 1 .. n
  OBVIOUS
<1>2. \A i \in 1 .. n : One(s[i]) \in Seq(Nat)
  BY <1>1, OneType
<1>3. Ones(s) = [i \in 1 .. n |-> One(s[i])]
  BY <1>1 DEF Ones
<1>4. [i \in 1 .. n |-> One(s[i])] \in Seq(Seq(Nat))
  BY <1>2
<1> QED  BY <1>1, <1>3, <1>4

(* Begun joins them.                                                       *)
LEMMA BegunIs ==
  ASSUME NEW s
  PROVE  Begun(s) = FlattenSeq(Ones(s))
BY DEF Begun, Ones, One

(* What has begun is a sequence of numbers.                                *)
LEMMA BegunType ==
  ASSUME NEW s \in Seq(Fragment)
  PROVE  Begun(s) \in Seq(Nat)
BY BegunIs, OnesType, FlattenType, Zenon

(* Nothing begins nothing.                                                 *)
LEMMA BegunEmpty == Begun(<<>>) = <<>>
<1>1. Ones(<<>>) = <<>>
  BY DEF Ones
<1> QED  BY <1>1, BegunIs, FlattenEmpty

(* A fragment appended begins an event if it is the first of one.          *)
LEMMA BegunAppend ==
  ASSUME NEW s \in Seq(Fragment), NEW f \in Fragment
  PROVE  Begun(Append(s, f)) = Cat(Begun(s), One(f))
<1>1. PICK t \in Seq(Fragment) : t = Append(s, f)
  <2>1. Append(s, f) \in Seq(Fragment)
    BY AppendProperties
  <2> QED  BY <2>1
<1>2. PICK n \in Nat : n = Len(s)
  OBVIOUS
<1>3. /\ DOMAIN s = 1 .. n /\ DOMAIN t = 1 .. n + 1
      /\ t[n + 1] = f /\ \A i \in 1 .. n : t[i] = s[i]
  BY <1>1, <1>2
<1>4. PICK u \in Seq(Seq(Nat)) : u = Ones(s) /\ Len(u) = n /\ \A i \in 1 .. n : u[i] = One(s[i])
  <2>1. \A i \in 1 .. n : Ones(s)[i] = One(s[i])
    BY <1>3 DEF Ones
  <2> QED  BY <1>2, <2>1, OnesType
<1>5. PICK v \in Seq(Seq(Nat)) :
        v = Ones(t) /\ Len(v) = n + 1 /\ \A i \in 1 .. n + 1 : v[i] = One(t[i])
  <2>1. \A i \in 1 .. n + 1 : Ones(t)[i] = One(t[i])
    BY <1>3 DEF Ones
  <2>2. Len(t) = n + 1
    BY <1>1, <1>2
  <2> QED  BY <2>1, <2>2, OnesType
<1>6. PICK x \in Seq(Nat) : x = One(f)
  BY OneType
<1>7. v = Append(u, x)
  <2>1. \A i \in 1 .. n : v[i] = u[i]
    BY <1>3, <1>4, <1>5
  <2>2. v[n + 1] = x
    BY <1>3, <1>5, <1>6
  <2> QED  BY <1>4, <1>5, <2>1, <2>2
<1>8. FlattenSeq(Append(u, x)) = FlattenSeq(u) \o x
  BY FlattenAppend, Zenon
<1> QED  BY <1>1, <1>4, <1>5, <1>6, <1>7, <1>8, BegunIs, Zenon DEF Cat

(* A sequence that is not empty is one to which its last was appended.     *)
LEMMA AppendLast ==
  ASSUME NEW X, NEW n \in Nat, NEW s \in Seq(X), Len(s) = n + 1
  PROVE  \E r \in Seq(X), x \in X : Len(r) = n /\ s = Append(r, x) /\ x = s[n + 1]
                                    /\ \A i \in 1 .. n : r[i] = s[i]
<1>1. PICK r : r = [i \in 1 .. n |-> s[i]]
  OBVIOUS
<1>2. r \in Seq(X) /\ Len(r) = n /\ \A i \in 1 .. n : r[i] = s[i]
  BY <1>1
<1>3. s[n + 1] \in X
  OBVIOUS
<1>4. PICK t \in Seq(X) : t = Append(r, s[n + 1])
  BY <1>2, <1>3, AppendProperties
<1>5. Len(t) = n + 1 /\ \A i \in 1 .. n + 1 : t[i] = s[i]
  BY <1>2, <1>3, <1>4
<1>6. s = t
  BY <1>5
<1> QED  BY <1>2, <1>3, <1>4, <1>6

(* What two sequences begin they begin one after the other.                *)
LEMMA BegunCat ==
  ASSUME NEW s \in Seq(Fragment), NEW t \in Seq(Fragment)
  PROVE  Begun(Cat(s, t)) = Cat(Begun(s), Begun(t))
<1>1. PICK S : S = {n \in Nat : \A w \in Seq(Fragment) :
                      Len(w) = n => Begun(Cat(s, w)) = Cat(Begun(s), Begun(w))}
  OBVIOUS
<1>2. PICK b \in Seq(Nat) : b = Begun(s)
  BY BegunType
<1>3. 0 \in S
  <2> SUFFICES ASSUME NEW w \in Seq(Fragment), Len(w) = 0
               PROVE  Begun(Cat(s, w)) = Cat(Begun(s), Begun(w))
    BY <1>1
  <2>1. w = <<>>
    BY EmptySeq
  <2>2. Cat(s, <<>>) = s /\ Cat(b, <<>>) = b
    BY ConcatEmptySeq DEF Cat
  <2> QED  BY <1>2, <2>1, <2>2, BegunEmpty
<1>4. ASSUME NEW n \in Nat, n \in S PROVE n + 1 \in S
  <2> SUFFICES ASSUME NEW w \in Seq(Fragment), Len(w) = n + 1
               PROVE  Begun(Cat(s, w)) = Cat(Begun(s), Begun(w))
    BY <1>1
  <2>1. PICK r \in Seq(Fragment), f \in Fragment :
          /\ Len(r) = n /\ w = Append(r, f) /\ f = w[n + 1]
          /\ \A i \in 1 .. n : r[i] = w[i]
    BY AppendLast
  <2>2. Begun(Cat(s, r)) = Cat(b, Begun(r))
    BY <1>1, <1>2, <1>4, <2>1
  <2>3. PICK c \in Seq(Fragment) : c = Cat(s, r)
    BY CatType, Zenon
  <2>4. Cat(s, Append(r, f)) = Append(c, f)
    BY <2>3 DEF Cat
  <2>5. PICK x \in Seq(Nat) : x = One(f)
    BY OneType
  <2>6. PICK d \in Seq(Nat) : d = Begun(r)
    BY BegunType
  <2>7. Begun(Append(c, f)) = Cat(Begun(c), x) /\ Begun(Append(r, f)) = Cat(d, x)
    BY <2>5, <2>6, BegunAppend, Zenon
  <2>8. Cat(Cat(b, d), x) = Cat(b, Cat(d, x))
    BY CatAssoc, SMT
  <2> QED  BY <1>2, <2>1, <2>2, <2>3, <2>4, <2>6, <2>7, <2>8, Zenon
<1>5. \A n \in Nat : n \in S
  BY <1>3, <1>4, NatInduct
<1> QED  BY <1>1, <1>5

(* A whole event begins one event: its own.                                *)
LEMMA BegunWhole ==
  ASSUME NEW e \in Seq(Fragment), IsWhole(e)
  PROVE  Begun(e) = <<e[1].id>> /\ e[1].id \in Nat
<1>1. PICK x : x = e[1].id
  OBVIOUS
<1>2. PICK S : S = {n \in Nat : \A d \in Seq(Fragment) :
                      Len(d) = n /\ n # 0 /\ (\A i \in 1 .. n : d[i].idx = i /\ d[i].id = x)
                        => Begun(d) = <<x>>}
  OBVIOUS
<1>3. 0 \in S
  BY <1>2
<1>4. ASSUME NEW n \in Nat, n \in S PROVE n + 1 \in S
  <2> SUFFICES ASSUME NEW d \in Seq(Fragment), Len(d) = n + 1,
                      \A i \in 1 .. n + 1 : d[i].idx = i /\ d[i].id = x
               PROVE  Begun(d) = <<x>>
    BY <1>2
  <2>1. PICK r \in Seq(Fragment), f \in Fragment :
          /\ Len(r) = n /\ d = Append(r, f) /\ f = d[n + 1]
          /\ \A i \in 1 .. n : r[i] = d[i]
    BY AppendLast
  <2>2. Begun(d) = Cat(Begun(r), One(f))
    BY <2>1, BegunAppend, Zenon
  <2>3. f.idx = n + 1 /\ f.id = x /\ x \in Nat
    <3>1. n + 1 \in 1 .. n + 1
      OBVIOUS
    <3> QED  BY <2>1, <3>1, OneType
  <2>4. CASE n = 0
    <3>1. Begun(r) = <<>>
      BY <2>1, <2>4, EmptySeq, BegunEmpty
    <3>2. One(f) = <<x>>
      BY <2>3, <2>4 DEF One
    <3>3. Cat(<<>>, <<x>>) = <<x>>
      BY <2>3 DEF Cat
    <3> QED  BY <2>2, <3>1, <3>2, <3>3
  <2>5. CASE n # 0
    <3>1. Begun(r) = <<x>>
      BY <1>2, <1>4, <2>1, <2>5
    <3>2. One(f) = <<>>
      BY <2>3, <2>5 DEF One
    <3>3. Cat(<<x>>, <<>>) = <<x>>
      BY <2>3 DEF Cat
    <3> QED  BY <2>2, <3>1, <3>2, <3>3
  <2> QED  BY <2>4, <2>5
<1>5. \A n \in Nat : n \in S
  BY <1>3, <1>4, NatInduct
<1>6. PICK n \in Nat \ {0} : n = Len(e)
  BY EmptySeq DEF IsWhole
<1>7. PICK f \in Fragment : f = e[1]
  BY <1>6
<1>8. \A i \in 1 .. f.n : e[i] = [f EXCEPT !.idx = i]
  BY <1>7 DEF IsWhole
<1>9. n = f.n
  <2>1. e = [i \in 1 .. f.n |-> [f EXCEPT !.idx = i]]
    BY <1>7, Zenon DEF IsWhole
  <2>2. DOMAIN e = 1 .. f.n /\ DOMAIN e = 1 .. n /\ f.n \in Nat
    BY <1>6, <2>1 DEF Fragment
  <2> QED  BY <2>2
<1>10. ASSUME NEW i \in 1 .. n PROVE e[i].idx = i /\ e[i].id = x
  <2>1. e[i] = [f EXCEPT !.idx = i]
    BY <1>8, <1>9
  <2>2. f.id = x
    BY <1>1, <1>7
  <2> QED  BY <2>1, <2>2 DEF Fragment
<1>11. Begun(e) = <<x>>
  BY <1>2, <1>5, <1>6, <1>10
<1> QED  BY <1>1, <1>7, <1>11, OneType

(* The event in the middle is lost.                                        *)
LEMMA MiddleRemoved ==
  ASSUME NEW X, NEW u \in Seq(X), NEW w \in Seq(X), NEW x \in X,
         NEW c, c = Cat(Cat(u, <<x>>), w)
  PROVE  RemoveAt(c, Len(u) + 1) = Cat(u, w) /\ Len(u) + 1 \in DOMAIN c
<1>1. PICK n \in Nat, m \in Nat : n = Len(u) /\ m = Len(w)
  OBVIOUS
<1>2. PICK b \in Seq(X) : b = Cat(u, <<x>>)
  <2>1. <<x>> \in Seq(X)
    OBVIOUS
  <2>2. Cat(u, <<x>>) \in Seq(X)
    BY <2>1, CatType, Zenon
  <2> QED  BY <2>2
<1>3. Len(b) = n + 1 /\ b[n + 1] = x /\ \A i \in 1 .. n : b[i] = u[i]
  BY <1>1, <1>2 DEF Cat
<1>4. c \in Seq(X) /\ Len(c) = (n + 1) + m
  BY <1>1, <1>2, <1>3 DEF Cat
<1>5. ASSUME NEW i \in 1 .. n PROVE c[i] = u[i]
  BY <1>1, <1>2, <1>3 DEF Cat
<1>6. ASSUME NEW i \in 1 .. m PROVE c[(n + 1) + i] = w[i]
  BY <1>1, <1>2, <1>3 DEF Cat
<1>7. SubSeq(c, 1, n) = u
  <2>1. SubSeq(c, 1, n) = [i \in 1 .. n |-> c[i]]
    BY <1>1, <1>4
  <2>2. u = [i \in 1 .. n |-> u[i]]
    BY <1>1
  <2> QED  BY <1>5, <2>1, <2>2
<1>8. SubSeq(c, n + 2, Len(c)) = w
  <2>1. PICK v : v = SubSeq(c, n + 2, Len(c))
    OBVIOUS
  <2>2. v \in Seq(X) /\ Len(v) = m
    BY <1>4, <2>1
  <2>3. ASSUME NEW i \in 1 .. m PROVE v[i] = w[i]
    <3>1. v[i] = c[(n + 2) + i - 1]
      BY <1>4, <2>1
    <3>2. (n + 2) + i - 1 = (n + 1) + i
      OBVIOUS
    <3> QED  BY <1>6, <3>1, <3>2
  <2>4. v = [i \in 1 .. m |-> v[i]] /\ w = [i \in 1 .. m |-> w[i]]
    BY <1>1, <2>2
  <2>5. v = w
    BY <2>3, <2>4
  <2> QED  BY <2>1, <2>5
<1>9. (n + 1) - 1 = n /\ (n + 1) + 1 = n + 2 /\ n + 1 \in 1 .. Len(c) /\ DOMAIN c = 1 .. Len(c)
  BY <1>4
<1> QED  BY <1>1, <1>7, <1>8, <1>9 DEF RemoveAt, Cat

(* The oldest is handed over.                                              *)
LEMMA FirstRemoved ==
  ASSUME NEW X, NEW w \in Seq(X), NEW x \in X, NEW c, c = Cat(<<x>>, w)
  PROVE  c # <<>> /\ Head(c) = x /\ Tail(c) = w
<1>1. PICK n \in Nat : n = Len(w)
  OBVIOUS
<1>2. c \in Seq(X) /\ Len(c) = 1 + n /\ c[1] = x /\ \A i \in 1 .. n : c[1 + i] = w[i]
  BY <1>1 DEF Cat
<1>3. c # <<>> /\ Head(c) = x
  BY <1>2
<1>4. PICK t : t = Tail(c)
  OBVIOUS
<1>5. Len(t) = n /\ t \in Seq(X) /\ \A i \in 1 .. n : t[i] = c[i + 1]
  <2>1. /\ Tail(c) \in Seq(X) /\ Len(Tail(c)) = Len(c) - 1
        /\ \A i \in 1 .. Len(Tail(c)) : Tail(c)[i] = c[i + 1]
    BY <1>2, <1>3, HeadTailProperties
  <2>2. Len(t) = n
    BY <1>2, <1>4, <2>1
  <2> QED  BY <1>4, <2>1, <2>2
<1>6. \A i \in 1 .. n : t[i] = w[i]
  <2>1. \A i \in 1 .. n : i + 1 = 1 + i
    OBVIOUS
  <2> QED  BY <1>2, <1>5, <2>1
<1>7. t = [i \in 1 .. n |-> t[i]] /\ w = [i \in 1 .. n |-> w[i]]
  BY <1>1, <1>5
<1>8. t = w
  BY <1>6, <1>7
<1> QED  BY <1>3, <1>4, <1>8

-----------------------------------------------------------------------------
(* The channel, step by step.                                              *)

(* The RPU numbers its events.                                             *)
Numbered == Len(Begun(sent)) = IF sent = <<>> THEN 0 ELSE sent[Len(sent)].id

ChannelInv == IntactInv /\ Numbered

Handed == [i \in DOMAIN delivered |-> delivered[i][1].id]

(* What a step does to the channel while the device is in use.             *)
Stays == /\ Begun(sent)' = Begun(sent) /\ Begun(InFlight)' = Begun(InFlight)
         /\ delivered' = delivered

Raises(x) == /\ Len(Begun(sent))' = x /\ x = Len(Begun(sent)) + 1 /\ x \in 1 .. MAX_EVENTS
             /\ Begun(InFlight)' = Append(Begun(InFlight), x)
             /\ delivered' = delivered

Hands(x) == /\ Begun(sent)' = Begun(sent)
            /\ Begun(InFlight) # <<>> /\ Head(Begun(InFlight)) = x
            /\ Begun(InFlight)' = Tail(Begun(InFlight))
            /\ Handed' = Append(Handed, x)

Loses(i) == /\ Begun(sent)' = Begun(sent)
            /\ i \in DOMAIN Begun(InFlight)
            /\ Begun(InFlight)' = RemoveAt(Begun(InFlight), i)
            /\ delivered' = delivered

(* What is in flight, and the events it begins.                            *)
LEMMA InFlightIs ==
  ASSUME EventInv
  PROVE  /\ FlattenSeq(event_q) \in Seq(Fragment) /\ asm.data \in Seq(Fragment)
         /\ Bufs \in Seq(Fragment)
         /\ InFlight = Cat(Cat(FlattenSeq(event_q), asm.data), Bufs)
<1>1. FlattenSeq(event_q) \in Seq(Fragment) /\ asm.data \in Seq(Fragment)
  BY FlattenType DEF EventInv, TypeOK, Assembly
<1>2. Bufs \in Seq(Fragment)
  BY BufsType
<1> QED  BY <1>1, <1>2, Zenon DEF InFlight, Bufs, Cat

(* The same of three sequences.                                            *)
LEMMA BegunThree ==
  ASSUME NEW q \in Seq(Fragment), NEW a \in Seq(Fragment), NEW b \in Seq(Fragment)
  PROVE  Begun(Cat(Cat(q, a), b)) = Cat(Cat(Begun(q), Begun(a)), Begun(b))
<1>1. PICK u \in Seq(Fragment) : u = Cat(q, a)
  BY CatType, Zenon
<1>2. Begun(u) = Cat(Begun(q), Begun(a))
  BY <1>1, BegunCat
<1>3. Begun(Cat(u, b)) = Cat(Begun(u), Begun(b))
  BY BegunCat
<1> QED  BY <1>1, <1>2, <1>3

(* The RPU posts the next fragment of an event, or the first of the next.  *)
LEMMA PostNumbers ==
  ASSUME TypeOK, Numbered, NEW f \in Fragment, f \in NextFragments, sent' = Append(sent, f)
  PROVE  /\ Numbered'
         /\ f.idx = 1 => f.id = Len(Begun(sent)) + 1
         /\ Len(Begun(sent))' = IF f.idx = 1 THEN Len(Begun(sent)) + 1 ELSE Len(Begun(sent))
<1>1. sent \in Seq(Fragment)
  BY DEF TypeOK
<1>2. PICK b \in Seq(Nat) : b = Begun(sent)
  BY <1>1, BegunType
<1>3. Begun(sent)' = Cat(b, One(f))
  BY <1>1, <1>2, BegunAppend, Zenon
<1>4. f.id \in Nat /\ f.idx \in Nat
  BY OneType DEF Fragment
<1>5. Len(Cat(b, One(f))) = IF f.idx = 1 THEN Len(b) + 1 ELSE Len(b)
  <2>1. CASE f.idx = 1
    <3>1. One(f) = <<f.id>>
      BY <2>1 DEF One
    <3>2. Len(Cat(b, <<f.id>>)) = Len(b) + 1
      BY <1>4 DEF Cat
    <3> QED  BY <2>1, <3>1, <3>2
  <2>2. CASE f.idx # 1
    <3>1. One(f) = <<>>
      BY <2>2 DEF One
    <3>2. Cat(b, <<>>) = b
      BY ConcatEmptySeq DEF Cat
    <3> QED  BY <2>2, <3>1, <3>2
  <2> QED  BY <2>1, <2>2
<1>6. sent' # <<>> /\ sent'[Len(sent')] = f
  BY <1>1
<1>7. f.id = IF f.idx = 1 THEN Len(b) + 1 ELSE Len(b)
  <2>1. CASE sent = <<>>
    BY <1>2, <2>1 DEF NextFragments, Numbered
  <2>2. CASE sent # <<>>
    <3>1. PICK l \in Fragment : l = sent[Len(sent)] /\ Len(b) = l.id
      BY <1>1, <1>2, <2>2 DEF Numbered
    <3>2. CASE l.idx < l.n
      <4>1. f = [l EXCEPT !.idx = @ + 1]
        BY <2>2, <3>1, <3>2 DEF NextFragments
      <4>2. f.id = l.id /\ f.idx = l.idx + 1 /\ l.idx \in Nat \ {0}
        BY <4>1 DEF Fragment
      <4> QED  BY <3>1, <4>2
    <3>3. CASE ~(l.idx < l.n)
      <4>1. f.id = l.id + 1 /\ f.idx = 1
        BY <2>2, <3>1, <3>3 DEF NextFragments
      <4> QED  BY <3>1, <4>1
    <3> QED  BY <3>2, <3>3
  <2> QED  BY <2>1, <2>2
<1>8. Numbered' <=> Len(Begun(sent))' = f.id
  BY <1>6 DEF Numbered
<1> QED  BY <1>2, <1>3, <1>5, <1>7, <1>8

(* What is in flight after a step.                                         *)
LEMMA NextInFlight ==
  InFlight' = Cat(Cat(FlattenSeq(event_q'), asm'.data), Bufs')
BY Zenon DEF InFlight, Bufs, Cat

(* A fragment is posted: an event is raised if it is the first of one.     *)
LEMMA ChannelPost ==
  ASSUME ChannelInv, RpuPosts
  PROVE  Numbered' /\ (Stays \/ \E x : Raises(x))
<1>1. OnceInv /\ EventInv /\ TypeOK /\ Numbered
  BY DEF ChannelInv, IntactInv, OnceInv, EventInv
<1>2. PICK b \in Seq(Fragment) : b = Bufs
  BY <1>1, InFlightIs
<1>3. PICK q \in Seq(Fragment) : q = FlattenSeq(event_q)
  BY <1>1, InFlightIs
<1>4. PICK a \in Seq(Fragment) : a = asm.data
  BY <1>1, InFlightIs
<1>5. PICK f \in Fragment :
        f \in NextFragments /\ sent' = Append(sent, f) /\ Bufs' = Append(b, f)
  BY <1>1, <1>2, BufsPosted
<1>6. UNCHANGED <<asm, event_q, delivered>>
  BY DEF RpuPosts
<1>7. PICK u \in Seq(Fragment) : u = Cat(q, a)
  BY CatType, Zenon
<1>8. PICK v \in Seq(Fragment) : v = Cat(u, b)
  BY CatType, Zenon
<1>9. InFlight = v
  BY <1>1, <1>2, <1>3, <1>4, <1>7, <1>8, InFlightIs
<1>10. InFlight' = Append(v, f)
  <2>1. InFlight' = Cat(u, Append(b, f))
    BY <1>3, <1>4, <1>5, <1>6, <1>7, NextInFlight
  <2>2. Cat(u, Append(b, f)) = Append(Cat(u, b), f)
    BY DEF Cat
  <2> QED  BY <1>8, <2>1, <2>2
<1>11. PICK w \in Seq(Nat) : w = Begun(v)
  BY BegunType
<1>12. Begun(InFlight) = w /\ Begun(InFlight)' = Cat(w, One(f))
  BY <1>9, <1>10, <1>11, BegunAppend
<1>13. sent \in Seq(Fragment)
  BY <1>1 DEF TypeOK
<1>14. Begun(sent)' = Cat(Begun(sent), One(f))
  BY <1>5, <1>13, BegunAppend
<1>15. /\ Numbered'
       /\ f.idx = 1 => f.id = Len(Begun(sent)) + 1
       /\ Len(Begun(sent))' = IF f.idx = 1 THEN Len(Begun(sent)) + 1 ELSE Len(Begun(sent))
  BY <1>1, <1>5, PostNumbers
<1>16. CASE f.idx = 1
  <2>1. One(f) = <<f.id>> /\ f.id \in Nat /\ f.id \in 1 .. MAX_EVENTS
    BY <1>16, OneType DEF One
  <2>2. Cat(w, <<f.id>>) = Append(w, f.id)
    BY <2>1 DEF Cat
  <2>3. Raises(f.id)
    BY <1>6, <1>12, <1>15, <1>16, <2>1, <2>2 DEF Raises
  <2> QED  BY <1>15, <2>3
<1>17. CASE f.idx # 1
  <2>1. One(f) = <<>>
    BY <1>17 DEF One
  <2>2. \A s \in Seq(Nat) : Cat(s, <<>>) = s
    BY ConcatEmptySeq DEF Cat
  <2>3. Begun(sent) \in Seq(Nat)
    BY <1>13, BegunType
  <2>4. Stays
    BY <1>6, <1>12, <1>14, <2>1, <2>2, <2>3 DEF Stays
  <2> QED  BY <1>15, <2>4
<1> QED  BY <1>16, <1>17

(* A fragment read, as it moves on.                                        *)
LEMMA ReadMoves ==
  ASSUME IntactInv, ~Torn, busy # <<>>, NEW s \in Assembled(buf[Head(busy)]), Popped
  PROVE  \E f \in Fragment :
           /\ s.data = Append(asm.data, f) /\ s.data \in Seq(Fragment)
           /\ s.pending = 0 => IsWhole(s.data)
           /\ Bufs # <<>> /\ f = Head(Bufs) /\ Bufs' = Tail(Bufs)
<1>1. EventInv /\ TypeOK /\ Half(asm) /\ Chained
  BY DEF IntactInv, OnceInv, EventInv, Intact
<1>2. PICK f \in Fragment : f = buf[Head(busy)]
  BY <1>1, HeadFragment
<1>3. Bufs # <<>> /\ f = Head(Bufs) /\ f = Bufs[1] /\ Bufs' = Tail(Bufs)
  BY <1>1, <1>2, BufsPopped
<1>4. Expects(asm, f)
  BY <1>1, <1>3 DEF Chained
<1>5. s.data = Append(asm.data, f) /\ s.data \in Seq(Fragment)
  BY <1>1, <1>2, <1>4, AssembledHalf, Zenon
<1>6. s.pending = 0 => IsWhole(s.data)
  BY <1>1, <1>2, <1>4, AssembledNext, Zenon
<1> QED  BY <1>3, <1>5, <1>6

(* A fragment is read: it goes on with its event.                          *)
LEMMA ChannelRead ==
  ASSUME ChannelInv, ~Torn, IrqFragment
  PROVE  Stays
<1>1. IntactInv /\ EventInv /\ TypeOK
  BY DEF ChannelInv, IntactInv, OnceInv, EventInv
<1>2. PICK s \in Assembled(buf[Head(busy)]) : Popped /\ (NotYetWhole(s) \/ Whole(s))
  BY DEF IrqFragment
<1>3. busy # <<>> /\ delivered' = delivered /\ sent' = sent
  BY <1>2 DEF IrqFragment, Reading, Popped
<1>4. PICK b \in Seq(Fragment) : b = Bufs
  BY <1>1, InFlightIs
<1>5. PICK q \in Seq(Fragment) : q = FlattenSeq(event_q)
  BY <1>1, InFlightIs
<1>6. PICK a \in Seq(Fragment) : a = asm.data
  BY <1>1, InFlightIs
<1>7. PICK f \in Fragment :
        /\ s.data = Append(a, f) /\ s.data \in Seq(Fragment)
        /\ b # <<>> /\ f = Head(b) /\ Bufs' = Tail(b)
  BY <1>1, <1>2, <1>3, <1>4, <1>6, ReadMoves
<1>8. Cat(Cat(q, Append(a, f)), Tail(b)) = Cat(Cat(q, a), b)
  BY <1>7, FlowRead, SMT
<1>9. Cat(FlattenSeq(event_q)', asm'.data) = Cat(q, Append(a, f))
  <2>1. CASE NotYetWhole(s)
    <3>1. asm'.data = Append(a, f) /\ FlattenSeq(event_q)' = q
      BY <1>5, <1>7, <2>1 DEF NotYetWhole
    <3> QED BY <3>1, Zenon
  <2>2. CASE Whole(s)
    <3>1. event_q' = Append(event_q, s.data) /\ asm'.data = <<>>
      BY <2>2 DEF Whole, NoEvent
    <3>2. event_q \in Seq(Seq(Fragment))
      BY <1>1 DEF TypeOK
    <3>3. FlattenSeq(Append(event_q, s.data)) = Cat(q, s.data)
      BY <1>5, <1>7, <3>2, FlattenAppend, Zenon DEF Cat
    <3>4. PICK u \in Seq(Fragment) : u = Cat(q, s.data)
      BY <1>7, CatType, Zenon
    <3>5. Cat(u, <<>>) = u
      BY ConcatEmptySeq DEF Cat
    <3> QED BY <1>7, <3>1, <3>3, <3>4, <3>5
  <2> QED BY <1>2, <2>1, <2>2
<1>10. InFlight' = InFlight
  BY <1>1, <1>4, <1>5, <1>6, <1>7, <1>8, <1>9, InFlightIs, NextInFlight, Zenon
<1> QED  BY <1>3, <1>10 DEF Stays

(* No memory for the message of a whole event: that event is lost.         *)
LEMMA ChannelLose ==
  ASSUME ChannelInv, ~Torn, IrqMsgAllocFails
  PROVE  \E i : Loses(i)
<1>1. IntactInv /\ EventInv /\ TypeOK
  BY DEF ChannelInv, IntactInv, OnceInv, EventInv
<1>2. PICK s \in Assembled(buf[Head(busy)]) : s.pending = 0 /\ Popped
  BY DEF IrqMsgAllocFails
<1>3. /\ busy # <<>> /\ sent' = sent
      /\ asm' = NoEvent /\ UNCHANGED <<event_q, delivered>>
  BY <1>2 DEF IrqMsgAllocFails, Reading, Popped
<1>4. PICK b \in Seq(Fragment) : b = Bufs
  BY <1>1, InFlightIs
<1>5. PICK q \in Seq(Fragment) : q = FlattenSeq(event_q)
  BY <1>1, InFlightIs
<1>6. PICK a \in Seq(Fragment) : a = asm.data
  BY <1>1, InFlightIs
<1>7. PICK f \in Fragment :
        /\ s.data = Append(a, f) /\ s.data \in Seq(Fragment) /\ IsWhole(s.data)
        /\ b # <<>> /\ f = Head(b) /\ Bufs' = Tail(b)
  BY <1>1, <1>2, <1>3, <1>4, <1>6, ReadMoves
<1>8. PICK e \in Seq(Fragment) : e = s.data
  BY <1>7
<1>9. PICK t \in Seq(Fragment) : t = Tail(b)
  BY <1>7, HeadTailProperties
<1>10. InFlight = Cat(Cat(q, e), t)
  <2>1. Cat(Cat(q, Append(a, f)), Tail(b)) = Cat(Cat(q, a), b)
    BY <1>7, FlowRead, SMT
  <2> QED  BY <1>1, <1>4, <1>5, <1>6, <1>7, <1>8, <1>9, <2>1, InFlightIs, Zenon
<1>11. InFlight' = Cat(q, t)
  <2>1. InFlight' = Cat(Cat(q, <<>>), t)
    BY <1>3, <1>5, <1>7, <1>9, NextInFlight DEF NoEvent
  <2>2. Cat(q, <<>>) = q
    BY ConcatEmptySeq DEF Cat
  <2> QED  BY <2>1, <2>2
<1>12. PICK u \in Seq(Nat) : u = Begun(q)
  BY BegunType
<1>13. PICK w \in Seq(Nat) : w = Begun(t)
  BY BegunType
<1>14. PICK x \in Nat : Begun(e) = <<x>>
  BY <1>7, <1>8, BegunWhole
<1>15. PICK c : c = Begun(InFlight)
  OBVIOUS
<1>16. c = Cat(Cat(u, <<x>>), w)
  <2>1. Begun(Cat(Cat(q, e), t)) = Cat(Cat(Begun(q), Begun(e)), Begun(t))
    BY BegunThree
  <2> QED  BY <1>10, <1>12, <1>13, <1>14, <1>15, <2>1
<1>17. Begun(InFlight)' = Cat(u, w)
  BY <1>11, <1>12, <1>13, BegunCat, Zenon
<1>18. RemoveAt(c, Len(u) + 1) = Cat(u, w) /\ Len(u) + 1 \in DOMAIN c
  BY <1>16, MiddleRemoved
<1>19. Loses(Len(u) + 1)
  BY <1>3, <1>15, <1>17, <1>18 DEF Loses
<1> QED  BY <1>19

(* The tasklet hands over the oldest event.                                *)
LEMMA ChannelHand ==
  ASSUME ChannelInv, ~Torn, EventDeliver
  PROVE  \E x : Hands(x)
<1>1. EventInv /\ TypeOK /\ AllWhole(event_q)
  BY DEF ChannelInv, IntactInv, OnceInv, EventInv, Intact
<1>2. event_q \in Seq(Seq(Fragment)) /\ delivered \in Seq(Seq(Fragment))
  BY <1>1 DEF TypeOK
<1>3. /\ event_q # <<>> /\ event_q' = Tail(event_q) /\ UNCHANGED <<asm, busy, buf, sent>>
      /\ delivered' = Append(delivered, Head(event_q))
  BY DEF EventDeliver, rpu
<1>4. PICK e \in Seq(Fragment) : e = Head(event_q)
  BY <1>2, <1>3, HeadTailProperties
<1>5. IsWhole(e)
  BY <1>1, <1>2, <1>3, <1>4, AllWholeTail
<1>6. PICK r \in Seq(Fragment) : r = FlattenSeq(Tail(event_q))
  <2>1. Tail(event_q) \in Seq(Seq(Fragment))
    BY <1>2, <1>3, HeadTailProperties
  <2> QED  BY <2>1, FlattenType
<1>7. PICK a \in Seq(Fragment) : a = asm.data
  BY <1>1, InFlightIs
<1>8. PICK b \in Seq(Fragment) : b = Bufs
  BY <1>1, InFlightIs
<1>9. PICK w \in Seq(Fragment) : w = Cat(Cat(r, a), b)
  <2>1. PICK u \in Seq(Fragment) : u = Cat(r, a)
    BY CatType, Zenon
  <2> QED  BY <2>1, CatType, Zenon
<1>10. InFlight = Cat(e, w)
  <2>1. FlattenSeq(event_q) = Cat(e, r)
    BY <1>2, <1>3, <1>4, <1>6, FlattenHead, Zenon DEF Cat
  <2>2. PICK u \in Seq(Fragment) : u = Cat(r, a)
    BY CatType, Zenon
  <2>3. Cat(Cat(e, r), a) = Cat(e, u) /\ Cat(Cat(e, u), b) = Cat(e, w)
    BY <1>9, <2>2, CatAssoc, SMT
  <2> QED  BY <1>1, <1>7, <1>8, <2>1, <2>3, InFlightIs, Zenon
<1>11. InFlight' = w
  <2>1. Bufs' = b
    BY <1>3, <1>8 DEF Bufs
  <2> QED  BY <1>3, <1>6, <1>7, <1>9, <2>1, NextInFlight
<1>12. PICK x \in Nat : x = e[1].id /\ Begun(e) = <<x>>
  BY <1>5, BegunWhole
<1>13. PICK v \in Seq(Nat) : v = Begun(w)
  BY BegunType
<1>14. PICK c : c = Begun(InFlight)
  OBVIOUS
<1>15. c = Cat(<<x>>, v)
  BY <1>10, <1>12, <1>13, <1>14, BegunCat, Zenon
<1>16. c # <<>> /\ Head(c) = x /\ Tail(c) = v
  BY <1>15, FirstRemoved
<1>17. Handed' = Append(Handed, x)
  <2>1. PICK n \in Nat : n = Len(delivered) /\ DOMAIN delivered = 1 .. n
    BY <1>2
  <2>2. /\ DOMAIN delivered' = 1 .. n + 1 /\ delivered'[n + 1] = e
        /\ \A i \in 1 .. n : delivered'[i] = delivered[i]
    BY <1>2, <1>3, <1>4, <2>1
  <2>3. PICK h : h = Handed
    OBVIOUS
  <2>4. h = [i \in 1 .. n |-> delivered[i][1].id]
    BY <2>1, <2>3 DEF Handed
  <2>5. Append(h, x) = [i \in 1 .. n + 1 |-> IF i = n + 1 THEN x ELSE h[i]]
    BY <2>4
  <2>6. Handed' = [i \in 1 .. n + 1 |-> delivered'[i][1].id]
    BY <2>2 DEF Handed
  <2>7. ASSUME NEW i \in 1 .. n + 1
        PROVE  delivered'[i][1].id = IF i = n + 1 THEN x ELSE h[i]
    BY <1>12, <2>2, <2>4
  <2> QED  BY <2>3, <2>5, <2>6, <2>7
<1>18. Hands(x)
  BY <1>3, <1>11, <1>13, <1>14, <1>16, <1>17 DEF Hands
<1> QED  BY <1>18

(* While the device is in use every step is one of the channel's.          *)
LEMMA ChannelStep ==
  ASSUME ChannelInv, [Next]_vars, InUse, InUse'
  PROVE  Stays \/ (\E x : Raises(x)) \/ (\E x : Hands(x)) \/ \E i : Loses(i)
<1>1. TypeOK /\ ~Torn /\ ~Torn' /\ up = "enabled"
  BY DEF ChannelInv, IntactInv, OnceInv, EventInv, InUse
<1>2. CASE RpuPosts
  BY <1>2, ChannelPost
<1>3. CASE RpuReclaims \/ Untouched
  <2>1. UNCHANGED <<asm, busy, buf, sent, event_q, delivered>>
    BY <1>3 DEF RpuReclaims, Untouched
  <2>2. InFlight' = InFlight
    BY <2>1 DEF InFlight
  <2> QED  BY <2>1, <2>2 DEF Stays
<1>4. CASE IrqFragment
  BY <1>1, <1>4, ChannelRead
<1>5. CASE IrqMsgAllocFails
  BY <1>1, <1>5, ChannelLose
<1>6. CASE Tears
  BY <1>1, <1>6, TearsTorn
<1>7. CASE EventDeliver
  BY <1>1, <1>7, ChannelHand
<1>8. CASE Drain
  BY <1>1, <1>8 DEF Drain
<1> QED  BY <1>2, <1>3, <1>4, <1>5, <1>6, <1>7, <1>8, StepKinds

(* A device that is not in use is not again.                               *)
LEMMA InUseBefore ==
  ASSUME TypeOK, [Next]_vars, InUse'
  PROVE  InUse
<1>1. ~Torn
  BY FailedGrows DEF InUse, Torn
<1>2. up = "enabled"
  <2>1. up' = up \/ up' \in {"disabled", "stopped", "drained", "removed"}
    BY DEF Next, Isr, IsrFails, Tasklet, RpuPosts, RpuReclaims, RpuWatchdog, IrqEnter,
     IrqExit, IrqWdogUnread, IrqAckFails, IrqFragment, IrqNoMoreEvents, IrqPopFails,
     IrqReadFails, IrqDataAllocFails, IrqFreeFails, IrqMsgAllocFails, EventTaskletEnter,
     EventDeliver, EventTaskletExit, RecoveryTasklet, HalDisable, BusDeinit, Drain, Drained,
     DevRem, vars
  <2> QED BY <2>1 DEF InUse
<1> QED BY <1>1, <1>2 DEF InUse

(* Every step of the event path is a step of the channel, or none.         *)
LEMMA ChannelRefined ==
  ASSUME ChannelInv, [Next]_vars
  PROVE  [Channel!Next]_(Channel!vars)
<1>1. TypeOK
  BY DEF ChannelInv, IntactInv, OnceInv, EventInv
<1>2. CASE ~InUse
  <2>1. ~InUse'
    BY <1>1, <1>2, InUseBefore
  <2>2. (InUse' <=> InUse) /\ Raised' = Raised /\ Flying' = Flying /\ Got' = Got
    BY <1>2, <2>1 DEF Raised, Flying, Got
  <2> QED  BY <2>2 DEF Channel!vars
<1>3. CASE InUse /\ ~InUse'
  <2>1. Raised' = 0 /\ Flying' = <<>> /\ Got' = <<>>
    BY <1>3 DEF Raised, Flying, Got
  <2>2. Channel!Close
    BY <1>3, <2>1 DEF Channel!Close
  <2> QED  BY <1>3, <2>2 DEF Channel!Next
<1>4. CASE InUse /\ InUse'
  <2>1. /\ Raised = Len(Begun(sent)) /\ Raised' = Len(Begun(sent))'
        /\ Flying = Begun(InFlight) /\ Flying' = Begun(InFlight)'
        /\ Got = Handed /\ Got' = Handed'
    BY <1>4 DEF Raised, Flying, Got, Handed
  <2>2. InUse' <=> InUse
    BY <1>4
  <2>3. CASE Stays
    <3>1. Raised' = Raised /\ Flying' = Flying /\ Got' = Got
      BY <2>1, <2>3 DEF Stays, Handed
    <3> QED  BY <2>2, <3>1 DEF Channel!vars
  <2>4. ASSUME NEW x, Raises(x) PROVE Channel!Next
    <3>1. /\ Raised' = Raised + 1 /\ Raised' \in 1 .. MAX_EVENTS
          /\ Flying' = Append(Flying, Raised') /\ Got' = Got
      BY <2>1, <2>4 DEF Raises, Handed
    <3>2. Channel!Raise
      BY <3>1 DEF Channel!Raise
    <3> QED  BY <1>4, <2>2, <3>2 DEF Channel!Next
  <2>5. ASSUME NEW x, Hands(x) PROVE Channel!Next
    <3>1. /\ Flying # <<>> /\ Got' = Append(Got, Head(Flying))
          /\ Flying' = Tail(Flying) /\ Raised' = Raised
      BY <2>1, <2>5 DEF Hands
    <3>2. Channel!HandOver
      BY <3>1 DEF Channel!HandOver
    <3> QED  BY <1>4, <2>2, <3>2 DEF Channel!Next
  <2>6. ASSUME NEW i, Loses(i) PROVE Channel!Next
    <3>1. /\ i \in DOMAIN Flying /\ Flying' = RemoveAt(Flying, i)
          /\ Raised' = Raised /\ Got' = Got
      BY <2>1, <2>6 DEF Loses, Handed
    <3>2. Channel!Lose
      BY <3>1 DEF Channel!Lose, Channel!RemoveAt, RemoveAt
    <3> QED  BY <1>4, <2>2, <3>2 DEF Channel!Next
  <2> QED  BY <1>4, <2>3, <2>4, <2>5, <2>6, ChannelStep
<1> QED  BY <1>2, <1>3, <1>4

(* The channel starts empty, and in use.                                   *)
LEMMA ChannelInit ==
  ASSUME Init
  PROVE  ChannelInv /\ Channel!Init
<1>1. IntactInv
  BY IntactInit
<1>2. sent = <<>> /\ delivered = <<>> /\ failed = <<>> /\ up = "enabled"
  BY DEF Init
<1>3. Len(Begun(sent)) = 0
  BY <1>2, BegunEmpty
<1>4. InUse
  BY <1>2 DEF InUse, Torn, ToSet
<1>5. InFlight = <<>>
  <2>1. busy = <<>> /\ EventInv /\ FlattenSeq(event_q) = <<>> /\ asm.data = <<>>
    BY EventInit, FlattenEmpty DEF Init, NoEvent
  <2>2. Bufs = <<>>
    BY <2>1, BufsType
  <2>3. InFlight = Cat(Cat(<<>>, <<>>), <<>>)
    BY <2>1, <2>2, InFlightIs
  <2> QED  BY <2>3 DEF Cat
<1>6. Raised = 0 /\ Flying = <<>> /\ Got = <<>>
  BY <1>2, <1>3, <1>4, <1>5, BegunEmpty DEF Raised, Flying, Got
<1>7. Channel!Init
  BY <1>4, <1>6 DEF Channel!Init
<1> QED  BY <1>1, <1>2, <1>3, <1>7 DEF ChannelInv, Numbered

(* The events stay numbered.                                               *)
LEMMA NumberedStep ==
  ASSUME ChannelInv, [Next]_vars
  PROVE  Numbered'
<1>1. CASE RpuPosts
  BY <1>1, ChannelPost
<1>2. CASE ~RpuPosts
  <2>1. sent' = sent
    BY <1>2 DEF Next, Isr, IsrFails, Tasklet, RpuReclaims, RpuWatchdog, IrqEnter,
     IrqExit, IrqWdogUnread, IrqAckFails, IrqFragment, IrqNoMoreEvents, IrqPopFails,
     IrqReadFails, IrqDataAllocFails, IrqFreeFails, IrqMsgAllocFails, EventTaskletEnter,
     EventDeliver, EventTaskletExit, RecoveryTasklet, HalDisable, BusDeinit, Drain, Drained,
     DevRem, vars, rpu, Popped
  <2> QED  BY <2>1 DEF ChannelInv, Numbered
<1> QED  BY <1>1, <1>2

(* While the device is in use and no event is torn, event_get_all, event_q *)
(* and the tasklet are a channel: events are handed over in the order in   *)
(* which they were raised, each at most once, and lost only whole.         *)
THEOREM ChannelImplemented == Spec => ImplementsChannel
<1>1. Init => ChannelInv /\ Channel!Init
  BY ChannelInit
<1>2. ChannelInv /\ [Next]_vars => ChannelInv'
  BY IntactInvStep, NumberedStep DEF ChannelInv
<1>3. ChannelInv /\ [Next]_vars => [Channel!Next]_(Channel!vars)
  BY ChannelRefined
<1> QED  BY <1>1, <1>2, <1>3, PTL DEF Spec, ImplementsChannel, Channel!Spec

-----------------------------------------------------------------------------
(* The order of the channel's events.                                      *)

Rising(s, n) ==
  /\ s \in Seq(Nat) /\ n \in Nat
  /\ \A k \in 1 .. Len(s) : s[k] <= n
  /\ \A j, k \in 1 .. Len(s) : j < k => s[j] < s[k]

(* Handed over or in flight, in the order in which they were raised.       *)
InOrder == Got \in Seq(Nat) /\ Flying \in Seq(Nat) /\ Rising(Cat(Got, Flying), Raised)

(* With no event raised, none is out of order.                             *)
LEMMA NoneRise == <<>> \in Seq(Nat) /\ Rising(Cat(<<>>, <<>>), 0)
<1>1. <<>> \in Seq(Nat)
  OBVIOUS
<1>2. Cat(<<>>, <<>>) = <<>>
  BY DEF Cat
<1>3. Rising(<<>>, 0)
  BY <1>1 DEF Rising
<1> QED  BY <1>1, <1>2, <1>3

(* The newest event comes last.                                            *)
LEMMA RisingAppend ==
  ASSUME NEW s, NEW n, Rising(s, n)
  PROVE  Rising(Append(s, n + 1), n + 1)
<1>1. s \in Seq(Nat) /\ n \in Nat
  BY DEF Rising
<1>2. PICK m \in Nat : m = Len(s)
  BY <1>1
<1>3. PICK t \in Seq(Nat) : t = Append(s, n + 1)
  <2>1. n + 1 \in Nat
    BY <1>1
  <2>2. Append(s, n + 1) \in Seq(Nat)
    BY <1>1, <2>1, AppendProperties
  <2> QED  BY <2>2
<1>4. Len(t) = m + 1 /\ t[m + 1] = n + 1 /\ \A k \in 1 .. m : t[k] = s[k]
  BY <1>1, <1>2, <1>3
<1>5. \A k \in 1 .. m : s[k] \in Nat /\ s[k] <= n
  BY <1>1, <1>2 DEF Rising
<1>6. ASSUME NEW k \in 1 .. m + 1 PROVE t[k] <= n + 1
  <2>1. CASE k \in 1 .. m
    BY <1>1, <1>4, <1>5, <2>1
  <2>2. CASE k = m + 1
    BY <1>1, <1>4, <2>2
  <2> QED  BY <2>1, <2>2
<1>7. ASSUME NEW j \in 1 .. m + 1, NEW k \in 1 .. m + 1, j < k PROVE t[j] < t[k]
  <2>1. j \in 1 .. m
    BY <1>7
  <2>2. CASE k \in 1 .. m
    <3>1. s[j] < s[k]
      BY <1>2, <1>7, <2>1, <2>2 DEF Rising
    <3> QED  BY <1>4, <2>1, <2>2, <3>1
  <2>3. CASE k = m + 1
    BY <1>1, <1>4, <1>5, <2>1, <2>3
  <2> QED  BY <2>2, <2>3
<1> QED  BY <1>1, <1>3, <1>4, <1>6, <1>7 DEF Rising

(* Where the elements of a concatenation are.                              *)
Joined(c, s, t) ==
  /\ c \in Seq(Nat) /\ Len(c) = Len(s) + Len(t)
  /\ \A k \in 1 .. Len(s) + Len(t) : c[k] = IF k <= Len(s) THEN s[k] ELSE t[k - Len(s)]

(* ConcatProperties says so.                                              *)
LEMMA CatJoins ==
  ASSUME NEW s \in Seq(Nat), NEW t \in Seq(Nat)
  PROVE  Joined(Cat(s, t), s, t)
BY ConcatProperties DEF Joined, Cat

(* What is left of a sequence when an element is removed.                  *)
Without(r, f, m, i) ==
  /\ r \in Seq(Nat) /\ Len(r) = m - 1
  /\ \A k \in 1 .. m - 1 : r[k] = IF k < i THEN f[k] ELSE f[k + 1]

(* RemoveAt leaves that.                                                   *)
LEMMA Removed ==
  ASSUME NEW f \in Seq(Nat), NEW m \in Nat, m = Len(f), NEW i \in 1 .. m
  PROVE  Without(RemoveAt(f, i), f, m, i)
<1>1. PICK u : u = SubSeq(f, 1, i - 1)
  OBVIOUS
<1>2. PICK v : v = SubSeq(f, i + 1, m)
  OBVIOUS
<1>3. \A k \in 1 .. m : f[k] \in Nat
  OBVIOUS
<1>4. u \in Seq(Nat) /\ Len(u) = i - 1 /\ \A k \in 1 .. i - 1 : u[k] = f[k]
  <2>1. 1 \in Int /\ i - 1 \in Int /\ \A k \in 1 .. i - 1 : f[k] \in Nat
    BY <1>3
  <2>2. /\ u \in Seq(Nat) /\ Len(u) = IF 1 <= i - 1 THEN (i - 1) - 1 + 1 ELSE 0
        /\ \A k \in 1 .. (i - 1) - 1 + 1 : u[k] = f[1 + k - 1]
    BY <1>1, <2>1, SubSeqProperties
  <2>3. Len(u) = i - 1 /\ (i - 1) - 1 + 1 = i - 1 /\ \A k \in 1 .. i - 1 : 1 + k - 1 = k
    BY <2>2
  <2> QED  BY <2>2, <2>3
<1>5. v \in Seq(Nat) /\ Len(v) = m - i /\ \A k \in 1 .. m - i : v[k] = f[i + k]
  <2>1. i + 1 \in Int /\ m \in Int /\ \A k \in i + 1 .. m : f[k] \in Nat
    BY <1>3
  <2>2. /\ v \in Seq(Nat) /\ Len(v) = IF i + 1 <= m THEN m - (i + 1) + 1 ELSE 0
        /\ \A k \in 1 .. m - (i + 1) + 1 : v[k] = f[(i + 1) + k - 1]
    BY <1>2, <2>1, SubSeqProperties
  <2>3. Len(v) = m - i /\ m - (i + 1) + 1 = m - i
        /\ \A k \in 1 .. m - i : (i + 1) + k - 1 = i + k
    BY <2>2
  <2> QED  BY <2>2, <2>3
<1>6. PICK r : r = RemoveAt(f, i)
  OBVIOUS
<1>7. r = Cat(u, v)
  BY <1>1, <1>2, <1>6 DEF RemoveAt, Cat
<1>8. /\ r \in Seq(Nat) /\ Len(r) = (i - 1) + (m - i)
      /\ \A k \in 1 .. (i - 1) + (m - i) : r[k] = IF k <= i - 1 THEN u[k] ELSE v[k - (i - 1)]
  <2>1. Joined(r, u, v)
    BY <1>4, <1>5, <1>7, CatJoins
  <2> QED  BY <1>4, <1>5, <2>1 DEF Joined
<1>9. (i - 1) + (m - i) = m - 1
  OBVIOUS
<1>10. ASSUME NEW k \in 1 .. m - 1 PROVE r[k] = IF k < i THEN f[k] ELSE f[k + 1]
  <2>1. CASE k < i
    <3>1. k \in 1 .. i - 1 /\ k <= i - 1
      BY <2>1
    <3> QED  BY <1>4, <1>8, <1>9, <2>1, <3>1
  <2>2. CASE ~(k < i)
    <3>1. k - (i - 1) \in 1 .. m - i /\ i + (k - (i - 1)) = k + 1 /\ ~(k <= i - 1)
      BY <2>2
    <3>2. r[k] = v[k - (i - 1)]
      BY <1>8, <1>9, <3>1
    <3>3. v[k - (i - 1)] = f[i + (k - (i - 1))]
      BY <1>5, <3>1
    <3> QED  BY <2>2, <3>1, <3>2, <3>3
  <2> QED  BY <2>1, <2>2
<1> QED  BY <1>6, <1>8, <1>9, <1>10 DEF Without

(* The events that are left when one is lost are in order.                 *)
LEMMA RisingLose ==
  ASSUME NEW g \in Seq(Nat), NEW f \in Seq(Nat), NEW n, Rising(Cat(g, f), n), NEW i \in DOMAIN f
  PROVE  RemoveAt(f, i) \in Seq(Nat) /\ Rising(Cat(g, RemoveAt(f, i)), n)
<1>1. PICK l \in Nat, m \in Nat : l = Len(g) /\ m = Len(f) /\ i \in 1 .. m
  OBVIOUS
<1>2. i \in Nat /\ 1 <= i /\ i <= m /\ m - 1 \in Nat
  BY <1>1
<1>3. PICK r : r = RemoveAt(f, i)
  OBVIOUS
<1>4. /\ r \in Seq(Nat) /\ Len(r) = m - 1
      /\ \A k \in 1 .. m - 1 : r[k] = IF k < i THEN f[k] ELSE f[k + 1]
  <2>1. Without(r, f, m, i)
    BY <1>1, <1>3, Removed
  <2> QED  BY <2>1 DEF Without
<1>5. PICK c \in Seq(Nat) : c = Cat(g, f)
  BY CatType, Zenon
<1>6. PICK d \in Seq(Nat) : d = Cat(g, r)
  BY <1>4, CatType, Zenon
<1>7. /\ Len(c) = l + m
      /\ \A k \in 1 .. l + m : c[k] = IF k <= l THEN g[k] ELSE f[k - l]
  <2>1. Joined(c, g, f)
    BY <1>5, CatJoins
  <2> QED  BY <1>1, <2>1 DEF Joined
<1>8. PICK h \in Nat : h = l + (m - 1)
  BY <1>2
<1>9. Len(d) = h /\ \A k \in 1 .. h : d[k] = IF k <= l THEN g[k] ELSE r[k - l]
  <2>1. Joined(d, g, r)
    BY <1>4, <1>6, CatJoins
  <2> QED  BY <1>1, <1>4, <1>8, <2>1 DEF Joined
<1>10. ASSUME NEW k \in 1 .. h, k < l + i PROVE d[k] = c[k] /\ k \in 1 .. l + m
  <2>1. k \in 1 .. l + m
    BY <1>2, <1>10
  <2>2. CASE k <= l
    BY <1>7, <1>9, <2>1, <2>2
  <2>3. CASE ~(k <= l)
    <3>1. k - l \in 1 .. m - 1 /\ k - l < i
      BY <1>2, <1>8, <1>10, <2>3
    <3>2. r[k - l] = f[k - l]
      BY <1>4, <3>1
    <3> QED  BY <1>7, <1>9, <2>1, <2>3, <3>2
  <2> QED  BY <2>1, <2>2, <2>3
<1>11. ASSUME NEW k \in 1 .. h, ~(k < l + i) PROVE d[k] = c[k + 1] /\ k + 1 \in 1 .. l + m
  <2>1. k + 1 \in 1 .. l + m /\ ~(k <= l) /\ ~(k + 1 <= l) /\ (k + 1) - l = (k - l) + 1
    BY <1>2, <1>8, <1>11
  <2>2. k - l \in 1 .. m - 1 /\ ~(k - l < i)
    BY <1>2, <1>8, <1>11
  <2>3. r[k - l] = f[(k - l) + 1]
    BY <1>4, <2>2
  <2>4. c[k + 1] = f[(k + 1) - l]
    BY <1>7, <2>1
  <2>5. d[k] = r[k - l]
    BY <1>9, <2>1
  <2> QED  BY <2>1, <2>3, <2>4, <2>5
<1>12. /\ \A k \in 1 .. l + m : c[k] <= n
       /\ \A j, k \in 1 .. l + m : j < k => c[j] < c[k]
       /\ n \in Nat
  BY <1>5, <1>7 DEF Rising
<1>13. ASSUME NEW j \in 1 .. h, NEW k \in 1 .. h, j < k PROVE d[j] < d[k]
  <2>1. CASE k < l + i
    <3>1. j < l + i
      BY <1>2, <1>13, <2>1
    <3> QED  BY <1>10, <1>12, <1>13, <2>1, <3>1
  <2>2. CASE ~(k < l + i) /\ j < l + i
    <3>1. j < k + 1
      BY <1>13
    <3> QED  BY <1>10, <1>11, <1>12, <2>2, <3>1
  <2>3. CASE ~(k < l + i) /\ ~(j < l + i)
    <3>1. j + 1 < k + 1
      BY <1>13
    <3> QED  BY <1>11, <1>12, <2>3, <3>1
  <2> QED  BY <2>1, <2>2, <2>3
<1>14. ASSUME NEW k \in 1 .. h PROVE d[k] <= n
  BY <1>10, <1>11, <1>12
<1>15. Rising(d, n)
  BY <1>6, <1>9, <1>12, <1>13, <1>14 DEF Rising
<1> QED  BY <1>3, <1>4, <1>6, <1>15

(* Each step of the channel keeps the order.                               *)
LEMMA OrderStep ==
  ASSUME InOrder, [Channel!Next]_(Channel!vars)
  PROVE  InOrder'
<1>1. PICK g \in Seq(Nat), f \in Seq(Nat) : g = Got /\ f = Flying
  BY DEF InOrder
<1>2. PICK n \in Nat : n = Raised /\ Rising(Cat(g, f), n)
  BY <1>1 DEF InOrder, Rising
<1>3. CASE UNCHANGED Channel!vars
  <2>1. Got' = Got /\ Flying' = Flying /\ Raised' = Raised
    BY <1>3 DEF Channel!vars
  <2> QED  BY <2>1 DEF InOrder
<1>4. CASE Channel!Close
  <2>1. Raised' = 0 /\ Flying' = <<>> /\ Got' = <<>>
    BY <1>4 DEF Channel!Close
  <2> QED  BY <2>1, NoneRise DEF InOrder
<1>5. CASE Channel!Raise
  <2>1. Raised' = n + 1 /\ Flying' = Append(f, n + 1) /\ Got' = g
    BY <1>1, <1>2, <1>5 DEF Channel!Raise
  <2>2. Append(f, n + 1) \in Seq(Nat)
    BY AppendProperties
  <2>3. Cat(g, Append(f, n + 1)) = Append(Cat(g, f), n + 1)
    BY DEF Cat
  <2>4. Rising(Append(Cat(g, f), n + 1), n + 1)
    BY <1>2, RisingAppend
  <2> QED  BY <2>1, <2>2, <2>3, <2>4 DEF InOrder
<1>6. CASE Channel!HandOver
  <2>1. f # <<>> /\ Got' = Append(g, Head(f)) /\ Flying' = Tail(f) /\ Raised' = n
    BY <1>1, <1>2, <1>6 DEF Channel!HandOver
  <2>2. Append(g, Head(f)) \in Seq(Nat) /\ Tail(f) \in Seq(Nat)
    BY <2>1, HeadTailProperties, AppendProperties
  <2>3. Cat(Cat(<<>>, Append(g, Head(f))), Tail(f)) = Cat(Cat(<<>>, g), f)
    <3>1. PICK e \in Seq(Nat) : e = <<>>
      <4>1. <<>> \in Seq(Nat)
        OBVIOUS
      <4> QED  BY <4>1
    <3>2. Cat(Cat(e, Append(g, Head(f))), Tail(f)) = Cat(Cat(e, g), f)
      BY <2>1, FlowRead, SMT
    <3> QED  BY <3>1, <3>2
  <2>4. Cat(<<>>, g) = g /\ Cat(<<>>, Append(g, Head(f))) = Append(g, Head(f))
    BY <2>2, ConcatEmptySeq DEF Cat
  <2> QED  BY <1>2, <2>1, <2>2, <2>3, <2>4 DEF InOrder
<1>7. CASE Channel!Lose
  <2>1. PICK i \in DOMAIN f : Flying' = RemoveAt(f, i)
    BY <1>1, <1>7 DEF Channel!Lose, Channel!RemoveAt, RemoveAt
  <2>2. Raised' = n /\ Got' = g
    BY <1>1, <1>2, <1>7 DEF Channel!Lose
  <2>3. RemoveAt(f, i) \in Seq(Nat) /\ Rising(Cat(g, RemoveAt(f, i)), n)
    BY <1>2, RisingLose
  <2> QED  BY <2>1, <2>2, <2>3 DEF InOrder
<1> QED  BY <1>3, <1>4, <1>5, <1>6, <1>7 DEF Channel!Next

(* While the device is in use and no event is torn, the FMAC's callback    *)
(* gets events in the order in which the RPU raised them, none twice, and  *)
(* those still queued or assembled are newer (hal_rpu_event_get_all,       *)
(* hal_rpu_eventq_process).                                                *)
THEOREM EventsInOrder == Spec => []InOrder
<1>1. Init => ChannelInv /\ InOrder
  <2> SUFFICES ASSUME Init PROVE ChannelInv /\ InOrder
    OBVIOUS
  <2>1. ChannelInv /\ Channel!Init
    BY ChannelInit
  <2>2. Raised = 0 /\ Flying = <<>> /\ Got = <<>>
    BY <2>1 DEF Channel!Init
  <2> QED  BY <2>1, <2>2, NoneRise DEF InOrder
<1>2. ChannelInv /\ [Next]_vars => ChannelInv'
  BY IntactInvStep, NumberedStep DEF ChannelInv
<1>3. ChannelInv /\ InOrder /\ [Next]_vars => InOrder'
  BY ChannelRefined, OrderStep
<1> QED  BY <1>1, <1>2, <1>3, PTL DEF Spec
=============================================================================
