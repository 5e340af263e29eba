---------------------------- MODULE HalCmdProofs ----------------------------
(***************************************************************************)
(* Proofs about the commands of the HAL (HalCmd), for any number of        *)
(* callers, buffers, commands, fragments and failures.                     *)
(*                                                                         *)
(* Everything rests on who holds lock_hal (Holders): what is on cmd_q      *)
(* belongs to the holder's command, and to what was posted before it.      *)
(***************************************************************************)
EXTENDS HalCmd, FiniteSetTheorems, FunctionTheorems, SequenceTheorems, TLAPS

USE CmdAssumption

(* A caller is sending, or the tasklet triggering, only with lock_hal.     *)
Holders ==
  /\ \A c \in Callers : call[c].pc \in {"sending", "trigger"} <=> lock_hal = c
  /\ tasklet = "trigger" <=> lock_hal = "tasklet"

(* The calls under way have numbers of their own and have not returned.    *)
CallIds ==
  /\ \A c \in Callers : call[c].pc # "idle"
       => call[c].id \in DOMAIN result /\ result[call[c].id] = "none"
  /\ \A c, d \in Callers : call[c].pc # "idle" /\ call[d].pc # "idle" /\ c # d
       => call[c].id # call[d].id

(* Event buffers are on one of the two queues.                             *)
EventBuffers == ev_avl + ev_busy = NUM_EVENT_BUFS

(* The tasklet that waits has data left to send.                           *)
Waiting == tasklet = "wait" => data < MAX_DATA

CmdInv == TypeOK /\ Holders /\ CallIds /\ EventBuffers /\ Waiting

-----------------------------------------------------------------------------
(* The actions keep CmdInv.                                                *)

(* The first k fragments of a command are fragments; so are all of them.   *)
LEMMA FragmentsType ==
  ASSUME NEW id \in 1 .. MAX_CMDS, NEW n \in 1 .. MAX_FRAGS, NEW k \in 0 .. n
  PROVE  [i \in 1 .. k |-> Fragments(id, n)[i]] \in Seq(Fragment)
<1>1. \A i \in 1 .. n : Fragments(id, n)[i] \in Fragment
  BY DEF Fragments, Fragment
<1>2. [i \in 1 .. k |-> Fragments(id, n)[i]] \in [1 .. k -> Fragment]
  BY <1>1
<1> QED  BY <1>2, IsASeq

LEMMA AllFragments ==
  ASSUME NEW id \in 1 .. MAX_CMDS, NEW n \in 1 .. MAX_FRAGS
  PROVE  /\ Fragments(id, n) \in Seq(Fragment)
         /\ Fragments(id, n) = [i \in 1 .. n |-> Fragments(id, n)[i]]
<1>1. Fragments(id, n) = [i \in 1 .. n |-> Fragments(id, n)[i]]
  BY DEF Fragments
<1>2. n \in 0 .. n
  OBVIOUS
<1> QED  BY <1>1, <1>2, FragmentsType

(* A failure is one of those that may happen.                              *)
LEMMA FailType ==
  ASSUME TypeOK, NEW kind, Fail(kind)
  PROVE  failed' \in Seq(Failures)
BY DEF Fail, TypeOK

(* A call under way has the number of a command.                           *)
LEMMA IdType ==
  ASSUME CmdInv, NEW c \in Callers, call[c].pc # "idle"
  PROVE  call[c].id \in 1 .. MAX_CMDS /\ call[c].id \in DOMAIN result
BY DEF CmdInv, CallIds, TypeOK

(* The RPU only moves buffers.                                             *)
LEMMA RpuKeepsInv ==
  ASSUME CmdInv, RpuTakes \/ RpuSleeps
  PROVE  CmdInv'
<1>1. CASE RpuTakes
  <2>1. busy' \in Seq(Fragment \cup {DataCmd})
    BY <1>1, HeadTailProperties DEF RpuTakes, CmdInv, TypeOK
  <2> QED
    BY <1>1, <2>1 DEF RpuTakes, CmdInv, TypeOK, Holders, CallIds, EventBuffers, Waiting, evs, history
<1>2. CASE RpuSleeps
  BY <1>2 DEF RpuSleeps, CmdInv, TypeOK, Holders, CallIds, EventBuffers, Waiting, evs, history
<1> QED  BY <1>1, <1>2

(* A new call has the next number.                                         *)
LEMMA CallKeepsInv ==
  ASSUME CmdInv, NEW c \in Callers, CmdCall(c)
  PROVE  CmdInv'
<1>1. result \in Seq(Status \cup {"none"}) /\ Len(result) < MAX_CMDS
  BY DEF CmdInv, TypeOK, CmdCall
<1>2. /\ result' \in Seq(Status \cup {"none"}) /\ Len(result') = Len(result) + 1
      /\ result'[Len(result')] = "none"
      /\ \A i \in DOMAIN result : i \in DOMAIN result' /\ result'[i] = result[i]
      /\ Len(result') \in DOMAIN result' /\ Len(result') \notin DOMAIN result
  BY <1>1, AppendProperties DEF CmdCall
<1>3. Len(result') \in 1 .. MAX_CMDS
  BY <1>1, <1>2
<1>4. TypeOK'
  BY <1>2, <1>3 DEF CmdInv, TypeOK, CmdCall, rpu, evs, Status
<1>5. Holders'
  BY DEF CmdInv, TypeOK, Holders, CmdCall, evs
<1>6. CallIds'
  <2>1. /\ call'[c].id = Len(result') /\ call[c].pc = "idle"
        /\ \A d \in Callers : d # c => call'[d] = call[d]
    BY DEF CmdInv, TypeOK, CmdCall
  <2>2. \A d \in Callers : call'[d].pc # "idle"
          => call'[d].id \in DOMAIN result' /\ result'[call'[d].id] = "none"
    BY <1>2, <2>1 DEF CmdInv, CallIds
  <2>3. \A d \in Callers : d # c /\ call'[d].pc # "idle" => call'[d].id # Len(result')
    BY <1>2, <2>1 DEF CmdInv, CallIds
  <2>4. \A d, e \in Callers :
          call'[d].pc # "idle" /\ call'[e].pc # "idle" /\ d # e => call'[d].id # call'[e].id
    BY <2>1, <2>3 DEF CmdInv, CallIds
  <2> QED  BY <2>2, <2>4 DEF CallIds
<1> QED
  BY <1>4, <1>5, <1>6 DEF CmdInv, EventBuffers, Waiting, CmdCall, rpu, evs

(* A call that returns gives lock_hal back, which it held or took.         *)
LEMMA ReturnKeeps ==
  ASSUME CmdInv, NEW c \in Callers, NEW status \in Status,
         call[c].pc # "idle", lock_hal \in {"free", c}, Return(c, status),
         tasklet' = tasklet
  PROVE  /\ Holders' /\ CallIds'
         /\ call' \in [Callers -> [pc : {"idle", "calling", "sending", "trigger"},
                                   id : 0 .. MAX_CMDS, status : Status]]
         /\ lock_hal' \in Callers \cup {"free", "tasklet"}
         /\ result' \in Seq(Status \cup {"none"}) /\ Len(result') <= MAX_CMDS
<1>1. call[c].id \in DOMAIN result
  BY IdType
<1>2. result' \in Seq(Status \cup {"none"}) /\ Len(result') = Len(result)
        /\ DOMAIN result' = DOMAIN result
        /\ \A i \in DOMAIN result : i # call[c].id => result'[i] = result[i]
  <2>1. result \in Seq(Status \cup {"none"}) /\ result' = [result EXCEPT ![call[c].id] = status]
    BY DEF Return, CmdInv, TypeOK
  <2> QED  BY <1>1, <2>1
<1>3. /\ call' \in [Callers -> [pc : {"idle", "calling", "sending", "trigger"},
                                id : 0 .. MAX_CMDS, status : Status]]
      /\ call'[c].pc = "idle"
      /\ \A d \in Callers : d # c => call'[d] = call[d]
  BY DEF Return, CmdInv, TypeOK
<1>4. Holders'
  BY <1>3 DEF CmdInv, TypeOK, Holders, Return
<1>5. CallIds'
  <2>1. \A d \in Callers : call'[d].pc # "idle" => d # c /\ call'[d] = call[d]
    BY <1>3
  <2> QED  BY <1>2, <2>1 DEF CmdInv, CallIds
<1> QED  BY <1>2, <1>3, <1>4, <1>5 DEF Return, CmdInv, TypeOK

(* A call that goes on keeps lock_hal and its number.                      *)
LEMMA GoOnKeeps ==
  ASSUME CmdInv, NEW c \in Callers, NEW pc \in {"sending", "trigger"},
         NEW status \in Status, call[c].pc # "idle",
         lock_hal \in {"free", c}, lock_hal' = c,
         call' = [call EXCEPT ![c].pc = pc, ![c].status = status],
         tasklet' = tasklet, result' = result
  PROVE  /\ Holders' /\ CallIds'
         /\ call' \in [Callers -> [pc : {"idle", "calling", "sending", "trigger"},
                                   id : 0 .. MAX_CMDS, status : Status]]
<1>1. /\ call' \in [Callers -> [pc : {"idle", "calling", "sending", "trigger"},
                                id : 0 .. MAX_CMDS, status : Status]]
      /\ call'[c].pc = pc /\ call'[c].id = call[c].id
      /\ \A d \in Callers : d # c => call'[d] = call[d]
  <2>1. call \in [Callers -> [pc : {"idle", "calling", "sending", "trigger"},
                              id : 0 .. MAX_CMDS, status : Status]]
    BY DEF CmdInv, TypeOK
  <2> QED  BY <2>1
<1>2. Holders'
  <2>1. \A d \in Callers : d # c => ~(call[d].pc \in {"sending", "trigger"}) /\ lock_hal' # d
    BY DEF CmdInv, Holders
  <2>2. tasklet' # "trigger" /\ lock_hal' # "tasklet"
    BY DEF CmdInv, Holders
  <2> QED  BY <1>1, <2>1, <2>2 DEF Holders
<1>3. CallIds'
  <2>1. \A d \in Callers : call'[d].id = call[d].id /\ (call'[d].pc # "idle" => call[d].pc # "idle")
    BY <1>1
  <2>2. CallIds
    BY DEF CmdInv
  <2> QED  BY <2>1, <2>2 DEF CallIds
<1> QED  BY <1>1, <1>2, <1>3

(* A caller's steps keep the invariant.                                    *)
LEMMA StepKeepsInv ==
  ASSUME CmdInv, NEW c \in Callers, Step(c)
  PROVE  CmdInv'
<1> USE DEF CmdInv, EventBuffers, Waiting
<1>1. CASE CmdQueue(c)
  <2>1. PICK n \in 1 .. MAX_FRAGS : cmd_q' = cmd_q \o Fragments(call[c].id, n)
    BY <1>1 DEF CmdQueue
  <2>2. Fragments(call[c].id, n) \in Seq(Fragment)
    <3>1. call[c].id \in 1 .. MAX_CMDS
      BY <1>1, IdType DEF CmdQueue
    <3> QED  BY <3>1, AllFragments
  <2>3. cmd_q' \in Seq(Fragment)
    BY <2>1, <2>2, ConcatProperties DEF TypeOK
  <2> QED  BY <1>1, <2>3, GoOnKeeps DEF CmdQueue, TypeOK, Status, rpu, evs, history
<1>2. CASE CmdQueueFails(c)
  <2>0. PICK n \in 1 .. MAX_FRAGS : \E k \in 0 .. n - 1 :
          cmd_q' = cmd_q \o [i \in 1 .. k |-> Fragments(call[c].id, n)[i]]
    BY <1>2 DEF CmdQueueFails
  <2>1. PICK k \in 0 .. n - 1 : cmd_q' = cmd_q \o [i \in 1 .. k |-> Fragments(call[c].id, n)[i]]
    BY <2>0
  <2>2. k \in 0 .. n
    OBVIOUS
  <2>3. [i \in 1 .. k |-> Fragments(call[c].id, n)[i]] \in Seq(Fragment)
    BY <1>2, <2>2, IdType, FragmentsType DEF CmdQueueFails
  <2>4. cmd_q' \in Seq(Fragment)
    BY <2>1, <2>3, ConcatProperties DEF TypeOK
  <2>5. failed' \in Seq(Failures)
    BY <1>2, FailType DEF CmdQueueFails
  <2> QED  BY <1>2, <2>4, <2>5, ReturnKeeps DEF CmdQueueFails, TypeOK, Status, rpu, evs
<1>3. CASE CmdPost(c)
  <2>1. Head(cmd_q) \in Fragment /\ Tail(cmd_q) \in Seq(Fragment) /\ lock_hal = c
    BY <1>3, HeadTailProperties DEF CmdPost, Sending, TypeOK, Holders
  <2>2. busy' \in Seq(Fragment \cup {DataCmd}) /\ posted' \in Seq(Fragment)
    BY <1>3, <2>1, AppendProperties DEF CmdPost, TypeOK
  <2>3. call' = [call EXCEPT ![c].pc = "trigger", ![c].status = call[c].status]
    BY <1>3 DEF CmdPost, TypeOK
  <2>4. call[c].status \in Status
    BY DEF TypeOK
  <2>5. Holders' /\ CallIds'
        /\ call' \in [Callers -> [pc : {"idle", "calling", "sending", "trigger"},
                                  id : 0 .. MAX_CMDS, status : Status]]
    <3>1. lock_hal' = c /\ tasklet' = tasklet /\ result' = result /\ call[c].pc # "idle"
      BY <1>3, <2>1 DEF CmdPost, Sending, evs
    <3>2. CmdInv /\ "trigger" \in {"sending", "trigger"}
      OBVIOUS
    <3> QED  BY <2>1, <2>3, <2>4, <3>1, <3>2, GoOnKeeps
  <2>6. /\ cmd_q' = Tail(cmd_q) /\ avl > 0 /\ avl' = avl - 1
        /\ UNCHANGED <<mcu_irq, ev_avl, ev_busy, lock_hal, tasklet, events, data,
                       dropped, result, failed>>
    BY <1>3 DEF CmdPost, evs
  <2> QED  BY <2>1, <2>2, <2>5, <2>6 DEF TypeOK
<1>4. CASE CmdWriteFails(c)
  <2>1. Head(cmd_q) \in Fragment /\ Tail(cmd_q) \in Seq(Fragment) /\ lock_hal = c
    BY <1>4, HeadTailProperties DEF CmdWriteFails, Sending, TypeOK, Holders
  <2>2. failed' \in Seq(Failures) /\ avl' \in Nat
    BY <1>4, FailType DEF CmdWriteFails, TypeOK
  <2> QED
    BY <1>4, <2>1, <2>2, GoOnKeeps DEF CmdWriteFails, Sending, Drop, TypeOK, Status, evs
<1>5. CASE CmdTimeout(c)
  <2>1. Head(cmd_q) \in Fragment /\ Tail(cmd_q) \in Seq(Fragment) /\ lock_hal = c
    BY <1>5, HeadTailProperties DEF CmdTimeout, Sending, TypeOK, Holders
  <2> QED
    BY <1>5, <2>1, GoOnKeeps DEF CmdTimeout, Sending, Drop, TypeOK, Status, rpu, evs
<1>6. CASE CmdTrigger(c)
  <2>1. lock_hal = c
    BY <1>6 DEF CmdTrigger, Holders
  <2> QED  BY <1>6, <2>1, GoOnKeeps DEF CmdTrigger, TypeOK, Status, evs, history
<1>7. CASE CmdTriggerFails(c)
  <2>1. lock_hal = c /\ failed' \in Seq(Failures)
    BY <1>7, FailType DEF CmdTriggerFails, Holders
  <2> QED  BY <1>7, <2>1, GoOnKeeps DEF CmdTriggerFails, TypeOK, Status, rpu, evs
<1>8. CASE CmdReturn(c)
  <2>1. lock_hal = c /\ call[c].status \in Status
    BY <1>8 DEF CmdReturn, Holders, TypeOK
  <2> QED  BY <1>8, <2>1, ReturnKeeps DEF CmdReturn, TypeOK, rpu, evs
<1> QED  BY <1>1, <1>2, <1>3, <1>4, <1>5, <1>6, <1>7, <1>8 DEF Step

(* The event thread's steps keep the invariant.                            *)
LEMMA EventsKeepInv ==
  ASSUME CmdInv, Isr \/ Tasklet
  PROVE  CmdInv'
<1> USE DEF CmdInv, EventBuffers, Waiting
<1>1. CASE Isr
  BY <1>1 DEF Isr, TypeOK, Holders, CallIds, history
<1>2. CASE TaskletEnter \/ TaskletEvent \/ TaskletExit
  <2>1. /\ UNCHANGED <<rpu, cmd_q, lock_hal, call, data, history>>
        /\ tasklet # "trigger" /\ tasklet' \in {"idle", "run", "wait"}
        /\ events' \in Nat /\ (tasklet' = "wait" => data < MAX_DATA)
    BY <1>2 DEF TaskletEnter, TaskletEvent, TaskletExit, TypeOK
  <2> QED  BY <2>1 DEF TypeOK, Holders, CallIds, rpu, history
<1>3. CASE DataPost
  <2>1. busy' \in Seq(Fragment \cup {DataCmd})
    BY <1>3, AppendProperties DEF DataPost, TypeOK
  <2>2. data' \in 0 .. MAX_DATA
    BY <1>3 DEF DataPost, TypeOK
  <2>3. Holders'
    BY <1>3 DEF DataPost, Holders
  <2>4. /\ lock_hal' = "tasklet" /\ tasklet' = "trigger"
        /\ UNCHANGED <<avl, mcu_irq, ev_avl, ev_busy, cmd_q, call, events,
                       posted, dropped, result, failed>>
    BY <1>3 DEF DataPost, history
  <2>5. TypeOK'
    BY <2>1, <2>2, <2>4 DEF TypeOK
  <2> QED  BY <2>3, <2>4, <2>5 DEF CallIds
<1>4. CASE DataFails
  <2>1. failed' \in Seq(Failures)
    BY <1>4, FailType DEF DataFails
  <2> QED  BY <1>4, <2>1 DEF DataFails, TypeOK, Holders, CallIds, rpu
<1>5. CASE DataTrigger \/ DataTriggerFails
  <2>1. /\ UNCHANGED <<avl, busy, ev_avl, ev_busy, cmd_q, call, events, data,
                       posted, dropped, result>>
        /\ tasklet = "trigger" /\ tasklet' = "run" /\ lock_hal' = "free"
        /\ mcu_irq' \in BOOLEAN
    BY <1>5 DEF DataTrigger, DataTriggerFails, TypeOK, rpu, history
  <2>2. failed' \in Seq(Failures)
    BY <1>5, FailType DEF DataTrigger, DataTriggerFails, history, TypeOK
  <2> QED  BY <2>1, <2>2 DEF TypeOK, Holders, CallIds
<1> QED  BY <1>1, <1>2, <1>3, <1>4, <1>5 DEF Tasklet
-----------------------------------------------------------------------------
(* CmdInv is inductive.                                                    *)
LEMMA InvStep == CmdInv /\ [Next]_vars => CmdInv'
<1>1. CASE UNCHANGED vars
  BY <1>1 DEF vars, CmdInv, TypeOK, Holders, CallIds, EventBuffers, Waiting
<1> QED
  BY <1>1, RpuKeepsInv, CallKeepsInv, StepKeepsInv, EventsKeepInv DEF Next

LEMMA InvInit == Init => CmdInv
<1> SUFFICES ASSUME Init PROVE CmdInv
  OBVIOUS
<1>1. \A c \in Callers : call[c] = [pc |-> "idle", id |-> 0, status |-> "FAIL"]
  BY DEF Init
<1>2. TypeOK
  <2>1. call \in [Callers -> [pc : {"idle", "calling", "sending", "trigger"},
                             id : 0 .. MAX_CMDS, status : Status]]
    BY DEF Init, Status
  <2>2. /\ busy \in Seq(Fragment \cup {DataCmd}) /\ cmd_q \in Seq(Fragment)
        /\ posted \in Seq(Fragment) /\ failed \in Seq(Failures)
        /\ result \in Seq(Status \cup {"none"}) /\ Len(result) <= MAX_CMDS
    BY DEF Init
  <2>3. mcu_irq \in BOOLEAN
    BY Zenon DEF Init
  <2>4. /\ avl \in Nat
        /\ ev_avl \in 0 .. NUM_EVENT_BUFS /\ ev_busy \in 0 .. NUM_EVENT_BUFS
        /\ lock_hal \in Callers \cup {"free", "tasklet"}
        /\ tasklet \in {"idle", "run", "wait", "trigger"}
        /\ events \in Nat /\ data \in 0 .. MAX_DATA /\ dropped \subseteq Fragment
    BY DEF Init
  <2> QED  BY <2>1, <2>2, <2>3, <2>4 DEF TypeOK
<1>3. Holders
  BY <1>1 DEF Init, Holders
<1> QED  BY <1>1, <1>2, <1>3 DEF Init, CmdInv, CallIds, EventBuffers, Waiting

(* Every variable keeps its type: lock_hal has one holder, which alone     *)
(* sends or triggers (hal_api_common.c, nrf_wifi_hal_ctrl_cmd_send).       *)
THEOREM TypeCorrect == Spec => []TypeOK
<1>1. CmdInv => TypeOK
  BY DEF CmdInv
<1> QED  BY <1>1, InvInit, InvStep, PTL DEF Spec

(* A failure is remembered with those before it.                           *)
LEMMA FailedGrows ==
  ASSUME TypeOK, NEW kind, Fail(kind)
  PROVE  ToSet(failed') = ToSet(failed) \cup {kind}
<1>1. /\ failed \in Seq(Failures) /\ kind \in Failures /\ failed' = Append(failed, kind)
  BY DEF TypeOK, Fail
<1>2. /\ Len(failed') = Len(failed) + 1 /\ failed'[Len(failed) + 1] = kind
      /\ \A i \in 1 .. Len(failed) : failed'[i] = failed[i]
      /\ DOMAIN failed' = 1 .. Len(failed) + 1 /\ DOMAIN failed = 1 .. Len(failed)
      /\ Len(failed) \in Nat
  BY <1>1, AppendProperties
<1>3. 1 .. Len(failed) + 1 = (1 .. Len(failed)) \cup {Len(failed) + 1}
  BY <1>2
<1> QED  BY <1>2, <1>3 DEF ToSet

-----------------------------------------------------------------------------
(* Commands are announced.                                                 *)

(* A command on cmd_busy_queue has been announced, will be by a thread     *)
(* between post and trigger, or a register write failed.                   *)
Announcing ==
  busy # <<>> =>
    \/ mcu_irq
    \/ "trigger" \in ToSet(failed)
    \/ tasklet = "trigger"
    \/ \E c \in Callers : call[c].pc = "trigger"

(* A step that takes no thread away from its trigger keeps that.           *)
LEMMA QuietKeeps ==
  ASSUME Announcing, busy' = busy, mcu_irq' = mcu_irq,
         ToSet(failed) \subseteq ToSet(failed'),
         tasklet = "trigger" => tasklet' = "trigger",
         \A d \in Callers : call[d].pc = "trigger" => call'[d].pc = "trigger"
  PROVE  Announcing'
BY DEF Announcing

LEMMA AnnouncingStep ==
  ASSUME CmdInv, Announcing, Next
  PROVE  Announcing'
<1>0. TypeOK
  BY DEF CmdInv
<1>1. CASE RpuTakes
  <2>1. mcu_irq'
    BY <1>1, Zenon DEF RpuTakes
  <2> QED  BY <2>1 DEF Announcing
<1>6. CASE RpuSleeps
  BY <1>6 DEF RpuSleeps, Announcing
<1>2. ASSUME NEW c \in Callers, CmdCall(c) PROVE Announcing'
  BY <1>0, <1>2, QuietKeeps DEF CmdCall, TypeOK, rpu, evs
<1>3. ASSUME NEW c \in Callers, Step(c) PROVE Announcing'
  <2>1. CASE CmdPost(c)
    BY <1>0, <2>1 DEF CmdPost, TypeOK, Announcing
  <2>2. CASE CmdTrigger(c)
    BY <2>2 DEF CmdTrigger, Announcing
  <2>3. CASE CmdTriggerFails(c)
    BY <1>0, <2>3, FailedGrows DEF CmdTriggerFails, Announcing
  <2>4. CASE CmdQueue(c)
    BY <1>0, <2>4, QuietKeeps DEF CmdQueue, TypeOK, rpu, evs, history
  <2>5. CASE CmdQueueFails(c)
    <3>1. ToSet(failed) \subseteq ToSet(failed')
      BY <1>0, <2>5, FailedGrows DEF CmdQueueFails
    <3> QED  BY <1>0, <2>5, <3>1, QuietKeeps DEF CmdQueueFails, Return, TypeOK, rpu, evs
  <2>6. CASE CmdWriteFails(c)
    <3>1. ToSet(failed) \subseteq ToSet(failed')
      BY <1>0, <2>6, FailedGrows DEF CmdWriteFails
    <3> QED  BY <1>0, <2>6, <3>1, QuietKeeps DEF CmdWriteFails, Sending, Drop, TypeOK, evs
  <2>7. CASE CmdTimeout(c)
    BY <1>0, <2>7, QuietKeeps DEF CmdTimeout, Sending, Drop, TypeOK, rpu, evs
  <2>8. CASE CmdReturn(c)
    BY <1>0, <2>8, QuietKeeps DEF CmdReturn, Return, TypeOK, rpu, evs
  <2> QED  BY <1>3, <2>1, <2>2, <2>3, <2>4, <2>5, <2>6, <2>7, <2>8 DEF Step
<1>4. CASE Isr
  BY <1>4, QuietKeeps DEF Isr, history
<1>5. CASE Tasklet
  <2>1. CASE TaskletEnter \/ TaskletEvent \/ TaskletExit
    BY <2>1, QuietKeeps DEF TaskletEnter, TaskletEvent, TaskletExit, rpu, history
  <2>2. CASE DataPost \/ DataTrigger
    BY <2>2 DEF DataPost, DataTrigger, Announcing
  <2>3. CASE DataFails
    <3>1. ToSet(failed) \subseteq ToSet(failed')
      BY <1>0, <2>3, FailedGrows DEF DataFails
    <3> QED  BY <2>3, <3>1, QuietKeeps DEF DataFails, rpu
  <2>4. CASE DataTriggerFails
    BY <1>0, <2>4, FailedGrows DEF DataTriggerFails, Announcing
  <2> QED  BY <1>5, <2>1, <2>2, <2>3, <2>4 DEF Tasklet
<1> QED  BY <1>1, <1>2, <1>3, <1>4, <1>5, <1>6 DEF Next

(* A posted command has been announced, or its sender still holds lock_hal *)
(* and will do so, unless the register could not be written                *)
(* (hal_api_common.c, hal_rpu_msg_post then hal_rpu_msg_trigger).          *)
THEOREM CommandsAnnounced == Spec => []Announced
<1>1. Init => CmdInv /\ Announcing
  BY InvInit DEF Init, Announcing
<1>2. CmdInv /\ Announcing /\ [Next]_vars => (CmdInv /\ Announcing)'
  <2>1. Announcing /\ UNCHANGED vars => Announcing'
    BY DEF vars, Announcing
  <2> QED  BY <2>1, InvStep, AnnouncingStep
<1>3. CmdInv /\ Announcing => Announced
  BY DEF CmdInv, Holders, Announcing, Announced
<1> QED  BY <1>1, <1>2, <1>3, PTL DEF Spec

-----------------------------------------------------------------------------
(* No fragment is late.                                                    *)

(* Until memory runs out, what is on cmd_q is of the call that holds       *)
(* lock_hal.                                                               *)
QueueOwned ==
  "alloc" \in ToSet(failed) \/
  \A i \in DOMAIN cmd_q : \E c \in Callers : lock_hal = c /\ call[c].id = cmd_q[i].id

(* A step that leaves cmd_q, its owner and their numbers keeps that, and   *)
(* so does one that takes the head off cmd_q.                              *)
LEMMA OwnerKeeps ==
  ASSUME TypeOK, QueueOwned, ToSet(failed) \subseteq ToSet(failed'),
         cmd_q' = cmd_q \/ (cmd_q # <<>> /\ cmd_q' = Tail(cmd_q)),
         \A c \in Callers : lock_hal = c => lock_hal' = c /\ call'[c].id = call[c].id
  PROVE  QueueOwned'
<1>1. \A i \in DOMAIN cmd_q' : \E j \in DOMAIN cmd_q : cmd_q'[i] = cmd_q[j]
  <2>1. CASE cmd_q' = cmd_q
    BY <2>1
  <2>2. CASE cmd_q # <<>> /\ cmd_q' = Tail(cmd_q)
    <3>1. /\ cmd_q' \in Seq(Fragment) /\ Len(cmd_q') = Len(cmd_q) - 1
          /\ \A i \in 1 .. Len(cmd_q') : cmd_q'[i] = cmd_q[i + 1]
      BY <2>2, HeadTailProperties DEF TypeOK
    <3>2. /\ DOMAIN cmd_q = 1 .. Len(cmd_q) /\ Len(cmd_q) \in Nat
          /\ DOMAIN cmd_q' = 1 .. Len(cmd_q')
      BY <3>1 DEF TypeOK
    <3>3. \A i \in 1 .. Len(cmd_q') : i + 1 \in 1 .. Len(cmd_q)
      BY <3>1, <3>2
    <3> QED  BY <3>1, <3>2, <3>3
  <2> QED  BY <2>1, <2>2
<1> QED  BY <1>1 DEF QueueOwned

(* Nothing is queued while nobody sends.                                   *)
LEMMA OwnerEmpty ==
  ASSUME TypeOK, QueueOwned, lock_hal \notin Callers
  PROVE  "alloc" \in ToSet(failed) \/ DOMAIN cmd_q = {}
BY DEF QueueOwned

LEMMA OwnedStep ==
  ASSUME CmdInv, QueueOwned, Next
  PROVE  QueueOwned'
<1>0. TypeOK /\ Holders
  BY DEF CmdInv
<1>1. CASE RpuTakes \/ RpuSleeps \/ Isr
  BY <1>0, <1>1, OwnerKeeps DEF RpuTakes, RpuSleeps, Isr, history
<1>2. ASSUME NEW c \in Callers, CmdCall(c) PROVE QueueOwned'
  <2>1. lock_hal # c
    BY <1>0, <1>2 DEF CmdCall, Holders
  <2> QED  BY <1>0, <1>2, <2>1, OwnerKeeps DEF CmdCall, TypeOK
<1>3. ASSUME NEW c \in Callers, Step(c) PROVE QueueOwned'
  <2>1. CASE CmdQueue(c)
    <3>1. PICK n \in 1 .. MAX_FRAGS : cmd_q' = cmd_q \o Fragments(call[c].id, n)
      BY <2>1 DEF CmdQueue
    <3>2. "alloc" \in ToSet(failed) \/ DOMAIN cmd_q = {}
      BY <1>0, <2>1, OwnerEmpty DEF CmdQueue
    <3>3. \A i \in 1 .. n : Fragments(call[c].id, n)[i].id = call[c].id
      BY DEF Fragments
    <3>4. CASE DOMAIN cmd_q = {}
      <4>1. Len(Fragments(call[c].id, n)) = n
        BY DEF Fragments
      <4>2. Fragments(call[c].id, n) \in Seq(Fragment)
        BY <2>1, IdType, AllFragments DEF CmdQueue
      <4>3. Len(cmd_q) = 0 /\ cmd_q \in Seq(Fragment)
        BY <1>0, <3>4 DEF TypeOK
      <4>4. DOMAIN cmd_q' = 1 .. n
            /\ \A i \in 1 .. n : cmd_q'[i] = Fragments(call[c].id, n)[i]
        BY <3>1, <4>1, <4>2, <4>3, ConcatProperties
      <4>5. lock_hal' = c /\ call'[c].id = call[c].id
        BY <1>0, <2>1 DEF CmdQueue, TypeOK
      <4> QED  BY <3>3, <4>4, <4>5 DEF QueueOwned
    <3>5. CASE "alloc" \in ToSet(failed)
      BY <2>1, <3>5 DEF CmdQueue, QueueOwned, history
    <3> QED  BY <3>2, <3>4, <3>5
  <2>2. CASE CmdQueueFails(c)
    BY <1>0, <2>2, FailedGrows DEF CmdQueueFails, QueueOwned
  <2>3. CASE CmdPost(c) \/ CmdTimeout(c) \/ CmdTrigger(c)
    <3>1. \A d \in Callers : call'[d].id = call[d].id
      <4>1. CASE CmdPost(c)
        BY <1>0, <4>1 DEF CmdPost, TypeOK
      <4>2. CASE CmdTimeout(c)
        BY <1>0, <4>2 DEF CmdTimeout, Drop, TypeOK
      <4>3. CASE CmdTrigger(c)
        BY <1>0, <4>3 DEF CmdTrigger, TypeOK
      <4> QED  BY <2>3, <4>1, <4>2, <4>3
    <3>2. cmd_q' = cmd_q \/ (cmd_q # <<>> /\ cmd_q' = Tail(cmd_q))
      BY <2>3 DEF CmdPost, CmdTimeout, CmdTrigger, Drop, Sending
    <3>3. lock_hal' = lock_hal /\ failed' = failed
      <4>1. CASE CmdPost(c)
        BY <4>1, Zenon DEF CmdPost
      <4>2. CASE CmdTimeout(c)
        BY <4>2, Zenon DEF CmdTimeout
      <4>3. CASE CmdTrigger(c)
        BY <4>3, Zenon DEF CmdTrigger, history
      <4> QED  BY <2>3, <4>1, <4>2, <4>3
    <3> QED  BY <1>0, <3>1, <3>2, <3>3, OwnerKeeps
  <2>4. CASE CmdWriteFails(c)
    <3>1. ToSet(failed) \subseteq ToSet(failed')
      BY <1>0, <2>4, FailedGrows DEF CmdWriteFails
    <3> QED  BY <1>0, <2>4, <3>1, OwnerKeeps DEF CmdWriteFails, Drop, Sending, TypeOK
  <2>5. CASE CmdTriggerFails(c)
    <3>1. ToSet(failed) \subseteq ToSet(failed')
      BY <1>0, <2>5, FailedGrows DEF CmdTriggerFails
    <3> QED  BY <1>0, <2>5, <3>1, OwnerKeeps DEF CmdTriggerFails, TypeOK
  <2>6. CASE CmdReturn(c)
    BY <2>6 DEF CmdReturn, QueueOwned
  <2> QED  BY <1>3, <2>1, <2>2, <2>3, <2>4, <2>5, <2>6 DEF Step
<1>4. CASE TaskletEnter \/ TaskletEvent \/ TaskletExit
  BY <1>0, <1>4, OwnerKeeps DEF TaskletEnter, TaskletEvent, TaskletExit, history
<1>5. CASE DataPost \/ DataTrigger
  <2>1. lock_hal \notin Callers /\ cmd_q' = cmd_q /\ call' = call /\ failed' = failed
    BY <1>0, <1>5 DEF DataPost, DataTrigger, Holders, history
  <2> QED  BY <1>0, <2>1, OwnerKeeps
<1>6. CASE DataFails \/ DataTriggerFails
  <2>1. lock_hal \notin Callers /\ cmd_q' = cmd_q /\ call' = call
    BY <1>0, <1>6 DEF DataFails, DataTriggerFails, Holders
  <2>2. ToSet(failed) \subseteq ToSet(failed')
    BY <1>0, <1>6, FailedGrows DEF DataFails, DataTriggerFails
  <2> QED  BY <1>0, <2>1, <2>2, OwnerKeeps
<1> QED  BY <1>1, <1>2, <1>3, <1>4, <1>5, <1>6 DEF Next, Tasklet

(* What a step posts is the head of cmd_q, which is of the sender's call.  *)
LEMMA PostedInTime ==
  ASSUME CmdInv, QueueOwned, [Next]_vars,
         NEW f \in ToSet(posted'), f \notin ToSet(posted)
  PROVE  "alloc" \in ToSet(failed) \/ result[f.id] = "none"
<1>1. posted' # posted
  OBVIOUS
<1>2. PICK c \in Callers : CmdPost(c)
  BY <1>1 DEF Next, vars, history, evs, RpuTakes, RpuSleeps, CmdCall, Step, CmdQueue,
     CmdQueueFails, CmdWriteFails, CmdTimeout, CmdTrigger, CmdTriggerFails, CmdReturn,
     Isr, Tasklet, TaskletEnter, TaskletEvent, TaskletExit, DataPost, DataFails,
     DataTrigger, DataTriggerFails
<1>3. posted' = Append(posted, Head(cmd_q)) /\ cmd_q # <<>> /\ call[c].pc = "sending"
  BY <1>2 DEF CmdPost, Sending
<1>4. posted \in Seq(Fragment) /\ cmd_q \in Seq(Fragment) /\ lock_hal = c
  BY <1>3 DEF CmdInv, TypeOK, Holders
<1>5. f = Head(cmd_q)
  <2>1. Head(cmd_q) \in Fragment
    BY <1>3, <1>4
  <2>2. PICK i \in DOMAIN posted' : f = posted'[i]
    BY DEF ToSet
  <2>3. i \notin DOMAIN posted
    BY <1>3, <1>4, <2>1, <2>2, AppendProperties DEF ToSet
  <2> QED  BY <1>3, <1>4, <2>1, <2>2, <2>3, AppendProperties
<1>6. 1 \in DOMAIN cmd_q /\ Head(cmd_q) = cmd_q[1]
  BY <1>3, <1>4
<1>7. "alloc" \in ToSet(failed) \/ call[c].id = f.id
  BY <1>4, <1>5, <1>6 DEF QueueOwned
<1> QED  BY <1>3, <1>7 DEF CmdInv, CallIds

(* Once nrf_wifi_hal_ctrl_cmd_send has returned no fragment of its command *)
(* is sent, unless memory ran out while some command was split: the loop   *)
(* of hal_rpu_cmd_process_queue never leaves a fragment behind.            *)
THEOREM NoneLate == Spec => NoLateFragments
<1>1. Init => CmdInv /\ QueueOwned
  BY InvInit DEF Init, QueueOwned
<1>2. CmdInv /\ QueueOwned /\ [Next]_vars => (CmdInv /\ QueueOwned)'
  <2>1. QueueOwned /\ UNCHANGED vars => QueueOwned'
    BY DEF vars, QueueOwned
  <2> QED  BY <2>1, InvStep, OwnedStep
<1>3. CmdInv /\ QueueOwned /\ [Next]_vars
        => [\A f \in ToSet(posted') \ ToSet(posted) :
              "alloc" \in ToSet(failed) \/ result[f.id] = "none"]_vars
  BY PostedInTime
<1> QED  BY <1>1, <1>2, <1>3, PTL DEF Spec, NoLateFragments

-----------------------------------------------------------------------------
(* Commands do not mix.                                                    *)

(* All that was posted and what is still to be sent is in order, and none  *)
(* of it is of a call that waits for lock_hal.                             *)
Line == posted \o cmd_q

Old(s) ==
  \A i \in DOMAIN s :
    /\ s[i].id \in DOMAIN result
    /\ \A c \in Callers : call[c].pc = "calling" => call[c].id # s[i].id

LineInv == Apart(Line) /\ Old(Line)

LEMMA LineType ==
  ASSUME TypeOK
  PROVE  /\ Line \in Seq(Fragment) /\ Len(Line) = Len(posted) + Len(cmd_q)
         /\ Len(posted) \in Nat /\ Len(cmd_q) \in Nat
         /\ DOMAIN Line = 1 .. Len(posted) + Len(cmd_q)
         /\ \A i \in 1 .. Len(posted) + Len(cmd_q) :
              Line[i] = IF i <= Len(posted) THEN posted[i] ELSE cmd_q[i - Len(posted)]
BY ConcatProperties DEF TypeOK, Line

(* A part of a sequence of fragments, in the same order, is apart as well. *)
LEMMA ApartSub ==
  ASSUME NEW s \in Seq(Fragment), NEW t \in Seq(Fragment), Apart(s),
         NEW m \in [1 .. Len(t) -> 1 .. Len(s)],
         \A i, j \in 1 .. Len(t) : i < j => m[i] < m[j],
         \A i \in 1 .. Len(t) : t[i] = s[m[i]]
  PROVE  Apart(t)
<1>d. DOMAIN t = 1 .. Len(t) /\ DOMAIN s = 1 .. Len(s)
  OBVIOUS
<1>a. \A a, b \in 1 .. Len(s) :
        a < b /\ s[a].id = s[b].id
          => s[a].idx < s[b].idx /\ \A k \in a .. b : s[k].id = s[a].id
  BY <1>d, Zenon DEF Apart
<1> SUFFICES \A i, j \in 1 .. Len(t) :
               i < j /\ t[i].id = t[j].id
                 => t[i].idx < t[j].idx /\ \A k \in i .. j : t[k].id = t[i].id
  BY <1>d, Zenon DEF Apart
<1> TAKE i, j \in 1 .. Len(t)
<1> HAVE i < j /\ t[i].id = t[j].id
<1>1. m[i] < m[j] /\ m[i] \in 1 .. Len(s) /\ m[j] \in 1 .. Len(s)
      /\ s[m[i]].id = s[m[j]].id
  <2>1. m[i] < m[j] /\ t[i] = s[m[i]] /\ t[j] = s[m[j]]
    OBVIOUS
  <2>2. m[i] \in 1 .. Len(s) /\ m[j] \in 1 .. Len(s)
    OBVIOUS
  <2> QED  BY <2>1, <2>2
<1>2. s[m[i]].idx < s[m[j]].idx /\ \A k \in m[i] .. m[j] : s[k].id = s[m[i]].id
  BY <1>a, <1>1, Zenon
<1>3. ASSUME NEW k \in i .. j PROVE t[k].id = t[i].id
  <2>1. k \in 1 .. Len(t) /\ (k = i \/ i < k) /\ (k = j \/ k < j)
    OBVIOUS
  <2>2. m[k] \in 1 .. Len(s) /\ m[i] <= m[k] /\ m[k] <= m[j]
    BY <1>1, <2>1
  <2>3. m[k] \in m[i] .. m[j]
    BY <1>1, <2>2
  <2> QED  BY <1>2, <2>1, <2>3
<1> QED  BY <1>2, <1>3

(* So are the fragments of a command no part of which is there yet.        *)
LEMMA ApartQueue ==
  ASSUME NEW s \in Seq(Fragment), NEW id, NEW t \in Seq(Fragment), Apart(s),
         \A i \in 1 .. Len(s) : s[i].id # id,
         \A i \in 1 .. Len(t) : t[i].id = id /\ t[i].idx = i
  PROVE  Apart(s \o t)
<1>1. /\ s \o t \in Seq(Fragment) /\ Len(s \o t) = Len(s) + Len(t)
      /\ \A i \in 1 .. Len(s) + Len(t) :
           (s \o t)[i] = IF i <= Len(s) THEN s[i] ELSE t[i - Len(s)]
  BY ConcatProperties
<1>2. Len(s) \in Nat /\ Len(t) \in Nat
  OBVIOUS
<1>0. DOMAIN (s \o t) = 1 .. Len(s) + Len(t)
  BY <1>1
<1> SUFFICES ASSUME NEW i \in 1 .. Len(s) + Len(t), NEW j \in 1 .. Len(s) + Len(t),
                    i < j, (s \o t)[i].id = (s \o t)[j].id
             PROVE  /\ (s \o t)[i].idx < (s \o t)[j].idx
                    /\ \A k \in i .. j : (s \o t)[k].id = (s \o t)[i].id
  BY <1>0, Zenon DEF Apart
<1>3. CASE j <= Len(s)
  <2>1. i \in 1 .. Len(s) /\ j \in 1 .. Len(s) /\ s[i].id = s[j].id
    BY <1>1, <1>2, <1>3
  <2>2. s[i].idx < s[j].idx /\ \A k \in i .. j : s[k].id = s[i].id
    BY <2>1 DEF Apart
  <2>3. \A k \in i .. j : (s \o t)[k] = s[k]
    BY <1>1, <1>2, <1>3
  <2> QED  BY <1>1, <1>2, <1>3, <2>2, <2>3
<1>4. CASE j > Len(s)
  <2>1. j - Len(s) \in 1 .. Len(t) /\ (s \o t)[j] = t[j - Len(s)]
    BY <1>1, <1>2, <1>4
  <2>2. (s \o t)[j].id = id
    BY <2>1
  <2>3. i > Len(s)
    BY <1>1, <1>2, <2>2
  <2>4. \A k \in i .. j : k - Len(s) \in 1 .. Len(t) /\ (s \o t)[k] = t[k - Len(s)]
    BY <1>1, <1>2, <2>3
  <2>5. \A k \in i .. j : (s \o t)[k].id = id
    BY <2>4
  <2>6. i \in i .. j
    OBVIOUS
  <2>7. /\ i - Len(s) \in 1 .. Len(t) /\ (s \o t)[i] = t[i - Len(s)]
        /\ i - Len(s) < j - Len(s)
    BY <1>2, <2>4, <2>6
  <2>8. (s \o t)[i].idx = i - Len(s) /\ (s \o t)[j].idx = j - Len(s)
    BY <2>1, <2>7
  <2> QED  BY <2>5, <2>6, <2>7, <2>8
<1> QED  BY <1>2, <1>3, <1>4

(* A step that only takes from the line, and adds no call that waits.      *)
LEMMA LineSub ==
  ASSUME TypeOK, TypeOK', LineInv,
         NEW m \in [1 .. Len(Line') -> 1 .. Len(Line)],
         \A i, j \in 1 .. Len(Line') : i < j => m[i] < m[j],
         \A i \in 1 .. Len(Line') : Line'[i] = Line[m[i]],
         DOMAIN result \subseteq DOMAIN result',
         \A c \in Callers : call'[c].pc = "calling"
           => call[c].pc = "calling" /\ call'[c].id = call[c].id
  PROVE  LineInv'
<1>1. Line \in Seq(Fragment) /\ Line' \in Seq(Fragment)
      /\ DOMAIN Line = 1 .. Len(Line) /\ DOMAIN Line' = 1 .. Len(Line')
  <2>1. Line \in Seq(Fragment)
    BY LineType
  <2>2. Line' \in Seq(Fragment)
    BY ConcatProperties DEF TypeOK, Line
  <2> QED  BY <2>1, <2>2
<1>2. Apart(Line)'
  <2>1. Apart(Line')
    BY <1>1, ApartSub DEF LineInv
  <2> QED  BY <2>1 DEF Apart
<1>3. Old(Line)'
  BY <1>1 DEF LineInv, Old
<1> QED  BY <1>2, <1>3 DEF LineInv

(* Its special cases: the line stays; its first unposted fragment goes.    *)
LEMMA LineStays ==
  ASSUME TypeOK, TypeOK', LineInv, Line' = Line,
         DOMAIN result \subseteq DOMAIN result',
         \A c \in Callers : call'[c].pc = "calling"
           => call[c].pc = "calling" /\ call'[c].id = call[c].id
  PROVE  LineInv'
<1>1. Apart(Line)'
  BY DEF LineInv, Apart
<1>2. Old(Line)'
  BY DEF LineInv, Old
<1> QED  BY <1>1, <1>2 DEF LineInv

LEMMA LineDrops ==
  ASSUME TypeOK, TypeOK', LineInv, cmd_q # <<>>, cmd_q' = Tail(cmd_q), posted' = posted,
         DOMAIN result \subseteq DOMAIN result',
         \A c \in Callers : call'[c].pc = "calling"
           => call[c].pc = "calling" /\ call'[c].id = call[c].id
  PROVE  LineInv'
<1> DEFINE p == Len(posted)
           m == [i \in 1 .. Len(Line') |-> IF i <= p THEN i ELSE i + 1]
<1>1. /\ cmd_q' \in Seq(Fragment) /\ Len(cmd_q') = Len(cmd_q) - 1 /\ Len(cmd_q) > 0
      /\ \A i \in 1 .. Len(cmd_q') : cmd_q'[i] = cmd_q[i + 1]
      /\ posted \in Seq(Fragment) /\ p \in Nat /\ Len(cmd_q) \in Nat
  <2>1. cmd_q \in Seq(Fragment) /\ posted \in Seq(Fragment)
    BY DEF TypeOK
  <2>2. cmd_q' \in Seq(Fragment) /\ Len(cmd_q') = Len(cmd_q) - 1
        /\ \A i \in 1 .. Len(cmd_q') : cmd_q'[i] = cmd_q[i + 1]
    BY <2>1, HeadTailProperties
  <2>3. Len(cmd_q) > 0 /\ Len(cmd_q) \in Nat /\ p \in Nat
    BY <2>1
  <2> QED  BY <2>1, <2>2, <2>3
<1>2. /\ Len(Line') = p + Len(cmd_q) - 1
      /\ \A i \in 1 .. p + Len(cmd_q) - 1 :
           Line'[i] = IF i <= p THEN posted[i] ELSE cmd_q'[i - p]
  BY <1>1, ConcatProperties DEF Line
<1>3. /\ Len(Line) = p + Len(cmd_q)
      /\ \A i \in 1 .. p + Len(cmd_q) :
           Line[i] = IF i <= p THEN posted[i] ELSE cmd_q[i - p]
  BY LineType
<1>4. m \in [1 .. Len(Line') -> 1 .. Len(Line)]
  BY <1>1, <1>2, <1>3
<1>5. \A i, j \in 1 .. Len(Line') : i < j => m[i] < m[j]
  BY <1>1, <1>2
<1>6. \A i \in 1 .. Len(Line') : m[i] = IF i <= p THEN i ELSE i + 1
  OBVIOUS
<1> HIDE DEF p, m
<1>7. \A i \in 1 .. Len(Line') : Line'[i] = Line[m[i]]
  <2> TAKE i \in 1 .. Len(Line')
  <2>1. i \in 1 .. p + Len(cmd_q) - 1 /\ i \in 1 .. p + Len(cmd_q)
        /\ i + 1 \in 1 .. p + Len(cmd_q) /\ i \in Nat
    BY <1>1, <1>2
  <2>2. CASE i <= p
    <3>1. m[i] = i /\ Line'[i] = posted[i] /\ Line[i] = posted[i]
      BY <1>2, <1>3, <1>6, <2>1, <2>2
    <3> QED  BY <3>1
  <2>3. CASE ~(i <= p)
    <3>1. m[i] = i + 1 /\ Line'[i] = cmd_q'[i - p]
      BY <1>2, <1>6, <2>1, <2>3
    <3>2. ~(i + 1 <= p) /\ i - p \in 1 .. Len(cmd_q')
      BY <1>1, <2>1, <2>3
    <3>3. Line[i + 1] = cmd_q[i + 1 - p]
      BY <1>1, <1>3, <2>1, <3>2
    <3>4. cmd_q'[i - p] = cmd_q[(i - p) + 1]
      BY <1>1, <3>2
    <3>5. (i - p) + 1 = i + 1 - p
      BY <1>1, <2>1
    <3> QED  BY <3>1, <3>3, <3>4, <3>5
  <2> QED  BY <2>2, <2>3
<1> QED  BY <1>4, <1>5, <1>7, LineSub

(* Where a line of fragments is cut does not matter.                       *)
LEMMA Rejoined ==
  ASSUME NEW a \in Seq(Fragment), NEW b \in Seq(Fragment), NEW c \in Seq(Fragment)
  PROVE  (a \o b) \o c = a \o (b \o c)
BY ConcatAssociative, SMTT(60)

(* A command, or the first fragments of one, is queued.                    *)
LEMMA LineQueues ==
  ASSUME CmdInv, TypeOK', LineInv, NEW c \in Callers, call[c].pc = "calling",
         NEW t \in Seq(Fragment), cmd_q' = cmd_q \o t, posted' = posted,
         \A i \in 1 .. Len(t) : t[i].id = call[c].id /\ t[i].idx = i,
         DOMAIN result' = DOMAIN result,
         call'[c].pc # "calling",
         \A d \in Callers : d # c => call'[d] = call[d]
  PROVE  LineInv'
<1>1. TypeOK /\ posted \in Seq(Fragment) /\ cmd_q \in Seq(Fragment)
  BY DEF CmdInv, TypeOK
<1>2. Line' = Line \o t /\ Line \in Seq(Fragment) /\ DOMAIN Line = 1 .. Len(Line)
  <2>1. /\ Line \in Seq(Fragment) /\ Len(Line) = Len(posted) + Len(cmd_q)
        /\ Len(posted) \in Nat /\ Len(cmd_q) \in Nat
        /\ DOMAIN Line = 1 .. Len(posted) + Len(cmd_q)
    BY <1>1, LineType
  <2>2. (posted \o cmd_q) \o t = posted \o (cmd_q \o t)
    BY <1>1, Rejoined
  <2>3. Line' = Line \o t
    BY <2>2 DEF Line
  <2> QED  BY <2>1, <2>3
<1>3. \A i \in 1 .. Len(Line) : Line[i].id # call[c].id
  <2>1. \A i \in DOMAIN Line : call[c].id # Line[i].id
    BY DEF LineInv, Old
  <2> QED  BY <1>2, <2>1
<1>4. Apart(Line \o t)
  BY <1>2, <1>3, ApartQueue DEF LineInv
<1>5. Apart(Line)'
  <2>1. Apart(Line')
    BY <1>2, <1>4
  <2> QED  BY <2>1 DEF Apart
<1>6. /\ DOMAIN (Line \o t) = 1 .. Len(Line) + Len(t)
      /\ \A i \in 1 .. Len(Line) + Len(t) :
           (Line \o t)[i] = IF i <= Len(Line) THEN Line[i] ELSE t[i - Len(Line)]
  BY <1>2, ConcatProperties
<1>7. call[c].id \in DOMAIN result
      /\ \A d \in Callers : d # c /\ call[d].pc = "calling" => call[d].id # call[c].id
  BY DEF CmdInv, CallIds
<1>8. ASSUME NEW i \in DOMAIN (Line \o t)
      PROVE  /\ (Line \o t)[i].id \in DOMAIN result
             /\ \A d \in Callers : call'[d].pc = "calling" => call'[d].id # (Line \o t)[i].id
  <2>1. CASE i <= Len(Line)
    <3>1. i \in DOMAIN Line /\ (Line \o t)[i] = Line[i]
      BY <1>2, <1>6, <2>1
    <3> QED  BY <3>1 DEF LineInv, Old
  <2>2. CASE i > Len(Line)
    <3>1. i - Len(Line) \in 1 .. Len(t) /\ (Line \o t)[i] = t[i - Len(Line)]
      BY <1>2, <1>6, <2>2
    <3>2. (Line \o t)[i].id = call[c].id
      BY <3>1
    <3> QED  BY <1>7, <3>2
  <2> QED  BY <1>2, <1>6, <2>1, <2>2
<1>9. Old(Line)'
  BY <1>2, <1>8 DEF Old
<1> QED  BY <1>5, <1>9 DEF LineInv

(* What is posted moves from the right of the line's border to its left.   *)
LEMMA LineMoves ==
  ASSUME TypeOK, cmd_q # <<>>,
         posted' = Append(posted, Head(cmd_q)), cmd_q' = Tail(cmd_q)
  PROVE  Line' = Line
<1>1. /\ posted \in Seq(Fragment) /\ cmd_q \in Seq(Fragment)
      /\ Head(cmd_q) \in Fragment /\ Tail(cmd_q) \in Seq(Fragment)
  BY HeadTailProperties DEF TypeOK
<1>2. cmd_q = <<Head(cmd_q)>> \o Tail(cmd_q)
  <2>1. 1 \in 1 .. Len(cmd_q) /\ Len(cmd_q) \in 1 .. Len(cmd_q) /\ Head(cmd_q) = cmd_q[1]
    BY <1>1
  <2>2. SubSeq(cmd_q, 1, Len(cmd_q)) = <<cmd_q[1]>> \o SubSeq(cmd_q, 1 + 1, Len(cmd_q))
    BY <1>1, <2>1, SubSeqRecursiveFirst
  <2>3. SubSeq(cmd_q, 1, Len(cmd_q)) = cmd_q
    BY <1>1, SubSeqFull
  <2>4. Tail(cmd_q) = SubSeq(cmd_q, 1 + 1, Len(cmd_q))
    BY <1>1, TailIsSubSeq
  <2> QED  BY <2>1, <2>2, <2>3, <2>4
<1>3. posted' = posted \o <<Head(cmd_q)>>
  BY <1>1, AppendIsConcat
<1>4. <<Head(cmd_q)>> \in Seq(Fragment)
  BY <1>1
<1>5. (posted \o <<Head(cmd_q)>>) \o Tail(cmd_q) = posted \o (<<Head(cmd_q)>> \o Tail(cmd_q))
  BY <1>1, <1>4, Rejoined
<1> QED  BY <1>2, <1>3, <1>5 DEF Line

LEMMA LineStep ==
  ASSUME CmdInv, CmdInv', LineInv, Next
  PROVE  LineInv'
<1>0. TypeOK /\ TypeOK' /\ Holders
  BY DEF CmdInv
<1>1. CASE RpuTakes \/ RpuSleeps \/ Isr \/ Tasklet
  <2>1. UNCHANGED <<cmd_q, call, posted, result>>
    BY <1>1 DEF RpuTakes, RpuSleeps, Isr, Tasklet, TaskletEnter, TaskletEvent,
       TaskletExit, DataPost, DataFails, DataTrigger, DataTriggerFails, history
  <2> QED  BY <1>0, <2>1, LineStays DEF Line
<1>2. ASSUME NEW c \in Callers, CmdCall(c) PROVE LineInv'
  <2>1. Line' = Line
    BY <1>2 DEF CmdCall, Line
  <2>2. Apart(Line)'
    BY <2>1 DEF LineInv, Apart
  <2>3. Len(result') = Len(result) + 1 /\ Len(result) \in Nat
        /\ DOMAIN result = 1 .. Len(result) /\ DOMAIN result' = 1 .. Len(result')
    BY <1>0, <1>2, AppendProperties DEF CmdCall, TypeOK
  <2>4. call'[c].id = Len(result') /\ \A d \in Callers : d # c => call'[d] = call[d]
    BY <1>0, <1>2 DEF CmdCall, TypeOK
  <2>5. Old(Line)'
    BY <2>1, <2>3, <2>4 DEF LineInv, Old
  <2> QED  BY <2>2, <2>5 DEF LineInv
<1>3. ASSUME NEW c \in Callers, Step(c) PROVE LineInv'
  <2>1. CASE CmdQueue(c)
    <3>1. PICK n \in 1 .. MAX_FRAGS : cmd_q' = cmd_q \o Fragments(call[c].id, n)
      BY <2>1 DEF CmdQueue
    <3>2. call[c].id \in 1 .. MAX_CMDS /\ call[c].pc = "calling"
      BY <2>1, IdType DEF CmdQueue
    <3>3. Fragments(call[c].id, n) \in Seq(Fragment)
      BY <3>2, AllFragments
    <3>4. \A i \in 1 .. Len(Fragments(call[c].id, n)) :
            Fragments(call[c].id, n)[i].id = call[c].id /\ Fragments(call[c].id, n)[i].idx = i
      BY DEF Fragments
    <3>5. call'[c].pc = "sending" /\ \A d \in Callers : d # c => call'[d] = call[d]
      BY <1>0, <2>1 DEF CmdQueue, TypeOK
    <3>6. posted' = posted /\ result' = result
      BY <2>1 DEF CmdQueue, history
    <3> QED  BY <1>0, <3>1, <3>2, <3>3, <3>4, <3>5, <3>6, LineQueues
  <2>2. CASE CmdQueueFails(c)
    <3>1. PICK n \in 1 .. MAX_FRAGS : \E k \in 0 .. n - 1 :
            cmd_q' = cmd_q \o [i \in 1 .. k |-> Fragments(call[c].id, n)[i]]
      BY <2>2 DEF CmdQueueFails
    <3>2. PICK k \in 0 .. n - 1 : cmd_q' = cmd_q \o [i \in 1 .. k |-> Fragments(call[c].id, n)[i]]
      BY <3>1
    <3> DEFINE t == [i \in 1 .. k |-> Fragments(call[c].id, n)[i]]
    <3>3. call[c].id \in 1 .. MAX_CMDS /\ call[c].pc = "calling" /\ k \in 0 .. n
      BY <2>2, IdType DEF CmdQueueFails
    <3>4. t \in Seq(Fragment)
      BY <3>3, FragmentsType
    <3>5. \A i \in 1 .. Len(t) : t[i].id = call[c].id /\ t[i].idx = i
      BY DEF Fragments
    <3>6. call'[c].pc = "idle" /\ \A d \in Callers : d # c => call'[d] = call[d]
      BY <1>0, <2>2 DEF CmdQueueFails, Return, TypeOK
    <3>7. posted' = posted /\ DOMAIN result' = DOMAIN result
      BY <1>0, <2>2 DEF CmdQueueFails, Return, TypeOK
    <3>8. cmd_q' = cmd_q \o t
      BY <3>2
    <3> HIDE DEF t
    <3> QED  BY <1>0, <3>3, <3>4, <3>5, <3>6, <3>7, <3>8, LineQueues
  <2>3. ASSUME CmdPost(c) \/ CmdTrigger(c) \/ CmdTriggerFails(c)
        PROVE  LineInv'
    <3>1. result' = result
      BY <2>3 DEF CmdPost, CmdTrigger, CmdTriggerFails, history
    <3>2. \A d \in Callers : call'[d].pc = "calling" => call[d].pc = "calling" /\ call'[d].id = call[d].id
      <4>1. CASE CmdPost(c)
        BY <1>0, <4>1 DEF CmdPost, TypeOK
      <4>2. CASE CmdTrigger(c)
        BY <1>0, <4>2 DEF CmdTrigger, TypeOK
      <4>3. CASE CmdTriggerFails(c)
        BY <1>0, <4>3 DEF CmdTriggerFails, TypeOK
      <4> QED  BY <2>3, <4>1, <4>2, <4>3
    <3>3. Line' = Line
      <4>1. CASE CmdPost(c)
        BY <1>0, <4>1, LineMoves DEF CmdPost, Sending
      <4>2. CASE CmdTrigger(c) \/ CmdTriggerFails(c)
        BY <4>2 DEF CmdTrigger, CmdTriggerFails, Line, history
      <4> QED  BY <2>3, <4>1, <4>2
    <3> QED  BY <1>0, <3>1, <3>2, <3>3, LineStays
  <2>4. ASSUME CmdWriteFails(c) \/ CmdTimeout(c) PROVE LineInv'
    <3>1. Sending(c) /\ Drop(c) /\ UNCHANGED <<posted, result>>
      BY <2>4 DEF CmdWriteFails, CmdTimeout
    <3>2. \A d \in Callers : call'[d].pc = "calling" => call[d].pc = "calling" /\ call'[d].id = call[d].id
      BY <1>0, <3>1 DEF Drop, TypeOK
    <3>3. cmd_q # <<>> /\ cmd_q' = Tail(cmd_q) /\ posted' = posted /\ result' = result
      BY <3>1 DEF Sending, Drop
    <3> QED  BY <1>0, <3>2, <3>3, LineDrops
  <2>5. CASE CmdReturn(c)
    <3>1. UNCHANGED <<cmd_q, posted>> /\ DOMAIN result' = DOMAIN result
      BY <1>0, <2>5 DEF CmdReturn, Return, TypeOK
    <3>2. \A d \in Callers : call'[d].pc = "calling" => call[d].pc = "calling" /\ call'[d].id = call[d].id
      BY <1>0, <2>5 DEF CmdReturn, Return, TypeOK
    <3> QED  BY <1>0, <3>1, <3>2, LineStays DEF Line
  <2> QED  BY <1>3, <2>1, <2>2, <2>3, <2>4, <2>5 DEF Step
<1> QED  BY <1>1, <1>2, <1>3 DEF Next

(* The RPU is given the fragments of a command in order and with no other  *)
(* command's between them (hal_rpu_cmd_queue, hal_rpu_cmd_process_queue).  *)
THEOREM NeverMixed == Spec => []CommandsApart
<1>1. Init => CmdInv /\ LineInv
  BY InvInit DEF Init, LineInv, Line, Apart, Old
<1>2. CmdInv /\ LineInv /\ [Next]_vars => (CmdInv /\ LineInv)'
  <2>1. ASSUME LineInv, UNCHANGED vars PROVE LineInv'
    BY <2>1 DEF vars, LineInv, Line, Apart, Old
  <2> QED  BY <2>1, InvStep, LineStep
<1>3. CmdInv /\ LineInv => CommandsApart
  <2> SUFFICES ASSUME CmdInv, LineInv PROVE Apart(posted)
    BY DEF CommandsApart
  <2>1. TypeOK
    BY DEF CmdInv
  <2> DEFINE m == [i \in 1 .. Len(posted) |-> i]
  <2>2. /\ posted \in Seq(Fragment) /\ Line \in Seq(Fragment)
        /\ m \in [1 .. Len(posted) -> 1 .. Len(Line)]
    BY <2>1, LineType DEF TypeOK
  <2>3. \A i \in 1 .. Len(posted) : posted[i] = Line[m[i]]
    BY <2>1, LineType
  <2>4. \A i, j \in 1 .. Len(posted) : i < j => m[i] < m[j]
    OBVIOUS
  <2> HIDE DEF m
  <2> QED  BY <2>2, <2>3, <2>4, ApartSub DEF LineInv
<1> QED  BY <1>1, <1>2, <1>3, PTL DEF Spec

(* The RPU is given whole commands, unmixed, and none after its call.      *)
THEOREM InOrder == Spec => CommandsInOrder
BY NoneLate, NeverMixed DEF CommandsInOrder
-----------------------------------------------------------------------------
(* A call that succeeds has sent its command.                              *)

(* Fragments that are to be sent, have been sent or were given up.         *)
Given == ToSet(posted) \cup dropped
Seen  == ToSet(cmd_q) \cup Given

(* All the fragments of a command, however many, are among a set of them.  *)
Whole(id, S) == \E n \in 1 .. MAX_FRAGS : ToSet(Fragments(id, n)) \subseteq S

(* While its call sends, a command is whole, its fragments still queued    *)
(* counted; once the call has returned SUCCESS, without them.              *)
WholeInv ==
  /\ \A c \in Callers : call[c].pc \in {"sending", "trigger"} => Whole(call[c].id, Seen)
  /\ \A id \in DOMAIN result : result[id] = "SUCCESS" => Whole(id, Given)

(* What is among some fragments is among more of them.                     *)
LEMMA WholeMore ==
  ASSUME NEW id, NEW S, NEW T, S \subseteq T, Whole(id, S)
  PROVE  Whole(id, T)
BY DEF Whole

(* The sets of fragments of the sequences the code builds.                 *)
LEMMA SetOfTail ==
  ASSUME NEW s \in Seq(Fragment), s # <<>>
  PROVE  ToSet(s) = {Head(s)} \cup ToSet(Tail(s))
<1>1. /\ Tail(s) \in Seq(Fragment) /\ Len(Tail(s)) = Len(s) - 1 /\ Head(s) = s[1]
      /\ \A i \in 1 .. Len(s) - 1 : Tail(s)[i] = s[i + 1]
  BY HeadTailProperties
<1>2. Len(s) \in Nat \ {0} /\ DOMAIN s = 1 .. Len(s) /\ DOMAIN Tail(s) = 1 .. Len(s) - 1
  BY <1>1
<1>3. ASSUME NEW i \in 1 .. Len(s) PROVE s[i] \in {Head(s)} \cup ToSet(Tail(s))
  <2>1. CASE i = 1
    BY <1>1, <2>1
  <2>2. CASE i # 1
    <3>1. i - 1 \in 1 .. Len(s) - 1 /\ (i - 1) + 1 = i
      BY <1>2, <2>2
    <3>2. s[i] = Tail(s)[i - 1]
      BY <1>1, <3>1
    <3> QED  BY <1>2, <3>1, <3>2 DEF ToSet
  <2> QED  BY <2>1, <2>2
<1>4. ASSUME NEW i \in 1 .. Len(s) - 1 PROVE Tail(s)[i] \in ToSet(s)
  <2>1. i + 1 \in 1 .. Len(s)
    BY <1>2
  <2> QED  BY <1>1, <1>2, <2>1 DEF ToSet
<1>5. Head(s) \in ToSet(s)
  BY <1>1, <1>2 DEF ToSet
<1>6. \A x : x \in ToSet(s) => x \in {Head(s)} \cup ToSet(Tail(s))
  BY <1>2, <1>3 DEF ToSet
<1>7. \A x : x \in ToSet(Tail(s)) => x \in ToSet(s)
  BY <1>2, <1>4 DEF ToSet
<1> QED  BY <1>5, <1>6, <1>7

LEMMA SetOfAppend ==
  ASSUME NEW s \in Seq(Fragment), NEW f \in Fragment
  PROVE  ToSet(s) \cup {f} \subseteq ToSet(Append(s, f))
<1>1. /\ Len(Append(s, f)) = Len(s) + 1 /\ Append(s, f)[Len(s) + 1] = f
      /\ \A i \in 1 .. Len(s) : Append(s, f)[i] = s[i]
      /\ DOMAIN Append(s, f) = 1 .. Len(s) + 1 /\ DOMAIN s = 1 .. Len(s)
      /\ Len(s) \in Nat
  BY AppendProperties
<1>2. \A i \in 1 .. Len(s) : i \in 1 .. Len(s) + 1
  BY <1>1
<1>3. Len(s) + 1 \in 1 .. Len(s) + 1
  BY <1>1
<1> QED  BY <1>1, <1>2, <1>3 DEF ToSet

LEMMA SetOfConcat ==
  ASSUME NEW s \in Seq(Fragment), NEW t \in Seq(Fragment)
  PROVE  ToSet(s) \cup ToSet(t) \subseteq ToSet(s \o t)
<1>1. /\ DOMAIN (s \o t) = 1 .. Len(s) + Len(t)
      /\ \A i \in 1 .. Len(s) + Len(t) :
           (s \o t)[i] = IF i <= Len(s) THEN s[i] ELSE t[i - Len(s)]
      /\ DOMAIN s = 1 .. Len(s) /\ DOMAIN t = 1 .. Len(t)
      /\ Len(s) \in Nat /\ Len(t) \in Nat
  BY ConcatProperties
<1>2. ASSUME NEW i \in 1 .. Len(s) PROVE s[i] \in ToSet(s \o t)
  <2>1. i \in 1 .. Len(s) + Len(t) /\ i <= Len(s)
    BY <1>1
  <2>2. (s \o t)[i] = s[i]
    BY <1>1, <2>1
  <2> QED  BY <1>1, <2>1, <2>2 DEF ToSet
<1>3. ASSUME NEW i \in 1 .. Len(t) PROVE t[i] \in ToSet(s \o t)
  <2>1. /\ i + Len(s) \in 1 .. Len(s) + Len(t) /\ ~(i + Len(s) <= Len(s))
        /\ (i + Len(s)) - Len(s) = i
    BY <1>1
  <2>2. (s \o t)[i + Len(s)] = t[i]
    BY <1>1, <2>1
  <2> QED  BY <1>1, <2>1, <2>2 DEF ToSet
<1>4. \A x : x \in ToSet(s) => x \in ToSet(s \o t)
  BY <1>1, <1>2 DEF ToSet
<1>5. \A x : x \in ToSet(t) => x \in ToSet(s \o t)
  BY <1>1, <1>3 DEF ToSet
<1> QED  BY <1>4, <1>5

(* A fragment is never forgotten: it is queued, posted or given up.        *)
Grows == Seen \subseteq Seen' /\ Given \subseteq Given'

LEMMA NoneForgotten ==
  ASSUME CmdInv, Next
  PROVE  Grows
<1>0. cmd_q \in Seq(Fragment) /\ posted \in Seq(Fragment)
  BY DEF CmdInv, TypeOK
<1>1. CASE UNCHANGED <<cmd_q, posted, dropped>>
  BY <1>1 DEF Grows, Seen, Given
<1>2. ASSUME NEW c \in Callers, CmdPost(c) PROVE Grows
  <2>1. /\ cmd_q # <<>> /\ cmd_q' = Tail(cmd_q) /\ posted' = Append(posted, Head(cmd_q))
        /\ dropped' = dropped
    BY <1>2, Zenon DEF CmdPost, Sending
  <2>2. Head(cmd_q) \in Fragment
    BY <1>0, <2>1
  <2>3. ToSet(cmd_q) = {Head(cmd_q)} \cup ToSet(cmd_q')
    BY <1>0, <2>1, SetOfTail
  <2>4. ToSet(posted) \cup {Head(cmd_q)} \subseteq ToSet(posted')
    BY <1>0, <2>1, <2>2, SetOfAppend
  <2> QED  BY <2>1, <2>3, <2>4 DEF Grows, Seen, Given
<1>3. ASSUME NEW c \in Callers, CmdWriteFails(c) \/ CmdTimeout(c) PROVE Grows
  <2>1. /\ cmd_q # <<>> /\ cmd_q' = Tail(cmd_q) /\ posted' = posted
        /\ dropped' = dropped \cup {Head(cmd_q)}
    BY <1>3, Zenon DEF CmdWriteFails, CmdTimeout, Sending, Drop
  <2>2. ToSet(cmd_q) = {Head(cmd_q)} \cup ToSet(cmd_q')
    BY <1>0, <2>1, SetOfTail
  <2> QED  BY <2>1, <2>2 DEF Grows, Seen, Given
<1>4. ASSUME NEW c \in Callers, CmdQueue(c) PROVE Grows
  <2>1. PICK n \in 1 .. MAX_FRAGS : cmd_q' = cmd_q \o Fragments(call[c].id, n)
    BY <1>4 DEF CmdQueue
  <2>2. call[c].id \in 1 .. MAX_CMDS
    BY <1>4, IdType DEF CmdQueue
  <2>3. Fragments(call[c].id, n) \in Seq(Fragment)
    BY <2>2, AllFragments
  <2>4. ToSet(cmd_q) \subseteq ToSet(cmd_q')
    BY <1>0, <2>1, <2>3, SetOfConcat
  <2>5. posted' = posted /\ dropped' = dropped
    BY <1>4 DEF CmdQueue, history
  <2> QED  BY <2>4, <2>5 DEF Grows, Seen, Given
<1>5. ASSUME NEW c \in Callers, CmdQueueFails(c) PROVE Grows
  <2>1. PICK n \in 1 .. MAX_FRAGS : \E k \in 0 .. n - 1 :
          cmd_q' = cmd_q \o [i \in 1 .. k |-> Fragments(call[c].id, n)[i]]
    BY <1>5 DEF CmdQueueFails
  <2>2. PICK k \in 0 .. n - 1 : cmd_q' = cmd_q \o [i \in 1 .. k |-> Fragments(call[c].id, n)[i]]
    BY <2>1
  <2>3. call[c].id \in 1 .. MAX_CMDS /\ k \in 0 .. n
    BY <1>5, IdType DEF CmdQueueFails
  <2>4. [i \in 1 .. k |-> Fragments(call[c].id, n)[i]] \in Seq(Fragment)
    BY <2>3, FragmentsType
  <2>5. ToSet(cmd_q) \subseteq ToSet(cmd_q')
    BY <1>0, <2>2, <2>4, SetOfConcat
  <2>6. posted' = posted /\ dropped' = dropped
    BY <1>5 DEF CmdQueueFails
  <2> QED  BY <2>5, <2>6 DEF Grows, Seen, Given
<1>6. ASSUME NEW c \in Callers, CmdCall(c) \/ CmdTrigger(c) \/ CmdTriggerFails(c) \/ CmdReturn(c)
      PROVE  UNCHANGED <<cmd_q, posted, dropped>>
  BY <1>6, Zenon DEF CmdCall, CmdTrigger, CmdTriggerFails, CmdReturn, history
<1>7. ASSUME RpuTakes \/ RpuSleeps \/ Isr \/ Tasklet
      PROVE  UNCHANGED <<cmd_q, posted, dropped>>
  BY <1>7 DEF RpuTakes, RpuSleeps, Isr, Tasklet, TaskletEnter, TaskletEvent,
     TaskletExit, DataPost, DataFails, DataTrigger, DataTriggerFails, history
<1> QED  BY <1>1, <1>2, <1>3, <1>4, <1>5, <1>6, <1>7 DEF Next, Step

(* A step by which no call starts to send, and none returns SUCCESS.       *)
LEMMA WholeStays ==
  ASSUME Grows, WholeInv,
         \A d \in Callers : call'[d].pc \in {"sending", "trigger"}
           => call[d].pc \in {"sending", "trigger"} /\ call'[d].id = call[d].id,
         \A id \in DOMAIN result' : result'[id] = "SUCCESS"
           => id \in DOMAIN result /\ result[id] = "SUCCESS"
  PROVE  WholeInv'
<1>1. ASSUME NEW d \in Callers, call'[d].pc \in {"sending", "trigger"}
      PROVE  Whole(call'[d].id, Seen')
  <2>1. Whole(call[d].id, Seen) /\ call'[d].id = call[d].id
    BY <1>1 DEF WholeInv
  <2> QED  BY <2>1, WholeMore DEF Grows
<1>2. ASSUME NEW id \in DOMAIN result', result'[id] = "SUCCESS"
      PROVE  Whole(id, Given')
  <2>1. Whole(id, Given)
    BY <1>2 DEF WholeInv
  <2> QED  BY <2>1, WholeMore DEF Grows
<1>3. \A d \in Callers : call'[d].pc \in {"sending", "trigger"} => Whole(call[d].id, Seen)'
  BY <1>1 DEF Whole, Fragments
<1>4. \A id \in DOMAIN result' : (result[id] = "SUCCESS")' => Whole(id, Given)'
  BY <1>2 DEF Whole, Fragments
<1> QED  BY <1>3, <1>4 DEF WholeInv

LEMMA WholeStep ==
  ASSUME CmdInv, WholeInv, Next
  PROVE  WholeInv'
<1>0. TypeOK /\ Grows
  BY NoneForgotten DEF CmdInv
<1>1. CASE RpuTakes \/ RpuSleeps \/ Isr \/ Tasklet
  <2>1. call' = call /\ result' = result
    BY <1>1 DEF RpuTakes, RpuSleeps, Isr, Tasklet, TaskletEnter, TaskletEvent,
       TaskletExit, DataPost, DataFails, DataTrigger, DataTriggerFails, history
  <2> QED  BY <1>0, <2>1, WholeStays
<1>2. ASSUME NEW c \in Callers, CmdCall(c) PROVE WholeInv'
  <2>1. result \in Seq(Status \cup {"none"}) /\ result' = Append(result, "none")
    BY <1>0, <1>2 DEF CmdCall, TypeOK
  <2>2. \A id \in DOMAIN result' : result'[id] = "SUCCESS"
           => id \in DOMAIN result /\ result[id] = "SUCCESS"
    BY <2>1, AppendProperties
  <2>3. \A d \in Callers : call'[d].pc \in {"sending", "trigger"} => call'[d] = call[d]
    BY <1>0, <1>2 DEF CmdCall, TypeOK
  <2> QED  BY <1>0, <2>2, <2>3, WholeStays
<1>3. ASSUME NEW c \in Callers, CmdQueue(c) PROVE WholeInv'
  <2>1. PICK n \in 1 .. MAX_FRAGS : cmd_q' = cmd_q \o Fragments(call[c].id, n)
    BY <1>3 DEF CmdQueue
  <2>2. call[c].id \in 1 .. MAX_CMDS
    BY <1>3, IdType DEF CmdQueue
  <2>3. Fragments(call[c].id, n) \in Seq(Fragment) /\ cmd_q \in Seq(Fragment)
    BY <1>0, <2>2, AllFragments DEF TypeOK
  <2>4. ToSet(Fragments(call[c].id, n)) \subseteq ToSet(cmd_q')
    BY <2>1, <2>3, SetOfConcat
  <2>5. Whole(call[c].id, Seen')
    BY <2>4 DEF Whole, Seen
  <2>6. result' = result /\ call'[c].id = call[c].id
        /\ \A d \in Callers : d # c => call'[d] = call[d]
    BY <1>0, <1>3 DEF CmdQueue, TypeOK, history
  <2>7. ASSUME NEW d \in Callers, call'[d].pc \in {"sending", "trigger"}
        PROVE  Whole(call'[d].id, Seen')
    <3>1. CASE d = c
      BY <2>5, <2>6, <3>1
    <3>2. CASE d # c
      <4>1. call'[d] = call[d] /\ Whole(call[d].id, Seen)
        BY <2>6, <2>7, <3>2 DEF WholeInv
      <4> QED  BY <1>0, <4>1, WholeMore DEF Grows
    <3> QED  BY <3>1, <3>2
  <2>8. ASSUME NEW id \in DOMAIN result', result'[id] = "SUCCESS"
        PROVE  Whole(id, Given')
    <3>1. Whole(id, Given)
      BY <2>6, <2>8 DEF WholeInv
    <3> QED  BY <1>0, <3>1, WholeMore DEF Grows
  <2>9. \A d \in Callers : call'[d].pc \in {"sending", "trigger"} => Whole(call[d].id, Seen)'
    BY <2>7 DEF Whole, Fragments
  <2>10. \A id \in DOMAIN result' : (result[id] = "SUCCESS")' => Whole(id, Given)'
    BY <2>8 DEF Whole, Fragments
  <2> QED  BY <2>9, <2>10 DEF WholeInv
<1>4. ASSUME NEW c \in Callers, CmdQueueFails(c) PROVE WholeInv'
  <2>1. \A d \in Callers : call'[d].pc \in {"sending", "trigger"} => call'[d] = call[d]
    BY <1>0, <1>4 DEF CmdQueueFails, Return, TypeOK
  <2>2. \A id \in DOMAIN result' : result'[id] = "SUCCESS"
          => id \in DOMAIN result /\ result[id] = "SUCCESS"
    BY <1>0, <1>4 DEF CmdQueueFails, Return, TypeOK
  <2> QED  BY <1>0, <2>1, <2>2, WholeStays
<1>5. ASSUME NEW c \in Callers, CmdPost(c) \/ CmdWriteFails(c) \/ CmdTimeout(c)
      PROVE  WholeInv'
  <2>1. result' = result /\ call[c].pc = "sending"
    BY <1>5, Zenon DEF CmdPost, CmdWriteFails, CmdTimeout, Sending
  <2>2. call'[c].id = call[c].id /\ \A d \in Callers : d # c => call'[d] = call[d]
    <3>1. CASE CmdPost(c)
      BY <1>0, <3>1 DEF CmdPost, TypeOK
    <3>2. CASE CmdWriteFails(c) \/ CmdTimeout(c)
      <4>1. Drop(c)
        BY <3>2, Zenon DEF CmdWriteFails, CmdTimeout
      <4> QED  BY <1>0, <4>1 DEF Drop, TypeOK
    <3> QED  BY <1>5, <3>1, <3>2
  <2> QED  BY <1>0, <2>1, <2>2, WholeStays
<1>6. ASSUME NEW c \in Callers, CmdTrigger(c) \/ CmdTriggerFails(c)
      PROVE  WholeInv'
  <2>1. result' = result /\ call[c].pc = "trigger"
    BY <1>6, Zenon DEF CmdTrigger, CmdTriggerFails, history
  <2>2. call'[c].id = call[c].id /\ \A d \in Callers : d # c => call'[d] = call[d]
    <3>1. CASE CmdTrigger(c)
      BY <1>0, <3>1 DEF CmdTrigger, TypeOK
    <3>2. CASE CmdTriggerFails(c)
      BY <1>0, <3>2 DEF CmdTriggerFails, TypeOK
    <3> QED  BY <1>6, <3>1, <3>2
  <2> QED  BY <1>0, <2>1, <2>2, WholeStays
<1>7. ASSUME NEW c \in Callers, CmdReturn(c) PROVE WholeInv'
  <2>1. /\ call[c].pc = "sending" /\ cmd_q = <<>> /\ UNCHANGED <<posted, dropped>>
        /\ call[c].id \in DOMAIN result
    BY <1>7, IdType DEF CmdReturn
  <2>2. \A d \in Callers : call'[d].pc \in {"sending", "trigger"} => call'[d] = call[d]
    BY <1>0, <1>7 DEF CmdReturn, Return, TypeOK
  <2>3. Whole(call[c].id, Given)
    <3>1. Whole(call[c].id, Seen)
      BY <2>1 DEF WholeInv
    <3>2. Seen = Given
      <4>1. ToSet(cmd_q) = {}
        BY <2>1 DEF ToSet
      <4> QED  BY <4>1 DEF Seen
    <3> QED  BY <3>1, <3>2
  <2>4. DOMAIN result' = DOMAIN result
        /\ \A id \in DOMAIN result : id # call[c].id => result'[id] = result[id]
    BY <1>0, <1>7, <2>1 DEF CmdReturn, Return, TypeOK
  <2>5. ASSUME NEW d \in Callers, call'[d].pc \in {"sending", "trigger"}
        PROVE  Whole(call'[d].id, Seen')
    <3>1. call'[d] = call[d] /\ Whole(call[d].id, Seen)
      BY <2>2, <2>5 DEF WholeInv
    <3> QED  BY <1>0, <3>1, WholeMore DEF Grows
  <2>6. ASSUME NEW id \in DOMAIN result', result'[id] = "SUCCESS"
        PROVE  Whole(id, Given')
    <3>1. Whole(id, Given)
      BY <2>3, <2>4, <2>6 DEF WholeInv
    <3> QED  BY <1>0, <3>1, WholeMore DEF Grows
  <2>7. \A d \in Callers : call'[d].pc \in {"sending", "trigger"} => Whole(call[d].id, Seen)'
    BY <2>5 DEF Whole, Fragments
  <2>8. \A id \in DOMAIN result' : (result[id] = "SUCCESS")' => Whole(id, Given)'
    BY <2>6 DEF Whole, Fragments
  <2> QED  BY <2>7, <2>8 DEF WholeInv
<1> QED  BY <1>1, <1>2, <1>3, <1>4, <1>5, <1>6, <1>7 DEF Next, Step

(* A call that returns SUCCESS has posted every fragment of its command,   *)
(* or given it up on the way (hal_rpu_cmd_process_queue reports the last   *)
(* fragment's status).                                                     *)
THEOREM SuccessIsWhole == Spec => []WholeUnlessDropped
<1>1. Init => CmdInv /\ WholeInv
  BY InvInit DEF Init, WholeInv
<1>2. CmdInv /\ WholeInv /\ [Next]_vars => (CmdInv /\ WholeInv)'
  <2>1. ASSUME WholeInv, UNCHANGED vars PROVE WholeInv'
    <3>1. Grows /\ call' = call /\ result' = result
      BY <2>1 DEF vars, Grows, Seen, Given
    <3> QED  BY <2>1, <3>1, WholeStays
  <2> QED  BY <2>1, InvStep, WholeStep
<1>3. CmdInv /\ WholeInv => WholeUnlessDropped
  BY DEF WholeInv, Whole, Given, WholeUnlessDropped
<1> QED  BY <1>1, <1>2, <1>3, PTL DEF Spec

-----------------------------------------------------------------------------
(* No command buffer is lost.                                              *)

(* How many elements of a sequence are in a set.                           *)
LEMMA HowManyType ==
  ASSUME NEW T, NEW s \in Seq(T), NEW S
  PROVE  /\ IsFiniteSet({i \in DOMAIN s : s[i] \in S})
         /\ HowMany(s, S) \in Nat
<1>1. DOMAIN s = 1 .. Len(s) /\ Len(s) \in Int /\ 1 \in Int
  OBVIOUS
<1>2. IsFiniteSet(1 .. Len(s))
  BY <1>1, FS_Interval
<1>3. {i \in DOMAIN s : s[i] \in S} \in SUBSET (1 .. Len(s))
  BY <1>1
<1>4. IsFiniteSet({i \in DOMAIN s : s[i] \in S})
  BY <1>2, <1>3, FS_Subset
<1> QED  BY <1>4, FS_CardinalityType DEF HowMany

(* One more when one is appended.                                          *)
LEMMA HowManyAppend ==
  ASSUME NEW T, NEW s \in Seq(T), NEW e \in T, NEW S
  PROVE  HowMany(Append(s, e), S) = HowMany(s, S) + (IF e \in S THEN 1 ELSE 0)
<1>1. /\ DOMAIN Append(s, e) = 1 .. Len(s) + 1 /\ Append(s, e)[Len(s) + 1] = e
      /\ \A i \in 1 .. Len(s) : Append(s, e)[i] = s[i]
      /\ DOMAIN s = 1 .. Len(s) /\ Len(s) \in Nat
  BY AppendProperties
<1>2. /\ \A i : i \in 1 .. Len(s) + 1 <=> i \in 1 .. Len(s) \/ i = Len(s) + 1
      /\ Len(s) + 1 \notin 1 .. Len(s)
  BY <1>1
<1> DEFINE P == {i \in DOMAIN s : s[i] \in S}
           Q == {i \in DOMAIN Append(s, e) : Append(s, e)[i] \in S}
<1>3. IsFiniteSet(P) /\ Cardinality(P) \in Nat /\ HowMany(s, S) = Cardinality(P)
  BY HowManyType DEF HowMany
<1>4. HowMany(Append(s, e), S) = Cardinality(Q)
  BY DEF HowMany
<1>5. CASE e \in S
  <2>1. Q = P \cup {Len(s) + 1} /\ Len(s) + 1 \notin P
    BY <1>1, <1>2, <1>5
  <2> HIDE DEF P, Q
  <2>2. Cardinality(Q) = Cardinality(P) + 1
    BY <1>3, <2>1, FS_AddElement
  <2> QED  BY <1>3, <1>4, <1>5, <2>2
<1>6. CASE e \notin S
  <2>1. Q = P
    BY <1>1, <1>2, <1>6
  <2> HIDE DEF P, Q
  <2> QED  BY <1>3, <1>4, <1>6, <2>1
<1> QED  BY <1>5, <1>6

(* One less when the first was one of them and goes.                       *)
LEMMA HowManyTail ==
  ASSUME NEW T, NEW s \in Seq(T), s # <<>>, NEW S
  PROVE  HowMany(s, S) = HowMany(Tail(s), S) + (IF Head(s) \in S THEN 1 ELSE 0)
<1>1. /\ Tail(s) \in Seq(T) /\ Len(Tail(s)) = Len(s) - 1 /\ Head(s) = s[1]
      /\ \A i \in 1 .. Len(s) - 1 : Tail(s)[i] = s[i + 1]
  BY HeadTailProperties
<1>2. Len(s) \in Nat \ {0} /\ DOMAIN s = 1 .. Len(s) /\ DOMAIN Tail(s) = 1 .. Len(s) - 1
  BY <1>1
<1> DEFINE P == {i \in DOMAIN s : s[i] \in S}
           Q == {i \in DOMAIN Tail(s) : Tail(s)[i] \in S}
           R == P \ {1}
           shift == [i \in Q |-> i + 1]
<1>3. IsFiniteSet(P) /\ Cardinality(P) \in Nat /\ HowMany(s, S) = Cardinality(P)
  BY HowManyType DEF HowMany
<1>4. IsFiniteSet(Q) /\ Cardinality(Q) \in Nat /\ HowMany(Tail(s), S) = Cardinality(Q)
  <2>1. Tail(s) \in Seq(T)
    BY <1>1
  <2>2. IsFiniteSet(Q) /\ HowMany(Tail(s), S) \in Nat
    BY <2>1, HowManyType
  <2> QED  BY <2>2 DEF HowMany
<1>5. \A i \in Q : i \in Int /\ i + 1 \in R
  BY <1>1, <1>2
<1>6. \A j \in R : j \in Int /\ j - 1 \in Q
  <2> TAKE j \in R
  <2>1. j \in 1 .. Len(s) /\ j # 1 /\ s[j] \in S
    BY <1>2
  <2>2. j - 1 \in 1 .. Len(s) - 1 /\ (j - 1) + 1 = j
    BY <1>2, <2>1
  <2>3. Tail(s)[j - 1] = s[j]
    BY <1>1, <2>2
  <2> QED  BY <1>2, <2>1, <2>2, <2>3
<1>7. 1 \in P <=> Head(s) \in S
  BY <1>1, <1>2
<1> HIDE DEF P, Q
<1>8. Cardinality(R) = Cardinality(Q)
  <2>1. shift \in [Q -> R]
    BY <1>5
  <2>2. \A a, b \in Q : shift[a] = shift[b] => a = b
    BY <1>5
  <2>3. \A t \in R : \E a \in Q : shift[a] = t
    BY <1>6
  <2> HIDE DEF R, shift
  <2>4. shift \in Bijection(Q, R)
    BY <2>1, <2>2, <2>3, Fun_IsBij
  <2>5. ExistsBijection(Q, R)
    BY <2>4, Fun_ExistsBij
  <2> QED  BY <1>4, <2>5, FS_Bijection
<1>9. Cardinality(R) = IF 1 \in P THEN Cardinality(P) - 1 ELSE Cardinality(P)
  BY <1>3, FS_RemoveElement
<1> HIDE DEF R
<1> QED  BY <1>3, <1>4, <1>7, <1>8, <1>9

(* A failure is one of those that lose a buffer, or is not.                *)
LEMMA HowManyFail ==
  ASSUME TypeOK, NEW kind, Fail(kind)
  PROVE  HowMany(failed', {"write", "post"})
           = HowMany(failed, {"write", "post"})
               + (IF kind \in {"write", "post"} THEN 1 ELSE 0)
<1>1. failed \in Seq(Failures) /\ kind \in Failures /\ failed' = Append(failed, kind)
  BY DEF TypeOK, Fail
<1> QED  BY <1>1, HowManyAppend

(* A data command uses none of them.                                       *)
LEMMA DataApart == DataCmd \notin Fragment
BY DEF DataCmd, Fragment

LEMMA KeptStep ==
  ASSUME CmdInv, BuffersKept, Next
  PROVE  BuffersKept'
<1> DEFINE T == Fragment \cup {DataCmd}
           L == {"write", "post"}
<1>0. TypeOK /\ avl \in Nat /\ busy \in Seq(T) /\ failed \in Seq(Failures)
      /\ cmd_q \in Seq(Fragment)
  BY DEF CmdInv, TypeOK
<1>a. HowMany(busy, Fragment) \in Nat /\ HowMany(failed, L) \in Nat
  BY <1>0, HowManyType
<1>b. avl + HowMany(busy, Fragment) + HowMany(failed, L) = NUM_CMD_BUFS
  BY DEF BuffersKept
<1> HIDE DEF T
<1> SUFFICES avl' + HowMany(busy', Fragment) + HowMany(failed', L) = NUM_CMD_BUFS
  BY DEF BuffersKept, HowMany, Fragment
<1>1. CASE RpuTakes
  <2>1. /\ busy # <<>> /\ busy' = Tail(busy) /\ failed' = failed
        /\ avl' = IF Head(busy) = DataCmd THEN avl ELSE avl + 1
    BY <1>1 DEF RpuTakes, history
  <2>2. HowMany(busy, Fragment)
          = HowMany(busy', Fragment) + (IF Head(busy) \in Fragment THEN 1 ELSE 0)
    BY <1>0, <2>1, HowManyTail
  <2>3. HowMany(busy', Fragment) \in Nat
    <3>1. busy' \in Seq(T)
      BY <1>0, <2>1, HeadTailProperties
    <3> QED  BY <3>1, HowManyType
  <2>4. Head(busy) \in Fragment <=> Head(busy) # DataCmd
    <3>1. Head(busy) \in T
      BY <1>0, <2>1, HeadTailProperties
    <3> QED  BY <3>1, DataApart DEF T
  <2>5. avl' + HowMany(busy', Fragment) = avl + HowMany(busy, Fragment)
    <3>1. CASE Head(busy) = DataCmd
      <4>1. avl' = avl /\ HowMany(busy, Fragment) = HowMany(busy', Fragment) + 0
        BY <2>1, <2>2, <2>4, <3>1
      <4> QED  BY <2>3, <4>1
    <3>2. CASE Head(busy) # DataCmd
      <4>1. avl' = avl + 1 /\ HowMany(busy, Fragment) = HowMany(busy', Fragment) + 1
        BY <2>1, <2>2, <2>4, <3>2
      <4> QED  BY <1>0, <2>3, <4>1
    <3> QED  BY <3>1, <3>2
  <2>6. HowMany(failed', L) = HowMany(failed, L)
    BY <2>1
  <2> HIDE DEF L
  <2> QED  BY <1>b, <2>5, <2>6
<1>2. CASE UNCHANGED <<avl, busy>> /\ HowMany(failed', L) = HowMany(failed, L)
  BY <1>b, <1>2
<1>3. ASSUME NEW kind \in {"alloc", "get", "trigger", "data"}, Fail(kind)
      PROVE  HowMany(failed', L) = HowMany(failed, L)
  <2>1. kind \notin L
    OBVIOUS
  <2>2. HowMany(failed', L) = HowMany(failed, L) + (IF kind \in L THEN 1 ELSE 0)
    BY <1>0, <1>3, HowManyFail
  <2> QED  BY <1>a, <2>1, <2>2
<1>4. CASE RpuSleeps \/ Isr \/ TaskletEnter \/ TaskletEvent \/ TaskletExit \/ DataTrigger
  <2>1. UNCHANGED <<avl, busy, failed>>
    BY <1>4, Zenon DEF RpuSleeps, Isr, TaskletEnter, TaskletEvent, TaskletExit, DataTrigger,
       rpu, history
  <2> QED  BY <1>2, <2>1
<1>5. CASE DataPost
  <2>1. busy' = Append(busy, DataCmd) /\ avl' = avl /\ failed' = failed
    BY <1>5 DEF DataPost, history
  <2>2. HowMany(busy', Fragment) = HowMany(busy, Fragment)
    <3>1. DataCmd \in T
      BY DEF T
    <3>2. HowMany(busy', Fragment)
            = HowMany(busy, Fragment) + (IF DataCmd \in Fragment THEN 1 ELSE 0)
      BY <1>0, <2>1, <3>1, HowManyAppend
    <3> QED  BY <1>a, <3>2, DataApart
  <2> QED  BY <1>b, <2>1, <2>2
<1>6. CASE DataFails \/ DataTriggerFails
  <2>1. UNCHANGED <<avl, busy>>
    BY <1>6, Zenon DEF DataFails, DataTriggerFails, rpu
  <2>2. Fail("data") \/ Fail("trigger")
    BY <1>6, Zenon DEF DataFails, DataTriggerFails
  <2> QED  BY <1>2, <1>3, <2>1, <2>2
<1>7. ASSUME NEW c \in Callers,
             CmdCall(c) \/ CmdQueue(c) \/ CmdTimeout(c) \/ CmdTrigger(c) \/ CmdReturn(c)
      PROVE  UNCHANGED <<avl, busy, failed>>
  BY <1>7, Zenon DEF CmdCall, CmdQueue, CmdTimeout, CmdTrigger, CmdReturn, rpu, history
<1>8. ASSUME NEW c \in Callers, CmdQueueFails(c) \/ CmdTriggerFails(c)
      PROVE  UNCHANGED <<avl, busy>> /\ HowMany(failed', L) = HowMany(failed, L)
  <2>1. UNCHANGED <<avl, busy>>
    BY <1>8, Zenon DEF CmdQueueFails, CmdTriggerFails, rpu
  <2>2. Fail("alloc") \/ Fail("trigger")
    BY <1>8, Zenon DEF CmdQueueFails, CmdTriggerFails
  <2> QED  BY <1>3, <2>1, <2>2
<1>9. ASSUME NEW c \in Callers, CmdPost(c)
      PROVE  avl' + HowMany(busy', Fragment) + HowMany(failed', L) = NUM_CMD_BUFS
  <2>1. /\ cmd_q # <<>> /\ avl' = avl - 1 /\ busy' = Append(busy, Head(cmd_q))
        /\ failed' = failed
    BY <1>9, Zenon DEF CmdPost, Sending
  <2>2. Head(cmd_q) \in Fragment /\ Head(cmd_q) \in T
    BY <1>0, <2>1, HeadTailProperties DEF T
  <2>3. HowMany(busy', Fragment) = HowMany(busy, Fragment) + 1
    <3>1. HowMany(busy', Fragment)
            = HowMany(busy, Fragment) + (IF Head(cmd_q) \in Fragment THEN 1 ELSE 0)
      BY <1>0, <2>1, <2>2, HowManyAppend
    <3> QED  BY <2>2, <3>1
  <2> HIDE DEF L
  <2> QED  BY <1>0, <1>a, <1>b, <2>1, <2>3
<1>10. ASSUME NEW c \in Callers, CmdWriteFails(c)
       PROVE  avl' + HowMany(busy', Fragment) + HowMany(failed', L) = NUM_CMD_BUFS
  <2>1. busy' = busy
    BY <1>10, Zenon DEF CmdWriteFails
  <2>2. CASE Fail("get") /\ UNCHANGED avl
    BY <1>2, <1>3, <2>1, <2>2
  <2>3. ASSUME NEW kind \in {"write", "post"}, Fail(kind), avl' = avl - 1
        PROVE  avl' + HowMany(busy', Fragment) + HowMany(failed', L) = NUM_CMD_BUFS
    <3>1. HowMany(failed', L) = HowMany(failed, L) + (IF kind \in L THEN 1 ELSE 0)
      BY <1>0, <2>3, HowManyFail
    <3>2. HowMany(failed', L) = HowMany(failed, L) + 1
      BY <3>1
    <3> HIDE DEF L
    <3> QED  BY <1>0, <1>a, <1>b, <2>1, <2>3, <3>2
  <2>4. \/ Fail("get") /\ UNCHANGED avl
        \/ (Fail("write") \/ Fail("post")) /\ avl' = avl - 1
    BY <1>10, Zenon DEF CmdWriteFails
  <2> QED  BY <2>2, <2>3, <2>4
<1>11. CASE Tasklet
  BY <1>4, <1>5, <1>6, <1>11 DEF Tasklet
<1>12. ASSUME NEW c \in Callers, CmdCall(c) \/ Step(c)
       PROVE  avl' + HowMany(busy', Fragment) + HowMany(failed', L) = NUM_CMD_BUFS
  BY <1>2, <1>7, <1>8, <1>9, <1>10, <1>12 DEF Step
<1> QED  BY <1>1, <1>4, <1>11, <1>12 DEF Next

(* The RPU's command buffers are on one of the queues, but for those lost  *)
(* when hal_rpu_msg_write fails with a buffer in hand.                     *)
THEOREM NoBufferLost == Spec => []BuffersKept
<1>1. Init => CmdInv /\ BuffersKept
  <2> SUFFICES ASSUME Init PROVE BuffersKept
    BY InvInit
  <2>1. busy = <<>> /\ failed = <<>> /\ avl = NUM_CMD_BUFS
    BY DEF Init
  <2>2. {i \in DOMAIN busy : busy[i] \in Fragment} = {}
        /\ {i \in DOMAIN failed : failed[i] \in {"write", "post"}} = {}
    BY <2>1
  <2>3. HowMany(busy, Fragment) = 0 /\ HowMany(failed, {"write", "post"}) = 0
    BY <2>2, FS_EmptySet, Zenon DEF HowMany
  <2> QED  BY <2>1, <2>3 DEF BuffersKept
<1>2. CmdInv /\ BuffersKept /\ [Next]_vars => (CmdInv /\ BuffersKept)'
  <2>1. BuffersKept /\ UNCHANGED vars => BuffersKept'
    BY DEF vars, BuffersKept, HowMany
  <2> QED  BY <2>1, InvStep, KeptStep
<1> QED  BY <1>1, <1>2, PTL DEF Spec
=============================================================================
