------------------------------- MODULE HalCmd -------------------------------
(***************************************************************************)
(* Commands from the host to the RPU (hal_api_common.c, hal_api.c) and the *)
(* two locks between them and the events.                                  *)
(*                                                                         *)
(* nrf_wifi_hal_ctrl_cmd_send splits a command into fragments, queues them *)
(* on cmd_q and sends what is on cmd_q, all under lock_hal: each fragment  *)
(* waits, for a second at most, for a command buffer of the RPU, is copied *)
(* to it, posted on cmd_busy_queue and announced by a register write.      *)
(*                                                                         *)
(* The RPU (external) gives a command buffer back when it takes the        *)
(* command, and needs an event buffer to answer it.  Event buffers come    *)
(* back from the interrupt handler, which waits for lock_rx.  The event    *)
(* tasklet holds lock_rx and waits for lock_hal when the FMAC sends data   *)
(* from its callback: everybody may wait for everybody else.               *)
(***************************************************************************)
EXTENDS Integers, FiniteSets, SequencesExt

CONSTANTS
  Callers,      (* threads that send control commands                      *)
  NUM_CMD_BUFS, (* command buffers of the RPU                              *)
  NUM_EVENT_BUFS,
  MAX_CMDS,     (* bound: control commands                                 *)
  MAX_FRAGS,    (* bound: fragments of a command                           *)
  MAX_DATA,     (* bound: data commands the callback sends                 *)
  MAX_FAULTS,   (* bound: failures                                         *)
  Failures      (* what may fail, see Fail                                 *)

FailureKinds == {"alloc", "get", "write", "post", "trigger", "data"}

ASSUME CmdAssumption ==
  /\ NUM_CMD_BUFS \in Nat \ {0} /\ NUM_EVENT_BUFS \in Nat \ {0}
  /\ MAX_CMDS \in Nat /\ MAX_FRAGS \in Nat \ {0}
  /\ MAX_DATA \in Nat /\ MAX_FAULTS \in Nat
  /\ Failures \subseteq FailureKinds
  /\ Callers \cap {"free", "tasklet"} = {}

(* The idx-th of the n fragments of the command id; a data command has     *)
(* none of the RPU's command buffers.                                      *)
Fragment == [id : 1 .. MAX_CMDS, idx : 1 .. MAX_FRAGS, n : 1 .. MAX_FRAGS]
DataCmd  == [id |-> 0, idx |-> 1, n |-> 1]

VARIABLES
  (* RPU *)
  avl,         (* command buffers on cmd_avl_queue                         *)
  busy,        (* cmd_busy_queue: Seq(Fragment or DataCmd)                 *)
  mcu_irq,     (* RPU_REG_INT_TO_MCU_CTRL has been written                 *)
  ev_avl,      (* event buffers on event_avl_queue                         *)
  ev_busy,     (* event buffers on event_busy_queue                        *)
  (* HAL *)
  cmd_q,       (* Seq(Fragment)                                            *)
  lock_hal,    (* who holds it: a caller, "tasklet" or "free"              *)
  call,        (* [Callers -> [pc, id, status]]                            *)
  tasklet,     (* event_tasklet: "idle", or it holds lock_rx and is at     *)
               (* "run", "wait" (for lock_hal) or "trigger"                *)
  events,      (* events on event_q                                        *)
  data,        (* data commands sent so far                                *)
  (* history *)
  posted,      (* every fragment put on cmd_busy_queue: Seq(Fragment)      *)
  dropped,     (* fragments given up                                       *)
  result,      (* what each call returned: Seq of "none", "SUCCESS", "FAIL"*)
  failed       (* kinds of the failures so far: Seq(FailureKinds)          *)

rpu     == <<avl, busy, mcu_irq, ev_avl, ev_busy>>
evs     == <<tasklet, events, data>>
history == <<posted, dropped, result, failed>>
vars    == <<avl, busy, mcu_irq, ev_avl, ev_busy, cmd_q, lock_hal, call, tasklet,
             events, data, posted, dropped, result, failed>>

Status == {"SUCCESS", "FAIL"}

TypeOK ==
  /\ avl \in Nat
  /\ busy \in Seq(Fragment \cup {DataCmd})
  /\ mcu_irq \in BOOLEAN
  /\ ev_avl \in 0 .. NUM_EVENT_BUFS /\ ev_busy \in 0 .. NUM_EVENT_BUFS
  /\ cmd_q \in Seq(Fragment)
  /\ lock_hal \in Callers \cup {"free", "tasklet"}
  /\ call \in [Callers -> [pc : {"idle", "calling", "sending", "trigger"},
                           id : 0 .. MAX_CMDS, status : Status]]
  /\ tasklet \in {"idle", "run", "wait", "trigger"}
  /\ events \in Nat /\ data \in 0 .. MAX_DATA
  /\ posted \in Seq(Fragment) /\ dropped \subseteq Fragment
  /\ result \in Seq(Status \cup {"none"}) /\ Len(result) <= MAX_CMDS
  /\ failed \in Seq(Failures)

Init ==
  /\ avl = NUM_CMD_BUFS /\ busy = <<>> /\ mcu_irq = FALSE
  /\ ev_avl = NUM_EVENT_BUFS /\ ev_busy = 0
  /\ cmd_q = <<>> /\ lock_hal = "free"
  /\ call = [c \in Callers |-> [pc |-> "idle", id |-> 0, status |-> "FAIL"]]
  /\ tasklet = "idle" /\ events = 0 /\ data = 0
  /\ posted = <<>> /\ dropped = {} /\ result = <<>> /\ failed = <<>>

Fail(kind) ==
  /\ kind \in Failures
  /\ Len(failed) < MAX_FAULTS
  /\ failed' = Append(failed, kind)

-----------------------------------------------------------------------------
(* The RPU takes the commands it has been told of, in order, and answers   *)
(* each with an event.                                                     *)
RpuTakes ==
  /\ mcu_irq
  /\ busy # <<>>
  /\ ev_avl > 0
  /\ busy' = Tail(busy)
  /\ avl' = IF Head(busy) = DataCmd THEN avl ELSE avl + 1
  /\ ev_avl' = ev_avl - 1 /\ ev_busy' = ev_busy + 1
  /\ UNCHANGED <<mcu_irq, cmd_q, lock_hal, call, evs, history>>

RpuSleeps ==
  /\ mcu_irq
  /\ busy = <<>>
  /\ mcu_irq' = FALSE
  /\ UNCHANGED <<avl, busy, ev_avl, ev_busy, cmd_q, lock_hal, call, evs, history>>

-----------------------------------------------------------------------------
(* nrf_wifi_hal_ctrl_cmd_send                                              *)

(* A thread calls it and waits for lock_hal.                               *)
CmdCall(c) ==
  /\ call[c].pc = "idle"
  /\ Len(result) < MAX_CMDS
  /\ result' = Append(result, "none")
  /\ call' = [call EXCEPT ![c] = [pc |-> "calling", id |-> Len(result'), status |-> "FAIL"]]
  /\ UNCHANGED <<rpu, cmd_q, lock_hal, evs, posted, dropped, failed>>

Fragments(id, n) == [i \in 1 .. n |-> [id |-> id, idx |-> i, n |-> n]]

Return(c, status) ==
  /\ call' = [call EXCEPT ![c].pc = "idle", ![c].status = status]
  /\ result' = [result EXCEPT ![call[c].id] = status]
  /\ lock_hal' = "free"

(* hal_rpu_cmd_queue                                                       *)
CmdQueueOneShort(c) ==
  /\ call[c].pc = "calling"
  /\ lock_hal = "free"
  /\ lock_hal' = c
  /\ \E n \in 1 .. MAX_FRAGS :
       cmd_q' = cmd_q \o [i \in 1 .. (IF n > 1 THEN n - 1 ELSE 1) |->
                            Fragments(call[c].id, n)[i]]
  /\ call' = [call EXCEPT ![c].pc = "sending", ![c].status = "SUCCESS"]
  /\ UNCHANGED <<rpu, evs, history>>

CmdQueue(c) ==
  /\ call[c].pc = "calling"
  /\ lock_hal = "free"
  /\ lock_hal' = c
  /\ \E n \in 1 .. MAX_FRAGS : cmd_q' = cmd_q \o Fragments(call[c].id, n)
  /\ call' = [call EXCEPT ![c].pc = "sending", ![c].status = "SUCCESS"]
  /\ UNCHANGED <<rpu, evs, history>>

(* No memory for a fragment: those before it stay queued.                  *)
CmdQueueFails(c) ==
  /\ call[c].pc = "calling"
  /\ lock_hal = "free"
  /\ Fail("alloc")
  /\ \E n \in 1 .. MAX_FRAGS : \E k \in 0 .. n - 1 :
       cmd_q' = cmd_q \o [i \in 1 .. k |-> Fragments(call[c].id, n)[i]]
  /\ Return(c, "FAIL")
  /\ UNCHANGED <<rpu, evs, posted, dropped>>

(* hal_rpu_cmd_process_queue: the fragment at the head of cmd_q.           *)
Sending(c) == call[c].pc = "sending" /\ cmd_q # <<>>

Drop(c) ==
  /\ cmd_q' = Tail(cmd_q)
  /\ dropped' = dropped \cup {Head(cmd_q)}
  /\ call' = [call EXCEPT ![c].pc = "sending", ![c].status = "FAIL"]

(* hal_rpu_ready_wait finds a buffer, hal_rpu_msg_write posts it.          *)
CmdPostKeeps(c) ==
  /\ Sending(c)
  /\ avl > 0
  /\ busy' = Append(busy, Head(cmd_q))
  /\ posted' = Append(posted, Head(cmd_q))
  /\ cmd_q' = Tail(cmd_q)
  /\ call' = [call EXCEPT ![c].pc = "trigger"]
  /\ UNCHANGED <<avl, mcu_irq, ev_avl, ev_busy, lock_hal, evs, dropped, result, failed>>

CmdPostUnchecked(c) ==
  /\ Sending(c)
  /\ avl' = avl - 1
  /\ busy' = Append(busy, Head(cmd_q))
  /\ posted' = Append(posted, Head(cmd_q))
  /\ cmd_q' = Tail(cmd_q)
  /\ call' = [call EXCEPT ![c].pc = "trigger"]
  /\ UNCHANGED <<mcu_irq, ev_avl, ev_busy, lock_hal, evs, dropped, result, failed>>

CmdPost(c) ==
  /\ Sending(c)
  /\ avl > 0
  /\ avl' = avl - 1
  /\ busy' = Append(busy, Head(cmd_q))
  /\ posted' = Append(posted, Head(cmd_q))
  /\ cmd_q' = Tail(cmd_q)
  /\ call' = [call EXCEPT ![c].pc = "trigger"]
  /\ UNCHANGED <<mcu_irq, ev_avl, ev_busy, lock_hal, evs, dropped, result, failed>>

(* hal_rpu_msg_trigger                                                     *)
CmdTrigger(c) ==
  /\ call[c].pc = "trigger"
  /\ mcu_irq' = TRUE
  /\ call' = [call EXCEPT ![c].pc = "sending", ![c].status = "SUCCESS"]
  /\ UNCHANGED <<avl, busy, ev_avl, ev_busy, cmd_q, lock_hal, evs, history>>

CmdTriggerFails(c) ==
  /\ call[c].pc = "trigger"
  /\ Fail("trigger")
  /\ call' = [call EXCEPT ![c].pc = "sending", ![c].status = "FAIL"]
  /\ UNCHANGED <<rpu, cmd_q, lock_hal, evs, posted, dropped, result>>

(* hal_rpu_ready_wait: no buffer for MAX_HAL_RPU_READY_WAIT.               *)
CmdTimeoutNever(c) == FALSE /\ UNCHANGED vars

CmdTimeoutReturns(c) ==
  /\ Sending(c)
  /\ avl = 0
  /\ Return(c, "FAIL")
  /\ UNCHANGED <<rpu, cmd_q, evs, posted, dropped, failed>>

CmdTimeout(c) ==
  /\ Sending(c)
  /\ avl = 0
  /\ Drop(c)
  /\ UNCHANGED <<rpu, lock_hal, evs, posted, result, failed>>

(* hal_rpu_msg_write fails before it has the buffer, or while it holds it. *)
CmdWriteFails(c) ==
  /\ Sending(c)
  /\ avl > 0
  /\ \/ Fail("get") /\ UNCHANGED avl
     \/ (Fail("write") \/ Fail("post")) /\ avl' = avl - 1
  /\ Drop(c)
  /\ UNCHANGED <<busy, mcu_irq, ev_avl, ev_busy, lock_hal, evs, posted, result>>

CmdReturn(c) ==
  /\ call[c].pc = "sending"
  /\ cmd_q = <<>>
  /\ Return(c, call[c].status)
  /\ UNCHANGED <<rpu, cmd_q, evs, posted, dropped, failed>>

-----------------------------------------------------------------------------
(* nrf_wifi_hal_irq_handler takes lock_rx, empties event_busy_queue and    *)
(* returns the buffers.                                                    *)
Isr ==
  /\ ev_busy > 0
  /\ tasklet = "idle"
  /\ events' = events + ev_busy
  /\ ev_avl' = ev_avl + ev_busy /\ ev_busy' = 0
  /\ UNCHANGED <<avl, busy, mcu_irq, cmd_q, lock_hal, call, tasklet, data, history>>

(* event_tasklet_fn takes lock_rx.                                         *)
TaskletEnter ==
  /\ tasklet = "idle"
  /\ events > 0
  /\ tasklet' = "run"
  /\ UNCHANGED <<rpu, cmd_q, lock_hal, call, events, data, history>>

(* The FMAC handles an event. For some it sends data.                      *)
TaskletEvent ==
  /\ tasklet = "run"
  /\ events > 0
  /\ events' = events - 1
  /\ tasklet' \in IF data < MAX_DATA THEN {"run", "wait"} ELSE {"run"}
  /\ UNCHANGED <<rpu, cmd_q, lock_hal, call, data, history>>

(* nrf_wifi_sys_hal_data_cmd_send                                          *)
DataPost ==
  /\ tasklet = "wait"
  /\ lock_hal = "free"
  /\ lock_hal' = "tasklet"
  /\ tasklet' = "trigger"
  /\ data' = data + 1
  /\ busy' = Append(busy, DataCmd)
  /\ UNCHANGED <<avl, mcu_irq, ev_avl, ev_busy, cmd_q, call, events, history>>

(* The command's memory cannot be written, or it cannot be posted.         *)
DataFails ==
  /\ tasklet = "wait"
  /\ lock_hal = "free"
  /\ Fail("data")
  /\ tasklet' = "run"
  /\ data' = data + 1
  /\ UNCHANGED <<rpu, cmd_q, lock_hal, call, events, posted, dropped, result>>

DataTriggerForgotten ==
  /\ tasklet = "trigger"
  /\ tasklet' = "run"
  /\ lock_hal' = "free"
  /\ UNCHANGED <<rpu, cmd_q, call, events, data, history>>

DataTrigger ==
  /\ tasklet = "trigger"
  /\ tasklet' = "run"
  /\ lock_hal' = "free"
  /\ mcu_irq' = TRUE
  /\ UNCHANGED <<avl, busy, ev_avl, ev_busy, cmd_q, call, events, data, history>>

DataTriggerFails ==
  /\ tasklet = "trigger"
  /\ Fail("trigger")
  /\ tasklet' = "run"
  /\ lock_hal' = "free"
  /\ UNCHANGED <<rpu, cmd_q, call, events, data, posted, dropped, result>>

TaskletExit ==
  /\ tasklet = "run"
  /\ events = 0
  /\ tasklet' = "idle"
  /\ UNCHANGED <<rpu, cmd_q, lock_hal, call, events, data, history>>

-----------------------------------------------------------------------------
Step(c) ==
  \/ CmdQueue(c) \/ CmdQueueFails(c)
  \/ CmdPost(c) \/ CmdWriteFails(c) \/ CmdTimeout(c)
  \/ CmdTrigger(c) \/ CmdTriggerFails(c)
  \/ CmdReturn(c)

Tasklet ==
  \/ TaskletEnter \/ TaskletEvent \/ TaskletExit
  \/ DataPost \/ DataFails \/ DataTrigger \/ DataTriggerFails

Next ==
  \/ RpuTakes \/ RpuSleeps
  \/ \E c \in Callers : CmdCall(c) \/ Step(c)
  \/ Isr \/ Tasklet

Spec == Init /\ [][Next]_vars

(* Threads run, interrupts are served; nothing is assumed of the RPU.      *)
Fairness ==
  /\ \A c \in Callers : SF_vars(Step(c))
  /\ WF_vars(Isr)
  /\ SF_vars(Tasklet)

FairSpec == Spec /\ Fairness
-----------------------------------------------------------------------------
(* Properties                                                              *)

(* In order, and one command after the other.                              *)
Apart(s) ==
  \A i, j \in DOMAIN s :
    i < j /\ s[i].id = s[j].id
      => /\ s[i].idx < s[j].idx
         /\ \A k \in i .. j : s[k].id = s[i].id

(* The fragments of a command reach the RPU in order and with no other     *)
(* command between them, whoever's call sends them: cmd_q is filled and    *)
(* emptied under lock_hal.                                                 *)
CommandsApart == Apart(posted)

(* A call that returns SUCCESS has posted every fragment, except those it  *)
(* gave up: the status is that of the last fragment.                       *)
WholeUnlessDropped ==
  \A id \in DOMAIN result :
    result[id] = "SUCCESS"
      => \E n \in 1 .. MAX_FRAGS :
           ToSet(Fragments(id, n)) \subseteq ToSet(posted) \cup dropped

(* No command buffer is lost but by a failure that comes after taking it   *)
(* from cmd_avl_queue: hal_rpu_msg_write does not give it back then.       *)
HowMany(s, S) == Cardinality({i \in DOMAIN s : s[i] \in S})

BuffersKept ==
  avl + HowMany(busy, Fragment) + HowMany(failed, {"write", "post"}) = NUM_CMD_BUFS

(* A command that is on cmd_busy_queue has been announced, or is about to  *)
(* be by whoever holds lock_hal: post, then trigger.                       *)
Announced ==
  busy # <<>> => mcu_irq \/ lock_hal # "free" \/ "trigger" \in ToSet(failed)

(* After a call has returned none of its fragments is sent, unless memory  *)
(* ran out while it was split.                                             *)
NoLateFragments ==
  [][\A f \in ToSet(posted') \ ToSet(posted) :
       "alloc" \in ToSet(failed) \/ result[f.id] = "none"]_vars

(* The RPU can read the commands: each comes in order, unmixed, and within *)
(* its own call.                                                           *)
CommandsInOrder == []CommandsApart /\ NoLateFragments

(* Every call returns, whatever the RPU does and whoever holds what it     *)
(* waits for: the time-out of hal_rpu_ready_wait is what breaks the circle *)
(* of lock_hal, event buffers, lock_rx and lock_hal.                       *)
CallsReturn == \A c \in Callers : (call[c].pc # "idle") ~> (call[c].pc = "idle")

(* And so every event is read and handled, though its handler may wait for *)
(* lock_hal.                                                               *)
EventsHandled == (ev_busy > 0 \/ events > 0) ~> (ev_busy = 0 /\ events = 0 /\ tasklet = "idle")

(* The circle of those who wait for each other is always broken.           *)
NobodyStuck == CallsReturn /\ EventsHandled
=============================================================================
