------------------------------- MODULE HalPs -------------------------------
(***************************************************************************)
(* Power save of the RPU (hal_api_common.c, hal_reg.c, hal_mem.c) and the  *)
(* decision to recover it (hal_interrupt.c).                               *)
(*                                                                         *)
(* The host may touch the RPU only while it holds its wake-up line.  Every *)
(* access to a register or to memory takes rpu_ps_lock, stops the idle     *)
(* timer, asserts the line and waits for the RPU if it let it sleep,       *)
(* and, after the lock is released, starts the timer again.  The timer     *)
(* lets go of the line.  The RPU's watchdog tells the host that the RPU    *)
(* has not slept for long: a reason to recover it, unless it is the host   *)
(* that held the line.                                                     *)
(*                                                                         *)
(* Times are ages: how long ago something happened, up to AGE_CAP, as the  *)
(* code only ever asks whether more than some time has elapsed.            *)
(***************************************************************************)
EXTENDS Integers

CONSTANTS
  Hosts,             (* threads that access the RPU                        *)
  Irq,               (* the one of them that handles the interrupt         *)
  IDLE_TIMEOUT,      (* NRF70_RPU_PS_IDLE_TIMEOUT_MS                       *)
  WAKE_TIMEOUT,      (* RPU_PS_WAKE_TIMEOUT_S                              *)
  MIN_SLEEP,         (* NRF_WIFI_RPU_MIN_TIME_TO_ENTER_SLEEP_MS            *)
  PS_ACTIVE_TIMEOUT, (* NRF_WIFI_RPU_RECOVERY_PS_ACTIVE_TIMEOUT_MS         *)
  AGE_CAP,           (* ages beyond it are not told apart                  *)
  MAX_FAULTS         (* bound: failures of the RPU                         *)

ASSUME PsAssumption ==
  /\ Irq \in Hosts /\ "free" \notin Hosts
  /\ IDLE_TIMEOUT \in Nat /\ WAKE_TIMEOUT \in Nat /\ MIN_SLEEP \in Nat
  /\ PS_ACTIVE_TIMEOUT \in Nat /\ AGE_CAP \in Nat /\ MAX_FAULTS \in Nat
  /\ IDLE_TIMEOUT <= AGE_CAP /\ WAKE_TIMEOUT <= AGE_CAP
  /\ MIN_SLEEP < AGE_CAP /\ PS_ACTIVE_TIMEOUT <= AGE_CAP

(* What an access is for; the handler of the interrupt reads its cause     *)
(* ("irq") and, if that is the watchdog ("wdog"), rearms it and            *)
(* acknowledges it.                                                        *)
Ops == {"read", "write", "irq", "wdog", "rearm", "ack"}

(* Ages: of the running timer, the wait for the RPU, the last time the     *)
(* timer let go of the line, the last opportunity to sleep, the time the   *)
(* line was last low and the RPU's watchdog.                               *)
Clocks == {"timer", "poll", "deasserted", "sleep_opp", "held", "wdog"}

VARIABLES
  (* HAL *)
  life,            (* "added", "booted" (rpu_fw_booted) or "removed"       *)
  lock,            (* who holds rpu_ps_lock                                *)
  call,            (* [Hosts -> [pc, op]]: the access of each thread       *)
  rpu_ps_state,
  armed,           (* rpu_ps_timer is scheduled                            *)
  expired,         (* and has expired: its callback is on its way          *)
  do_rpu_recovery, (* of the handler of the interrupt                      *)
  recovery,        (* recovery_tasklet is scheduled                        *)
  age,             (* [Clocks -> 0 .. AGE_CAP]                             *)
  (* RPU *)
  wakeup,          (* the wake-up line                                     *)
  rpu,             (* "active", "asleep" or "hung"                         *)
  wdog,            (* its watchdog interrupt is pending                    *)
  (* history *)
  ended,           (* the last access: "none", "ok" or "failed"            *)
  faults

timer == <<armed, expired>>
vars  == <<life, lock, call, rpu_ps_state, armed, expired, do_rpu_recovery, recovery,
           age, wakeup, rpu, wdog, ended, faults>>

TypeOK ==
  /\ life \in {"added", "booted", "removed"}
  /\ lock \in Hosts \cup {"free"}
  /\ call \in [Hosts -> [pc : {"idle", "call", "poll", "access", "release", "decide"},
                         op : Ops]]
  /\ rpu_ps_state \in {"ASLEEP", "AWAKE"}
  /\ armed \in BOOLEAN /\ expired \in BOOLEAN
  /\ do_rpu_recovery \in BOOLEAN /\ recovery \in BOOLEAN
  /\ age \in [Clocks -> 0 .. AGE_CAP]
  /\ wakeup \in BOOLEAN /\ wdog \in BOOLEAN
  /\ rpu \in {"active", "asleep", "hung"}
  /\ ended \in {"none", "ok", "failed"}
  /\ faults \in 0 .. MAX_FAULTS

(* hal_rpu_ps_init.  The operating system has powered the RPU up, with the *)
(* line high, some time after it started itself.                           *)
Init ==
  /\ life = "added" /\ lock = "free"
  /\ call = [h \in Hosts |-> [pc |-> "idle", op |-> "read"]]
  /\ rpu_ps_state = "ASLEEP"
  /\ armed = FALSE /\ expired = FALSE
  /\ do_rpu_recovery = FALSE /\ recovery = FALSE
  /\ \E uptime \in 0 .. AGE_CAP :
       age = [c \in Clocks |-> IF c \in {"deasserted", "sleep_opp"} THEN uptime ELSE 0]
  /\ wakeup = TRUE /\ rpu = "active" /\ wdog = FALSE
  /\ ended = "none" /\ faults = 0

Quiet == \A h \in Hosts : call[h].pc = "idle"

Fault == faults < MAX_FAULTS /\ faults' = faults + 1

-----------------------------------------------------------------------------
(* Time and the RPU                                                        *)

Older(a) == IF a < AGE_CAP THEN a + 1 ELSE a

Runs(clock) ==
  CASE clock = "timer" -> armed
    [] clock = "poll"  -> \E h \in Hosts : call[h].pc = "poll"
    [] clock = "held"  -> wakeup
    [] clock = "wdog"  -> rpu # "asleep"
    [] OTHER           -> TRUE

Tick ==
  /\ life # "removed"
  /\ age' = [c \in Clocks |-> IF Runs(c) THEN Older(age[c]) ELSE age[c]]
  /\ UNCHANGED <<life, lock, call, rpu_ps_state, timer, do_rpu_recovery, recovery,
                 wakeup, rpu, wdog, ended, faults>>

(* Only firmware that has booted sleeps, and not while the line is high.   *)
RpuSleeps ==
  /\ life = "booted" /\ ~wakeup
  /\ rpu = "active" /\ rpu' = "asleep"
  /\ age' = [age EXCEPT !["wdog"] = 0]
  /\ UNCHANGED <<life, lock, call, rpu_ps_state, timer, do_rpu_recovery, recovery,
                 wakeup, wdog, ended, faults>>

(* It wakes up for the line, or for reasons of its own.                    *)
RpuWakes ==
  /\ life # "removed"
  /\ rpu # "active" /\ rpu' = "active"
  /\ UNCHANGED <<life, lock, call, rpu_ps_state, timer, do_rpu_recovery, recovery, age,
                 wakeup, wdog, ended, faults>>

RpuHangs ==
  /\ life # "removed"
  /\ Fault
  /\ rpu = "active" /\ rpu' = "hung"
  /\ UNCHANGED <<life, lock, call, rpu_ps_state, timer, do_rpu_recovery, recovery, age,
                 wakeup, wdog, ended>>

WatchdogBites ==
  /\ life # "removed"
  /\ rpu # "asleep" /\ age["wdog"] >= PS_ACTIVE_TIMEOUT
  /\ ~wdog /\ wdog' = TRUE
  /\ UNCHANGED <<life, lock, call, rpu_ps_state, timer, do_rpu_recovery, recovery, age,
                 wakeup, rpu, ended, faults>>

-----------------------------------------------------------------------------
(* An access: hal_rpu_reg_read, hal_rpu_reg_write, rpu_mem_read_ram,       *)
(* rpu_mem_write_ram.  Until the firmware has booted there is one thread.  *)

Call(h) ==
  /\ life = "booted" \/ (life = "added" /\ Quiet)
  /\ call[h].pc = "idle"
  /\ \E op \in {"read", "write"} : call' = [call EXCEPT ![h] = [pc |-> "call", op |-> op]]
  /\ UNCHANGED <<life, lock, rpu_ps_state, timer, do_rpu_recovery, recovery, age,
                 wakeup, rpu, wdog, ended, faults>>

(* nrf_wifi_hal_irq_handler, for the part hal_rpu_irq_wdog_chk begins.     *)
Interrupt ==
  /\ life = "booted"
  /\ call[Irq].pc = "idle"
  /\ call' = [call EXCEPT ![Irq] = [pc |-> "call", op |-> "irq"]]
  /\ do_rpu_recovery' = FALSE
  /\ UNCHANGED <<life, lock, rpu_ps_state, timer, recovery, age,
                 wakeup, rpu, wdog, ended, faults>>

(* What a thread does after an access that succeeded or not.               *)
After(op, ok) ==
  CASE op = "wdog" /\ ok -> [pc |-> "decide", op |-> op]
    [] op = "rearm"      -> [pc |-> "call", op |-> "ack"]
    [] OTHER             -> [pc |-> "idle", op |-> "read"]

(* The timer stops; a callback on its way may or may not be caught.        *)
TimerKill ==
  /\ armed' = FALSE
  /\ expired' \in {expired, FALSE}

(* hal_rpu_ps_wake, up to the wait for the RPU.                            *)
PsWake(h) ==
  /\ call[h].pc = "call"
  /\ lock = "free" /\ lock' = h
  /\ \/ /\ life # "booted"
        /\ call' = [call EXCEPT ![h].pc = "access"]
        /\ UNCHANGED <<timer, wakeup, age>>
     \/ /\ life = "booted" /\ rpu_ps_state = "AWAKE"
        /\ TimerKill
        /\ call' = [call EXCEPT ![h].pc = "access"]
        /\ UNCHANGED <<wakeup, age>>
     \/ /\ life = "booted" /\ rpu_ps_state = "ASLEEP"
        /\ TimerKill
        /\ wakeup' = TRUE
        /\ age' = [age EXCEPT !["poll"] = 0]
        /\ call' = [call EXCEPT ![h].pc = "poll"]
  /\ UNCHANGED <<life, rpu_ps_state, do_rpu_recovery, recovery, rpu, wdog, ended, faults>>

(* did_rpu_had_sleep_opp                                                   *)
DidRpuHadSleepOpp ==
  age' = IF age["deasserted"] > MIN_SLEEP
         THEN [age EXCEPT !["sleep_opp"] = age["deasserted"]]
         ELSE age

(* hal_rpu_ps_wake, from the wait: the RPU answers,                        *)
RpuReady(h) ==
  /\ call[h].pc = "poll"
  /\ rpu = "active"
  /\ rpu_ps_state' = "AWAKE"
  /\ DidRpuHadSleepOpp
  /\ call' = [call EXCEPT ![h].pc = "access"]
  /\ UNCHANGED <<life, lock, timer, do_rpu_recovery, recovery,
                 wakeup, rpu, wdog, ended, faults>>

(* or does not: the access fails, and nothing starts the timer.            *)
RpuNotReady(h) ==
  /\ call[h].pc = "poll"
  /\ rpu # "active" /\ age["poll"] >= WAKE_TIMEOUT
  /\ recovery' = TRUE
  /\ lock' = "free"
  /\ ended' = "failed"
  /\ call' = [call EXCEPT ![h] = After(call[h].op, FALSE)]
  /\ UNCHANGED <<life, rpu_ps_state, timer, do_rpu_recovery, age, wakeup, rpu, wdog, faults>>

(* The access itself, up to the release of the lock.  The RPU reports its  *)
(* watchdog, has it rearmed or its interrupt cleared.                      *)
Access(h) ==
  /\ call[h].pc = "access"
  /\ lock' = "free"
  /\ ended' = "ok"
  /\ call' = [call EXCEPT ![h] =
       [pc |-> "release", op |-> CASE @.op = "irq" /\ wdog  -> "wdog"
                                   [] @.op = "irq" /\ ~wdog -> "read"
                                   [] OTHER                 -> @.op]]
  /\ age' = IF call[h].op = "rearm" THEN [age EXCEPT !["wdog"] = 0] ELSE age
  /\ wdog' = (wdog /\ call[h].op # "ack")
  /\ UNCHANGED <<life, rpu_ps_state, timer, do_rpu_recovery, recovery, wakeup, rpu, faults>>

(* hal_rpu_reg_read of 0xFFFFFFFF: it fails, and nothing starts the timer. *)
ReadFails(h) ==
  /\ Fault
  /\ call[h].pc = "access" /\ call[h].op \in {"read", "irq"}
  /\ lock' = "free"
  /\ ended' = "failed"
  /\ call' = [call EXCEPT ![h] = After(call[h].op, FALSE)]
  /\ UNCHANGED <<life, rpu_ps_state, timer, do_rpu_recovery, recovery, age,
                 wakeup, rpu, wdog>>

(* A write forgets the timer.                                              *)
TimerScheduleReads(h) ==
  /\ call[h].pc = "release"
  /\ armed' = (armed \/ call[h].op = "read")
  /\ age' = [age EXCEPT !["timer"] = 0]
  /\ recovery' = (recovery \/ (call[h].op = "ack" /\ do_rpu_recovery))
  /\ call' = [call EXCEPT ![h] = After(call[h].op, TRUE)]
  /\ UNCHANGED <<life, lock, rpu_ps_state, expired, do_rpu_recovery,
                 wakeup, rpu, wdog, ended, faults>>

(* Without the lock, the timer is started.  After the acknowledgement the  *)
(* interrupt handler schedules the recovery it found needed.               *)
TimerSchedule(h) ==
  /\ call[h].pc = "release"
  /\ armed' = TRUE
  /\ age' = [age EXCEPT !["timer"] = 0]
  /\ recovery' = (recovery \/ (call[h].op = "ack" /\ do_rpu_recovery))
  /\ call' = [call EXCEPT ![h] = After(call[h].op, TRUE)]
  /\ UNCHANGED <<life, lock, rpu_ps_state, expired, do_rpu_recovery,
                 wakeup, rpu, wdog, ended, faults>>

(* is_rpu_recovery_needed the wrong way round.                             *)
ProcessWdogInverted ==
  /\ call[Irq].pc = "decide"
  /\ do_rpu_recovery' = (age["sleep_opp"] >= PS_ACTIVE_TIMEOUT)
  /\ call' = [call EXCEPT ![Irq] = [pc |-> "call", op |-> "rearm"]]
  /\ UNCHANGED <<life, lock, rpu_ps_state, timer, recovery, age,
                 wakeup, rpu, wdog, ended, faults>>

(* hal_rpu_process_wdog: is_rpu_recovery_needed, then the timer is rearmed.*)
ProcessWdog ==
  /\ call[Irq].pc = "decide"
  /\ do_rpu_recovery' = (age["sleep_opp"] < PS_ACTIVE_TIMEOUT)
  /\ call' = [call EXCEPT ![Irq] = [pc |-> "call", op |-> "rearm"]]
  /\ UNCHANGED <<life, lock, rpu_ps_state, timer, recovery, age,
                 wakeup, rpu, wdog, ended, faults>>

-----------------------------------------------------------------------------
(* The timer and the life of the device                                    *)

TimerExpires ==
  /\ life # "removed"
  /\ armed /\ armed' = FALSE
  /\ age["timer"] >= IDLE_TIMEOUT
  /\ ~expired /\ expired' = TRUE
  /\ UNCHANGED <<life, lock, call, rpu_ps_state, do_rpu_recovery, recovery, age,
                 wakeup, rpu, wdog, ended, faults>>

(* The callback does not take rpu_ps_lock.                                 *)
PsSleepNoLock ==
  /\ life # "removed"
  /\ expired /\ expired' = FALSE
  /\ wakeup' = FALSE
  /\ age' = [age EXCEPT !["deasserted"] = 0, !["held"] = 0]
  /\ rpu_ps_state' = "ASLEEP"
  /\ UNCHANGED <<life, lock, call, armed, do_rpu_recovery, recovery, rpu, wdog, ended, faults>>

(* hal_rpu_ps_sleep                                                        *)
PsSleep ==
  /\ life # "removed"
  /\ expired /\ expired' = FALSE
  /\ lock = "free"
  /\ wakeup' = FALSE
  /\ age' = [age EXCEPT !["deasserted"] = 0, !["held"] = 0]
  /\ rpu_ps_state' = "ASLEEP"
  /\ UNCHANGED <<life, lock, call, armed, do_rpu_recovery, recovery, rpu, wdog, ended, faults>>

(* recovery_tasklet_fn: the operating system is told.                      *)
Recover ==
  /\ recovery /\ recovery' = FALSE
  /\ UNCHANGED <<life, lock, call, rpu_ps_state, timer, do_rpu_recovery, age,
                 wakeup, rpu, wdog, ended, faults>>

(* nrf_wifi_hal_dev_init                                                   *)
DevInit ==
  /\ life = "added" /\ Quiet
  /\ life' = "booted"
  /\ UNCHANGED <<lock, call, rpu_ps_state, timer, do_rpu_recovery, recovery, age,
                 wakeup, rpu, wdog, ended, faults>>

(* nrf_wifi_hal_dev_rem and hal_rpu_ps_deinit, with nobody using it.       *)
DevRem ==
  /\ life # "removed" /\ Quiet
  /\ life' = "removed"
  /\ recovery' = FALSE
  /\ TimerKill
  /\ UNCHANGED <<lock, call, rpu_ps_state, do_rpu_recovery, age,
                 wakeup, rpu, wdog, ended, faults>>

-----------------------------------------------------------------------------
Next ==
  \/ Tick \/ RpuSleeps \/ RpuWakes \/ RpuHangs \/ WatchdogBites
  \/ Interrupt \/ ProcessWdog
  \/ \E h \in Hosts :
       \/ Call(h) \/ PsWake(h) \/ RpuReady(h) \/ RpuNotReady(h)
       \/ Access(h) \/ ReadFails(h) \/ TimerSchedule(h)
  \/ TimerExpires \/ PsSleep \/ Recover \/ DevInit \/ DevRem

Spec == Init /\ [][Next]_vars

-----------------------------------------------------------------------------
(* Properties                                                              *)

(* Once the firmware runs its power save, a thread that reads or writes    *)
(* the RPU (hal_reg.c:77, hal_mem.c:110) finds it with the line high and   *)
(* not asleep, whatever the timer of another thread's access does          *)
(* meanwhile.                                                              *)
AccessAwake ==
  life = "booted" =>
    /\ \A h \in Hosts : call[h].pc = "access" => rpu_ps_state = "AWAKE"
    /\ rpu_ps_state = "AWAKE" => wakeup /\ rpu # "asleep"

(* When no access is under way and the line is still high, a timer runs or *)
(* its callback is on its way (hal_reg.c:98), though every access stops    *)
(* the timer and starts it only after it released the lock: except that    *)
(* the last access failed, after which nothing lets go of the line.        *)
IdleIsArmed ==
  life # "removed" /\ wakeup /\ ended = "ok"
    /\ (\A h \in Hosts : call[h].pc \notin {"poll", "access", "release"})
  => armed \/ expired

(* An RPU that the host itself kept from sleeping for as long as its       *)
(* watchdog waits is not recovered (hal_interrupt.c:520).                  *)
RecoveryJustified ==
  [][do_rpu_recovery' /\ ~do_rpu_recovery => age["held"] < PS_ACTIVE_TIMEOUT]_vars
=============================================================================
