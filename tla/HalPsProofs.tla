---------------------------- MODULE HalPsProofs ----------------------------
(***************************************************************************)
(* Proofs about the power save of the RPU (HalPs), for any number of       *)
(* threads, any time-outs and any failures.                                *)
(*                                                                         *)
(* Who polls or accesses holds rpu_ps_lock (LockHeld), so the callback of  *)
(* the timer cannot let go of the line under it; and the line was low      *)
(* since any moment the host takes for an opportunity to sleep (HeldLess). *)
(***************************************************************************)
EXTENDS HalPs, TLAPS

USE PsAssumption

(* A thread waits for the RPU or accesses it only with rpu_ps_lock.        *)
LockHeld == \A h \in Hosts : call[h].pc \in {"poll", "access"} <=> lock = h

(* It waits only with the line high, for an RPU it let sleep.              *)
PollsAsleep ==
  \A h \in Hosts : call[h].pc = "poll" =>
    life = "booted" /\ wakeup /\ rpu_ps_state = "ASLEEP"

(* Before the firmware runs, the host never takes the RPU for awake; a     *)
(* removed device is used by nobody.                                       *)
LifeCycle ==
  /\ life = "added" => rpu_ps_state = "ASLEEP"
  /\ life = "removed" => Quiet

(* The line was low since the timer let go of it, and since the last       *)
(* opportunity to sleep.                                                   *)
HeldLess == age["held"] <= age["deasserted"] /\ age["held"] <= age["sleep_opp"]

PsInv == TypeOK /\ LockHeld /\ PollsAsleep /\ LifeCycle /\ HeldLess
           /\ AccessAwake /\ IdleIsArmed

-----------------------------------------------------------------------------
LEMMA OlderType ==
  ASSUME NEW a \in 0 .. AGE_CAP
  PROVE  Older(a) \in 0 .. AGE_CAP /\ a <= Older(a)
BY DEF Older

(* Time only passes: what held is younger than, it stays younger than.     *)
LEMMA TickAges ==
  ASSUME TypeOK, HeldLess, Tick
  PROVE  age' \in [Clocks -> 0 .. AGE_CAP] /\ HeldLess'
<1>1. age' \in [Clocks -> 0 .. AGE_CAP]
  BY OlderType DEF Tick, TypeOK
<1>2. /\ age'["deasserted"] = Older(age["deasserted"])
      /\ age'["sleep_opp"] = Older(age["sleep_opp"])
      /\ age'["held"] \in {age["held"], Older(age["held"])}
  BY DEF Tick, Runs, Clocks
<1>3. /\ age["held"] \in 0 .. AGE_CAP /\ age["deasserted"] \in 0 .. AGE_CAP
      /\ age["sleep_opp"] \in 0 .. AGE_CAP
  BY DEF TypeOK, Clocks
<1>4. \A a, b \in 0 .. AGE_CAP : a <= b => a <= Older(b) /\ Older(a) <= Older(b)
  BY DEF Older
<1> QED  BY <1>1, <1>2, <1>3, <1>4 DEF HeldLess

(* An opportunity to sleep is as old as the line's last fall.              *)
LEMMA SleepOppAges ==
  ASSUME TypeOK, HeldLess, DidRpuHadSleepOpp
  PROVE  age' \in [Clocks -> 0 .. AGE_CAP] /\ HeldLess'
BY DEF TypeOK, HeldLess, DidRpuHadSleepOpp, Clocks

(* The age of a clock that only tells time-outs may start again.           *)
LEMMA RestartAges ==
  ASSUME TypeOK, HeldLess, NEW clock \in {"timer", "poll", "wdog"},
         age' \in {age, [age EXCEPT ![clock] = 0]}
  PROVE  age' \in [Clocks -> 0 .. AGE_CAP] /\ HeldLess'
BY DEF TypeOK, HeldLess, Clocks

(* A thread moves on, and the others stay where they are.                  *)
LEMMA CallType ==
  ASSUME TypeOK, NEW h \in Hosts, NEW op \in Ops,
         NEW pc \in {"idle", "call", "poll", "access", "release", "decide"},
         call' = [call EXCEPT ![h] = [pc |-> pc, op |-> op]]
  PROVE  /\ call' \in [Hosts -> [pc : {"idle", "call", "poll", "access", "release", "decide"},
                                 op : Ops]]
         /\ call'[h].pc = pc
         /\ \A g \in Hosts : g # h => call'[g] = call[g]
BY DEF TypeOK

LEMMA CallPcType ==
  ASSUME TypeOK, NEW h \in Hosts,
         NEW pc \in {"idle", "call", "poll", "access", "release", "decide"},
         call' = [call EXCEPT ![h].pc = pc]
  PROVE  /\ call' \in [Hosts -> [pc : {"idle", "call", "poll", "access", "release", "decide"},
                                 op : Ops]]
         /\ call'[h].pc = pc
         /\ \A g \in Hosts : g # h => call'[g] = call[g]
BY DEF TypeOK

(* Most steps leave the calls and the clocks alone.                        *)
LEMMA Unchanged ==
  ASSUME TypeOK, UNCHANGED <<life, lock, call, rpu_ps_state, age, rpu, ended, faults>>,
         armed' \in BOOLEAN, expired' \in BOOLEAN, do_rpu_recovery' \in BOOLEAN,
         recovery' \in BOOLEAN, wakeup' \in BOOLEAN, wdog' \in BOOLEAN
  PROVE  TypeOK'
<1>1. call' \in [Hosts -> [pc : {"idle", "call", "poll", "access", "release", "decide"},
                          op : Ops]]
  BY DEF TypeOK
<1>2. age' \in [Clocks -> 0 .. AGE_CAP]
  BY DEF TypeOK
<1>3. /\ life' \in {"added", "booted", "removed"} /\ lock' \in Hosts \cup {"free"}
      /\ rpu_ps_state' \in {"ASLEEP", "AWAKE"} /\ rpu' \in {"active", "asleep", "hung"}
      /\ ended' \in {"none", "ok", "failed"} /\ faults' \in 0 .. MAX_FAULTS
  BY DEF TypeOK
<1> QED  BY <1>1, <1>2, <1>3 DEF TypeOK

LEMMA AfterType ==
  ASSUME NEW op \in Ops, NEW ok \in BOOLEAN
  PROVE  /\ After(op, ok) = [pc |-> After(op, ok).pc, op |-> After(op, ok).op]
         /\ After(op, ok).pc \in {"idle", "call", "decide"}
         /\ After(op, ok).op \in Ops
BY DEF After, Ops

(* An access that is over leaves the thread outside the lock.              *)
LEMMA AfterCall ==
  ASSUME TypeOK, NEW h \in Hosts, NEW ok \in BOOLEAN,
         call' = [call EXCEPT ![h] = After(call[h].op, ok)]
  PROVE  /\ call' \in [Hosts -> [pc : {"idle", "call", "poll", "access", "release", "decide"},
                                 op : Ops]]
         /\ call'[h].pc \in {"idle", "call", "decide"}
         /\ \A g \in Hosts : g # h => call'[g] = call[g]
<1>1. call[h].op \in Ops
  BY DEF TypeOK
<1>2. PICK pc \in {"idle", "call", "decide"}, op \in Ops :
        After(call[h].op, ok) = [pc |-> pc, op |-> op]
  BY <1>1, AfterType
<1>3. call' = [call EXCEPT ![h] = [pc |-> pc, op |-> op]]
  BY <1>2
<1> QED  BY <1>3, CallType

LEMMA FaultType ==
  ASSUME TypeOK, Fault
  PROVE  faults' \in 0 .. MAX_FAULTS
BY DEF TypeOK, Fault

-----------------------------------------------------------------------------
(* Every action keeps PsInv.                                               *)

LEMMA InitInv == Init => PsInv
<1> SUFFICES ASSUME Init PROVE PsInv
  OBVIOUS
<1>1. PICK uptime \in 0 .. AGE_CAP :
        age = [c \in Clocks |-> IF c \in {"deasserted", "sleep_opp"} THEN uptime ELSE 0]
  BY DEF Init
<1>2. age \in [Clocks -> 0 .. AGE_CAP] /\ HeldLess
  BY <1>1 DEF HeldLess, Clocks
<1>3. /\ call \in [Hosts -> [pc : {"idle", "call", "poll", "access", "release", "decide"},
                            op : Ops]]
      /\ \A h \in Hosts : call[h].pc = "idle"
  BY DEF Init, Ops
<1>4. faults \in 0 .. MAX_FAULTS
  BY DEF Init
<1>5. TypeOK
  BY <1>2, <1>3, <1>4 DEF Init, TypeOK
<1>6. LockHeld /\ PollsAsleep
  BY <1>3 DEF Init, LockHeld, PollsAsleep
<1>7. LifeCycle /\ AccessAwake /\ IdleIsArmed
  BY DEF Init, LifeCycle, AccessAwake, IdleIsArmed
<1> QED  BY <1>2, <1>5, <1>6, <1>7 DEF PsInv

(* Time, the RPU and the tasklet.                                          *)
LEMMA RpuKeepsInv ==
  ASSUME PsInv, Tick \/ RpuSleeps \/ RpuWakes \/ RpuHangs \/ WatchdogBites \/ Recover
  PROVE  PsInv'
<1> USE DEF PsInv, LockHeld, PollsAsleep, LifeCycle, Quiet, AccessAwake, IdleIsArmed, timer
<1>1. CASE Tick
  BY <1>1, TickAges DEF Tick, TypeOK
<1>2. CASE RpuSleeps
  <2>1. age' \in [Clocks -> 0 .. AGE_CAP] /\ HeldLess'
    BY <1>2, RestartAges DEF RpuSleeps
  <2> QED  BY <1>2, <2>1 DEF RpuSleeps, TypeOK
<1>3. CASE RpuWakes
  BY <1>3 DEF RpuWakes, TypeOK, HeldLess
<1>4. CASE RpuHangs
  BY <1>4, FaultType DEF RpuHangs, TypeOK, HeldLess
<1>5. CASE WatchdogBites
  BY <1>5 DEF WatchdogBites, TypeOK, HeldLess
<1>6. CASE Recover
  <2>1. TypeOK'
    <3>1. /\ recovery' = FALSE /\ UNCHANGED <<armed, expired>>
          /\ UNCHANGED <<life, lock, call, rpu_ps_state, do_rpu_recovery, age,
                         wakeup, rpu, wdog, ended, faults>>
      BY <1>6 DEF Recover
    <3>2. TypeOK
      OBVIOUS
    <3> HIDE DEF PsInv, LockHeld, PollsAsleep, LifeCycle, Quiet, AccessAwake, IdleIsArmed
    <3>3. /\ armed \in BOOLEAN /\ expired \in BOOLEAN /\ do_rpu_recovery \in BOOLEAN
          /\ wakeup \in BOOLEAN /\ wdog \in BOOLEAN
      BY <3>2 DEF TypeOK
    <3> QED  BY <3>1, <3>2, <3>3, Unchanged
  <2> QED  BY <1>6, <2>1 DEF Recover, HeldLess
<1> QED  BY <1>1, <1>2, <1>3, <1>4, <1>5, <1>6

(* Threads that begin an access or decide about the recovery.              *)
LEMMA CallKeepsInv ==
  ASSUME PsInv, NEW h \in Hosts, Call(h) \/ Interrupt \/ ProcessWdog
  PROVE  PsInv'
<1> USE DEF PsInv, LockHeld, PollsAsleep, LifeCycle, AccessAwake, IdleIsArmed, timer, HeldLess
<1>1. CASE Call(h)
  <2>1. PICK op \in {"read", "write"} : call' = [call EXCEPT ![h] = [pc |-> "call", op |-> op]]
    BY <1>1 DEF Call
  <2>2. op \in Ops
    BY DEF Ops
  <2>3. /\ call' \in [Hosts -> [pc : {"idle", "call", "poll", "access", "release", "decide"},
                                op : Ops]]
        /\ call'[h].pc = "call" /\ call[h].pc = "idle" /\ life # "removed"
        /\ \A g \in Hosts : g # h => call'[g] = call[g]
    BY <1>1, <2>1, <2>2, CallType DEF Call
  <2>4. TypeOK'
    BY <1>1, <2>3 DEF Call, TypeOK
  <2> QED  BY <1>1, <2>3, <2>4 DEF Call
<1>2. CASE Interrupt
  <2>1. "irq" \in Ops
    BY DEF Ops
  <2>3. /\ call' \in [Hosts -> [pc : {"idle", "call", "poll", "access", "release", "decide"},
                                op : Ops]]
        /\ call'[Irq].pc = "call" /\ call[Irq].pc = "idle" /\ life # "removed"
        /\ \A g \in Hosts : g # Irq => call'[g] = call[g]
    BY <1>2, <2>1, CallType DEF Interrupt
  <2>4. TypeOK'
    <3>1. /\ do_rpu_recovery' = FALSE
          /\ UNCHANGED <<life, lock, rpu_ps_state, armed, expired, recovery, age,
                         wakeup, rpu, wdog, ended, faults>>
      BY <1>2 DEF Interrupt
    <3>2. /\ TypeOK /\ age' \in [Clocks -> 0 .. AGE_CAP] /\ do_rpu_recovery' \in BOOLEAN
          /\ UNCHANGED <<life, lock, rpu_ps_state, armed, expired, recovery,
                         wakeup, rpu, wdog, ended, faults>>
      BY <3>1 DEF TypeOK
    <3> HIDE DEF PsInv, LockHeld, PollsAsleep, LifeCycle, AccessAwake, IdleIsArmed
    <3> QED  BY <2>3, <3>2 DEF TypeOK
  <2> QED  BY <1>2, <2>3, <2>4 DEF Interrupt
<1>3. CASE ProcessWdog
  <2>1. "rearm" \in Ops
    BY DEF Ops
  <2>2. life # "removed"
    BY <1>3 DEF ProcessWdog, Quiet
  <2>3. do_rpu_recovery' \in BOOLEAN
    BY <1>3 DEF ProcessWdog
  <2>4. /\ call' \in [Hosts -> [pc : {"idle", "call", "poll", "access", "release", "decide"},
                                op : Ops]]
        /\ call'[Irq].pc = "call" /\ call[Irq].pc = "decide"
        /\ \A g \in Hosts : g # Irq => call'[g] = call[g]
    BY <1>3, <2>1, CallType DEF ProcessWdog
  <2>5. UNCHANGED <<life, lock, rpu_ps_state, armed, expired, recovery, age,
                    wakeup, rpu, wdog, ended, faults>>
    BY <1>3 DEF ProcessWdog
  <2>6. TypeOK'
    BY <2>3, <2>4, <2>5 DEF TypeOK
  <2> QED  BY <2>2, <2>4, <2>5, <2>6
<1> QED  BY <1>1, <1>2, <1>3

(* An access under way.                                                    *)
LEMMA AccessKeepsInv ==
  ASSUME PsInv, NEW h \in Hosts,
         PsWake(h) \/ RpuReady(h) \/ RpuNotReady(h) \/ Access(h) \/ ReadFails(h) \/ TimerSchedule(h)
  PROVE  PsInv'
<1> USE DEF PsInv, LockHeld, PollsAsleep, AccessAwake, IdleIsArmed, timer
<1>0. /\ life # "removed" /\ life' = life
      /\ rpu_ps_state' = rpu_ps_state => LifeCycle'
  BY DEF LifeCycle, Quiet, PsWake, RpuReady, RpuNotReady, Access, ReadFails, TimerSchedule
<1>1. CASE PsWake(h)
  <2>1. PICK pc \in {"access", "poll"} :
          /\ call' = [call EXCEPT ![h].pc = pc]
          /\ pc = "poll" => life = "booted" /\ wakeup' /\ rpu_ps_state = "ASLEEP"
          /\ pc = "access" => wakeup' = wakeup /\ (life = "booted" => rpu_ps_state = "AWAKE")
    BY <1>1 DEF PsWake, LifeCycle, TypeOK
  <2>2. age' \in [Clocks -> 0 .. AGE_CAP] /\ HeldLess'
    BY <1>1, RestartAges DEF PsWake
  <2>3. armed' \in BOOLEAN /\ expired' \in BOOLEAN
    BY <1>1 DEF PsWake, TimerKill, TypeOK
  <2>4. wakeup' \in BOOLEAN /\ (wakeup => wakeup')
    BY <1>1 DEF PsWake, TypeOK
  <2>5. /\ call' \in [Hosts -> [pc : {"idle", "call", "poll", "access", "release", "decide"},
                                op : Ops]]
        /\ call'[h].pc = pc /\ call[h].pc = "call"
        /\ \A g \in Hosts : g # h => call'[g] = call[g]
    BY <1>1, <2>1, CallPcType DEF PsWake
  <2>6. /\ lock = "free" /\ lock' = h
        /\ UNCHANGED <<life, rpu_ps_state, do_rpu_recovery, recovery, rpu, wdog, ended, faults>>
    BY <1>1 DEF PsWake
  <2>7. TypeOK'
    BY <2>2, <2>3, <2>4, <2>5, <2>6 DEF TypeOK
  <2>8. LockHeld'
    BY <2>5, <2>6
  <2>9. PollsAsleep'
    BY <2>1, <2>4, <2>5, <2>6
  <2>10. AccessAwake'
    BY <2>1, <2>4, <2>5, <2>6
  <2>11. LifeCycle' /\ IdleIsArmed'
    BY <1>0, <2>5, <2>6, <2>1 DEF LifeCycle
  <2> QED  BY <2>2, <2>7, <2>8, <2>9, <2>10, <2>11
<1>2. CASE RpuReady(h)
  <2>1. age' \in [Clocks -> 0 .. AGE_CAP] /\ HeldLess'
    BY <1>2, SleepOppAges DEF RpuReady
  <2>2. lock = h /\ life = "booted" /\ wakeup
    BY <1>2 DEF RpuReady
  <2>3. /\ call' \in [Hosts -> [pc : {"idle", "call", "poll", "access", "release", "decide"},
                                op : Ops]]
        /\ call'[h].pc = "access" /\ call[h].pc = "poll"
        /\ \A g \in Hosts : g # h => call'[g] = call[g]
    BY <1>2, CallPcType DEF RpuReady
  <2>4. /\ rpu_ps_state' = "AWAKE"
        /\ UNCHANGED <<life, lock, armed, expired, do_rpu_recovery, recovery,
                       wakeup, rpu, wdog, ended, faults>>
    BY <1>2 DEF RpuReady
  <2>5. TypeOK'
    BY <2>1, <2>3, <2>4 DEF TypeOK
  <2>6. LockHeld' /\ PollsAsleep'
    BY <2>2, <2>3, <2>4
  <2>7. LifeCycle'
    BY <2>2, <2>4 DEF LifeCycle
  <2>8. AccessAwake'
    <3>1. rpu # "asleep"
      BY <1>2 DEF RpuReady
    <3> HIDE DEF PsInv, LockHeld, PollsAsleep, IdleIsArmed
    <3> QED  BY <2>2, <2>4, <3>1
  <2>9. IdleIsArmed'
    <3> HIDE DEF PsInv, LockHeld, PollsAsleep, AccessAwake
    <3> QED  BY <2>3
  <2> QED  BY <2>9, <2>1, <2>5, <2>6, <2>7, <2>8
<1>3. CASE RpuNotReady(h)
  <2>1. lock = h
    BY <1>3 DEF RpuNotReady
  <2>2. /\ call' \in [Hosts -> [pc : {"idle", "call", "poll", "access", "release", "decide"},
                                op : Ops]]
        /\ call'[h].pc \in {"idle", "call", "decide"}
        /\ \A g \in Hosts : g # h => call'[g] = call[g]
    BY <1>3, AfterCall DEF RpuNotReady
  <2>3. /\ lock' = "free" /\ ended' = "failed" /\ recovery' = TRUE
        /\ UNCHANGED <<life, rpu_ps_state, armed, expired, do_rpu_recovery, age,
                       wakeup, rpu, wdog, faults>>
    BY <1>3 DEF RpuNotReady
  <2>4. TypeOK' /\ HeldLess'
    BY <2>2, <2>3 DEF TypeOK, HeldLess
  <2>5. LockHeld' /\ PollsAsleep'
    BY <2>1, <2>2, <2>3
  <2>6. AccessAwake' /\ IdleIsArmed'
    BY <1>0, <2>2, <2>3
  <2> QED  BY <1>0, <2>3, <2>4, <2>5, <2>6
<1>4. CASE Access(h)
  <2>1. lock = h
    BY <1>4 DEF Access
  <2>2. PICK op \in Ops : call' = [call EXCEPT ![h] = [pc |-> "release", op |-> op]]
    BY <1>4 DEF Access, TypeOK, Ops
  <2>3. age' \in [Clocks -> 0 .. AGE_CAP] /\ HeldLess'
    BY <1>4, RestartAges DEF Access
  <2>4. /\ wdog' \in BOOLEAN /\ lock' = "free" /\ ended' = "ok"
        /\ UNCHANGED <<life, rpu_ps_state, armed, expired, do_rpu_recovery, recovery,
                       wakeup, rpu, faults>>
    BY <1>4 DEF Access
  <2>5. /\ call' \in [Hosts -> [pc : {"idle", "call", "poll", "access", "release", "decide"},
                                op : Ops]]
        /\ call'[h].pc = "release" /\ call[h].pc = "access"
        /\ \A g \in Hosts : g # h => call'[g] = call[g]
    BY <1>4, <2>2, CallType DEF Access
  <2>6. TypeOK'
    BY <2>3, <2>4, <2>5 DEF TypeOK
  <2>7. LockHeld' /\ PollsAsleep'
    BY <2>1, <2>4, <2>5
  <2>8. AccessAwake' /\ IdleIsArmed'
    BY <1>0, <2>4, <2>5
  <2> QED  BY <1>0, <2>3, <2>4, <2>6, <2>7, <2>8
<1>5. CASE ReadFails(h)
  <2>1. lock = h
    BY <1>5 DEF ReadFails
  <2>2. /\ call' \in [Hosts -> [pc : {"idle", "call", "poll", "access", "release", "decide"},
                                op : Ops]]
        /\ call'[h].pc \in {"idle", "call", "decide"}
        /\ \A g \in Hosts : g # h => call'[g] = call[g]
    BY <1>5, AfterCall DEF ReadFails
  <2>3. faults' \in 0 .. MAX_FAULTS
    BY <1>5, FaultType DEF ReadFails
  <2>4. /\ lock' = "free" /\ ended' = "failed" /\ call[h].pc = "access"
        /\ UNCHANGED <<life, rpu_ps_state, armed, expired, do_rpu_recovery, recovery, age,
                       wakeup, rpu, wdog>>
    BY <1>5 DEF ReadFails
  <2>5. TypeOK' /\ HeldLess'
    BY <2>2, <2>3, <2>4 DEF TypeOK, HeldLess
  <2>6. LockHeld' /\ PollsAsleep'
    BY <2>1, <2>2, <2>4
  <2>7. AccessAwake' /\ IdleIsArmed'
    BY <1>0, <2>2, <2>4
  <2> QED  BY <1>0, <2>4, <2>5, <2>6, <2>7
<1>6. CASE TimerSchedule(h)
  <2>1. age' \in [Clocks -> 0 .. AGE_CAP] /\ HeldLess'
    BY <1>6, RestartAges DEF TimerSchedule
  <2>2. recovery' \in BOOLEAN
    BY <1>6 DEF TimerSchedule
  <2>3. /\ call' \in [Hosts -> [pc : {"idle", "call", "poll", "access", "release", "decide"},
                                op : Ops]]
        /\ call'[h].pc \in {"idle", "call", "decide"} /\ call[h].pc = "release"
        /\ \A g \in Hosts : g # h => call'[g] = call[g]
    BY <1>6, AfterCall DEF TimerSchedule
  <2>4. /\ armed' = TRUE
        /\ UNCHANGED <<life, lock, rpu_ps_state, expired, do_rpu_recovery,
                       wakeup, rpu, wdog, ended, faults>>
    BY <1>6 DEF TimerSchedule
  <2>5. TypeOK'
    BY <2>1, <2>2, <2>3, <2>4 DEF TypeOK
  <2>6. LockHeld' /\ PollsAsleep'
    BY <2>3, <2>4
  <2>7. AccessAwake' /\ IdleIsArmed'
    BY <1>0, <2>3, <2>4
  <2> QED  BY <1>0, <2>1, <2>4, <2>5, <2>6, <2>7
<1> QED  BY <1>1, <1>2, <1>3, <1>4, <1>5, <1>6

(* The timer and the life of the device.                                   *)
LEMMA TimerKeepsInv ==
  ASSUME PsInv, TimerExpires \/ PsSleep \/ DevInit \/ DevRem
  PROVE  PsInv'
<1> USE DEF PsInv, LockHeld, PollsAsleep, LifeCycle, Quiet, AccessAwake, IdleIsArmed, timer
<1>1. CASE TimerExpires
  <2>1. /\ life # "removed" /\ armed' = FALSE /\ expired' = TRUE
        /\ UNCHANGED <<life, lock, call, rpu_ps_state, do_rpu_recovery, recovery, age,
                       wakeup, rpu, wdog, ended, faults>>
    BY <1>1 DEF TimerExpires
  <2>2. TypeOK'
    <3>1. /\ expired \in BOOLEAN /\ do_rpu_recovery \in BOOLEAN /\ recovery \in BOOLEAN
          /\ wakeup \in BOOLEAN /\ wdog \in BOOLEAN
      BY DEF TypeOK
    <3>2. TypeOK
      OBVIOUS
    <3> HIDE DEF PsInv, LockHeld, PollsAsleep, LifeCycle, Quiet, AccessAwake, IdleIsArmed
    <3> QED  BY <2>1, <3>1, <3>2, Unchanged
  <2>3. HeldLess'
    BY <2>1 DEF HeldLess
  <2> QED  BY <2>1, <2>2, <2>3
<1>2. CASE PsSleep
  <2>1. \A h \in Hosts : call[h].pc \notin {"poll", "access"}
    BY <1>2 DEF PsSleep
  <2>2. age' \in [Clocks -> 0 .. AGE_CAP] /\ HeldLess'
    BY <1>2 DEF PsSleep, TypeOK, HeldLess, Clocks
  <2>3. /\ life # "removed" /\ expired' = FALSE /\ wakeup' = FALSE /\ rpu_ps_state' = "ASLEEP"
        /\ UNCHANGED <<life, lock, call, armed, do_rpu_recovery, recovery, rpu, wdog, ended,
                       faults>>
    BY <1>2 DEF PsSleep
  <2>4. TypeOK'
    <3>1. TypeOK
      OBVIOUS
    <3>2. call' \in [Hosts -> [pc : {"idle", "call", "poll", "access", "release", "decide"},
                              op : Ops]]
      BY <2>3, <3>1 DEF TypeOK
    <3> HIDE DEF PsInv, LockHeld, PollsAsleep, LifeCycle, Quiet, AccessAwake, IdleIsArmed
    <3> QED  BY <2>2, <2>3, <3>1, <3>2 DEF TypeOK
  <2> QED  BY <2>1, <2>2, <2>3, <2>4
<1>3. CASE DevInit
  BY <1>3 DEF DevInit, TypeOK, HeldLess
<1>4. CASE DevRem
  <2>1. armed' \in BOOLEAN /\ expired' \in BOOLEAN
    BY <1>4 DEF DevRem, TimerKill, TypeOK
  <2> QED  BY <1>4, <2>1 DEF DevRem, TypeOK, HeldLess
<1> QED  BY <1>1, <1>2, <1>3, <1>4

LEMMA NextKeepsInv == PsInv /\ [Next]_vars => PsInv'
<1> SUFFICES ASSUME PsInv, [Next]_vars PROVE PsInv'
  OBVIOUS
<1>1. CASE Next
  BY <1>1, RpuKeepsInv, CallKeepsInv, AccessKeepsInv, TimerKeepsInv DEF Next
<1>2. CASE UNCHANGED vars
  BY <1>2 DEF vars, PsInv, TypeOK, LockHeld, PollsAsleep, LifeCycle, Quiet, HeldLess,
              AccessAwake, IdleIsArmed
<1> QED  BY <1>1, <1>2

-----------------------------------------------------------------------------
(* Every variable keeps its type, and PsInv holds, for any threads.        *)
THEOREM PowerInvariant == Spec => []PsInv
<1>1. Init => PsInv
  BY InitInv
<1>2. PsInv /\ [Next]_vars => PsInv'
  BY NextKeepsInv
<1> QED  BY <1>1, <1>2, PTL DEF Spec

(* TypeOK of HalPs.                                                        *)
THEOREM TypeCorrect == Spec => []TypeOK
<1>1. PsInv => TypeOK
  BY DEF PsInv
<1> QED  BY <1>1, PowerInvariant, PTL

(* Whatever the timer does, an access finds the RPU awake: the callback    *)
(* and the access exclude each other by rpu_ps_lock (hal_reg.c:65,         *)
(* hal_api_common.c:141).                                                  *)
THEOREM AccessesAwake == Spec => []AccessAwake
<1>1. PsInv => AccessAwake
  BY DEF PsInv
<1> QED  BY <1>1, PowerInvariant, PTL

(* After an access that succeeds the line is never left high without a     *)
(* timer (hal_reg.c:98).                                                   *)
THEOREM TimerLeftRunning == Spec => []IdleIsArmed
<1>1. PsInv => IdleIsArmed
  BY DEF PsInv
<1> QED  BY <1>1, PowerInvariant, PTL

(* A watchdog leads to a recovery only if the line was low within the time *)
(* the watchdog waits (hal_interrupt.c:482).                               *)
LEMMA StepJustified ==
  ASSUME PsInv, Next, do_rpu_recovery', ~do_rpu_recovery
  PROVE  age["held"] < PS_ACTIVE_TIMEOUT
<1>1. ProcessWdog
  BY DEF Next, Tick, RpuSleeps, RpuWakes, RpuHangs, WatchdogBites, Interrupt, Call, PsWake,
         RpuReady, RpuNotReady, Access, ReadFails, TimerSchedule, TimerExpires, PsSleep,
         Recover, DevInit, DevRem
<1>2. age["sleep_opp"] < PS_ACTIVE_TIMEOUT
  BY <1>1 DEF ProcessWdog
<1> QED  BY <1>2 DEF PsInv, TypeOK, HeldLess, Clocks

THEOREM RecoveryIsJustified == Spec => RecoveryJustified
<1>1. PsInv /\ [Next]_vars
        => [do_rpu_recovery' /\ ~do_rpu_recovery => age["held"] < PS_ACTIVE_TIMEOUT]_vars
  <2> SUFFICES ASSUME PsInv, Next, do_rpu_recovery', ~do_rpu_recovery
               PROVE  age["held"] < PS_ACTIVE_TIMEOUT
    BY DEF vars
  <2> QED  BY StepJustified
<1> QED  BY <1>1, PowerInvariant, PTL DEF Spec, RecoveryJustified
=============================================================================
