------------------------------ MODULE DevLife ------------------------------
(***************************************************************************)
(* How a device comes up and goes: init, dev_add, dev_init, dev_deinit,    *)
(* dev_rem and deinit, through the FMAC (the three modes), the HAL, the    *)
(* BAL and the buses.                                                      *)
(*                                                                         *)
(* Each call is the sequence of what it allocates, tries, sets and frees;  *)
(* any step that can fail may, and then the call goes on with the frees    *)
(* its error labels lead to.  Between two steps interrupts, tasklets and   *)
(* the sleep timer run, and use what they use.  What is allocated when its *)
(* pointer is freed is lost; what is used when it is not allocated does    *)
(* harm.                                                                   *)
(*                                                                         *)
(* The build has NRF_WIFI_LOW_POWER, NRF70_DATA_TX and NRF70_RX_WQ_ENABLED *)
(* (which allocates the RX tasklet: what schedules it is under another     *)
(* name, NRF70_RX_DONE_WQ_ENABLED, so nothing does).  Arrays of queues,    *)
(* lists and buffers have two elements.  Callers remove a device whose     *)
(* dev_init failed, and one that came up after dev_deinit (which the       *)
(* offloaded raw TX mode does not have).  The OS takes interrupts until    *)
(* they are unregistered.                                                  *)
(***************************************************************************)
EXTENDS Integers, Sequences, Functions

CONSTANTS
  Modes,      (* op modes, of "SYS", "RT" and "ORT"                        *)
  Buses       (* of "qspi", "spi" and "pcie"                               *)

ASSUME LifeAssumption ==
  Modes \subseteq {"SYS", "RT", "ORT"} /\ Buses \subseteq {"qspi", "spi", "pcie"}

VARIABLES
  mode, bus,  (* the build: they never change                              *)
  phase,      (* "out", "up", "added", "running", "failed", "stopped"      *)
  op,         (* the call that runs                                        *)
  todo,       (* its steps to come                                         *)
  cause,      (* the step of the last device that failed, or "none"        *)
  live,       (* what is allocated or registered                           *)
  lost,       (* what of it nothing points to any more                     *)
  enabled,    (* hal_status is NRF_WIFI_HAL_STATUS_ENABLED                 *)
  linked,     (* the HAL points to the BAL, and the BAL to the bus         *)
  queues,     (* rpu_info is read                                          *)
  pending,    (* tasklets and the timer that will run                      *)
  crashed     (* a NULL pointer was followed: nothing follows              *)

build == <<mode, bus>>
flags == <<enabled, linked, queues>>
vars  == <<build, phase, op, todo, cause, live, lost, flags, pending, crashed>>

(***************************************************************************)
(* Steps.                                                                  *)
(***************************************************************************)

Get(r)  == <<"get", r>>      (* allocate or register, or fail              *)
Take(r) == <<"take", r>>     (* cannot fail here                           *)
Need(r) == <<"need", r>>     (* allocate, and use without looking          *)
Try(a)  == <<"try", a>>      (* nothing to keep; may fail                  *)
Reach(a) == <<"reach", a>>   (* the same, through a register or memory of the
                                RPU: starts the sleep timer                *)
Put(r)  == <<"put", r>>      (* free or unregister                         *)
Drop(r) == <<"drop", r>>     (* unmap and free, or leave deinit_rx if there is
                                none                                       *)
Kill(t) == <<"kill", t>>
Set(f)  == <<"set", f>>

Names(s) == {s[k][2] : k \in DOMAIN s}
Each(F(_), s) == [k \in DOMAIN s |-> F(s[k])]
From(s, r) == SubSeq(s, CHOOSE k \in DOMAIN s : s[k] = r, Len(s))

(***************************************************************************)
(* Buses and the BAL.                                                      *)
(***************************************************************************)

nrf_wifi_bus_qspi_dev_add == <<Get("bus_dev_ctx"), Get("os_dev_ctx")>>
nrf_wifi_bus_spi_dev_add  == <<Get("bus_dev_ctx"), Get("os_dev_ctx")>>
nrf_wifi_bus_pcie_dev_add ==
  <<Get("bus_dev_ctx"), Get("os_dev_ctx"), Take("iomem"), Get("intr")>>

nrf_wifi_bus_qspi_dev_rem == <<"os_dev_ctx", "bus_dev_ctx">>
nrf_wifi_bus_spi_dev_rem  == <<"bus_dev_ctx">>   (* the OS keeps its own     *)
nrf_wifi_bus_pcie_dev_rem == <<"iomem", "intr", "os_dev_ctx", "bus_dev_ctx">>

nrf_wifi_bus_qspi_dev_init == <<Get("intr"), Try("os_dev_init")>>
nrf_wifi_bus_spi_dev_init  == <<Get("intr"), Try("os_dev_init")>>
nrf_wifi_bus_pcie_dev_init == <<Try("os_dev_init")>>

nrf_wifi_bus_qspi_dev_deinit == <<Put("intr")>>
nrf_wifi_bus_spi_dev_deinit  == <<Put("intr")>>
nrf_wifi_bus_pcie_dev_deinit == <<>>

OfBus(qspi, spi, pcie) == CASE bus = "qspi" -> qspi [] bus = "spi" -> spi [] bus = "pcie" -> pcie

BusDevAdd == OfBus(nrf_wifi_bus_qspi_dev_add, nrf_wifi_bus_spi_dev_add, nrf_wifi_bus_pcie_dev_add)
BusDevRem == OfBus(nrf_wifi_bus_qspi_dev_rem, nrf_wifi_bus_spi_dev_rem, nrf_wifi_bus_pcie_dev_rem)

nrf_wifi_bal_dev_add == <<Get("bal_dev_ctx")>> \o BusDevAdd \o <<Set("linked")>>
nrf_wifi_bal_dev_rem == BusDevRem \o <<"bal_dev_ctx">>
nrf_wifi_bal_dev_init ==
  OfBus(nrf_wifi_bus_qspi_dev_init, nrf_wifi_bus_spi_dev_init, nrf_wifi_bus_pcie_dev_init)
nrf_wifi_bal_dev_deinit ==
  OfBus(nrf_wifi_bus_qspi_dev_deinit, nrf_wifi_bus_spi_dev_deinit, nrf_wifi_bus_pcie_dev_deinit)

(* What the bus and the BAL free when r fails.                             *)
BalUndo(r) ==
  CASE r = "bus_dev_ctx" -> <<"bal_dev_ctx">>
    [] r = "os_dev_ctx"  -> <<"bus_dev_ctx", "bal_dev_ctx">>
    [] r = "intr"        -> <<"iomem", "os_dev_ctx", "bus_dev_ctx", "bal_dev_ctx">>
    [] OTHER             -> <<>>

(***************************************************************************)
(* HAL.                                                                    *)
(***************************************************************************)

hal_rpu_ps_init == <<Get("rpu_ps_lock"), Get("rpu_ps_timer")>>
hal_rpu_irq_enable == <<Reach("irq_enable")>>

nrf_wifi_sys_hal_dev_add ==
  Each(Get, <<"hal_dev_ctx", "cmd_q", "event_q", "lock_hal", "lock_rx", "event_tasklet",
              "recovery_tasklet", "lock_recovery">>)
  \o hal_rpu_ps_init \o nrf_wifi_bal_dev_add \o hal_rpu_irq_enable
  \o Each(Get, <<"hal_rx_info0", "hal_rx_info1", "hal_tx_info">>)
  \o <<Try("pktram_buf_map_init")>>

nrf_wifi_rt_hal_dev_add ==
  Each(Get, <<"hal_dev_ctx", "cmd_q", "event_q", "lock_hal", "lock_rx", "event_tasklet">>)
  \o hal_rpu_ps_init \o nrf_wifi_bal_dev_add \o hal_rpu_irq_enable

nrf_wifi_off_raw_tx_hal_dev_add ==
  Each(Get, <<"hal_dev_ctx", "cmd_q", "event_q", "lock_hal", "lock_rx", "event_tasklet",
              "recovery_tasklet", "lock_recovery">>)
  \o hal_rpu_ps_init \o nrf_wifi_bal_dev_add \o hal_rpu_irq_enable

(* The error labels, in order, by what is freed after them.                *)
HalLabels ==
  (IF mode = "SYS" THEN <<"hal_tx_info", "hal_rx_info0", "hal_rx_info1">> ELSE <<>>)
  \o nrf_wifi_bal_dev_rem
  \o (IF mode = "RT" THEN <<>> ELSE <<"lock_recovery", "recovery_tasklet">>)
  \o <<"event_tasklet", "lock_rx", "lock_hal", "event_q", "cmd_q", "hal_dev_ctx">>

(* The label each failure goes to.  That of the RX arrays skips rx_buf_free,*)
(* and none undoes hal_rpu_ps_init.                                        *)
HalGoto(r) ==
  CASE r = "cmd_q"            -> "hal_dev_ctx"
    [] r = "event_q"          -> "cmd_q"
    [] r = "lock_hal"         -> "event_q"
    [] r = "lock_rx"          -> "lock_hal"
    [] r = "event_tasklet"    -> "lock_rx"
    [] r = "recovery_tasklet" -> "event_tasklet"
    [] r = "lock_recovery"    -> "recovery_tasklet"
    [] r \in {"rpu_ps_lock", "rpu_ps_timer", "bal_dev_ctx", "bus_dev_ctx", "os_dev_ctx", "intr"}
         -> IF mode = "RT" THEN "event_tasklet" ELSE "lock_recovery"
    [] r \in {"irq_enable", "hal_rx_info0", "hal_rx_info1"} -> Head(nrf_wifi_bal_dev_rem)
    [] r = "hal_tx_info"         -> "hal_rx_info0"
    [] r = "pktram_buf_map_init" -> "hal_tx_info"

HalUndo(r) ==
  IF r = "hal_dev_ctx" THEN <<>>
  ELSE (IF r = "rpu_ps_timer" THEN <<"rpu_ps_lock">> ELSE <<>>)
       \o BalUndo(r) \o From(HalLabels, HalGoto(r))

nrf_wifi_hal_dev_init ==
  nrf_wifi_bal_dev_init
  \o <<Reach("hpqm_info"), Reach("rx_cmd_base"), Set("queues"), Set("enabled")>>

nrf_wifi_hal_dev_deinit == <<Set("disabled")>> \o nrf_wifi_bal_dev_deinit

(* A mutant: the BAL goes before the timer that uses it.                   *)
RemoveBalFirst ==
  <<Kill("recovery"), Put("recovery_tasklet"), Put("lock_recovery"), Kill("event"),
    Put("event_tasklet"), Put("lock_hal"), Put("lock_rx"), Put("event_q"), Put("cmd_q")>>
  \o Each(Put, nrf_wifi_bal_dev_rem)
  \o <<Kill("timer"), Put("rpu_ps_timer"), Put("rpu_ps_lock"),
       Put("hal_tx_info"), Put("hal_rx_info0"), Put("hal_rx_info1"), Put("hal_dev_ctx")>>

nrf_wifi_hal_dev_rem ==
  <<Kill("recovery"), Put("recovery_tasklet"), Put("lock_recovery"), Kill("event"),
    Put("event_tasklet"), Put("lock_hal"), Put("lock_rx"), Put("event_q"), Put("cmd_q"),
    Kill("timer"), Put("rpu_ps_timer"), Put("rpu_ps_lock")>>
  \o Each(Put, nrf_wifi_bal_dev_rem)
  \o <<Put("hal_tx_info"), Put("hal_rx_info0"), Put("hal_rx_info1"), Put("hal_dev_ctx")>>

(***************************************************************************)
(* FMAC.                                                                   *)
(***************************************************************************)

tx_init ==
  Each(Get, <<"coalesce_count", "pending_q0", "pending_q1", "pkt_info_p", "pkt0", "pkt1",
              "buf_pool_bmp_p", "tx_lock", "wakeup_client_q">>)

TxLabels == <<"tx_lock", "buf_pool_bmp_p", "pkt0", "pkt1",
              "pkt_info_p", "pending_q0", "pending_q1", "coalesce_count">>

(* The labels after a partly filled array skip its elements.               *)
TxGoto(r) ==
  CASE r \in {"pending_q0", "pending_q1"} -> "coalesce_count"
    [] r = "pkt_info_p"       -> "pending_q0"
    [] r \in {"pkt0", "pkt1"} -> "pkt_info_p"
    [] r = "buf_pool_bmp_p"   -> "pkt0"
    [] r = "tx_lock"          -> "buf_pool_bmp_p"
    [] r = "wakeup_client_q"  -> "tx_lock"

tx_deinit == <<"wakeup_client_q", "tx_lock", "buf_pool_bmp_p",
               "pkt0", "pkt1", "pkt_info_p", "pending_q0", "pending_q1", "coalesce_count">>

nrf_wifi_sys_fmac_init_tx   == <<Get("tx_buf_info")>> \o tx_init
nrf_wifi_sys_fmac_deinit_tx == tx_deinit \o <<"tx_buf_info">>

(* Each buffer is mapped and posted (rx_cmd) before the next is allocated. *)
nrf_wifi_sys_fmac_init_rx ==
  <<Get("rx_buf_info"), Get("rx_nbuf0"), Reach("rx_cmd0"), Get("rx_nbuf1"), Reach("rx_cmd1"),
    Get("rx_tasklet"), Get("rx_tasklet_q")>>
nrf_wifi_sys_fmac_deinit_rx ==
  <<"rx_tasklet", "rx_tasklet_q", "rx_nbuf0", "rx_nbuf1", "rx_buf_info">>

RxBuffers == {"rx_nbuf0", "rx_nbuf1"}
Free(r)   == IF r \in RxBuffers THEN Drop(r) ELSE Put(r)

Asked == <<Reach("umac_cmd_init"), Try("fw_init_done")>>

nrf_wifi_sys_fmac_fw_init == nrf_wifi_sys_fmac_init_tx \o nrf_wifi_sys_fmac_init_rx \o Asked
nrf_wifi_rt_fmac_fw_init  == Asked
nrf_wifi_fmac_off_raw_tx_fw_init == Asked

(* A mutant: the receive path is forgotten.                                *)
DeinitTxOnly == nrf_wifi_sys_fmac_deinit_tx

nrf_wifi_sys_fmac_fw_deinit == nrf_wifi_sys_fmac_deinit_rx \o nrf_wifi_sys_fmac_deinit_tx

(* A failed dev_init undoes what fw_init undoes, and a refused bus_init.   *)
InitUndo(r) ==
  CASE r = "os_dev_init" /\ bus # "pcie" -> <<"intr">>
    [] mode = "SYS" /\ r \in Names(Tail(tx_init)) -> From(TxLabels, TxGoto(r))
    [] mode = "SYS" /\ r \in Names(nrf_wifi_sys_fmac_init_rx)
         -> nrf_wifi_sys_fmac_deinit_tx
    [] mode = "SYS" /\ r \in {"umac_cmd_init", "fw_init_done"} -> nrf_wifi_sys_fmac_fw_deinit
    [] OTHER -> <<>>

OtpRead == <<Reach("otp_info_get"), Reach("rf_params_get")>>

nrf_wifi_sys_fmac_dev_init ==
  <<Need("tx_pwr_ceil_params")>> \o nrf_wifi_hal_dev_init \o OtpRead \o nrf_wifi_sys_fmac_fw_init
nrf_wifi_rt_fmac_dev_init ==
  nrf_wifi_hal_dev_init \o <<Need("tx_pwr_ceil_params")>> \o OtpRead \o nrf_wifi_rt_fmac_fw_init
nrf_wifi_off_raw_tx_fmac_dev_init ==
  nrf_wifi_hal_dev_init \o <<Need("tx_pwr_ceil_params")>> \o OtpRead
  \o nrf_wifi_fmac_off_raw_tx_fw_init

nrf_wifi_sys_fmac_dev_add == <<Get("fmac_dev_ctx")>> \o nrf_wifi_sys_hal_dev_add
nrf_wifi_rt_fmac_dev_add  == <<Get("fmac_dev_ctx")>> \o nrf_wifi_rt_hal_dev_add
nrf_wifi_off_raw_tx_fmac_dev_add == <<Get("fmac_dev_ctx")>> \o nrf_wifi_off_raw_tx_hal_dev_add

nrf_wifi_sys_fmac_dev_deinit ==
  nrf_wifi_hal_dev_deinit
  \o Each(Free, nrf_wifi_sys_fmac_fw_deinit) \o <<Put("tx_pwr_ceil_params")>>
(* The HAL and the bus stay as they are.                                   *)
nrf_wifi_rt_fmac_dev_deinit == <<Put("tx_pwr_ceil_params")>>

nrf_wifi_fmac_dev_rem == nrf_wifi_hal_dev_rem \o <<Put("fmac_dev_ctx")>>

(* fpriv, hpriv, the BAL's, the bus's and the OS's: each layer frees its   *)
(* own when the next fails.                                                *)
Privs == <<"fpriv", "hpriv", "bpriv", "bus_priv", "os_priv">>
nrf_wifi_fmac_init   == Each(Get, Privs)
nrf_wifi_fmac_deinit == Each(Put, <<"os_priv", "bus_priv", "bpriv", "hpriv", "fpriv">>)
PrivUndo(r) == IF r = "fpriv" THEN <<>>
               ELSE From(<<"bus_priv", "bpriv", "hpriv", "fpriv">>,
                         Privs[(CHOOSE k \in DOMAIN Privs : Privs[k] = r) - 1])

OfMode(sys, rt, ort) == CASE mode = "SYS" -> sys [] mode = "RT" -> rt [] mode = "ORT" -> ort

Steps(o) ==
  CASE o = "init"    -> nrf_wifi_fmac_init
    [] o = "dev_add" -> OfMode(nrf_wifi_sys_fmac_dev_add, nrf_wifi_rt_fmac_dev_add,
                               nrf_wifi_off_raw_tx_fmac_dev_add)
    [] o = "dev_init" -> OfMode(nrf_wifi_sys_fmac_dev_init, nrf_wifi_rt_fmac_dev_init,
                                nrf_wifi_off_raw_tx_fmac_dev_init)
    [] o = "dev_deinit" -> OfMode(nrf_wifi_sys_fmac_dev_deinit, nrf_wifi_rt_fmac_dev_deinit, <<>>)
    [] o = "dev_rem" -> nrf_wifi_fmac_dev_rem
    [] o = "deinit"  -> nrf_wifi_fmac_deinit

(* What the call frees when step r of it fails.                            *)
Undo(r) ==
  CASE op = "init"    -> PrivUndo(r)
    [] op = "dev_add" -> IF r = "fmac_dev_ctx" THEN <<>> ELSE HalUndo(r) \o <<"fmac_dev_ctx">>
    [] op = "dev_init" -> InitUndo(r)

(***************************************************************************)
(* Who holds the pointer to what.                                          *)
(***************************************************************************)

HalHeld == {"cmd_q", "event_q", "lock_hal", "lock_rx", "event_tasklet", "recovery_tasklet",
            "lock_recovery", "rpu_ps_lock", "rpu_ps_timer", "bal_dev_ctx",
            "hal_rx_info0", "hal_rx_info1", "hal_tx_info"}
FmacHeld == {"hal_dev_ctx", "tx_pwr_ceil_params", "tx_buf_info", "rx_buf_info",
             "rx_nbuf0", "rx_nbuf1", "rx_tasklet", "rx_tasklet_q"}
            \cup Names(tx_init)
Held(r) == CASE r = "fmac_dev_ctx" -> FmacHeld
             [] r = "hal_dev_ctx"  -> HalHeld
             [] r = "bal_dev_ctx"  -> {"bus_dev_ctx"}
             [] r = "bus_dev_ctx"  -> {"os_dev_ctx", "iomem"}
             [] r = "pkt_info_p"   -> {"pkt0", "pkt1"}
             [] r = "rx_buf_info"  -> {"rx_nbuf0", "rx_nbuf1"}
             [] r = "fpriv"        -> {"hpriv"}
             [] r = "hpriv"        -> {"bpriv"}
             [] r = "bpriv"        -> {"bus_priv"}
             [] r = "bus_priv"     -> {"os_priv"}
             [] OTHER              -> {}

(* To the OS functions for these, a NULL pointer is not a no-op.           *)
OsObjects == {"lock_hal", "lock_rx", "lock_recovery", "rpu_ps_lock", "tx_lock", "event_tasklet",
              "recovery_tasklet", "rx_tasklet", "rpu_ps_timer", "intr"}

(***************************************************************************)
(* The calls.                                                              *)
(***************************************************************************)

Init ==
  /\ mode \in Modes /\ bus \in Buses
  /\ phase = "out" /\ op = "none" /\ todo = <<>> /\ cause = "none"
  /\ live = {} /\ lost = {} /\ enabled = FALSE /\ linked = FALSE /\ queues = FALSE
  /\ pending = {} /\ crashed = FALSE

Call(o, from) ==
  /\ op = "none" /\ ~crashed /\ phase \in from
  /\ op' = o /\ todo' = Steps(o)
  /\ UNCHANGED <<build, phase, linked, pending, crashed>>

(* Bound: only a device that left nothing behind is followed by another,   *)
(* but for the OS context that SPI leaves: the next device gets its own.   *)
Kept == IF bus = "spi" THEN {"os_dev_ctx"} ELSE {}

CallDevAdd ==
  /\ Call("dev_add", {"up"})
  /\ live \subseteq Range(Privs) \cup Kept /\ lost \subseteq Kept /\ pending = {}
  /\ live' = live \ Kept /\ lost' = {}
  /\ cause' = "none" /\ enabled' = TRUE /\ queues' = FALSE

CallInit ==
  /\ Call("init", {"out"}) /\ live \cup lost \subseteq Kept /\ pending = {}
  /\ cause' = "none"
  /\ UNCHANGED <<live, lost, enabled, queues>>

CallDevInit   == Call("dev_init", {"added"})
CallDevDeinit == mode # "ORT" /\ Call("dev_deinit", {"running"})
CallDevRem == Call("dev_rem", IF mode = "ORT" THEN {"running", "failed"} ELSE {"stopped", "failed"})
CallDeinit == Call("deinit", {"up"})

Caller ==
  \/ CallDevAdd \/ CallInit
  \/ /\ CallDevInit \/ CallDevDeinit \/ CallDevRem \/ CallDeinit
     /\ UNCHANGED <<cause, live, lost, enabled, queues>>

After == CASE op = "init"     -> IF cause = "none" THEN "up" ELSE "out"
           [] op = "dev_add"  -> IF cause = "none" THEN "added" ELSE "up"
           [] op = "dev_init" -> IF cause = "none" THEN "running" ELSE "failed"
           [] op = "dev_deinit" -> "stopped"
           [] op = "dev_rem"  -> "up"
           [] op = "deinit"   -> "out"

Return ==
  /\ op # "none" /\ todo = <<>> /\ ~crashed
  /\ phase' = After /\ op' = "none"
  /\ UNCHANGED <<build, todo, cause, live, lost, flags, pending, crashed>>

Doing(do, r) == op # "none" /\ ~crashed /\ todo # <<>> /\ Head(todo) = <<do, r>>

Succeeds ==
  /\ todo' = Tail(todo)
  /\ UNCHANGED <<build, phase, op, cause, crashed>>

(* Bound: one step fails per device.                                       *)
Fails(r) ==
  /\ cause = "none" /\ cause' = r
  /\ todo' = Each(Free, Undo(r))
  /\ crashed' = (r = "lock_hal")     (* hal_dev_ctx is NULL at event_q_free *)
  /\ UNCHANGED <<build, phase, op, live, lost, flags>>

DoGet(r) ==
  \/ /\ (Doing("get", r) \/ Doing("take", r) \/ Doing("need", r)) /\ Succeeds
     /\ live' = live \cup {r}
     /\ UNCHANGED <<lost, flags, pending>>
  \/ Doing("get", r) /\ Fails(r) /\ UNCHANGED pending
  \/ /\ Doing("need", r) /\ cause = "none"
     /\ cause' = r /\ crashed' = TRUE
     /\ UNCHANGED <<build, phase, op, todo, live, lost, flags, pending>>

(* A register access that succeeds starts the sleep timer again; one of    *)
(* several may succeed before the one that fails.                          *)
DoTry(a) ==
  \/ /\ Doing("try", a) \/ Doing("reach", a)
     /\ Succeeds
     /\ pending' = IF Doing("reach", a) THEN pending \cup {"timer"} ELSE pending
     /\ UNCHANGED <<live, lost, flags>>
  \/ Doing("try", a) /\ Fails(a) /\ UNCHANGED pending
  \/ Doing("reach", a) /\ Fails(a) /\ pending' \in {pending, pending \cup {"timer"}}

DoPut(r) ==
  /\ Doing("put", r) \/ (Doing("drop", r) /\ r \in live)
  /\ Succeeds
  /\ live' = live \ {r}
  /\ lost' = (lost \cup (Held(r) \cap live)) \ {r}
  /\ linked' = (linked /\ r # "bal_dev_ctx")
  /\ UNCHANGED <<enabled, queues, pending>>

(* deinit_rx goes no further, and its caller on to deinit_tx.              *)
DoDrop(r) ==
  /\ Doing("drop", r) /\ r \notin live
  /\ todo' = From(todo, Put(Head(nrf_wifi_sys_fmac_deinit_tx)))
  /\ UNCHANGED <<build, phase, op, cause, live, lost, flags, pending, crashed>>

DoKill(t) ==
  /\ Doing("kill", t) /\ Succeeds
  /\ pending' = pending \ {t}
  /\ UNCHANGED <<live, lost, flags>>

DoSet(f) ==
  /\ Doing("set", f) /\ Succeeds
  /\ enabled' = ((enabled \/ f = "enabled") /\ f # "disabled")
  /\ linked' = (linked \/ f = "linked")
  /\ queues' = (queues \/ f = "queues")
  /\ UNCHANGED <<live, lost, pending>>

Step == op # "none" /\ todo # <<>> /\
  LET r == Head(todo)[2] IN
    DoGet(r) \/ DoTry(r) \/ DoPut(r) \/ DoDrop(r) \/ DoKill(r) \/ DoSet(r)

(***************************************************************************)
(* Interrupts, tasklets and the timer.  A tasklet that is freed while it   *)
(* is pending still runs.                                                  *)
(***************************************************************************)

BusUsed == {"hal_dev_ctx", "bal_dev_ctx", "bus_dev_ctx", "os_dev_ctx"}
           \cup (IF bus = "pcie" THEN {"iomem"} ELSE {})

(* What each of them uses.                                                 *)
Uses(who) ==
  CASE who = "irq" -> {"bus_dev_ctx", "bal_dev_ctx", "hal_dev_ctx", "lock_rx"}
                      \cup (IF enabled THEN BusUsed ELSE {})
    [] who = "event" -> IF enabled THEN BusUsed \cup {"lock_rx", "event_tasklet", "fmac_dev_ctx"}
                                   ELSE {"hal_dev_ctx", "lock_rx"}
    [] who = "recovery" -> {"hal_dev_ctx", "lock_recovery", "recovery_tasklet", "fmac_dev_ctx"}
    [] who = "timer"    -> BusUsed \cup {"rpu_ps_lock"}

Waiting == pending \cup (IF "intr" \in live THEN {"irq"} ELSE {})

Runs(who, then) ==
  /\ ~crashed /\ who \in Waiting
  /\ pending' = (pending \ {who}) \cup then
  /\ UNCHANGED <<build, phase, op, todo, cause, live, lost, flags, crashed>>

nrf_wifi_hal_irq_handler ==
  \/ enabled /\ \E t \in {"event", "recovery"} : Runs("irq", {t, "timer"})
  \/ ~enabled /\ Runs("irq", {})

event_tasklet_fn    == Runs("event", IF enabled THEN {"timer"} ELSE {})

(* The handler of a frame hands its buffer to the stack and allocates      *)
(* another: if there is none, the descriptor stays without.                *)
nrf_wifi_fmac_rx_event_process ==
  /\ mode = "SYS" /\ phase = "running" /\ enabled
  /\ ~crashed /\ "event" \in pending
  /\ pending' = (pending \ {"event"}) \cup {"timer"}
  /\ cause = "none"
  /\ \/ live' = live \ {"rx_nbuf0"} /\ cause' = "no_nbuf0"
     \/ live' = live \ {"rx_nbuf1"} /\ cause' = "no_nbuf1"
  /\ UNCHANGED <<build, phase, op, todo, lost, flags, crashed>>

recovery_tasklet_fn == Runs("recovery", {})
hal_rpu_ps_sleep    == Runs("timer", {})

Next == \/ Caller \/ Step \/ Return \/ nrf_wifi_hal_irq_handler \/ event_tasklet_fn
        \/ nrf_wifi_fmac_rx_event_process \/ recovery_tasklet_fn \/ hal_rpu_ps_sleep

Spec == Init /\ [][Next]_vars

(***************************************************************************)
(* Properties.                                                             *)
(***************************************************************************)

AllResources == UNION {Names(Steps(o)) : o \in {"init", "dev_add", "dev_init"}}

TypeOK ==
  /\ mode \in Modes /\ bus \in Buses
  /\ phase \in {"out", "up", "added", "running", "failed", "stopped"}
  /\ op \in {"none", "init", "dev_add", "dev_init", "dev_deinit", "dev_rem", "deinit"}
  /\ cause \in AllResources \cup {"none", "no_nbuf0", "no_nbuf1"}
  /\ live \subseteq AllResources /\ lost \subseteq live
  /\ pending \subseteq {"event", "recovery", "timer"}
  /\ {enabled, linked, queues, crashed} \subseteq BOOLEAN

(* a comes before b in one call.                                           *)
Before(a, b) ==
  \E o \in {"dev_add", "dev_init"} : \E i, j \in DOMAIN Steps(o) :
    i < j /\ Steps(o)[i][2] = a /\ Steps(o)[j][2] = b

(* What a device leaves behind, for the step of it that failed.            *)
NeverReturned(r) ==
  CASE r \in {"rpu_ps_lock", "rpu_ps_timer"} ->   (* dev_add never undoes hal_rpu_ps_init *)
         Before("rpu_ps_timer", cause)
    [] r = "hal_rx_info0" -> cause = "hal_rx_info1"
    [] r = "tx_pwr_ceil_params" ->
         Before("tx_pwr_ceil_params", cause) \/ (mode = "ORT" /\ cause = "none")
    [] r = "intr" ->                (* only the dev_deinit of the system mode unregisters it *)
         /\ bus # "pcie"
         /\ Before("os_dev_init", cause) \/ (mode # "SYS" /\ cause = "none")
    [] r = "os_dev_ctx" ->                        (* SPI never removes it from the OS        *)
         bus = "spi" /\ (cause \in Names(Steps("dev_add")) => Before("os_dev_ctx", cause))
    [] r = "tx_buf_info" -> cause \in Names(tx_init)
    [] r = "pending_q0"  -> cause = "pending_q1"
    [] r = "pkt0"        -> cause = "pkt1"
    [] r \in Names(nrf_wifi_sys_fmac_init_rx) ->
         \/ Before(r, cause) /\ cause \in Names(nrf_wifi_sys_fmac_init_rx)
         \/ cause = "no_nbuf0" /\ r \in {"rx_nbuf1", "rx_buf_info"}
         \/ cause = "no_nbuf1" /\ r = "rx_buf_info"
    [] OTHER -> FALSE

(* When a device is removed, or could not be added, all it allocated or    *)
(* registered is returned, and all the driver's when it is deinitialised,  *)
(* whichever step failed; but for what NeverReturned names, which leaks.   *)
AllReturned ==
  (op = "none" /\ phase \in {"up", "out"}) =>
    /\ \A r \in live \ Names(nrf_wifi_fmac_init) : NeverReturned(r)
    /\ live \cap Names(nrf_wifi_fmac_init) =
         IF phase = "up" THEN Names(nrf_wifi_fmac_init) ELSE {}

(* The RPU can no longer interrupt before anything is freed.               *)
Silenced == /\ bus # "pcie"
            /\ IF cause = "none" THEN mode = "SYS" ELSE ~Before("os_dev_init", cause)

Leaving == op = "dev_rem" \/ phase \in {"up", "out"}

(* hal_rpu_irq_enable has started the timer that no error label stops.     *)
TimerLeft(who) == who = "timer" /\ Before("rpu_ps_timer", cause) /\ Leaving

(* A watchdog interrupt schedules a tasklet that this mode does not have.   *)
NoRecovery(who) == who = "recovery" /\ mode = "RT"

(* The interrupt is registered before the addresses of the event queue are *)
(* read, and a zeroed HAL context is enabled: dev_init is under way, or    *)
(* failed before it read them.                                             *)
QueuesUnread == phase \in {"up", "added"} \/ Before(cause, "queues")

(* An interrupt handler, tasklet or timer that can run finds what it uses  *)
(* allocated and the queues it reads known, between any two steps of any   *)
(* call; and no call frees an OS object twice or before it exists.  The    *)
(* exceptions are named: the timer of a device that was not added, a       *)
(* device taken down with its interrupt still registered, the recovery     *)
(* tasklet and lock that the radio test mode never has, and an interrupt   *)
(* before hal_dev_init is through with the RPU.                            *)
OnlyLiveUsed ==
  ~crashed =>
  /\ \A who \in Waiting :
       \/ Uses(who) \subseteq live
       \/ TimerLeft(who) \/ NoRecovery(who) \/ (Leaving /\ ~Silenced)
  /\ ("irq" \in Waiting /\ enabled) =>
       linked \/ (bus = "pcie" /\ op = "dev_add") \/ (Leaving /\ ~Silenced)
  /\ (Waiting \cap {"irq", "event"} # {} /\ enabled) =>
       queues \/ QueuesUnread \/ (Leaving /\ ~Silenced)
  /\ (op # "none" /\ todo # <<>> /\ Head(todo)[1] = "put") =>
       LET r == Head(todo)[2] IN
         \/ r \in live
         \/ r \notin AllResources /\ (r \in OsObjects =>
              mode = "RT" /\ r \in {"recovery_tasklet", "lock_recovery"})

=============================================================================
