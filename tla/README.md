# A TLA+ development of the nRF70 Wi-Fi driver

The repository is the OS-agnostic part of the driver for Nordic's nRF70 Wi-Fi
companion chip. The chip (the RPU) runs its own firmware; the driver feeds it
commands and frames through shared memory and reacts to its events. This
directory models the driver's own control logic in TLA+, checks the models
with TLC on small instances, and proves the central results with TLAPS for
every instance. File names below are relative to `src/`.

## 1. The system

```
   network stack / supplicant threads                 OS timers, tasklets
        | start_xmit, control calls                         |
   +----v---------------------------------------------------v----+
   | FMAC  (fw_if/umac_if)  tx.c rx.c fmac_peer.c fmac_ap.c       |
   |                        fmac_event.c fmac_vif.c fmac_api.c    |
   +----+-----------------------------------------------^--------+
        | commands, buffer addresses                    | events (callback)
   +----v-----------------------------------------------+--------+
   | HAL   (hw_if/hal)      hal_api_common.c hal_interrupt.c      |
   |                        hpqm.c hal_reg.c hal_mem.c hal_api.c  |
   +----+-----------------------------------------------^--------+
        | register and memory accesses                  | interrupt
   +----v-----------------------------------------------+--------+
   | BAL and bus drivers (bus_if)                                 |
   +--------------------------------------------------------------+
                          RPU firmware (external)
```

| Component | State | Operations | Hard behaviour | What makes it correct |
|---|---|---|---|---|
| FMAC transmit path (`tx.c`, `fmac_ap.c`) | pending queue per peer and category, descriptor bitmap, `outstanding_descs`, `spare_desc_queue_map`, mapped buffers, wake-up queue, round robin | `start_xmit`, TX_DONE, PS_GET_FRAMES, client power-save mode | senders against event handlers; descriptors lent and moved between categories; HAL failures half-way; TWT sleep | the three records of the pool agree; a buffer has one owner; no frame is forgotten; power-save clients are served by token |
| FMAC peers (`fmac_peer.c`) | `peers[]` | add, remove, flush, look-up | written without `tx_lock`, slots are reused | a slot's state belongs to the station in it |
| FMAC receive path (`rx.c`) | `rx_buf_info`, buffers posted to the RPU | init, event, deinit, replenish | buffers lost on error paths, deferred work | every descriptor is either with the RPU or on its way back |
| FMAC requests (`fmac_api.c`, `fmac_event.c`, `fmac_cmd.c` of the three op modes, `fmac_api_common.c`) | the flags and buffers of the device context that polled requests use | init, statistics, radio and RF tests, raw TX configuration, regulatory domain, interface up and down, and the answers | nothing ties an answer to its request: answers late, out of order, after the caller gave up; commands that cannot be sent | a success was answered, an answer serves one call, nothing of a caller that has gone is written |
| FMAC interfaces (`fmac_vif.c`, `fmac_api.c`, `fmac_event.c`, `fmac_peer.c`) | `vif_ctx[]`, `num_sta`, `num_ap`, BSSIDs, `peers[]` | every call that names an interface, mode and station events | commands that are not sent, events that come late, slots whose context was freed | counters, contexts and peers agree with what the RPU has |
| HAL events (`hal_interrupt.c`, `hpqm.c`) | `event_data_pending`, partial event, `event_q` | interrupt, event tasklet, watchdog | interrupt against tasklet, fragments, failures between two fragments | whole events, in order, each once; event buffers go back to the RPU |
| HAL commands (`hal_api_common.c`) | `cmd_q`, `num_cmds` | `ctrl_cmd_send`, `data_cmd_send` | waiting for the RPU under `lock_hal` | the RPU sees whole commands; every call returns |
| HAL power save (`hal_api_common.c`, `hal_reg.c`, `hal_mem.c`) | `rpu_ps_state`, idle timer, recovery flags | wake on access, sleep on time-out, recovery | timer against accesses, RPU that does not wake | no access while the RPU sleeps; an idle RPU may sleep |
| Device life cycle (`hal_api.c`, `fmac_api.c`, `bal.c`, the buses) | what is allocated, registered and linked; `hal_status` | init, dev_add, dev_init, dev_deinit, dev_rem, deinit of three modes on three buses | a step that fails; interrupts, tasklets and the sleep timer between any two steps | what is allocated is freed, what is used is allocated |
| Packet RAM (`hal_api.c`, `tx.c`) | a slice per token, three receive pools, the tables of mappings, `tx_frame_offset` | gather frames, map and unmap frames and receive buffers | rounding at every frame, commands given up half-way, sizes that two layers must agree on | no two places share a byte; the tables say what each token has |
| Firmware loader (`hal_fw_patch_loader.c`, `fmac_api_common.c`, `hal_api_common.c`) | `wifi_proc[]`, `curr_proc`, the RPU's memory and boot state | parse, reset, copy, boot, check | chunks, failures half-way, what an earlier load left | a processor runs what its own load copies of the patch, or none |
| Queues and lists (`queue.c`, `list.c`) | nodes | enqueue, dequeue, delete | none of its own | modelled where they are used |
| OS layer, address map (`pal.c`), frame helpers | none | forwarding, constants, conversions | none of interest here | not modelled |

Interaction. A sender calls `start_xmit` in its own thread: peer look-up
without a lock, then `tx_lock`, queue, descriptor, HAL command (`lock_hal`, bus
access under `rpu_ps_lock`). An interrupt takes `lock_rx`, drains the RPU's
event queue into `event_q` and schedules the event tasklet, which takes
`lock_rx` and calls the FMAC with each event; TX_DONE and the power-save events
take `tx_lock` from there. Control calls send commands from any thread and, when
they need an answer, poll a flag that the event callback sets.

## 2. Modules

| Module | Models |
|---|---|
| `TxPath` | the transmit path: `tx.c`, `fmac_ap.c`, `fmac_peer.c` |
| `TxTokens` | what the descriptor pool promises: an abstract token pool |
| `MCTxPath` | constants for TLC |
| `TxPathProofs` | theorems about `TxPath`, checked by TLAPS |
| `HalEvent` | the HAL's event path: `hal_interrupt.c`, `hpqm.c`, the tasklets and the way down in `hal_api_common.c`, `hal_api.c` |
| `EventChannel` | what the event path promises: a channel that delivers events in order, at most once |
| `MCHalEvent` | constants for TLC |
| `HalEventProofs` | theorems about `HalEvent`, checked by TLAPS |
| `HalCmd` | commands to the RPU and the locks between them and the events: `hal_api_common.c`, `hal_api.c` |
| `MCHalCmd` | constants for TLC |
| `HalCmdProofs` | theorems about `HalCmd`, checked by TLAPS |
| `RxPath` | receive buffers from `dev_init` to the removal of the device: `rx.c`, the buffer mapping of `hal_api.c`, the dispatch of data messages in `fmac_event.c`, `init_rx`, `deinit_rx` and `fw_init` in `fmac_api.c` |
| `MCRxPath` | constants for TLC |
| `RxPathProofs` | theorems about `RxPath`, checked by TLAPS |
| `HalPs` | the RPU's power save as the host sees it, and the decision to recover the RPU: `hal_api_common.c`, `hal_reg.c`, `hal_mem.c`, `hal_interrupt.c` |
| `MCHalPs` | module TLC runs on |
| `HalPsProofs` | theorems about `HalPs`, checked by TLAPS |
| `FmacReq` | requests whose caller polls for an answer, in system, radio test and offloaded raw TX mode: `fmac_api.c`, `fmac_event.c`, `fmac_cmd.c`, `fmac_api_common.c` |
| `MCFmacReq` | module TLC runs on |
| `FmacReqProofs` | theorems about `FmacReq`, checked by TLAPS |
| `FmacIf` | interfaces, and the stations known of each: `fmac_vif.c`, `fmac_peer.c`, the calls of `fmac_api.c` that name an interface, the events of `fmac_event.c` that change one |
| `MCFmacIf` | symmetry for TLC |
| `FmacIfProofs` | theorems about `FmacIf`, checked by TLAPS |
| `DevLife` | how a device comes up and goes, with every failure: `fmac_api.c` and `hal_api.c` of the three modes, `hal_api_common.c`, `bal.c`, `qspi.c`, `spi.c`, `pcie.c`, `tx_init`, `init_rx` |
| `MCDevLife` | module TLC runs on |
| `FwLoad` | parsing and loading of firmware: `fmac_api_common.c`, `hal_api_common.c`, `hal_fw_patch_loader.c` |
| `PktRam` | where frames and receive buffers are in packet RAM, in bytes: `hal_api.c` of system mode, `tx.c` |
| `MCRpuMem` | constants and a specification for TLC: `FwLoad` and `PktRam` in one run |
| `RpuMemProofs` | theorems about `FwLoad` and `PktRam`, checked by TLAPS |

### TxPath

State. One variable per field of `struct tx_config` (the map in `PROJECT.json`
names the lines), with these abstractions:

- a frame is a model value; `Flow` gives its pair of addresses, which is what
  aggregation compares, and `Emergency` its priority. Sizes are left out, so
  `BatchLen` admits every batch that some sizes produce;
- `spare_map` is the set of bits of `spare_desc_queue_map`, a bit being
  <<nibble, position>>. `SpareBit` computes the position as the code does, and
  the position of `AC_MC` overflows into the next nibble as it does there.
  The model's nibble has `AC_MAX - 1` bits, four in the code;
- `mapped[d]` counts the mapped entries of `tx_buf_info` for descriptor `d`;
  the entries are mapped and unmapped from index 0 upwards, so a count says which;
- the wake-up queue holds a peer once. The code enqueues it again on every
  event, but deletes all of its nodes together and only looks for the first
  match, so later duplicates are never seen;
- `tim` holds the driver's `pend_q_bmp` and its copy in RPU memory.

Threads. `calls` holds the `start_xmit` calls between the peer look-up and
`tx_lock`; the part under the lock is one action (`XmitQueueFull`,
`XmitBitmapFails`, `XmitQueued` or `XmitSends`). The event thread processes one
event at a time. TX_DONE (`TxDone`, then `TxDoneServes` or `TxDoneFindsNone` per
category tried) and the loop that PS_GET_FRAMES and `update_pmmode` end with
(`Kick`, one per category) are several steps during which `ev # Idle` stands for
holding `tx_lock`. `PeersFlush` writes the peer table in between, as the control
thread does in the code, and so can `XmitLookup` read it.

Environment. The RPU executes the commands in `rpu` and completes any of them.
`TwtChange` is the OS layer setting `twt_sleep_status`.

Constants. `Failures` says which HAL calls may fail: writing the bitmap
("bmp"), mapping a buffer ("map", which an oversized frame does), posting the
command ("send"). `MAX_CALLS` and `MAX_PS_FRAMES` bound the environment.

### HalEvent

State. `avl` and `busy` are the two RPU queues of event buffers, `buf` the
buffers' contents. A fragment carries the number of its event, its index and the
number of fragments; sizes are counted in fragments of `max_event_size`. `asm` is
`event_data` (`null` when the pointer is NULL), `event_data_pending` and
`event_resubmit`; `event_data_curr` and `event_data_len` follow from them.
`event_q` and what the FMAC's callback was given are sequences of events, an
event being the fragments it was put together from. `sent`, `delivered` and
`failed` are history: what the RPU posted, what the callback got, which failures
happened. `sent` also tells the RPU which fragment comes next.

Threads. The interrupt handler holds `lock_rx` from `IrqEnter` to `IrqExit`;
every turn of the loop of `hal_rpu_event_get_all` (`IrqFragment`, or one of the
failures) is a step, and the RPU may post between two of them. `event_tasklet_fn`
holds the same lock from `EventTaskletEnter` to `EventTaskletExit`, with one step
per callback. The control thread takes the device down in the order of the code:
`HalDisable` under the lock, `BusDeinit`, `Drain`, `DevRem`.

Failures. `Failures` names what may fail: a dequeue or the value 0xAAAAAAAA
("hpq"), reading a buffer ("read"), memory for `event_data` ("data"), returning
the buffer ("free"), memory for the message or its queue node ("msg"),
acknowledging the interrupt or the watchdog ("ack"). Each leaves the state that
its path in the code leaves, which is not always a clean one: `GivenUp` drops
the event and keeps the pending count, and `Header` is then what later payload
bytes happen to say. `StatusNeverSet` is the path on which `hal_rpu_event_get`
returns the FAIL it started with though nothing failed.

Environment, assumed of the firmware from how the code relies on it: the
fragments of an event are posted one after the other, each post interrupts, the
buffers of an event without `resubmit` go back by themselves once read
(`RpuReclaims`). The interrupt and the watchdog's status register are latched.
Whether a watchdog interrupt leads to recovery (`is_rpu_recovery_needed`) depends
on the power-save state and is a choice here; without the build option for
recovery it is never made, which the choice includes.

### HalCmd

State. A fragment carries the number of its command, its index and the number of
fragments. `cmd_q` is the HAL's queue, `busy` the RPU's `cmd_busy_queue`, `avl` and
`ev_avl` the command and event buffers the RPU or the host can take, as numbers
since buffers do not differ; `mcu_irq` says that `RPU_REG_INT_TO_MCU_CTRL` has been
written since the RPU last went to sleep. `num_cmds` is left out: it only makes
the written values differ. `posted`, `dropped`, `result` and `failed` are history.

Threads. `call[c]` is a call of `nrf_wifi_hal_ctrl_cmd_send`: waiting for
`lock_hal` ("calling"), in the loop of `hal_rpu_cmd_process_queue` ("sending") or
between the post of a fragment and its announcement ("trigger"). The event tasklet
holds `lock_rx` whenever it is not "idle", so `Isr`, the interrupt handler, waits
for it; it may want to send data and then waits for `lock_hal`. What the handler
and the tasklet do with events is `HalEvent`'s subject and abstracted to counts
here. A call's wait for a command buffer ends when there is one (`CmdPost`) or
with the time-out (`CmdTimeout`), which may strike at any moment at which there is
none.

Failures. Memory or a queue node for a fragment ("alloc"), popping a command
buffer ("get"), writing it ("write"), posting it ("post"), the announcing register
write ("trigger"), the memory or post of a data command ("data").

Environment, assumed of the firmware from how the code relies on it: it takes a
command only when it has an event buffer to answer with, gives the command buffer
back when it takes the command, and sleeps only when `cmd_busy_queue` is empty.
Assuming more independence of commands from events would hide the circular wait.

### RxPath

State. FMAC and the HAL keep a table each: `nwb` by descriptor and `virt_addr` by
place, a place being <<pool, index>> as `map_desc_to_pool` computes it. In both,
NULL stands for `mapped == false`. `ram` is packet RAM: the descriptor number that
`rx_cmd_send` wrote to the headroom, which is how the RPU knows what to announce,
and the data. `posted` is what the RPU may fill; `rx_buf_busy_queue` is a set here,
because nothing depends on the order in which the RPU fills places. `free`,
`content` and `stack` are the operating system's buffers: what `nbuf_alloc` may
return, what is in them, and which the network stack holds together with the frame
that was announced for it. What a fresh buffer holds is NULL. `starved`
(`nbuf_alloc` has failed), `faults` and `inits` are history.

Threads. `state` is where the thread in `dev_init` or `dev_deinit` is; both handle
one descriptor per step. The event tasklet takes a message (`TakeMessage`) and goes
through its events packet by packet: `RxPacket` copies the frame and disposes of the
buffer, `RxRefill` provisions the descriptor; the stack may free buffers in between.
`NextEvent` leaves the message at an event that failed. `DevDeinit` waits for
`lock_rx` and so for the end of a message; after it the HAL is disabled.
`DevRem` stands for `dev_rem` and the `dev_add` that follows: new tables, an RPU that
starts anew, and buffers still referenced by the old tables are lost.

Failures. `nbuf_alloc` fails exactly when no buffer is free. `Failures` names the
others: mapping ("Map"), posting ("Post"), an unknown MPDU type ("PktType"), an
unknown receive type ("RxType"), an event of another kind in the message that fails
("Other"), the firmware's initialisation command ("UmacInit") and its confirmation
("InitWait").

Environment. The RPU fills posted places in any order and packs frames into events
and events into messages in any way; it delivers frames only once the device is up,
since before that the driver has given it no interface. `dev_init` and `dev_deinit`
are called alternately and the device is removed after a `dev_deinit` or a `dev_init`
that failed. A second `dev_init` without removal is outside the model: the RPU is not
told of the first one's end, although the comment at
`fw_if/umac_if/inc/system/fmac_api.h:931` says that a UMAC command does so (the code
for it in `nrf_wifi_sys_fmac_fw_deinit` is disabled by `NOTYET`).

### HalPs

State. Time is kept as ages, how long ago something happened, since the code only
compares elapsed times with limits: `age["timer"]` since the timer was started,
`age["poll"]` since a thread waits for the RPU, `age["deasserted"]` and
`age["sleep_opp"]` since the times the context stores. `Tick` makes them older and
`AGE_CAP` is where they saturate, at or above every limit. `wakeup` is the line,
`age["held"]` how long it has been high without interruption (history, for
`RecoveryJustified`). `last_wakeup_now_asserted_time_ms` and `is_wakeup_now_asserted`
are left out: nothing reads them.

Threads. `call[h]` is an access of thread `h` to a register or to memory, which look
the same here: before `rpu_ps_lock` ("call"), in the poll loop of `hal_rpu_ps_wake`,
at the RPU ("access"), and after the lock but before the timer is started
("release"). The thread `Irq` handles interrupts: it reads the cause, decides
(`ProcessWdog`), rearms the watchdog, acknowledges, and then schedules the recovery
tasklet if the acknowledgement could be written; how it drains the event queue is
`HalEvent`'s subject. A cause register that reads as 0xAAAAAAAA ten times is taken
for no watchdog by the code and is not modelled apart. The timer's callback
(`PsSleep`) waits for the lock. Before
the firmware has booted (`life = "added"`) one thread loads it, `hal_rpu_ps_wake`
returns at once and the timer is started nevertheless, as in the code.

Environment. `nrf_wifi_osal_timer_kill` cannot wait for a callback, because it is
called under the lock the callback wants: it may or may not catch one that has expired
(`TimerKill`). The RPU sleeps only after the firmware has booted, which the comment at
`hal_api_common.c:53` says, and only while the line is low, on which all accesses
rely. A device is removed only when no access is under way. `recovery_tasklet_fn`
hands over to the operating system, which is outside.

Not covered: the accesses between the start of the firmware and `rpu_fw_booted`
(`nrf_wifi_hal_fw_chk_boot`, the reads of OTP), which do not wake the RPU and rely on
its not sleeping that early.

### FmacReq

State. `dev` holds the fields of the device contexts that polled requests use, one
per field; buffers registered for an answer (`fw_stats`, `rf_test_cap_data`,
`reg_chan_info`) are the number of the call they belong to, 0 being NULL. `call` is
the request that runs, `owed` what the RPU has received and not answered. `seen`,
`used`, `reused`, `wild`, `gave_up`, `hasty`, `unsent`, `denied` and `result` are history.

Threads. One request runs at a time, as the code requires of its caller by taking no
lock. Each function of the API is an action that clears the flag, registers the buffer
and sends the command or fails to; the polling loops are one action per sleep, in the
two forms the code has (`SleepThenLook`, `LookThenSleep`); what a function does after its loop
is an action of its own, because the functions differ in it: some take the counter
for a time-out, some the flag, some withdraw the request, some return the status of the
send. `chg_vif_state` polls even if its command was not sent. `fw_init_done` is never cleared, so
that a second `fw_init` sends its command and succeeds at once (`InitAgainDone`). The event callbacks of the
three modes handle an answer between any two steps.

A change of the regulatory domain for which radio test finds no memory leaves `reg_change`
NULL and `reg_set_status` as it is (`fmac_event.c:276` of radio test assigns before it tests).
If an earlier change has set the flag, `set_reg` follows the NULL pointer; the model goes on
with either result (`Verdicts`), and `denied` marks the case for `AnswersMatch`.

Environment. The RPU answers the requests in `owed` in any order, late, or never,
and changes its regulatory domain by itself (`DomainChanges`).

Left out: `get_reg` and `set_reg` in system mode, whose event has another handler, the
contents of commands, and answers that carry only numbers for the caller.

### FmacIf

State. `ctx` holds the contexts that were ever allocated, `vif_ctx` points to
them as the array does, and goes on pointing to one that is freed. `rif` is what
the RPU has: the type of each interface, whether it is up, the station it was told
to join, the stations it has and those it is letting go of. `events` is the channel
from it, in order. The rest is history: which slots the RPU could not be told about
(`untold`), were deleted (`removed`), had their type set by an event (`retyped`), hold the BSSID of
an association never sent (`misaimed`); whether a counter may be off (`drifted`); which
stations have no entry (`missed`).

Actions. One per function. About forty calls only send a command for their interface
and are `Tells` with the command's name; `add_vif`, `del_vif`, `chg_vif`, `set_mode`,
`assoc`, `start_ap`, `stop_ap` and the events change what the driver holds. `del_vif` and
`start_ap` have two steps, with events in between. `nrf_wifi_fmac_peers_flush` is one step,
though the code goes over the table without a lock, entry by entry, the test
(`fmac_peer.c:154`) apart from the `memset`: what another thread does to the table in the middle
of a flush is not modelled. `sent` chooses whether a command is
sent: lack of memory, a RPU that is not initialised and a HAL that refuses it look alike.

Environment. The RPU obeys a command for an interface it has (others go to `astray`);
clients come and go, associations succeed or fail. The OS shim removes the device when
`get_num_vifs` says that no interface is left.

Left out: MAC addresses (`nrf_wifi_sys_fmac_mac_addr`), ciphers, `prog_rx_buf_info`,
`ps_ctrl_state`, and events that only call back into the OS.

### DevLife

State. `live` is what is allocated or registered, `lost` what of it nothing points to,
`todo` the steps that are left of the call that runs. Each function of the code is the
sequence of its steps (allocate, try, free, stop a tasklet, set a flag), in the code's
order; functions that call others concatenate them. Where a step fails, the error label
of the code is the sequence that follows. Between two steps the interrupt handler, the
two tasklets and the sleep timer run if they can, and use what they use. `queues` says that
the addresses of the event queues have been read from the RPU.

Receive buffers. `init_rx` posts each (`rx_cmd0`, `rx_cmd1`) before it allocates the next, and
either may fail. A frame takes its buffer with it, and there may be no other
(`nrf_wifi_fmac_rx_event_process`): `deinit_rx` then stops at that descriptor (`DoDrop`) and
keeps the later buffers and `rx_buf_info`. `spi_dev_rem` has no step that returns the OS
context of the device, as `spi.c:78` has none.

Bounds. One build: `NRF_WIFI_LOW_POWER`, `NRF70_DATA_TX`, `NRF70_RX_WQ_ENABLED`. Arrays of
queues, lists and buffers have two elements. One step fails in the life of one device, or
one receive buffer cannot be replaced. Devices follow one another, but none follows one that left
something behind; only the OS context that SPI always leaves is forgotten when the next device is
added (`Kept`).

### FwLoad

State. `offer` is the file that is loaded, as the sizes of its parts in units of which
`CHUNK` make a chunk; `mem` names, for each unit of patch memory, the load that wrote it.
`present` is the static table `wifi_proc`, which outlives the device. `sleepctrl`, `rpu`,
`signature`, `boot` and `asked` are the RPU. Each access may fail; each step of the
copying is one chunk.

Left out: `nrf_wifi_hal_rpu_mem_clr`, the translation of addresses (`pal.c`), OTP, the
version, and a second thread that calls `fw_chunk_load`.

### PktRam

State. Addresses count from `RPU_MEM_PKT_BASE`. `cfg_params` is the HAL's configuration
together with FMAC's `avail_ampdu_len_per_token`; `tx_buf_info` and `rx_buf_info` are the
tables of the HAL, whose entries keep the address of the copy in packet RAM; `mapped` in
FMAC's own transmit table changes with the HAL's. `stage`, `token`, `txq`, `ampdu_len` and
`num_tx_pkts` are what the thread that holds `tx_lock` has in hand: it gathers frames
(`TakeNext`, or `TakeOne` when none fits), counts them (`Gathered`) and maps one after the
other. `use` says where the command of a token is.

Failures. Any mapping may fail, after the offset has moved, and any command may fail to be
sent: its token is never answered and is "lost", with the frames that were mapped. Unmapping
has no failure on the buses there are, and a receive buffer that cannot be mapped leaves no
trace. A TX_DONE that nobody asked for is outside the model.

Sizes. `max_ampdu_len_per_token` and `avail_ampdu_len_per_token` are assigned nowhere in
the repository; the operating system's layer sets them, and gives the number and size of
receive buffers. Whether they fit is therefore a condition in `PlacesApart` (`Sized`), not
an assumption. It is not idle: the defaults of the `Makefile` (48 receive buffers of 1600
bytes) fill the receive region exactly, so a layer that puts all 48 in pools, without
taking their headroom of 4 bytes from the 1600, is not `Sized`.

`TxPath` and `RxPath`, which know places only by name, rest on this module for places
being apart.

## 3. Runs

| Run | Checks | Instance |
|---|---|---|
| `TxCore` | `TypeOK`, `PoolExact`, `AwaitsTxDone`, `ImplementsTokens` | 2 data categories and multicast, 4 descriptors (one spare), 1 client, 3 frames of 2 flows, TWT sleep, peers that leave |
| `TxFaults` | `FreeDescClean`, `PsTokenSpent` | 1 data category and multicast, 2 descriptors, every HAL failure, emergency frames, TWT sleep, PS_GET_FRAMES |
| `TxLive` | `AwakeServed`, `OneOwner`, `TimExact` | 2 clients sharing 1 descriptor, 3 frames, fairness |
| `TxTwtStrands` | `AwaitsTxDone` fails | an emergency frame, TWT sleep |
| `HalEvents` | `TypeOK`, `EventsIntact`, `BufferOnce`, `BuffersReturned`, `NoCallbackAfterDeinit`, `ImplementsChannel`, `EventuallyDelivered` | 2 event buffers, 2 events of 1 or 2 fragments, 1 failure of any kind, 1 watchdog interrupt, the device may be taken down; fairness |
| `HalCmds` | `TypeOK`, `WholeUnlessDropped`, `BuffersKept`, `Announced`, `CommandsInOrder`, `NobodyStuck` | 2 callers, 2 commands of 1 or 2 fragments, 1 command buffer, 1 event buffer, 1 data command, 1 failure of any kind; fairness |
| `RxBuffers` | `BuffersExact`, `RpuPlacesBacked`, `DeliveredIntact`, `NothingMissing` | 2 descriptors in two pools around an empty one, 3 buffers, 2 frame contents, 2 messages under way, 2 calls of `dev_init`, 2 failures of any kind |
| `HalPower` | `AccessAwake`, `IdleIsArmed`, `RecoveryJustified` | the interrupt handler and one other thread, limits of 1 tick (idle time-out, wake-up, sleep) and 3 ticks (watchdog), 1 failure of the RPU |
| `Requests` | `AnswersMatch`, `NothingLeft`, `Returns` | the three op modes, 2 requests of any kind, 2 polls of patience (or none), 2 countries; fairness; 765,570 states |
| `Interfaces` | `InterfacesAgree`, `StationsAgree` | 2 slots, stations and access points, 1 raw mode, 2 stations, 1 entry for peers, 1 event under way, 2 contexts ever, 2 changes that leave marks; 831,856 states |
| `DevLife` | `AllReturned`, `OnlyLiveUsed` | 3 modes on 3 buses, 1 failing step or 1 receive buffer not replaced per device, devices without number; 40,410 states |
| `RpuMemory` | `LoadedRuns`, `PatchUpToCut`, `PlacesApart`, `TokensMapped` | `FwLoad`: 2 loads, parts of 0, 2 or 3 units with 2 to a chunk, files the mode wants and others. `PktRam`: 2 tokens of 2 frames, lengths 1, 4, 5 and 6 with a maximum of 5, 3 pools with 4 buffers, two layouts; 1,156,251 states |

Some properties are conjunctions of what one question asks: `PoolExact`
(`SpareMapExact` and `OutstandingExact`), `EventsIntact` (`EventsWhole` and
`NothingLost`), `CommandsInOrder` (`CommandsApart` and `NoLateFragments`), `BuffersExact`
(`MapsAgree` and `OneOwner`), and likewise `NothingMissing` and `NobodyStuck`. Where
a run does not list the `TypeOK` of its module (`RamTypeOK` in `PktRam`), it is proved, or,
in `DevLife`, was checked without being kept as a property of the run.

Why the bounds are enough. One spare descriptor beside one reserved one per
category is the smallest pool in which a descriptor is lent, moved and given
back; the spare map needs two data categories for a move to be visible. Three
frames fill a category's descriptor, wait behind it and join a batch.
`UINT_MAX = 15` makes a counter that goes below zero visible at once. In
`TxFaults` one category is enough because failures do not cross categories
except through the spare map, which `TxCore` covers. `MAX_CALLS = 1` loses no
order of arrival: the calls touch shared state only in their action under
`tx_lock`, and between look-up and lock the peer table still changes.

What `TxLive` leaves out, and why. `MAX_PS_FRAMES = 0`: each PS_GET_FRAMES
refills a client's tokens, and a client that does so for ever is always found
first in the wake-up queue and starves the others of its category, which is
what the code is written to do. `PeersLeave = FALSE`: frames of a station that
left are only sent when its slot's category is kicked again. `TwtEnabled =
FALSE`: waking from TWT sleep kicks nothing. No spare descriptor: with one the
property fails (section 3, Findings).

Fairness. `WF` on the steps of a handler that holds `tx_lock`: they are always
enabled and the thread runs. `SF` on a sender: a spinlock is eventually granted
though it is taken in between. `SF` on `TxDone(d)`: the RPU completes every
command and the event thread handles events in order, so no other event can keep
one waiting for ever. Nothing is assumed of the stack or of the clients.

`HalEvents`. Two events of up to two fragments are enough for a fragment to be
taken for another event's, in both directions, and two buffers for the RPU to
fill one while the handler reads the other and to run out. One failure suffices
because the code never repairs what a failure leaves behind: a second one adds
no kind of state. Fairness is weak on the handler (an interrupt that is pending
is served, a handler that runs goes on) and on the tasklet (it runs once
scheduled). Weak is enough: the lock is only taken by these two, and neither
waits while it holds it. Nothing is assumed of the RPU. `EventuallyDelivered`
excludes runs in which something failed, recovery was chosen or the device was
taken down, because in each the code schedules no tasklet or drops the queue.
`CHECK_DEADLOCK` is off: a RPU that has no more events to send, and a removed
device, really stop.

`HalCmds`. One command buffer and one event buffer are the tightest pool, in which
every wait occurs: with the second fragment of a command a caller finds no buffer
while the RPU waits for an event buffer. Two callers of up to two fragments give
every interleaving of a command with another's, and a fragment left over by one
call that the next one sends. Strong fairness on a caller and on the tasklet: a
spinlock that is freed again and again is granted in the end, and the time-out
gives every wait for the RPU an end. Weak fairness on the interrupt. Nothing is
assumed of the RPU: it may stop for ever, and the calls still return.
`CHECK_DEADLOCK` is off because the callers send a bounded number of commands.
`WholeUnlessDropped` states what SUCCESS means in this code: the status of a call
is that of its last fragment, so fragments before it may have been given up.

`RxBuffers`. Two descriptors are enough for a buffer or a frame to end up at the
wrong one, for a message to hold two packets in one event or two events, and for the
release of the second descriptor to depend on the first. Three buffers let the stack
hold as many as the driver and make `nbuf_alloc` fail; two contents tell frames apart.
Two failures meet in one message, or one in each life of the device. Buffers and
frames are interchangeable, which the symmetry uses; there is no liveness property.
The pools' sizes matter only to `map_desc_to_pool`, about which `PlacesInBounds` is
proved for every size. `CHECK_DEADLOCK` is off: after the last `dev_init` the device
stays removed. `NothingMissing` is stated up to what the code really
does: a lack of memory strands a descriptor for good, and from then on `deinit_rx`
and a failing `init_rx` leak the buffers of the others.

`HalPower`. Two threads and the timer give every order of stop, access, start,
expiry and callback. The limits only need to differ in the right way: the watchdog
waits longer than the RPU needs to sleep, and no age above the largest limit is told
apart. One failure suffices, since a hang and a failed read leave the same state
behind, a stopped timer. Stated as a liveness property, that an idle RPU is allowed to
sleep follows from `IdleIsArmed` if an armed timer expires and the callback is granted
the lock; the run checks the invariant. `CHECK_DEADLOCK` is off: nothing follows the
removal of the device.

`Requests`. Two requests are the smallest number in which an answer meets a call that is
not its own: one that gave up, and one of the same kind after it. With a patience
of two polls an answer comes in any sleep, the last one included, which the functions that
compare the counter take for a time-out; `rf_test_rx_cap` may have none. Two countries
tell a regulatory change of one's own from another. `Returns` needs weak fairness on
the steps of the caller: a thread that sleeps wakes up. Nothing is assumed of the RPU.
`CHECK_DEADLOCK` is off because there is a bounded number of requests. Proofs cover any
number of requests.

`Interfaces`. Two slots, since one is the default interface, which is treated apart.
`MAX_NUM_STAS` and `MAX_NUM_APS` are 0 and `MAX_PEERS` 1, so that every limit is met: the
comparison is `>`, so a limit of 0 admits one interface of a kind, and two stations find
the table full. A late event meets what a call has changed in the meantime with one in
the channel. Deadlock is checked. The stations are interchangeable; there is no liveness
property.

`DevLife`. With one failing step every error label of every function is entered at each
of its places; two failures in one call cannot happen, because labels only free. Two
elements of an array are enough for one to be allocated when another fails.

`RpuMemory`. `FwLoad` and `PktRam` share no variable, so `RpuMemSpec` lets a behaviour take
steps of one while the other is in its initial state; firmware is indeed loaded while nothing
is mapped, and what traffic does to packet RAM does not depend on the loads before. Of the
sizes of parts, 2 is a whole number of chunks, whose last chunk has size 0 (`Cut(2)` is 0: nothing is copied), and 3 is not. Two
loads let everything an earlier one leaves (the table `wifi_proc`, the register, the
signature, the memory) meet a later one. `CHECK_DEADLOCK` is off because there are only two.

In packet RAM, the lengths need every rounding there is (1 and 5 waste 3 bytes, 4 none) and
one is too long. Of the layouts, the slice of one holds two frames, that of the other is too
short for a second one after some, so that a frame is sent alone. The limit for gathering is
the highest that `Sized` allows, slices and pools leave no byte of packet RAM free, and a
pool starts where the one before ends.

### Findings

`TxTwtStrands` shows a disagreement with what a comment of the code says: an emergency
frame is moved onto a descriptor whose TX_DONE comes in TWT sleep and is then not sent;
frame and descriptor are lost, though `fmac_structs.h:346` says of the descriptors
counted that they are queued to the firmware.

Some behaviours are not what one would expect, and no text of the repository says
otherwise. The properties name them as exceptions, or a run excludes them:

- `tx_desc_get` lends a spare descriptor to the multicast queue, for which the spare map
  has no bit: needs a token count that is not a multiple of 5. `TxCore` sends no multicast.
- A frame is held for aggregation because its category has a descriptor outstanding; if
  that is the spare one, its TX_DONE may move it to another category, and nothing looks
  at the frame until another arrives. `TxLive` has no spare descriptor.
- After a failed mapping the frames stay on the descriptor's list and in the queue, while
  `start_xmit` frees the caller's buffer. In `TxLive` nothing fails.
- When an event buffer cannot be read or returned, `event_data` is freed and
  `event_data_pending` is not reset: the next event is taken for the rest of the lost one.
  `EventsIntact` speaks of behaviours without such a failure.
- Statistics, captures and regulatory answers that come after their caller gave up are
  written to its buffer; a request for statistics that was not sent, or outside system
  mode timed out, blocks all later ones; a capture without patience reports a
  success that nobody answered (`NothingLeft`, `AnswersMatch`).
- A regulatory change that finds no memory, after one that did, makes `set_reg` dereference
  NULL (`RegChangeThere`, a part of `AnswersMatch`).
- In offloaded raw TX mode `set_reg` waits for an event that has no handler.
- `del_vif` never clears `vif_ctx[]`, and one whose command is not sent leaves its
  counter; a mode event changes a type and no counter (`InterfacesAgree`).
- A `dev_add` that fails late leaves the lock and the running timer of `hal_rpu_ps_init`;
  radio test and raw TX mode never unregister the interrupt, radio test has no recovery
  tasklet, and one array of receive buffers or of ceilings leaks (`NeverReturned`,
  `OnlyLiveUsed`).
- On SPI the OS context of a device is never returned: `spi.c` has no call of
  `nrf_wifi_osal_bus_spi_dev_rem`, where `qspi.c` and `pcie.c` have theirs (`NeverReturned`).
- `deinit_rx` stops at the first descriptor that has no buffer, and the buffers behind it and
  their table are never freed (`NeverReturned`).
- The interrupt is registered, and the zeroed HAL context enabled, before the addresses of the
  event queues are read (`QueuesUnread`).
- The last chunk of a part that is a whole number of chunks has size 0: of such a part the last
  chunk is not copied, and of a part of one chunk nothing is. `PatchUpToCut` says exactly how much
  of a part is the load's, so that it would fail for a loader that copied the rest.
- Once a file without a patch has been parsed, `wifi_proc` forgets it for every later
  device; the sleep control register keeps an earlier offset (`Forgotten`, `Kept`).

Seen on the way, and below or beside what the models tell apart:

- `tx.c:1382` admits a descriptor number equal to `num_tx_tokens`; `fmac_event.c:461` reads
  `vif_ctx[]` before the interface number is compared with its bound;
  `nrf_wifi_sys_fmac_get_interface` lets one number too many through (`CommandsReach`).
- `fmac_peer.c:115`: the frames of a removed peer wait for the next kick of their category;
  `tx.c:38`: waking from TWT sleep kicks no category; `fmac_ap.c:59`: the wake-up queue gets
  a node per event.
- `hal_api_common.c:845`: the counter of a polled register may wrap; `hal_reg.c:80`: an
  access that fails leaves the line high until the next.
- `nrf_wifi_sys_fmac_mac_addr` takes the first free slot; the work queues under
  `NRF70_TX_DONE_WQ_ENABLED` do not compile, and the tasklet allocated under
  `NRF70_RX_WQ_ENABLED` is scheduled under `NRF70_RX_DONE_WQ_ENABLED`.
- `hal_status` 0 is ENABLED, so a zeroed context is enabled; PCIe registers its interrupt
  before the contexts are linked; `nrf_wifi_hal_init` returns its context without one of
  the BAL when that fails.

## 4. Proofs

`TxPathProofs` assumes `SizeAssumption` (there is at least one descriptor per
category, which `set_spare_desc_q_map` asserts) and, from `AccountsKept` on,
`SpareUnicastOnly`: multicast traffic and spare descriptors do not meet. The
default configuration (10 descriptors, 5 categories) has no spare ones; with
them `TxCore` fails as soon as multicast is sent, so the assumption cannot be dropped.

- `TypeCorrect`: `Spec => []TypeOK`, one lemma per action.
- `AccountsKept`: `AccountInv` is inductive. `OutstandingExact` alone is not: it
  attributes a descriptor by its nibble, so it needs `NibbleExact` (the nibble of
  a descriptor in use names exactly one category, one that may have it, and
  that of a free one none) and `ThreadInv` (the event thread works on a
  descriptor that is in use and no longer at the RPU, and `ev.q` is still the
  category it is charged to). Four operations touch the pool (`Charge`,
  `ChargeAndFree`, `TxDescFree`, `Recharge`); each has a lemma that it keeps
  `PoolInv` and re-attributes no other descriptor, and each action is shown to be
  one of them or to leave the pool alone (`PoolStep`).
- `PoolCorrect`: `PoolExact`, a corollary (`OutstandingExact` and `SpareMapExact`).
- `PoolImplementsTokens`: the refinement, operation by operation: a charge is
  `Take`, a free is `Give`, a recharge is `HandOn` or a stutter.
- `DescriptorsKept`: `DescInv` is inductive for every failure and schedule: a free
  descriptor has nothing mapped and an empty `txq`, one at the RPU has no queued frame
  left, and the one in the TX_DONE handler is in use, not at the RPU, and emptied before it
  is used again. `FreeDescriptorsClean` (`FreeDescClean`) is its second and third part.
- `DescriptorsAnswered`: `AwaitsTxDone`, under `Answered`: no mapping or sending fails and no
  emergency frame is sent into TWT sleep. All three strand descriptors (`TxTwtStrands` and
  the hazard list show how), so none can be dropped.
- `TimKept`: `TimExact`, under `TimWritten`: the bitmap is written whenever a queue changes and no
  peer leaves. A failed write, or a peer forgotten with frames queued, makes it stale.
- `TokensSpent`: `PsTokenSpent`, without assumptions. Only `_tx_pending_process` takes frames
  from queues, and every path into it for a sleeping client spends a token (`BatchPaid`).
- `BuffersOwned`: `OneOwner`, for `Failures = {}`. `OneOwner` counts places; the invariant
  `AllOwned` says it without counting: a frame is with the stack, in one call, at one index of
  one queue, or in one batch, and at no two of them. Moving the head of a queue to a batch
  shifts every index of that queue, which `DequeuePlaces` follows once and for all.
  With failures frames are lost or freed twice (see the hazards), so nothing of the kind holds.

`HalEventProofs` assumes only `EventAssumption` (the kinds of the constants).

- `TypeCorrect`: `TypeOK` is not inductive by itself. That `event_data_pending`
  stays within the fragments of an event needs that a buffer on the busy queue has
  been filled (`HeadFragment`) and that a failed return adds back only what
  `hal_rpu_event_get` would have subtracted; the lemmas go by what an action
  does with the assembled event, and `InvStep` combines them.
- `NoCallback`: `EventDeliver` is the only action that changes `delivered`; the
  invariant adds that the tasklet holds `lock_rx` only while the device is
  enabled, since `HalDisable` takes the same lock.
- `BuffersOnce`: `avl \o busy` stays injective. Four things happen to it: the head
  moves from `avl` to `busy`, the head of `busy` is dropped, or moves to `avl`, or a
  buffer on neither is appended to `avl` (`QueueSteps`); each keeps it.
- `EventsAreIntact`: `EventsIntact`. `IntactInv` orders what is under way: the fragments
  assembled and those on the busy queue follow each other (`Chained`), every event queued or
  delivered is whole, and what is on neither queue has been returned or is the RPU's to
  reclaim. `LostInv` adds that delivered, queued, assembled and busy fragments, put
  one after the other, are exactly the fragments sent while nothing failed that loses one
  (`Accounted`).
- `BuffersAreReturned`: `BuffersReturned`, the last part of `IntactInv`.
- `ChannelImplemented`: `ImplementsChannel`, the refinement of `EventChannel`. `ChannelInv`
  adds to `IntactInv` that the last fragment sent belongs to the event whose number is the
  number of events begun (`Numbered`). What is in flight is seen as the events begun in it
  (`Begun`): of a concatenation that is the concatenation, and a whole event begins exactly one.
  So the RPU posting a fragment is `Raise` or a stutter, reading one is a stutter, an event for
  which no message can be allocated is lost (`Lose`) from wherever it stands, the tasklet's
  delivery is `HandOver`, and a failure that tears an event, or `nrf_wifi_hal_disable`, is `Close`.
- `EventsInOrder`: what the channel is for. `InOrder` is kept by each of its four steps, so by
  the refinement by each of the driver's: handed over and then in flight, numbers rise.

`EventsIntact` and `Begun` speak of the concatenation of sequences, `FlattenSeq`, which is
defined by recursion. The induction over the length is made here from the set form of the library's
well-foundedness of `<` on the naturals (`Least`, `NatInduct`): the set of lengths for which a
fact fails has no least element. Three lemmas come of it, that the flattening of an empty, an
appended to and a shortened sequence is what one expects (`FlattenEmpty`, `FlattenAppend`,
`FlattenHead`), and the same induction gives what `Begun` makes of a concatenation.

`HalCmdProofs` assumes only `CmdAssumption` (the kinds of the constants, and that a
caller is neither the tasklet nor "free").

- `TypeCorrect`, from `CmdInv`: a caller sends or triggers, and the tasklet triggers,
  exactly while it holds `lock_hal` (`Holders`); calls under way have numbers of
  their own (`CallIds`).
- `CommandsAnnounced`: `Announced` says only that somebody holds `lock_hal`, which does
  not survive the holder's next step; `Announcing` says that some thread is between
  post and trigger.
- `InOrder`: `CommandsInOrder`, from the next two.
- `NoneLate`: until memory runs out, what is on `cmd_q` is of the call that holds
  `lock_hal` (`QueueOwned`), since a call leaves only when `cmd_q` is empty.
- `NeverMixed`: `CommandsApart` speaks of what was posted; the invariant is that
  `posted \o cmd_q` is in order and holds nothing of a call that still waits
  (`LineInv`). Posting does not change that sequence, giving up a fragment takes one
  element out (`ApartSub`), queueing appends a new command (`ApartQueue`).
- `SuccessIsWhole`: `WholeUnlessDropped`. It speaks of calls that have returned; `WholeInv`
  says of one that still sends that each of its fragments is on `cmd_q`, posted or given up,
  so that with `cmd_q` empty, which is when a call returns, all are posted or given up.
- `NoBufferLost`: `BuffersKept`, inductive with `CmdInv`. Its two counts are cardinalities of
  sets of indices; `HowManyAppend` and `HowManyTail` say how they change, the second by
  the bijection that shifts the indices.

`RxPathProofs` assumes that pool sizes and bounds are natural numbers and that NULL is
neither a buffer nor a frame. `RxInv`, the conjunction of `TypeOK`, `MapsAgree` and
`OneOwner`, is inductive, and none of the last two is alone: `buf_map_rx` enters the
new buffer only if the HAL's entry is empty, which follows from the emptiness of
FMAC's because the tables agree; that they go on agreeing for the other descriptors
needs that places are not shared (`PlacesInBounds`); and that the frame is copied into
a buffer nobody else owns needs both. Two lemmas say what provisioning and unmapping
do to tables and owners (`ProvisionKeepsMaps`, `UnmapKeepsMaps`); every action is one
of them or leaves the tables alone.

- `TypeCorrect`, `TablesAgree`, `BuffersOwnedOnce`: the three parts of `RxInv`;
  `BuffersCorrect` puts the last two together.
- `HeldUntouched`: a step writes only into mapped or free buffers, so by `OneOwner`
  never into one that the stack holds.
- `PlacesBacked`: `RpuPlacesBacked`, from `AnnInv`. Messages hold events, events hold packets, and
  the tasklet is somewhere inside one of them, so the invariant speaks of positions: packet
  `p` is told at event `i`, packet `j` of message `k` (`At`), the message in work included. A
  descriptor is told at one position only; a place that is posted or told of has a buffer in
  the HAL's table; no place is both, and one told of holds the frame announced. Seven lemmas say what adding, finishing and
  dropping packets does to positions; the actions are proved from these.
- `DeliveredCorrect`: `DeliveredIntact`, from the same: the frame told of is in packet RAM
  until it is copied, and by `HeldUntouched` stays as it is in the stack's hands.
- `NothingLost`: `NothingMissing`. `MissInv` says where each descriptor is while nothing has
  failed and memory has lasted: posted, told of or being refilled, and in the loops of
  `init_rx` and `deinit_rx` which ones are done and which are still to come. Provisioning
  succeeds whenever it is called then (`ProvisionSucceeds`).

`HalPsProofs` assumes only `PsAssumption` (the kinds and the order of the constants).
`PsInv` is inductive; `AccessAwake` and `IdleIsArmed` are parts of it and need the
others: a thread polls or accesses only while it holds `rpu_ps_lock`, and there is
one such thread (`LockHeld`), which is why the callback cannot lower the line under an
access; a thread polls only with the line high and `rpu_ps_state` ASLEEP
(`PollsAsleep`); before the firmware has booted `rpu_ps_state` is ASLEEP, and nobody uses
a removed device (`LifeCycle`).

- `TypeCorrect`, `AccessesAwake`, `TimerLeftRunning`: parts of `PsInv`.
- `RecoveryIsJustified`: from `HeldLess`, that the line has not been held for longer
  than the last opportunity to sleep lies back: every opportunity is a time at which
  the line was let go of.

`FmacReqProofs` assumes only `ReqAssumption` (the kinds of the constants, and a patience of
more than one poll). `ReqInv` is inductive; `AnswersMatch` and `StaleWrites` are parts of
it and none of them is alone. It says where the answers under way come from: the RPU owes one
answer at most of a kind to each call, to calls that were made, and none that has been
accepted (`Numbered`); one that would find a buffer is the running call's, whose flag is not
set, or somebody gave up waiting for one of its kind (`Outstanding`); what is registered
is the running call's, or was left by one that gave up or was not sent (`Buffers`); a
running call whose flag is set was answered while it ran, by an answer that has ended no
wait (`Fresh`). Requests are shown to be one of a few forms (`AsksKeepsInv`), events to be
`Handled`: an answer sets the flag of its own kind and touches no other.

- `TypeCorrect`, `AnswersToTheirCalls`: parts of `ReqInv`; of the change that `set_reg` reads, it
  is shown to be there unless `denied`. `NothingIsLeft`: `NothingLeft`,
  from `StaleWrites` and `Buffers`.

`FmacIfProofs` assumes only `IfAssumption`: the kinds of the constants, and at most 255
slots, since numbers of interfaces and the counters are of type `unsigned char` (with 256
interfaces of a kind the counter would read 0). `InterfacesAgree` is not inductive: `RpuAgrees`
says nothing while a call runs, and a command reaches the RPU's interface only if there is
one. `IfInv` adds that a call that has begun finds its context (`CallLive`), that the RPU has
every interface that has a context, and the default one (`Known`), that the types agree within
`del_vif` too, where the RPU deletes first (`Agreed`), and that contexts are handed out once
(`HandedOut`), from which no two slots share one. Most steps are `Quiet`: they change nothing
that the invariant looks at. For the others, `OfGrown` and `OfShrunk` say what the counters
do when an interface becomes one of a type, or none.

- `TypeCorrect`, `InterfacesRight`: parts of `IfInv`.
- `EntriesUnique`: `OneEntry`, the part of `StationsAgree` that the table keeps by itself:
  an entry is made only for an address that `peer_get_id` does not find.
- `StationsRight`: `StationsAgree`, from `StationInv`. What the RPU has and what the table
  has differ while events are under way, so the invariant is about the last of them
  (`Followed`): of a station, it says whether the RPU has that station, and with none under
  way the table does, or `missed` marks a connection the table had no room for. Of an
  interface, the last station gained is the one it sends to (`BssidFollows`). Neither holds
  unless an access point that is down has told all its clients to leave, and one that starts
  stays down until its entries are flushed (`ApFollows`), and unless a slot never added is
  clean (`Unused`). An action is about one slot (`OneSlot`) and leaves the others alone
  (`Same`). The lemmas on `LastOf` say what appending and taking an event do to all this.

`RpuMemProofs`, on `FwLoad`, assumes only `FwAssumption`. `FwInv` follows a load: nothing runs while
parts are copied (`Silent`), each part is this load's exactly up to the chunk that is next
(`Copying`), what has not been begun holds nothing of this load (`Untouched`), a processor has
what is copied of its patch before it is booted. That the chunks make the first `Cut(n)` of `n`
units, and not all of them, is the arithmetic of `Count` and `Cut` for every size.

- `TypeCorrect`; `PatchesUpToCut`: `PatchUpToCut`; `LoadsRun`: `LoadedRuns`.

On `PktRam` it assumes only `RamAssumption`: the constants are numbers, there is a token and
a frame to a command, and the headroom that follows a frame (52) is a multiple of 4.
`RamInductive` shows `RamInv`: `tx_lock` is held for one token (`Held`); the lengths gathered
add up to what was compared with the limit (`Gathering`); of each token's places a first part
is mapped, as many as were counted at the RPU, none when it is free (`Mappings`); the offset is
aligned, behind all frames of the command, and at most 3 bytes per frame beyond their lengths,
and each token's frames lie in order in its slice (`Slots`); a receive buffer has its place for
good (`Posted`). `PlacesApart` alone is not inductive: the next frame must be known to fit
before it is written.

- `RamTypeCorrect`; `TokensMappedExactly`: `TokensMapped`, because `desc_id` is injective.
- `PlacesNeverOverlap`: `PlacesApart`, for every number and size of tokens, frames, pools and
  buffers: slices are apart by the monotonicity of multiplication, and so are buffers.

Only model-checked:

- liveness (`AwakeServed`, `EventuallyDelivered`, `NobodyStuck`, `Returns`): fairness and ENABLED
  are out of the prover's reach;
- `AllReturned` and `OnlyLiveUsed` of `DevLife`, which has no parameters to generalise over but
  the set of modes and buses: `MCDevLife` has all of them, so its run covers every build.

## 5. Not modelled, and the plan

Raw frames, promiscuous reception and the work queues are compile-time options outside
the default configuration. `fmac_util.c` and `fmac_promisc.c` convert headers and filter
frames without state; `osal.c` forwards to a table of functions; `pal.c` is constant
tables. In the modelled components, what is left out is named with each module above;
the contents of commands (most of `fmac_cmd.c` and of the firmware's headers) stand behind
the names of commands.

Planned:

1. `get_reg` and `set_reg` in system mode, and `nrf_wifi_sys_fmac_mac_addr`.
2. Raw frames (`NRF70_RAW_DATA_TX`) in `TxPath`.

In `HalEvent`, programming the interrupt mask and rearming the watchdog are left
out: both are register writes whose failure is only logged or ends the handler
as `IrqAckFails` does.
